---------------------------- MODULE Reconciler_proofs ----------------------------
(***************************************************************************)
(* Proofs about the Reconciler and the health it is shown with, for any      *)
(* configurations, clients, faults and bounds.                                *)
(***************************************************************************)
EXTENDS Observer, FiniteSetTheorems, WellFoundedInduction, TLAPS

-----------------------------------------------------------------------------
(* The inductive invariant *)

InDoubt == {"read", "apply", "undo", "record", "save", "finish"}
AfterRead == {"apply", "undo", "record", "save", "finish", "fallback", "wait"}

\* The conjuncts of the type invariant, apart.
FlagTypes == inbox \in BOOLEAN /\ relay \in BOOLEAN /\ trigger \in BOOLEAN /\ clearing \in BOOLEAN
GitTypes ==
  /\ commits \in Seq(Configs) /\ Len(commits) \in Commit
  /\ wpc \in [Clients -> {"idle", "committed", "check", "blocked"}]
  /\ wfor \in [Clients -> Rev]
FaultTypes ==
  /\ fail \in SUBSET Drivers /\ stopped \in SUBSET {"dhcp", "dns"}
  /\ faults \in 0..MaxFaults /\ crashes \in 0..MaxCrashes
  /\ unread \in SUBSET {"HEAD", "lkg"} /\ readErrors \in 0..MaxReadErrors
LoopTypes ==
  /\ pc \in {"start", "read", "apply", "undo", "record", "save", "finish", "fallback", "wait"}
  /\ phase \in {"boot", "fallback", "loop"}
  /\ att \in [commit : Rev, result : Results, changed : SUBSET Drivers, done : 0..Len(AllStages),
              undo : Seq(Drivers), undone : Seq(Drivers)]
  /\ headAtt \in [commit : Rev, result : Results]
  /\ st \in [state : States, desired : Rev, applied : Rev, lkg : Rev,
             lastCommit : Rev, lastResult : Results]
  /\ applied \in [Drivers -> Hashes \cup {NoHash}]
  /\ attempts \in [Commit -> Results]
  /\ lkgFile \in Rev

\* Whatever names a commit names one of the history.
Refs ==
  /\ att.commit <= Len(commits) /\ headAtt.commit <= Len(commits)
  /\ st.desired <= Len(commits) /\ st.applied <= Len(commits) /\ st.lkg <= Len(commits)
  /\ lkgFile <= Len(commits)
  /\ \A c \in Clients : wfor[c] <= Len(commits)
  /\ \A c \in Clients : wpc[c] # "idle" => wfor[c] # 0

\* What the Run goroutine knows at each of its steps.
AtStart ==
  pc = "start" =>
    /\ phase = "boot" /\ st.state = "starting" /\ st.desired = 0
    /\ st.applied = 0 /\ ~inbox /\ ~relay

\* The state says what the loop is doing.
StateFits ==
  /\ pc \in InDoubt => st.state = "reconciling"
  /\ pc \in {"fallback", "wait"} => st.state \in {"in-sync", "failed", "degraded"}

\* The fallback has a good commit to go to, and it is not the one that failed.
FallbackKnown ==
  /\ phase = "fallback" => st.lkg # 0 /\ st.lkg # st.desired
  /\ pc = "fallback" /\ phase = "boot" =>
       st.lkg # 0 /\ st.lkg # st.desired /\ att.result \in {"invalid", "rolled-back"}

\* The commit of the attempt is the one that was wanted, and readable.
AttemptFits ==
  /\ pc \in AfterRead /\ att.commit # 0 =>
       /\ att.commit = IF phase = "fallback" THEN st.lkg ELSE st.desired
       /\ commits[att.commit] \notin Unreadable
  /\ pc \in {"apply", "undo", "record", "save"} => att.commit # 0 /\ Good(att.commit)
  /\ pc \in {"apply", "undo"} => att.result = "none"
  /\ pc \in {"record", "save"} => att.result \in {"applied", "no-op"}
  /\ pc \in {"finish", "fallback", "wait"} =>
       /\ att.result # "none"
       /\ att.result \in {"applied", "no-op"} => att.commit # 0 /\ st.applied = att.commit
       /\ att.result = "invalid" => att.commit # 0 /\ ~Good(att.commit)
       /\ att.result = "rolled-back" /\ att.commit # 0 => Good(att.commit)

\* What the drivers hold while an attempt is under way.
DriversFit ==
  /\ pc \in {"apply", "undo", "record"} => att.changed = Changed(commits[att.commit])
  /\ pc \in {"apply", "undo"} => att.changed # {}
  /\ pc = "record" /\ att.result = "no-op" => att.changed = {}
  /\ pc = "save" => st.applied = att.commit

\* boot runs on an appliance on which nothing is applied yet.
NothingYet ==
  /\ phase = "boot" /\ pc \notin {"save", "finish", "wait"} => st.applied = 0
  /\ phase = "boot" /\ pc = "finish" /\ att.result \in {"invalid", "rolled-back"} => st.applied = 0
  /\ phase = "fallback" /\ pc \in {"read", "apply", "undo", "record"} => st.applied = 0
  /\ phase # "loop" /\ pc \in AfterRead => att.result # "no-op"
  /\ phase = "boot" /\ (pc = "read" \/ (pc \in AfterRead /\ att.commit = 0)) => st.desired = 0
  /\ phase = "fallback" /\ pc \in AfterRead /\ att.commit = 0 => "lkg" \in unread

BaseInv ==
  /\ TypeOK /\ Refs /\ AppliedWhole /\ LKGGood
  /\ AtStart /\ StateFits /\ FallbackKnown /\ AttemptFits /\ DriversFit /\ NothingYet

\* A wake-up that stands for a new HEAD is on its way.
Wake == inbox \/ relay \/ trigger \/ Committing

\* A rollback is not forgotten: a driver still fails, or the loop will be woken.
StillFailing == fail # {} \/ clearing \/ trigger

RollbackKept ==
  /\ pc = "undo" => StillFailing
  /\ pc \in {"finish", "fallback", "wait"} /\ att.commit # 0 /\ att.result = "rolled-back" => StillFailing
  /\ phase = "fallback" /\ headAtt.commit # 0 /\ headAtt.result = "rolled-back" => StillFailing

\* Attempt a was made of HEAD, or could not read it.
OfHead(a) == IF "HEAD" \in unread THEN a.commit = 0 ELSE a.commit = HEAD

HeadSeen ==
  /\ phase \in {"boot", "loop"} /\ pc \in AfterRead /\ ~Wake => OfHead(att)
  /\ phase = "fallback" /\ ~Wake => OfHead(headAtt)

\* The attempt that boot fell back from is told about as it was.
HeadKept ==
  phase = "fallback" =>
    /\ headAtt.result \in {"invalid", "rolled-back"}
    /\ headAtt.commit # 0 =>
         /\ headAtt.commit = st.desired /\ attempts[headAtt.commit] # "none"
         /\ headAtt.result = "invalid" => ~Good(headAtt.commit)

\* What finish published of the attempt.
Published ==
  /\ pc \in {"fallback", "wait"} /\ att.commit # 0 => attempts[att.commit] # "none"
  /\ pc \in {"fallback", "wait"} /\ phase # "fallback" /\ att.result \in {"applied", "no-op"} => st.state = "in-sync"
  /\ pc \in {"fallback", "wait"} /\ st.state = "in-sync" => phase # "fallback" /\ att.result \in {"applied", "no-op"}
  /\ pc = "fallback" /\ phase = "fallback" /\ att.result = "applied" => st.state # "in-sync"

QuietInv == RollbackKept /\ HeadSeen /\ HeadKept /\ Published

\* Nothing runs after boot only because the last good commit was rolled back, or
\* was not read.
FallbackTried ==
  /\ (pc = "wait" \/ phase = "loop" \/ (pc = "fallback" /\ phase = "fallback"))
       /\ st.applied = 0 /\ st.lkg # 0 => attempts[st.lkg] = "rolled-back" \/ "lkg" \in unread

\* The commit stages of driver d among the first n.
Committed(d, n) == Cardinality({i \in 1..n : AllStages[i] = Stage(d, "commit")})

\* An attempt has committed the stages it went through, or undone what it had.
StagesCounted ==
  /\ pc = "apply" => att.undone = <<>> /\ \A d \in att.changed : Times(d, att.undo) = Committed(d, att.done)
  /\ att.result = "applied" => att.undone = <<>> /\ \A d \in att.changed : Times(d, att.undo) = Committed(d, 9)
  /\ att.result \in {"no-op", "invalid"} => att.undone = <<>> /\ att.undo = <<>>
  /\ att.result = "rolled-back" => att.undone = att.undo
  /\ \A d \in Drivers \ att.changed : Times(d, att.undo) = 0
  /\ Len(att.undone) <= Len(att.undo)
  /\ \A i \in 1..Len(att.undone) : att.undone[i] = att.undo[i]

\* The inductive invariant.
IInv == BaseInv /\ QuietInv /\ FallbackTried /\ StagesCounted /\ NoStuckWaiter

-----------------------------------------------------------------------------
(* Type correctness and the names of commits *)

\* A commit only adds to the history: what a number named it still names.
LEMMA HistoryGrows ==
  ASSUME TypeOK, NEW g \in Configs, commits' = Append(commits, g)
  PROVE  /\ commits' \in Seq(Configs) /\ Len(commits') = Len(commits) + 1
         /\ \A n \in 1..Len(commits) : commits'[n] = commits[n] /\ (Good(n)' <=> Good(n))
<1>1. commits \in Seq(Configs)
  BY DEF TypeOK
<1>2. \A n \in 1..Len(commits) : commits'[n] = commits[n]
  BY <1>1
<1> QED BY <1>1, <1>2 DEF Good

\* The order of the drivers.
LEMMA StagesType ==
  /\ Len(AllStages) = 9 /\ DOMAIN AllStages = 1..9
  /\ \A i \in 1..9 : AllStages[i].driver \in Drivers /\ AllStages[i].op \in {"prepare", "commit"}
  /\ \A i \in 1..9 : AllStages[i] = Stage(AllStages[i].driver, AllStages[i].op)
BY DEF AllStages, Stage, Drivers

\* A set of numbers that is not empty has a least one.
LEMMA LeastOf ==
  ASSUME NEW S, S \subseteq Nat, S # {}
  PROVE  \E i \in S : \A j \in S : i <= j
<1>1. \E i \in S : \A j \in S : ~(<<j, i>> \in OpToRel(<, Nat))
  BY NatLessThanWellFounded, WFMin
<1>2. \A j, i \in Nat : j < i => <<j, i>> \in OpToRel(<, Nat)
  BY DEF OpToRel
<1>3. PICK i \in S : \A j \in S : ~(<<j, i>> \in OpToRel(<, Nat))
  BY <1>1
<1>4. \A j \in S : ~(j < i)
  BY <1>2, <1>3
<1> QED BY <1>4

\* A stage that is still to come is one of the nine, after those that are done.
LEMMA NextPlaceType ==
  ASSUME TypeOK, Left # {}
  PROVE  /\ NextPlace \in Left /\ \A j \in Left : NextPlace <= j
         /\ NextPlace \in 1..9 /\ NextPlace > att.done
         /\ NextStage.driver \in att.changed
<1>1. Left \subseteq 1..9
  BY StagesType DEF Left, Stages
<1>2. \E i \in Left : \A j \in Left : i <= j
  <2>1. Left \subseteq Nat
    BY <1>1
  <2> QED BY <2>1, LeastOf, Zenon
<1>3. NextPlace \in Left /\ \A j \in Left : NextPlace <= j
  BY <1>2 DEF NextPlace
<1> QED BY <1>1, <1>3 DEF NextStage, Left, Stages

\* The type invariant in its parts.
LEMMA TypeParts == TypeOK <=> FlagTypes /\ GitTypes /\ FaultTypes /\ LoopTypes
BY DEF TypeOK, FlagTypes, GitTypes, FaultTypes, LoopTypes

\* The flags stay flags.
LEMMA FlagsStep ==
  ASSUME FlagTypes, [Next]_vars
  PROVE  FlagTypes'
<1> USE DEF FlagTypes, git, wake
<1>1. CASE TakeTrigger
  BY <1>1 DEF TakeTrigger
<1>2. CASE Forward
  BY <1>2 DEF Forward
<1>3. CASE ForwardTrigger
  BY <1>3 DEF ForwardTrigger
<1>4. CASE Resync
  BY <1>4 DEF Resync
<1>5. CASE FaultTrigger
  BY <1>5 DEF FaultTrigger
<1>6. CASE Crash
  BY <1>6 DEF Crash
<1>7. ASSUME NEW c \in Clients, NotifyCommit(c) PROVE FlagTypes'
  BY <1>7 DEF NotifyCommit
<1>8. ASSUME NEW d \in Toggled, NEW f \in BOOLEAN, NEW s \in BOOLEAN, SetFault(d, f, s) PROVE FlagTypes'
  BY <1>8 DEF SetFault, Clears
<1>9. CASE Run \/ ReadFails \/ Read \/ ApplyStage \/ StageFails \/ UndoStage
         \/ Undone \/ AllApplied \/ Record \/ SaveLKG \/ Finish \/ Fallback \/
         FallbackDone \/ (\E c \in Clients : CommitHead(c)) \/ (\E c \in
         Clients : WaitCheck(c)) \/ (\E c \in Clients : WaitTimeout(c))
  BY <1>9 DEF Run, ReadFails, Read, ApplyStage, StageFails, UndoStage, Undone, AllApplied, Record, SaveLKG, Finish, Fallback, FallbackDone, CommitHead, WaitCheck, WaitTimeout
<1>10. CASE UNCHANGED vars
  BY <1>10 DEF vars
<1> QED BY <1>1, <1>2, <1>3, <1>4, <1>5, <1>6, <1>7, <1>8, <1>9, <1>10 DEF Next, Step

\* The history and the handlers stay what they are.
LEMMA GitStep ==
  ASSUME TypeOK, GitTypes, [Next]_vars
  PROVE  GitTypes'
<1> USE ReconcilerAssumption DEF GitTypes, git, Rev, Commit, Publish, Enter, Leave
<1>1. CASE Run
  BY <1>1 DEF Run
<1>2. CASE TakeTrigger
  BY <1>2 DEF TakeTrigger
<1>3. CASE Finish
  BY <1>3 DEF Finish
<1>4. CASE Fallback
  BY <1>4 DEF Fallback
<1>5. CASE FallbackDone
  BY <1>5 DEF FallbackDone
<1>6. CASE Crash
  BY <1>6 DEF Crash
<1>7. ASSUME NEW c \in Clients, CommitHead(c) PROVE GitTypes'
  BY <1>7, HistoryGrows DEF CommitHead
<1>8. ASSUME NEW c \in Clients, NotifyCommit(c) PROVE GitTypes'
  BY <1>8 DEF NotifyCommit
<1>9. ASSUME NEW c \in Clients, WaitCheck(c) PROVE GitTypes'
  <2>1. CASE Leave(c)
    BY <1>9, <2>1 DEF WaitCheck
  <2>2. CASE wpc' = [wpc EXCEPT ![c] = "blocked"] /\ UNCHANGED wfor
    BY <1>9, <2>2 DEF WaitCheck
  <2> QED BY <1>9, <2>1, <2>2 DEF WaitCheck
<1>10. ASSUME NEW c \in Clients, WaitTimeout(c) PROVE GitTypes'
  BY <1>10 DEF WaitTimeout
<1>11. ASSUME NEW d \in Toggled, NEW f \in BOOLEAN, NEW s \in BOOLEAN, SetFault(d, f, s) PROVE GitTypes'
  BY <1>11 DEF SetFault
<1>12. CASE ReadFails \/ Read \/ ApplyStage \/ StageFails \/ UndoStage \/
         Undone \/ AllApplied \/ Record \/ SaveLKG \/ Forward \/ ForwardTrigger
         \/ Resync \/ FaultTrigger
  BY <1>12 DEF ReadFails, Read, ApplyStage, StageFails, UndoStage, Undone, AllApplied, Record, SaveLKG, Forward, ForwardTrigger, Resync, FaultTrigger
<1>13. CASE UNCHANGED vars
  BY <1>13 DEF vars
<1> QED BY <1>1, <1>2, <1>3, <1>4, <1>5, <1>6, <1>7, <1>8, <1>9, <1>10, <1>11, <1>12, <1>13 DEF Next, Step

\* The faults stay faults.
LEMMA FaultStep ==
  ASSUME FaultTypes, [Next]_vars
  PROVE  FaultTypes'
<1> USE ReconcilerAssumption DEF FaultTypes, faultVars, readVars
<1>1. CASE Crash
  BY <1>1 DEF Crash
<1>2. ASSUME NEW d \in Toggled, NEW f \in BOOLEAN, NEW s \in BOOLEAN, SetFault(d, f, s) PROVE FaultTypes'
  <2>1. fail' \in SUBSET Drivers
    BY <1>2 DEF SetFault
  <2>2. stopped' \in SUBSET {"dhcp", "dns"}
    BY <1>2 DEF SetFault
  <2>3. faults' \in 0..MaxFaults /\ UNCHANGED <<crashes, unread, readErrors>>
    BY <1>2 DEF SetFault
  <2> QED BY <2>1, <2>2, <2>3
<1>5. CASE ReadFails \/ Read \/ (\E c \in Clients : CommitHead(c))
  <2>1. fail' = fail /\ stopped' = stopped /\ faults' = faults /\ crashes' = crashes
    BY <1>5 DEF ReadFails, Read, CommitHead
  <2>2. unread' \in SUBSET {"HEAD", "lkg"}
    BY <1>5 DEF ReadFails, Read, CommitHead, Asked
  <2>3. readErrors' \in 0..MaxReadErrors
    BY <1>5 DEF ReadFails, Read, CommitHead
  <2> QED BY <2>1, <2>2, <2>3
<1>3. CASE Run \/ TakeTrigger \/ ApplyStage \/
         StageFails \/ UndoStage \/ Undone \/ AllApplied \/ Record \/ SaveLKG
         \/ Finish \/ Fallback \/ FallbackDone \/ Forward \/ ForwardTrigger \/
         Resync \/ FaultTrigger \/ (\E c
         \in Clients : NotifyCommit(c)) \/ (\E c \in Clients : WaitCheck(c)) \/
         (\E c \in Clients : WaitTimeout(c))
  BY <1>3 DEF Run, TakeTrigger, ApplyStage, StageFails, UndoStage, Undone, AllApplied, Record, SaveLKG, Finish, Fallback, FallbackDone, Forward, ForwardTrigger, Resync, FaultTrigger, NotifyCommit, WaitCheck, WaitTimeout
<1>4. CASE UNCHANGED vars
  BY <1>4 DEF vars
<1> QED BY <1>1, <1>2, <1>3, <1>4, <1>5 DEF Next, Step

\* The attempt and the status keep to their types.
LEMMA LoopStep ==
  ASSUME TypeOK, GitTypes, LoopTypes, Refs, FallbackKnown, AttemptFits, [Next]_vars
  PROVE  LoopTypes'
<1> USE ReconcilerAssumption DEF LoopTypes, loop, Rev, Commit, States, Results
<1>1. CASE Run
  BY <1>1 DEF Run, Enter
<1>2. CASE TakeTrigger
  BY <1>2 DEF TakeTrigger, Enter
<1>3. CASE ReadFails
  BY <1>3 DEF ReadFails, AttemptOf
<1>4. CASE Read
  <2>1. Wanted \in Rev
    BY DEF Wanted, HEAD, GitTypes
  <2>2. st' \in [state : States, desired : Rev, applied : Rev, lkg : Rev, lastCommit : Rev, lastResult : Results]
    BY <1>4, <2>1 DEF Read
  <2>3. \A g : Changed(g) \in SUBSET Drivers
    BY DEF Changed
  <2>4. \A res \in Results, S \in SUBSET Drivers :
          AttemptOf(Wanted, res, S) \in [commit : Rev, result : Results, changed : SUBSET Drivers,
            done : 0..Len(AllStages), undo : Seq(Drivers), undone : Seq(Drivers)]
    BY <2>1, StagesType DEF AttemptOf
  <2>5. \E res \in Results, S \in SUBSET Drivers : att' = AttemptOf(Wanted, res, S)
    BY <1>4, <2>3 DEF Read
  <2>6. pc' \in {"finish", "record", "apply"}
    BY <1>4 DEF Read
  <2>7. att' \in [commit : Rev, result : Results, changed : SUBSET Drivers,
                   done : 0..Len(AllStages), undo : Seq(Drivers), undone : Seq(Drivers)]
    BY <2>4, <2>5
  <2>8. UNCHANGED <<phase, headAtt, applied, attempts, lkgFile>>
    BY <1>4 DEF Read
  <2> QED BY <2>2, <2>6, <2>7, <2>8
<1>5. CASE ApplyStage
  <2>1. NextStage.driver \in Drivers /\ NextPlace \in 0..Len(AllStages)
    <3>1. Left # {}
      BY <1>5 DEF ApplyStage
    <3>2. NextStage.driver \in att.changed /\ NextPlace \in 1..9
      BY <3>1, NextPlaceType
    <3> QED BY <3>2, StagesType
  <2>2. <<NextStage.driver>> \o att.undo \in Seq(Drivers)
    BY <2>1
  <2> QED BY <1>5, <2>1, <2>2 DEF ApplyStage
<1>6. CASE StageFails
  BY <1>6 DEF StageFails
<1>7. CASE UndoStage
  <2>1. att.undo[Len(att.undone) + 1] \in Drivers
    BY <1>7 DEF UndoStage, MoreToUndo
  <2>2. Append(att.undone, att.undo[Len(att.undone) + 1]) \in Seq(Drivers)
    BY <2>1
  <2> QED BY <1>7, <2>2 DEF UndoStage
<1>8. CASE Undone
  BY <1>8 DEF Undone
<1>9. CASE AllApplied
  BY <1>9 DEF AllApplied
<1>10. CASE Record
  <2>1. commits[att.commit] \in Configs
    BY <1>10 DEF Record, AttemptFits, Refs, GitTypes
  <2>2. applied' \in [Drivers -> Hashes \cup {NoHash}]
    BY <1>10, <2>1 DEF Record
  <2>3. st' \in [state : States, desired : Rev, applied : Rev, lkg : Rev, lastCommit : Rev, lastResult : Results]
    BY <1>10 DEF Record
  <2> QED BY <1>10, <2>2, <2>3 DEF Record
<1>11. CASE SaveLKG
  BY <1>11 DEF SaveLKG, NewLKG
<1>12. CASE Finish
  BY <1>12 DEF Finish, FinalState
<1>13. CASE Fallback
  BY <1>13 DEF Fallback, Enter
<1>14. CASE FallbackDone
  BY <1>14 DEF FallbackDone
<1>15. CASE Crash
  BY <1>15 DEF Crash, AttemptOf, NewStatus, NewLKG
<1>16. CASE Forward \/ ForwardTrigger \/ Resync \/ FaultTrigger \/ (\E c \in
         Clients : CommitHead(c)) \/ (\E c \in Clients : NotifyCommit(c)) \/
         (\E c \in Clients : WaitCheck(c)) \/ (\E c \in Clients :
         WaitTimeout(c)) \/ (\E d \in Toggled, f, s \in BOOLEAN : SetFault(d,
         f, s))
  BY <1>16 DEF Forward, ForwardTrigger, Resync, FaultTrigger, CommitHead, NotifyCommit, WaitCheck, WaitTimeout, SetFault
<1>17. CASE UNCHANGED vars
  BY <1>17 DEF vars
<1> QED BY <1>1, <1>2, <1>3, <1>4, <1>5, <1>6, <1>7, <1>8, <1>9, <1>10, <1>11, <1>12, <1>13, <1>14, <1>15, <1>16, <1>17 DEF Next, Step

\* No step names a commit that is not there.
LEMMA RefsStep ==
  ASSUME TypeOK, GitTypes, LoopTypes, Refs, [Next]_vars
  PROVE  Refs'
<1> USE ReconcilerAssumption DEF Refs, GitTypes, LoopTypes, git, loop, Rev, Commit, Publish, Enter, Leave
<1>1. CASE Run
  BY <1>1 DEF Run
<1>2. CASE TakeTrigger
  BY <1>2 DEF TakeTrigger
<1>3. CASE ReadFails
  BY <1>3 DEF ReadFails, AttemptOf
<1>4. CASE Read
  <2>1. Wanted <= Len(commits)
    BY DEF Wanted, HEAD
  <2>2. att'.commit = Wanted /\ st'.desired \in {Wanted, st.desired} /\ st'.applied = st.applied /\ st'.lkg = st.lkg
    BY <1>4 DEF Read, AttemptOf
  <2>3. UNCHANGED <<commits, headAtt, lkgFile, wpc, wfor>>
    BY <1>4 DEF Read
  <2> QED BY <2>1, <2>2, <2>3
<1>5. CASE Record
  BY <1>5 DEF Record
<1>6. CASE SaveLKG
  BY <1>6 DEF SaveLKG, NewLKG
<1>7. CASE Finish
  BY <1>7 DEF Finish
<1>8. CASE Fallback
  BY <1>8 DEF Fallback
<1>9. CASE FallbackDone
  BY <1>9 DEF FallbackDone
<1>10. CASE Crash
  BY <1>10 DEF Crash, AttemptOf, NewStatus, NewLKG
<1>11. ASSUME NEW c \in Clients, CommitHead(c) PROVE Refs'
  BY <1>11, HistoryGrows DEF CommitHead
<1>12. ASSUME NEW c \in Clients, NotifyCommit(c) PROVE Refs'
  BY <1>12 DEF NotifyCommit
<1>13. ASSUME NEW c \in Clients, WaitCheck(c) PROVE Refs'
  <2>1. CASE Leave(c)
    BY <1>13, <2>1 DEF WaitCheck
  <2>2. CASE wpc' = [wpc EXCEPT ![c] = "blocked"] /\ UNCHANGED wfor
    BY <1>13, <2>2 DEF WaitCheck
  <2> QED BY <1>13, <2>1, <2>2 DEF WaitCheck
<1>14. ASSUME NEW c \in Clients, WaitTimeout(c) PROVE Refs'
  BY <1>14 DEF WaitTimeout
<1>15. ASSUME NEW d \in Toggled, NEW f \in BOOLEAN, NEW s \in BOOLEAN, SetFault(d, f, s) PROVE Refs'
  BY <1>15 DEF SetFault
<1>16. CASE ApplyStage \/ StageFails \/ UndoStage \/ Undone \/ AllApplied \/
         Forward \/ ForwardTrigger \/ Resync \/ FaultTrigger
  BY <1>16 DEF ApplyStage, StageFails, UndoStage, Undone, AllApplied, Forward, ForwardTrigger, Resync, FaultTrigger
<1>17. CASE UNCHANGED vars
  BY <1>17 DEF vars
<1> QED BY <1>1, <1>2, <1>3, <1>4, <1>5, <1>6, <1>7, <1>8, <1>9, <1>10, <1>11, <1>12, <1>13, <1>14, <1>15, <1>16, <1>17 DEF Next, Step

\* Nothing is known and nobody is heard before Run.
LEMMA StartStep ==
  ASSUME TypeOK, FlagTypes, LoopTypes, AtStart, [Next]_vars
  PROVE  AtStart'
<1> USE DEF AtStart, LoopTypes, wake, git, loop, Subscribed, Enter
<1>1. CASE Crash
  BY <1>1 DEF Crash, NewStatus
<1>2. CASE Run \/ TakeTrigger \/ ReadFails \/ Read \/ ApplyStage \/
         StageFails \/ UndoStage \/ Undone \/ AllApplied \/ Record \/ SaveLKG
         \/ Finish \/ Fallback \/ FallbackDone
  BY <1>2 DEF Run, TakeTrigger, ReadFails, Read, ApplyStage, StageFails, UndoStage, Undone, AllApplied, Record, SaveLKG, Finish, Fallback, FallbackDone
<1>3. CASE (\E c \in Clients : CommitHead(c)) \/ (\E c \in Clients :
         NotifyCommit(c)) \/ (\E c \in Clients : WaitCheck(c)) \/ (\E c \in
         Clients : WaitTimeout(c)) \/ (\E d \in Toggled, f, s \in BOOLEAN :
         SetFault(d, f, s)) \/ Forward \/ ForwardTrigger \/ Resync \/
         FaultTrigger
  BY <1>3 DEF FlagTypes, CommitHead, NotifyCommit, WaitCheck, WaitTimeout, SetFault, Forward, ForwardTrigger, Resync, FaultTrigger
<1>4. CASE UNCHANGED vars
  BY <1>4 DEF vars
<1> QED BY <1>1, <1>2, <1>3, <1>4 DEF Next, Step

\* The state says what the loop is doing.
LEMMA StateStep ==
  ASSUME LoopTypes, StateFits, AtStart, [Next]_vars
  PROVE  StateFits'
<1> USE DEF StateFits, LoopTypes, loop, Enter, InDoubt
<1>1. CASE Finish
  BY <1>1 DEF Finish, FinalState
<1>2. CASE FallbackDone
  BY <1>2 DEF FallbackDone
<1>3. CASE Crash
  BY <1>3 DEF Crash
<1>4. CASE Run \/ TakeTrigger \/ ReadFails \/ Read \/ ApplyStage \/
         StageFails \/ UndoStage \/ Undone \/ AllApplied \/ Record \/ SaveLKG
         \/ Fallback
  BY <1>4 DEF Run, TakeTrigger, ReadFails, Read, ApplyStage, StageFails, UndoStage, Undone, AllApplied, Record, SaveLKG, Fallback
<1>5. CASE (\E c \in Clients : CommitHead(c)) \/ (\E c \in Clients :
         NotifyCommit(c)) \/ (\E c \in Clients : WaitCheck(c)) \/ (\E c \in
         Clients : WaitTimeout(c)) \/ (\E d \in Toggled, f, s \in BOOLEAN :
         SetFault(d, f, s)) \/ Forward \/ ForwardTrigger \/ Resync \/
         FaultTrigger
  BY <1>5 DEF CommitHead, NotifyCommit, WaitCheck, WaitTimeout, SetFault, Forward, ForwardTrigger, Resync, FaultTrigger
<1>6. CASE UNCHANGED vars
  BY <1>6 DEF vars
<1> QED BY <1>1, <1>2, <1>3, <1>4, <1>5, <1>6 DEF Next, Step

\* A fallback has a good commit to go to, other than the one that failed.
LEMMA FallbackStep ==
  ASSUME TypeOK, LoopTypes, Refs, LKGGood, FallbackKnown, AttemptFits, NothingYet, [Next]_vars
  PROVE  FallbackKnown'
<1> USE DEF FallbackKnown, LoopTypes, loop, git, Enter, Results, AfterRead
<1>1. CASE Read
  BY <1>1 DEF Read
<1>2. CASE Record
  BY <1>2 DEF Record, AttemptFits
<1>3. CASE Finish
  BY <1>3 DEF Finish, NeedsFallback, AttemptFits, NothingYet
<1>4. CASE Fallback
  BY <1>4 DEF Fallback
<1>5. CASE Crash
  BY <1>5 DEF Crash
<1>6. ASSUME NEW c \in Clients, CommitHead(c) PROVE FallbackKnown'
  BY <1>6 DEF CommitHead
<1>7. CASE Run \/ TakeTrigger \/ ReadFails \/ ApplyStage \/ StageFails \/
         UndoStage \/ Undone \/ AllApplied \/ SaveLKG \/ FallbackDone
  BY <1>7 DEF Run, TakeTrigger, ReadFails, ApplyStage, StageFails, UndoStage, Undone, AllApplied, SaveLKG, FallbackDone
<1>8. CASE (\E c \in Clients : NotifyCommit(c)) \/ (\E c \in Clients :
         WaitCheck(c)) \/ (\E c \in Clients : WaitTimeout(c)) \/ (\E d \in
         Toggled, f, s \in BOOLEAN : SetFault(d, f, s)) \/ Forward \/
         ForwardTrigger \/ Resync \/ FaultTrigger
  BY <1>8 DEF NotifyCommit, WaitCheck, WaitTimeout, SetFault, Forward, ForwardTrigger, Resync, FaultTrigger
<1>9. CASE UNCHANGED vars
  BY <1>9 DEF vars
<1> QED BY <1>1, <1>2, <1>3, <1>4, <1>5, <1>6, <1>7, <1>8, <1>9 DEF Next, Step

\* The attempt is of the commit that was wanted.
LEMMA AttemptStep ==
  ASSUME TypeOK, GitTypes, LoopTypes, Refs, LKGGood, AtStart, FallbackKnown, AttemptFits, DriversFit, NothingYet, [Next]_vars
  PROVE  AttemptFits'
<1> USE DEF AttemptFits, LoopTypes, GitTypes, loop, git, Enter, Rev, Results, AfterRead, Good
<1>1. CASE ReadFails
  BY <1>1 DEF ReadFails, AttemptOf
<1>2. CASE Read
  <2>1. /\ Wanted \in 1..Len(commits) /\ commits[Wanted] \notin Unreadable
        /\ Wanted = IF phase = "fallback" THEN st'.lkg ELSE st'.desired
    BY <1>2 DEF Read, Wanted, HEAD, FallbackKnown, Refs, Commit
  <2>2. UNCHANGED <<commits, phase>> /\ att'.commit = Wanted
    BY <1>2 DEF Read, AttemptOf
  <2>3. CASE pc' = "finish" /\ att'.result = "invalid" /\ commits[Wanted] \in Invalid
    BY <2>1, <2>2, <2>3
  <2>4. CASE pc' = "record" /\ att'.result = "no-op" /\ commits[Wanted] \notin Invalid
    BY <2>1, <2>2, <2>4
  <2>5. CASE pc' = "apply" /\ att'.result = "none" /\ commits[Wanted] \notin Invalid
    BY <2>1, <2>2, <2>5
  <2> QED BY <1>2, <2>3, <2>4, <2>5 DEF Read, AttemptOf
<1>3. CASE ApplyStage
  BY <1>3 DEF ApplyStage
<1>4. CASE UndoStage
  BY <1>4 DEF UndoStage
<1>5. CASE Undone
  BY <1>5 DEF Undone
<1>6. CASE AllApplied
  BY <1>6 DEF AllApplied
<1>7. CASE Record
  BY <1>7 DEF Record
<1>8. CASE SaveLKG
  BY <1>8 DEF SaveLKG, DriversFit
<1>9. CASE Finish
  BY <1>9 DEF Finish
<1>10. CASE Fallback
  BY <1>10 DEF Fallback
<1>11. CASE Crash
  BY <1>11 DEF Crash, AttemptOf
<1>12. ASSUME NEW c \in Clients, CommitHead(c) PROVE AttemptFits'
  BY <1>12, HistoryGrows DEF CommitHead, Refs, Good
<1>13. CASE Run \/ TakeTrigger \/ StageFails \/ FallbackDone
  BY <1>13 DEF Run, TakeTrigger, StageFails, FallbackDone
<1>14. CASE (\E c \in Clients : NotifyCommit(c)) \/ (\E c \in Clients :
         WaitCheck(c)) \/ (\E c \in Clients : WaitTimeout(c)) \/ (\E d \in
         Toggled, f, s \in BOOLEAN : SetFault(d, f, s)) \/ Forward \/
         ForwardTrigger \/ Resync \/ FaultTrigger
  BY <1>14 DEF NotifyCommit, WaitCheck, WaitTimeout, SetFault, Forward, ForwardTrigger, Resync, FaultTrigger
<1>15. CASE UNCHANGED vars
  BY <1>15 DEF vars
<1> QED BY <1>1, <1>2, <1>3, <1>4, <1>5, <1>6, <1>7, <1>8, <1>9, <1>10, <1>11, <1>12, <1>13, <1>14, <1>15 DEF Next, Step

\* What the drivers have is known at each step of an attempt.
LEMMA DriversStep ==
  ASSUME TypeOK, GitTypes, LoopTypes, Refs, AttemptFits, DriversFit, [Next]_vars
  PROVE  DriversFit'
<1> USE DEF DriversFit, LoopTypes, loop, git, Enter, Changed
<1>1. CASE Read
  BY <1>1 DEF Read, AttemptOf
<1>2. CASE Record
  BY <1>2 DEF Record
<1>3. CASE Crash
  BY <1>3 DEF Crash
<1>4. ASSUME NEW c \in Clients, CommitHead(c) PROVE DriversFit'
  BY <1>4, HistoryGrows DEF CommitHead, Refs, AttemptFits, Rev
<1>5. CASE Run \/ TakeTrigger \/ ReadFails \/ ApplyStage \/ StageFails \/
         UndoStage \/ Undone \/ AllApplied \/ SaveLKG \/ Finish \/ Fallback \/
         FallbackDone
  BY <1>5 DEF Run, TakeTrigger, ReadFails, ApplyStage, StageFails, UndoStage, Undone, AllApplied, SaveLKG, Finish, Fallback, FallbackDone
<1>6. CASE (\E c \in Clients : NotifyCommit(c)) \/ (\E c \in Clients :
         WaitCheck(c)) \/ (\E c \in Clients : WaitTimeout(c)) \/ (\E d \in
         Toggled, f, s \in BOOLEAN : SetFault(d, f, s)) \/ Forward \/
         ForwardTrigger \/ Resync \/ FaultTrigger
  BY <1>6 DEF NotifyCommit, WaitCheck, WaitTimeout, SetFault, Forward, ForwardTrigger, Resync, FaultTrigger
<1>7. CASE UNCHANGED vars
  BY <1>7 DEF vars
<1> QED BY <1>1, <1>2, <1>3, <1>4, <1>5, <1>6, <1>7 DEF Next, Step

\* Boot begins with nothing applied.
LEMMA NothingStep ==
  ASSUME ReconcilerAssumption, TypeOK, GitTypes, LoopTypes, Refs, AtStart, AppliedWhole, LKGGood, FallbackKnown, AttemptFits, NothingYet, [Next]_vars
  PROVE  NothingYet'
<1> USE DEF NothingYet, LoopTypes, loop, git, faultVars, readVars, Enter, AfterRead, AtStart
<1>1. CASE ReadFails
  BY <1>1 DEF ReadFails, AttemptOf, Asked
<1>2. CASE Read
  <2>1. Wanted \in 1..Len(commits) /\ commits[Wanted] \in Configs
    BY <1>2 DEF Read, Wanted, HEAD, FallbackKnown, Refs, Commit, GitTypes, Rev
  <2>2. UNCHANGED phase /\ att'.commit = Wanted /\ att'.commit # 0 /\ st'.applied = st.applied
    BY <1>2, <2>1 DEF Read, AttemptOf
  <2>3. phase # "loop" => att'.result # "no-op"
    <3>1. phase # "loop" => \A d \in Drivers : applied[d] = NoHash
      BY <1>2 DEF Read, AppliedWhole
    <3>2. phase # "loop" => Changed(commits[Wanted]) # {}
      BY <2>1, <3>1, "dns" \in Drivers DEF Changed, Drivers
    <3> QED BY <1>2, <3>2 DEF Read, AttemptOf
  <2>4. pc' \in {"finish", "record", "apply"} /\ (att'.result \in {"invalid", "rolled-back"} => pc = "read")
    BY <1>2 DEF Read
  <2> QED BY <1>2, <2>2, <2>3, <2>4 DEF Read
<1>3. CASE ApplyStage
  BY <1>3 DEF ApplyStage
<1>4. CASE UndoStage
  BY <1>4 DEF UndoStage
<1>5. CASE Undone
  BY <1>5 DEF Undone
<1>6. CASE AllApplied
  BY <1>6 DEF AllApplied, AttemptFits
<1>7. CASE Finish
  BY <1>7 DEF Finish, NeedsFallback, AttemptFits, Results
<1>8. CASE Fallback
  BY <1>8 DEF Fallback, FallbackKnown
<1>9. CASE Crash
  BY <1>9 DEF Crash, AttemptOf, NewStatus
<1>10. ASSUME NEW c \in Clients, CommitHead(c) PROVE NothingYet'
  BY <1>10 DEF CommitHead
<1>11. CASE Run \/ TakeTrigger \/ StageFails \/ Record \/ SaveLKG \/
         FallbackDone
  BY <1>11 DEF AttemptFits, Run, TakeTrigger, StageFails, Record, SaveLKG, FallbackDone
<1>12. CASE (\E c \in Clients : NotifyCommit(c)) \/ (\E c \in Clients :
         WaitCheck(c)) \/ (\E c \in Clients : WaitTimeout(c)) \/ (\E d \in
         Toggled, f, s \in BOOLEAN : SetFault(d, f, s)) \/ Forward \/
         ForwardTrigger \/ Resync \/ FaultTrigger
  BY <1>12 DEF NotifyCommit, WaitCheck, WaitTimeout, SetFault, Forward, ForwardTrigger, Resync, FaultTrigger
<1>13. CASE UNCHANGED vars
  BY <1>13 DEF vars
<1> QED BY <1>1, <1>2, <1>3, <1>4, <1>5, <1>6, <1>7, <1>8, <1>9, <1>10, <1>11, <1>12, <1>13 DEF Next, Step

\* The drivers hold one commit as a whole, step by step.
LEMMA AppliedStep ==
  ASSUME ReconcilerAssumption, TypeOK, GitTypes, LoopTypes, Refs, AtStart, StateFits, AppliedWhole, AttemptFits, DriversFit, [Next]_vars
  PROVE  AppliedWhole'
<1> USE DEF AppliedWhole, LoopTypes, loop, git, Enter, Rev
<1>1. CASE Read
  BY <1>1 DEF Read, StateFits, InDoubt, Good
<1>2. CASE Record
  BY <1>2 DEF Record, DriversFit, AttemptFits, Changed, Good, GitTypes, Refs, StateFits, InDoubt
<1>3. CASE Finish
  <2>1. st'.applied = st.applied /\ st'.desired = st.desired /\ UNCHANGED <<commits, applied>>
    BY <1>3 DEF Finish
  <2>2. FinalState = "in-sync" => st.desired = att.commit /\ att.result \in {"applied", "no-op"}
    BY <1>3 DEF Finish, FinalState, AttemptFits, Results
  <2>3. st'.state = FinalState
    BY <1>3 DEF Finish
  <2> QED BY <1>3, <2>1, <2>2, <2>3 DEF Finish, AttemptFits, Good
<1>4. CASE FallbackDone
  BY <1>4 DEF FallbackDone, Good
<1>5. CASE Crash
  BY <1>5 DEF Crash, NewStatus
<1>6. ASSUME NEW c \in Clients, CommitHead(c) PROVE AppliedWhole'
  BY <1>6, HistoryGrows DEF CommitHead, Refs
<1>7. CASE Run \/ TakeTrigger \/ ReadFails \/ ApplyStage \/ StageFails \/
         UndoStage \/ Undone \/ AllApplied \/ SaveLKG \/ Fallback
  BY <1>7 DEF Good, Run, TakeTrigger, ReadFails, ApplyStage, StageFails, UndoStage, Undone, AllApplied, SaveLKG, Fallback
<1>8. CASE (\E c \in Clients : NotifyCommit(c)) \/ (\E c \in Clients :
         WaitCheck(c)) \/ (\E c \in Clients : WaitTimeout(c)) \/ (\E d \in
         Toggled, f, s \in BOOLEAN : SetFault(d, f, s)) \/ Forward \/
         ForwardTrigger \/ Resync \/ FaultTrigger
  BY <1>8 DEF Good, NotifyCommit, WaitCheck, WaitTimeout, SetFault, Forward, ForwardTrigger, Resync, FaultTrigger
<1>9. CASE UNCHANGED vars
  BY <1>9 DEF vars, Good
<1> QED BY <1>1, <1>2, <1>3, <1>4, <1>5, <1>6, <1>7, <1>8, <1>9 DEF Next, Step

\* What is known good was good and is what was applied last.
LEMMA LKGStep ==
  ASSUME TypeOK, GitTypes, LoopTypes, Refs, LKGGood, AttemptFits, DriversFit, [Next]_vars
  PROVE  LKGGood'
<1> USE DEF LKGGood, LoopTypes, loop, git, Enter, Good, Rev
<1>1. CASE Record
  BY <1>1 DEF Record, AttemptFits
<1>2. CASE SaveLKG
  BY <1>2 DEF SaveLKG, NewLKG, AttemptFits
<1>3. CASE Crash
  BY <1>3 DEF Crash, NewStatus, NewLKG, AttemptFits
<1>4. ASSUME NEW c \in Clients, CommitHead(c) PROVE LKGGood'
  BY <1>4, HistoryGrows DEF CommitHead, Refs, Good
<1>5. CASE Run \/ TakeTrigger \/ ReadFails \/ Read \/ ApplyStage \/
         StageFails \/ UndoStage \/ Undone \/ AllApplied \/ Finish \/ Fallback
         \/ FallbackDone
  BY <1>5 DEF Run, TakeTrigger, ReadFails, Read, ApplyStage, StageFails, UndoStage, Undone, AllApplied, Finish, Fallback, FallbackDone
<1>6. CASE (\E c \in Clients : NotifyCommit(c)) \/ (\E c \in Clients :
         WaitCheck(c)) \/ (\E c \in Clients : WaitTimeout(c)) \/ (\E d \in
         Toggled, f, s \in BOOLEAN : SetFault(d, f, s)) \/ Forward \/
         ForwardTrigger \/ Resync \/ FaultTrigger
  BY <1>6 DEF NotifyCommit, WaitCheck, WaitTimeout, SetFault, Forward, ForwardTrigger, Resync, FaultTrigger
<1>7. CASE UNCHANGED vars
  BY <1>7 DEF vars
<1> QED BY <1>1, <1>2, <1>3, <1>4, <1>5, <1>6, <1>7 DEF Next, Step

\* After a rollback a driver still fails, or the loop is going to be woken.
LEMMA RollbackStep ==
  ASSUME TypeOK, FlagTypes, LoopTypes, AttemptFits, RollbackKept, [Next]_vars
  PROVE  RollbackKept'
<1> USE DEF RollbackKept, StillFailing, LoopTypes, loop, wake, git, faultVars, Enter, AfterRead
<1>1. CASE ReadFails
  BY <1>1 DEF ReadFails, AttemptOf
<1>2. CASE Read
  BY <1>2 DEF Read, AttemptOf
<1>3. CASE StageFails
  BY <1>3 DEF StageFails, Fails
<1>4. CASE AllApplied
  BY <1>4 DEF AllApplied
<1>5. CASE SaveLKG
  BY <1>5 DEF SaveLKG, AttemptFits
<1>6. CASE Finish
  BY <1>6 DEF Finish
<1>7. CASE Fallback
  BY <1>7 DEF Fallback
<1>8. CASE ForwardTrigger
  BY <1>8 DEF ForwardTrigger
<1>9. CASE Resync
  BY <1>9 DEF Resync
<1>10. CASE FaultTrigger
  BY <1>10 DEF FaultTrigger
<1>11. CASE Crash
  BY <1>11 DEF Crash
<1>12. ASSUME NEW d \in Toggled, NEW f \in BOOLEAN, NEW s \in BOOLEAN, SetFault(d, f, s) PROVE RollbackKept'
  BY <1>12 DEF SetFault, Clears
<1>13. CASE Run \/ TakeTrigger \/ ApplyStage \/ UndoStage \/ Undone \/ Record
         \/ FallbackDone
  BY <1>13 DEF Run, TakeTrigger, ApplyStage, UndoStage, Undone, Record, FallbackDone
<1>14. CASE Forward \/ (\E c \in Clients : CommitHead(c)) \/ (\E c \in
         Clients : NotifyCommit(c)) \/ (\E c \in Clients : WaitCheck(c)) \/ (\E
         c \in Clients : WaitTimeout(c))
  BY <1>14 DEF Forward, CommitHead, NotifyCommit, WaitCheck, WaitTimeout
<1>15. CASE UNCHANGED vars
  BY <1>15 DEF vars
<1> QED BY <1>1, <1>2, <1>3, <1>4, <1>5, <1>6, <1>7, <1>8, <1>9, <1>10, <1>11, <1>12, <1>13, <1>14, <1>15 DEF Next, Step

\* While no wake-up is on its way, the last attempt of HEAD is of the present HEAD.
LEMMA HeadStep ==
  ASSUME TypeOK, FlagTypes, GitTypes, LoopTypes, Refs, AtStart, AttemptFits, NothingYet, HeadSeen, [Next]_vars
  PROVE  HeadSeen'
<1> USE DEF HeadSeen, OfHead, Wake, Committing, HEAD, LoopTypes, FlagTypes, loop, wake, git, faultVars, readVars, Enter, Publish, AfterRead
<1>1. CASE ReadFails
  BY <1>1 DEF ReadFails, AttemptOf, Asked
<1>2. CASE Read
  BY <1>2 DEF Read, AttemptOf, Wanted, Asked
<1>3. CASE Fallback
  BY <1>3 DEF Fallback
<1>4. CASE Crash
  BY <1>4 DEF Crash
<1>5. ASSUME NEW c \in Clients, CommitHead(c) PROVE HeadSeen'
  BY <1>5 DEF CommitHead, GitTypes
<1>6. ASSUME NEW c \in Clients, NotifyCommit(c) PROVE HeadSeen'
  BY <1>6 DEF NotifyCommit, Subscribed, AtStart
<1>7. ASSUME NEW c \in Clients, WaitCheck(c) PROVE HeadSeen'
  <2>1. UNCHANGED <<commits, inbox, relay, trigger, pc, phase, att, headAtt, unread>>
    BY <1>7 DEF WaitCheck
  <2>2. \A k \in Clients : wpc'[k] = "committed" <=> wpc[k] = "committed"
    BY <1>7 DEF WaitCheck, Leave, GitTypes
  <2> QED BY <2>1, <2>2
<1>8. ASSUME NEW c \in Clients, WaitTimeout(c) PROVE HeadSeen'
  <2>1. UNCHANGED <<commits, inbox, relay, trigger, pc, phase, att, headAtt, unread>>
    BY <1>8 DEF WaitTimeout
  <2>2. \A k \in Clients : wpc'[k] = "committed" <=> wpc[k] = "committed"
    BY <1>8 DEF WaitTimeout, Leave, GitTypes
  <2> QED BY <2>1, <2>2
<1>9. ASSUME NEW d \in Toggled, NEW f \in BOOLEAN, NEW s \in BOOLEAN, SetFault(d, f, s) PROVE HeadSeen'
  BY <1>9 DEF SetFault
<1>10. CASE Run \/ TakeTrigger
  BY <1>10 DEF Run, TakeTrigger
<1>11. CASE ApplyStage \/ StageFails \/ UndoStage \/ Record \/ SaveLKG
  BY <1>11 DEF ApplyStage, StageFails, UndoStage, Record, SaveLKG
<1>12. CASE Undone \/ AllApplied
  BY <1>12 DEF AttemptFits, Undone, AllApplied
<1>13. CASE Finish \/ FallbackDone
  BY <1>13 DEF Finish, FallbackDone
<1>14. CASE Forward \/ ForwardTrigger \/ Resync \/ FaultTrigger
  BY <1>14 DEF Forward, ForwardTrigger, Resync, FaultTrigger
<1>15. CASE UNCHANGED vars
  BY <1>15 DEF vars
<1> QED BY <1>1, <1>2, <1>3, <1>4, <1>5, <1>6, <1>7, <1>8, <1>9, <1>10, <1>11, <1>12, <1>13, <1>14, <1>15 DEF Next, Step

\* The attempt that boot fell back from is kept as it was.
LEMMA HeadKeptStep ==
  ASSUME TypeOK, GitTypes, LoopTypes, Refs, FallbackKnown, AttemptFits, Published, HeadKept, [Next]_vars
  PROVE  HeadKept'
<1> USE DEF HeadKept, LoopTypes, loop, git, Enter, Good, AfterRead
<1>1. CASE Read
  BY <1>1 DEF Read
<1>2. CASE Record
  BY <1>2 DEF Record
<1>3. CASE Finish
  BY <1>3 DEF Finish, AttemptFits, Commit, Rev
<1>4. CASE Fallback
  BY <1>4 DEF Fallback, FallbackKnown, AttemptFits, Published, Good
<1>5. CASE FallbackDone
  BY <1>5 DEF FallbackDone
<1>6. CASE Crash
  BY <1>6 DEF Crash
<1>7. ASSUME NEW c \in Clients, CommitHead(c) PROVE HeadKept'
  BY <1>7, HistoryGrows DEF CommitHead, Refs, Good, Rev
<1>8. CASE Run \/ TakeTrigger \/ ReadFails \/ ApplyStage \/ StageFails \/
         UndoStage \/ Undone \/ AllApplied \/ SaveLKG
  BY <1>8 DEF Run, TakeTrigger, ReadFails, ApplyStage, StageFails, UndoStage, Undone, AllApplied, SaveLKG
<1>9. CASE (\E c \in Clients : NotifyCommit(c)) \/ (\E c \in Clients :
         WaitCheck(c)) \/ (\E c \in Clients : WaitTimeout(c)) \/ (\E d \in
         Toggled, f, s \in BOOLEAN : SetFault(d, f, s)) \/ Forward \/
         ForwardTrigger \/ Resync \/ FaultTrigger
  BY <1>9 DEF NotifyCommit, WaitCheck, WaitTimeout, SetFault, Forward, ForwardTrigger, Resync, FaultTrigger
<1>10. CASE UNCHANGED vars
  BY <1>10 DEF vars
<1> QED BY <1>1, <1>2, <1>3, <1>4, <1>5, <1>6, <1>7, <1>8, <1>9, <1>10 DEF Next, Step

\* What an attempt came to is what the Status says of it.
LEMMA PublishedStep ==
  ASSUME TypeOK, LoopTypes, FallbackKnown, AttemptFits, NothingYet, Published, [Next]_vars
  PROVE  Published'
<1> USE DEF Published, LoopTypes, loop, git, Enter, AfterRead
<1>1. CASE Finish
  <2>1. attempts'[att.commit] # "none" \/ att.commit = 0
    BY <1>1 DEF Finish, AttemptFits, Commit, Rev
  <2>2. st'.state = "in-sync" <=> att.result \in {"applied", "no-op"} /\ st.desired = att.commit
    BY <1>1 DEF Finish, FinalState, AttemptFits, Results
  <2>3. att.result \in {"applied", "no-op"} =>
          (st.desired = att.commit <=> phase # "fallback")
    BY <1>1 DEF Finish, AttemptFits, FallbackKnown
  <2> QED BY <1>1, <2>1, <2>2, <2>3 DEF Finish
<1>2. CASE Fallback
  BY <1>2 DEF Fallback
<1>3. CASE FallbackDone
  BY <1>3 DEF FallbackDone
<1>4. CASE Crash
  BY <1>4 DEF Crash
<1>5. ASSUME NEW c \in Clients, CommitHead(c) PROVE Published'
  BY <1>5 DEF CommitHead
<1>6. CASE Run \/ TakeTrigger \/ ReadFails \/ Read \/ ApplyStage \/
         StageFails \/ UndoStage \/ Undone \/ AllApplied \/ Record \/ SaveLKG
  BY <1>6 DEF Run, TakeTrigger, ReadFails, Read, ApplyStage, StageFails, UndoStage, Undone, AllApplied, Record, SaveLKG
<1>7. CASE (\E c \in Clients : NotifyCommit(c)) \/ (\E c \in Clients :
         WaitCheck(c)) \/ (\E c \in Clients : WaitTimeout(c)) \/ (\E d \in
         Toggled, f, s \in BOOLEAN : SetFault(d, f, s)) \/ Forward \/
         ForwardTrigger \/ Resync \/ FaultTrigger
  BY <1>7 DEF NotifyCommit, WaitCheck, WaitTimeout, SetFault, Forward, ForwardTrigger, Resync, FaultTrigger
<1>8. CASE UNCHANGED vars
  BY <1>8 DEF vars
<1> QED BY <1>1, <1>2, <1>3, <1>4, <1>5, <1>6, <1>7, <1>8 DEF Next, Step

\* A list holds a driver a natural number of times, the empty list never.
LEMMA TimesType ==
  ASSUME NEW s \in Seq(Drivers), NEW d
  PROVE  Times(d, s) \in Nat /\ IsFiniteSet({i \in DOMAIN s : s[i] = d}) /\ Times(d, <<>>) = 0
<1>1. IsFiniteSet(1..Len(s))
  BY FS_Interval
<1>2. {i \in DOMAIN s : s[i] = d} \in SUBSET (1..Len(s))
  OBVIOUS
<1>3. IsFiniteSet({i \in DOMAIN s : s[i] = d})
  BY <1>1, <1>2, FS_Subset
<1>4. {i \in DOMAIN <<>> : <<>>[i] = d} = {}
  OBVIOUS
<1>5. Times(d, s) \in Nat
  BY <1>3, FS_CardinalityType DEF Times
<1>6. Times(d, <<>>) = 0
  BY <1>4, FS_EmptySet DEF Times
<1> QED BY <1>3, <1>5, <1>6

\* Sequences with the same elements are equal.
LEMMA SameSequence ==
  ASSUME NEW S, NEW s \in Seq(S), NEW t \in Seq(S), Len(s) = Len(t),
         \A i \in 1..Len(s) : s[i] = t[i]
  PROVE  s = t
OBVIOUS

\* One more driver at the head of a list counts once.
LEMMA TimesOfCons ==
  ASSUME NEW s \in Seq(Drivers), NEW e \in Drivers, NEW d
  PROVE  Times(d, <<e>> \o s) = IF e = d THEN Times(d, s) + 1 ELSE Times(d, s)
<1> DEFINE I == {i \in DOMAIN s : s[i] = d}
           J == {i \in 2..(Len(s) + 1) : s[i - 1] = d}
           K == {i \in DOMAIN (<<e>> \o s) : (<<e>> \o s)[i] = d}
           shift == [i \in I |-> i + 1]
<1>1. IsFiniteSet(I) /\ Times(d, s) = Cardinality(I) /\ Cardinality(I) \in Nat
  BY TimesType, FS_CardinalityType DEF Times
<1>2. ExistsBijection(I, J)
  <2>1. \A i \in I : i \in Nat /\ i + 1 \in J
    OBVIOUS
  <2>2. \A j \in J : j - 1 \in I /\ shift[j - 1] = j
    OBVIOUS
  <2>3. \A i, j \in I : shift[i] = shift[j] => i = j
    BY <2>1
  <2>4. shift \in [I -> J]
    BY <2>1
  <2>5. shift \in Bijection(I, J)
    BY <2>2, <2>3, <2>4 DEF Bijection, Injection, Surjection, IsInjective
  <2> QED BY <2>5 DEF ExistsBijection
<1>3. IsFiniteSet(J) /\ Cardinality(J) = Cardinality(I)
  BY <1>1, <1>2, FS_Bijection
<1>4. 1 \notin J
  OBVIOUS
<1>5. K = IF e = d THEN J \cup {1} ELSE J
  <2>1. DOMAIN (<<e>> \o s) = 1..(Len(s) + 1)
    OBVIOUS
  <2>2. (<<e>> \o s)[1] = e /\ \A i \in 2..(Len(s) + 1) : (<<e>> \o s)[i] = s[i - 1]
    OBVIOUS
  <2> QED BY <2>1, <2>2
<1>6. Cardinality(J \cup {1}) = Cardinality(J) + 1
  BY <1>3, <1>4, FS_AddElement
<1> QED BY <1>1, <1>3, <1>5, <1>6 DEF Times

\* What has been committed of a driver grows with the stages.
LEMMA CommittedGrows ==
  ASSUME NEW d, NEW n \in 0..9, NEW k \in 1..9, n < k,
         \A i \in 1..9 : n < i /\ i < k => AllStages[i] # Stage(d, "commit")
  PROVE  Committed(d, k) = IF AllStages[k] = Stage(d, "commit") THEN Committed(d, n) + 1
                           ELSE Committed(d, n)
<1> DEFINE C(m) == {i \in 1..m : AllStages[i] = Stage(d, "commit")}
<1>1. IsFiniteSet(1..n) /\ C(n) \in SUBSET (1..n)
  BY FS_Interval
<1>2. IsFiniteSet(C(n))
  BY <1>1, FS_Subset
<1>3. C(k) = IF AllStages[k] = Stage(d, "commit") THEN C(n) \cup {k} ELSE C(n)
  OBVIOUS
<1>4. k \notin C(n)
  OBVIOUS
<1>5. Cardinality(C(n) \cup {k}) = Cardinality(C(n)) + 1
  BY <1>2, <1>4, FS_AddElement
<1> QED BY <1>3, <1>5 DEF Committed

\* When no stage is left, every commit of a changed driver has been made.
LEMMA CommittedAll ==
  ASSUME TypeOK, Left = {}, NEW d \in att.changed
  PROVE  Committed(d, att.done) = Committed(d, 9)
<1>1. \A i \in 1..9 : AllStages[i] = Stage(d, "commit") => i <= att.done
  <2>1. ASSUME NEW i \in 1..9, AllStages[i] = Stage(d, "commit") PROVE ~(i > att.done)
    BY <2>1, StagesType DEF Left, Stages, Stage
  <2>2. att.done \in 0..9
    BY StagesType DEF TypeOK
  <2> QED BY <2>1, <2>2
<1>2. {i \in 1..att.done : AllStages[i] = Stage(d, "commit")} = {i \in 1..9 : AllStages[i] = Stage(d, "commit")}
  BY <1>1, StagesType DEF TypeOK
<1> QED BY <1>2 DEF Committed

\* Nothing is committed before the first stage.
LEMMA CommittedNone == \A d : Committed(d, 0) = 0
<1>1. \A d : {i \in 1..0 : AllStages[i] = Stage(d, "commit")} = {}
  OBVIOUS
<1> QED BY <1>1, FS_EmptySet DEF Committed

\* A transaction counts its stages.
LEMMA CountStep ==
  ASSUME TypeOK, LoopTypes, AttemptFits, StagesCounted, [Next]_vars
  PROVE  StagesCounted'
<1> USE StagesType DEF StagesCounted, LoopTypes, loop, git, Enter, Results
<1>1. CASE ReadFails
  <2>1. att'.undo = <<>> /\ att'.undone = <<>> /\ att'.done = 0 /\ att'.changed = {}
    BY <1>1 DEF ReadFails, AttemptOf
  <2>2. att'.result \in {"none", "rolled-back"} /\ pc' # "apply"
    BY <1>1 DEF ReadFails, AttemptOf
  <2>3. \A d : Times(d, <<>>) = 0
    BY TimesType
  <2> QED BY <2>1, <2>2, <2>3
<1>2. CASE Read
  <2>1. att'.undo = <<>> /\ att'.undone = <<>> /\ att'.done = 0 /\ att'.changed \in SUBSET Drivers
    BY <1>2 DEF Read, AttemptOf, Changed
  <2>2. att'.result \in {"none", "no-op", "invalid"} /\ pc' \in {"apply", "record", "finish"}
    BY <1>2 DEF Read, AttemptOf
  <2>3. \A d : Times(d, <<>>) = 0
    BY TimesType
  <2> QED BY <2>1, <2>2, <2>3, CommittedNone
<1>3. CASE ApplyStage
  <2> DEFINE k == NextPlace
  <2>1. /\ Left # {} /\ UNCHANGED pc
        /\ att'.done = k /\ UNCHANGED <<att.result, att.undone, att.changed>>
        /\ att'.undo = IF NextStage.op = "commit" THEN <<NextStage.driver>> \o att.undo ELSE att.undo
    BY <1>3 DEF ApplyStage
  <2>2. k \in 1..9 /\ att.done < k /\ NextStage.driver \in att.changed /\ NextStage = AllStages[k]
    BY <2>1, NextPlaceType DEF NextStage
  <2>3. \A i \in 1..9 : att.done < i /\ i < k => AllStages[i].driver \notin att.changed
    BY <2>1, <2>2, NextPlaceType DEF Left, Stages
  <2>4. att.undo \in Seq(Drivers) /\ NextStage.driver \in Drivers /\ att.done \in 0..9
    BY <2>2
  <2>5. \A d : Times(d, att'.undo) = IF NextStage.op = "commit" /\ NextStage.driver = d
                                       THEN Times(d, att.undo) + 1 ELSE Times(d, att.undo)
    BY <2>1, <2>4, TimesOfCons
  <2>6. ASSUME NEW d \in att.changed PROVE Times(d, att'.undo) = Committed(d, k)
    <3>1. \A i \in 1..9 : att.done < i /\ i < k => AllStages[i] # Stage(d, "commit")
      BY <2>3, <2>6 DEF Stage
    <3>2. AllStages[k] = Stage(d, "commit") <=> NextStage.op = "commit" /\ NextStage.driver = d
      BY <2>2, StagesType DEF Stage
    <3>3. Committed(d, k) = IF AllStages[k] = Stage(d, "commit") THEN Committed(d, att.done) + 1 ELSE Committed(d, att.done)
      BY <2>2, <2>4, <3>1, CommittedGrows
    <3>4. Times(d, att.undo) = Committed(d, att.done)
      BY <1>3 DEF ApplyStage
    <3> QED BY <2>5, <3>2, <3>3, <3>4
  <2>7. att.result = "none" /\ att.undone = <<>>
    BY <1>3 DEF ApplyStage, AttemptFits
  <2>8. \A d \in Drivers \ att.changed : Times(d, att'.undo) = 0
    BY <2>2, <2>5
  <2>9. UNCHANGED <<att.result, att.undone, att.changed>> /\ att'.done = k
    BY <2>1
  <2>10. att'.undone = <<>> /\ att'.result = "none" /\ Len(att'.undo) \in Nat
    BY <2>1, <2>4, <2>7, <2>9
  <2> QED BY <2>6, <2>8, <2>9, <2>10
<1>4. CASE UndoStage
  <2>1. /\ UNCHANGED <<pc, att.undo, att.changed, att.result>> /\ Len(att.undone) < Len(att.undo)
        /\ att'.undone = Append(att.undone, att.undo[Len(att.undone) + 1])
    BY <1>4 DEF UndoStage, MoreToUndo
  <2>2. pc = "undo" /\ att.result = "none"
    BY <1>4 DEF UndoStage, AttemptFits
  <2>3. Len(att'.undone) <= Len(att'.undo) /\ \A i \in 1..Len(att'.undone) : att'.undone[i] = att'.undo[i]
    BY <2>1
  <2>4. \A d \in Drivers \ att'.changed : Times(d, att'.undo) = 0
    BY <2>1
  <2> QED BY <2>1, <2>2, <2>3, <2>4
<1>5. CASE Undone
  <2>1. Len(att.undone) = Len(att.undo)
    BY <1>5 DEF Undone, MoreToUndo
  <2>2. att.undone = att.undo
    <3>1. att.undone \in Seq(Drivers) /\ att.undo \in Seq(Drivers)
      OBVIOUS
    <3>2. \A i \in 1..Len(att.undone) : att.undone[i] = att.undo[i]
      OBVIOUS
    <3> QED BY <2>1, <3>1, <3>2, SameSequence
  <2>3. UNCHANGED <<att.undo, att.undone, att.changed>> /\ att'.result = "rolled-back" /\ pc' = "finish"
    BY <1>5 DEF Undone
  <2> QED BY <2>2, <2>3
<1>6. CASE AllApplied
  <2>1. \A d \in att.changed : Times(d, att.undo) = Committed(d, 9)
    BY <1>6, CommittedAll DEF AllApplied
  <2>2. UNCHANGED <<att.undo, att.undone, att.changed>> /\ att'.result = "applied" /\ pc' = "record" /\ att.undone = <<>>
    BY <1>6 DEF AllApplied
  <2> QED BY <2>1, <2>2
<1>7. CASE Crash
  <2>1. att'.undo = <<>> /\ att'.undone = <<>> /\ att'.done = 0 /\ att'.changed = {}
    BY <1>7 DEF Crash, AttemptOf
  <2>2. att'.result \in {"none", "rolled-back"} /\ pc' # "apply"
    BY <1>7 DEF Crash, AttemptOf
  <2>3. \A d : Times(d, <<>>) = 0
    BY TimesType
  <2> QED BY <2>1, <2>2, <2>3
<1>8. ASSUME NEW c \in Clients, CommitHead(c) PROVE StagesCounted'
  BY <1>8 DEF CommitHead
<1>9. CASE Run \/ TakeTrigger \/ StageFails \/ Record \/ SaveLKG \/ Finish
         \/ Fallback \/ FallbackDone
  BY <1>9 DEF Run, TakeTrigger, StageFails, Record, SaveLKG, Finish, Fallback, FallbackDone
<1>10. CASE (\E c \in Clients : NotifyCommit(c)) \/ (\E c \in Clients :
         WaitCheck(c)) \/ (\E c \in Clients : WaitTimeout(c)) \/ (\E d \in
         Toggled, f, s \in BOOLEAN : SetFault(d, f, s)) \/ Forward \/
         ForwardTrigger \/ Resync \/ FaultTrigger
  BY <1>10 DEF NotifyCommit, WaitCheck, WaitTimeout, SetFault, Forward, ForwardTrigger, Resync, FaultTrigger
<1>11. CASE UNCHANGED vars
  BY <1>11 DEF vars
<1> QED BY <1>1, <1>2, <1>3, <1>4, <1>5, <1>6, <1>7, <1>8, <1>9, <1>10, <1>11 DEF Next, Step

\* Nothing runs after boot only when the last good commit was rolled back or not
\* read.
LEMMA TriedStep ==
  ASSUME TypeOK, GitTypes, LoopTypes, Refs, AtStart, LKGGood, FallbackKnown, AttemptFits, NothingYet, FallbackTried, [Next]_vars
  PROVE  FallbackTried'
<1> USE DEF FallbackTried, LoopTypes, loop, git, faultVars, readVars, Enter
<1>1. CASE Read
  BY <1>1 DEF Read, Asked
<1>2. CASE Record
  BY <1>2 DEF Record, AttemptFits
<1>3. CASE Finish
  <2>1. st'.applied = st.applied /\ st'.lkg = st.lkg /\ UNCHANGED <<phase, unread>>
    BY <1>3 DEF Finish
  <2>2. CASE st.applied # 0 \/ st.lkg = 0
    BY <2>1, <2>2
  <2>3. CASE st.applied = 0 /\ st.lkg # 0
    <3>1. att.result \in {"invalid", "rolled-back"}
      BY <1>3, <2>3 DEF Finish, AttemptFits, Results
    <3>2. att.commit = st.lkg => att.result = "rolled-back"
      BY <1>3, <2>3, <3>1 DEF Finish, AttemptFits, LKGGood
    <3>3. att.commit = st.lkg => attempts'[st.lkg] = "rolled-back"
      BY <1>3, <2>3, <3>2 DEF Finish, Rev, Commit
    <3>4. att.commit # st.lkg => attempts'[st.lkg] = attempts[st.lkg]
      BY <1>3 DEF Finish, Rev, Commit
    <3>5. phase = "fallback" => att.commit = st.lkg \/ "lkg" \in unread
      BY <1>3 DEF Finish, AttemptFits, AfterRead, NothingYet
    <3>6. phase = "boot" /\ pc' = "wait" => att.commit = st.lkg
      BY <1>3, <2>3, <3>1 DEF Finish, NeedsFallback
    <3> QED BY <1>3, <2>1, <2>3, <3>3, <3>4, <3>5, <3>6
  <2> QED BY <2>2, <2>3
<1>4. CASE Crash
  BY <1>4 DEF Crash
<1>5. ASSUME NEW c \in Clients, CommitHead(c) PROVE FallbackTried'
  BY <1>5 DEF CommitHead
<1>6. CASE Run \/ TakeTrigger \/ ReadFails \/ ApplyStage \/ StageFails \/
         UndoStage \/ Undone \/ AllApplied \/ SaveLKG \/ Fallback \/
         FallbackDone
  BY <1>6 DEF AtStart, Run, TakeTrigger, ReadFails, ApplyStage, StageFails, UndoStage, Undone, AllApplied, SaveLKG, Fallback, FallbackDone
<1>7. CASE (\E c \in Clients : NotifyCommit(c)) \/ (\E c \in Clients :
         WaitCheck(c)) \/ (\E c \in Clients : WaitTimeout(c)) \/ (\E d \in
         Toggled, f, s \in BOOLEAN : SetFault(d, f, s)) \/ Forward \/
         ForwardTrigger \/ Resync \/ FaultTrigger
  BY <1>7 DEF NotifyCommit, WaitCheck, WaitTimeout, SetFault, Forward, ForwardTrigger, Resync, FaultTrigger
<1>8. CASE UNCHANGED vars
  BY <1>8 DEF vars
<1> QED BY <1>1, <1>2, <1>3, <1>4, <1>5, <1>6, <1>7, <1>8 DEF Next, Step

\* No handler goes to sleep on an answer that is there, or sleeps through one.
LEMMA WaiterStep ==
  ASSUME TypeOK, GitTypes, LoopTypes, NoStuckWaiter, [Next]_vars
  PROVE  NoStuckWaiter'
<1> USE DEF NoStuckWaiter, GitTypes, git, loop, Enter, Publish
<1>1. CASE Crash
  BY <1>1 DEF Crash
<1>2. ASSUME NEW c \in Clients, CommitHead(c) PROVE NoStuckWaiter'
  BY <1>2 DEF CommitHead
<1>3. ASSUME NEW c \in Clients, NotifyCommit(c) PROVE NoStuckWaiter'
  BY <1>3 DEF NotifyCommit
<1>4. ASSUME NEW c \in Clients, WaitCheck(c) PROVE NoStuckWaiter'
  <2>1. CASE Leave(c)
    BY <1>4, <2>1 DEF WaitCheck, Leave
  <2>2. CASE ~Answered(c) /\ wpc' = [wpc EXCEPT ![c] = "blocked"] /\ UNCHANGED wfor
    BY <1>4, <2>2 DEF WaitCheck, Answered
  <2> QED BY <1>4, <2>1, <2>2 DEF WaitCheck
<1>5. ASSUME NEW c \in Clients, WaitTimeout(c) PROVE NoStuckWaiter'
  BY <1>5 DEF WaitTimeout, Leave
<1>6. ASSUME NEW d \in Toggled, NEW f \in BOOLEAN, NEW s \in BOOLEAN, SetFault(d, f, s) PROVE NoStuckWaiter'
  BY <1>6 DEF SetFault
<1>7. CASE Run \/ TakeTrigger \/ ReadFails \/ Read \/ ApplyStage \/
         StageFails \/ UndoStage \/ Undone \/ AllApplied \/ Record \/ SaveLKG
         \/ Finish \/ Fallback \/ FallbackDone
  BY <1>7 DEF Run, TakeTrigger, ReadFails, Read, ApplyStage, StageFails, UndoStage, Undone, AllApplied, Record, SaveLKG, Finish, Fallback, FallbackDone
<1>8. CASE Forward \/ ForwardTrigger \/ Resync \/ FaultTrigger
  BY <1>8 DEF Forward, ForwardTrigger, Resync, FaultTrigger
<1>9. CASE UNCHANGED vars
  BY <1>9 DEF vars
<1> QED BY <1>1, <1>2, <1>3, <1>4, <1>5, <1>6, <1>7, <1>8, <1>9 DEF Next, Step

-----------------------------------------------------------------------------
(* The invariant, and what follows from it *)

\* A daemon that has not started fits the invariant.
LEMMA InitIInv == Init => IInv
<1> SUFFICES ASSUME Init PROVE IInv
  OBVIOUS
<1> USE ReconcilerAssumption
<1>1. /\ commits \in Seq(Configs) /\ Len(commits) = 1
      /\ pc = "start" /\ phase = "boot"
      /\ inbox = FALSE /\ relay = FALSE /\ trigger = FALSE /\ clearing = FALSE
  BY DEF Init
<1>2. att.commit = 0 /\ att.result = "none" /\ att.changed = {} /\ att.done = 0
      /\ att.undo = <<>> /\ att.undone = <<>>
  BY DEF Init, AttemptOf
<1>3. /\ st.state = "starting" /\ st.desired = 0 /\ st.applied = 0 /\ st.lkg = 0
      /\ headAtt.commit = 0 /\ lkgFile = 0
      /\ applied = [d \in Drivers |-> NoHash]
      /\ \A c \in Clients : wfor[c] = 0 /\ wpc[c] = "idle"
  BY DEF Init, NewStatus
<1>4. TypeOK
  <2>1. GitTypes
    BY <1>1 DEF Init, GitTypes, Rev, Commit
  <2>2. FlagTypes
    BY <1>1 DEF FlagTypes
  <2>3. FaultTypes
    BY DEF Init, FaultTypes
  <2>4. LoopTypes
    BY StagesType DEF Init, LoopTypes, Rev, Commit, AttemptOf, NewStatus, States, Results
  <2> QED BY <2>1, <2>2, <2>3, <2>4, TypeParts
<1>5. Refs /\ AtStart /\ FallbackKnown
  BY <1>1, <1>2, <1>3 DEF Refs, AtStart, FallbackKnown
<1>6. AppliedWhole /\ LKGGood
  BY <1>3 DEF AppliedWhole, LKGGood
<1>7. StateFits /\ AttemptFits /\ DriversFit /\ NothingYet
  BY <1>1, <1>2, <1>3 DEF StateFits, AttemptFits, DriversFit, NothingYet, InDoubt, AfterRead
<1>8. QuietInv
  BY <1>1, <1>2, <1>3 DEF QuietInv, RollbackKept, HeadSeen, HeadKept, Published, AfterRead
<1>9. FallbackTried /\ NoStuckWaiter
  BY <1>1, <1>3 DEF FallbackTried, NoStuckWaiter
<1>10. StagesCounted
  <2>1. <<>> \in Seq(Drivers)
    OBVIOUS
  <2>2. \A d : Times(d, <<>>) = 0
    BY <2>1, TimesType
  <2> QED BY <1>1, <1>2, <2>2 DEF StagesCounted
<1> QED BY <1>4, <1>5, <1>6, <1>7, <1>8, <1>9, <1>10 DEF IInv, BaseInv

\* Every step keeps it.
LEMMA StepIInv == IInv /\ [Next]_vars => IInv'
<1> SUFFICES ASSUME IInv, [Next]_vars PROVE IInv'
  OBVIOUS
<1>1. /\ TypeOK /\ Refs /\ AppliedWhole /\ LKGGood
      /\ AtStart /\ StateFits /\ FallbackKnown /\ AttemptFits /\ DriversFit /\ NothingYet
  BY DEF IInv, BaseInv
<1>2. FlagTypes /\ GitTypes /\ FaultTypes /\ LoopTypes
  BY <1>1, TypeParts
<1>3. RollbackKept /\ HeadSeen /\ HeadKept /\ Published /\ FallbackTried /\ StagesCounted /\ NoStuckWaiter
  BY DEF IInv, QuietInv
<1>4. TypeOK'
  <2>1. FlagTypes' /\ GitTypes' /\ FaultTypes'
    BY <1>1, <1>2, FlagsStep, GitStep, FaultStep
  <2>2. LoopTypes'
    BY <1>1, <1>2, LoopStep
  <2> QED BY <2>1, <2>2 DEF TypeOK, FlagTypes, GitTypes, FaultTypes, LoopTypes
<1>5. Refs' /\ AtStart' /\ StateFits'
  BY <1>1, <1>2, RefsStep, StartStep, StateStep
<1>6. FallbackKnown' /\ AttemptFits'
  BY <1>1, <1>2, FallbackStep, AttemptStep
<1>7. DriversFit' /\ NothingYet'
  BY <1>1, <1>2, DriversStep, NothingStep, ReconcilerAssumption
<1>8. AppliedWhole' /\ LKGGood'
  BY <1>1, <1>2, AppliedStep, LKGStep, ReconcilerAssumption
<1>9. BaseInv'
  BY <1>4, <1>5, <1>6, <1>7, <1>8 DEF BaseInv
<1>10. QuietInv'
  BY <1>1, <1>2, <1>3, RollbackStep, HeadStep, HeadKeptStep, PublishedStep DEF QuietInv
<1>11. FallbackTried' /\ StagesCounted' /\ NoStuckWaiter'
  BY <1>1, <1>2, <1>3, TriedStep, CountStep, WaiterStep
<1> QED BY <1>9, <1>10, <1>11 DEF IInv

\* The inductive invariant holds of every run.
THEOREM Invariant == Spec => []IInv
BY InitIInv, StepIInv, PTL DEF Spec

\* The state of the Reconciler keeps to its types.
THEOREM TypeCorrect == Spec => []TypeOK
<1>1. IInv => TypeOK
  BY DEF IInv, BaseInv
<1> QED BY <1>1, Invariant, PTL

\* The drivers hold the sections of one valid commit, which the Status names;
\* "in-sync" is said of the desired commit only (reconcile, boot).
THEOREM AppliedAsAWhole == Spec => []AppliedWhole
<1>1. IInv => AppliedWhole
  BY DEF IInv, BaseInv
<1> QED BY <1>1, Invariant, PTL

\* The last known good commit, in memory and on disk, across restarts and a
\* file cut while it was written, was valid (reconcile step 5, New).
THEOREM LastKnownGood == Spec => []LKGGood
<1>1. IInv => LKGGood
  BY DEF IInv, BaseInv
<1> QED BY <1>1, Invariant, PTL

\* No handler sleeps through the answer it waits for (Wait, publish).
THEOREM NoSleepThroughAnswer == Spec => []NoStuckWaiter
<1>1. IInv => NoStuckWaiter
  BY DEF IInv
<1> QED BY <1>1, Invariant, PTL

\* When the loop sleeps and nothing is on its way to wake it, the attempt that
\* is remembered was made of HEAD and published.
LEMMA QuietAttempt ==
  ASSUME IInv, Quiet, "HEAD" \notin unread
  PROVE  /\ st.desired = HEAD /\ attempts[HEAD] # "none" /\ HEAD # 0
         /\ phase # "fallback" => att.commit = HEAD
<1> USE DEF IInv, BaseInv, QuietInv
<1>1. pc = "wait" /\ ~Wake /\ HEAD \in Commit /\ HEAD # 0
  BY ReconcilerAssumption DEF Quiet, Pending, Wake, TypeOK, HEAD, Commit
<1>2. CASE phase = "fallback"
  <2>1. headAtt.commit = HEAD
    BY <1>1, <1>2 DEF HeadSeen, OfHead
  <2> QED BY <1>1, <1>2, <2>1 DEF HeadKept
<1>3. CASE phase # "fallback"
  <2>1. att.commit = HEAD
    BY <1>1, <1>3 DEF HeadSeen, OfHead, AfterRead, TypeOK
  <2>2. attempts[HEAD] # "none"
    BY <1>1, <2>1 DEF Published
  <2>3. st.desired = HEAD
    BY <1>1, <1>3, <2>1 DEF AttemptFits, AfterRead
  <2> QED BY <1>1, <2>1, <2>2, <2>3
<1> QED BY <1>2, <1>3

\* And if HEAD is valid and no driver is made to fail, it is what runs.
LEMMA QuietGood ==
  ASSUME IInv, Quiet, "HEAD" \notin unread, Good(HEAD), fail = {}
  PROVE  st.state = "in-sync" /\ st.applied = HEAD
<1> USE DEF IInv, BaseInv, QuietInv
<1>1. pc = "wait" /\ ~StillFailing
  BY DEF Quiet, Pending, StillFailing
<1>2. HEAD # 0 /\ st.desired = HEAD /\ (phase # "fallback" => att.commit = HEAD)
  BY <1>1, QuietAttempt
<1>3. phase # "fallback"
  <2>1. phase = "fallback" => OfHead(headAtt)
    BY DEF HeadSeen, Quiet, Pending, Wake
  <2>2. phase = "fallback" => headAtt.commit = HEAD /\ headAtt.result \in {"invalid", "rolled-back"}
    BY <1>1, <2>1 DEF OfHead, HeadKept
  <2> QED BY <1>1, <1>2, <2>2 DEF RollbackKept, HeadKept
<1>4. att.result \in {"applied", "no-op"}
  <2>1. att.result \in Results /\ att.result # "none"
    BY <1>1 DEF TypeOK, AttemptFits
  <2>2. att.result # "invalid"
    BY <1>1, <1>2, <1>3 DEF AttemptFits
  <2>3. att.result # "rolled-back"
    BY <1>1, <1>2, <1>3 DEF RollbackKept
  <2> QED BY <2>1, <2>2, <2>3 DEF Results
<1>5. st.state = "in-sync"
  BY <1>1, <1>3, <1>4 DEF Published
<1> QED BY <1>1, <1>2, <1>3, <1>4, <1>5 DEF AttemptFits

\* A HEAD that git failed to read shows in the state.
LEMMA QuietUnread ==
  ASSUME IInv, Quiet, "HEAD" \in unread
  PROVE  st.state \in {"failed", "degraded"}
<1> USE DEF IInv, BaseInv, QuietInv
<1>1. pc = "wait" /\ ~Wake
  BY DEF Quiet, Pending, Wake
<1>2. phase # "fallback" => att.commit = 0
  BY <1>1 DEF HeadSeen, OfHead, AfterRead, TypeOK
<1>3. st.state # "in-sync"
  BY <1>1, <1>2 DEF Published, AttemptFits
<1> QED BY <1>1, <1>3 DEF StateFits

\* No wake-up is lost between the notifications, the forwarder, the trigger
\* and boot: a loop that sleeps has settled HEAD, or failed to read it and says
\* so (Trigger, notify, SetFault).
THEOREM NoWakeUpLost == Spec => []QuietMeansSettled
<1>1. IInv => QuietMeansSettled
  BY QuietAttempt, QuietGood, QuietUnread DEF QuietMeansSettled
<1> QED BY <1>1, Invariant, PTL

\* After boot something runs, unless there was no good commit, git failed to
\* read it or a driver failed on it (boot, R-033.1).
THEOREM BootTriesEverything == Spec => []BootRunsSomething
<1>1. IInv => BootRunsSomething
  BY DEF IInv, FallbackTried, BootRunsSomething
<1> QED BY <1>1, Invariant, PTL

\* Every driver has committed all its stages or undone those it committed, when
\* an attempt is over (apply).
THEOREM TransactionWhole == Spec => []AllOrNothing
<1>1. IInv => AllOrNothing
  <2> SUFFICES ASSUME IInv, pc \in {"fallback", "wait"}, att.commit # 0, NEW d \in Drivers
               PROVE  Times(d, att.undo) - Times(d, att.undone) =
                        IF att.result = "applied" /\ d \in att.changed
                          THEN Cardinality({i \in DOMAIN AllStages : AllStages[i] = Stage(d, "commit")})
                          ELSE 0
    BY DEF AllOrNothing
  <2>1. StagesCounted /\ TypeOK /\ att.result \in Results /\ att.result # "none"
    BY DEF IInv, BaseInv, TypeOK, AttemptFits
  <2>2. Times(d, att.undo) \in Nat /\ Times(d, <<>>) = 0
    BY <2>1, TimesType DEF TypeOK
  <2>3. CASE att.result = "applied"
    <3>1. att.undone = <<>>
      BY <2>1, <2>3 DEF StagesCounted
    <3>2. CASE d \in att.changed
      BY <2>1, <2>2, <2>3, <3>1, <3>2, StagesType DEF StagesCounted, Committed
    <3>3. CASE d \notin att.changed
      BY <2>1, <2>2, <2>3, <3>1, <3>3 DEF StagesCounted
    <3> QED BY <3>2, <3>3
  <2>4. CASE att.result # "applied"
    <3>1. att.undone = att.undo
      BY <2>1, <2>4 DEF StagesCounted, Results
    <3> QED BY <2>2, <2>4, <3>1
  <2> QED BY <2>3, <2>4
<1> QED BY <1>1, Invariant, PTL

\* "running" is said only of an appliance whose drivers hold one valid commit,
\* and at rest that commit is HEAD (Health, R-032).
THEOREM HealthIsTruthful == Spec => []HealthyMeansRunning
<1>1. IInv => HealthyMeansRunning
  <2> SUFFICES ASSUME IInv, Health = "running" PROVE
        /\ st.applied # 0 /\ Good(st.applied) /\ applied = Section[commits[st.applied]]
        /\ Quiet => st.applied = HEAD
    BY DEF HealthyMeansRunning
  <2> USE DEF IInv, BaseInv, QuietInv
  <2>1. st.state \notin {"failed", "degraded"} /\ DriverHealth("dns") = "running"
    BY DEF Health, ReconcilerHealth, Drivers
  <2>2. applied["dns"] # NoHash
    BY <2>1 DEF DriverHealth, DriverStatus
  <2>3. st.applied # 0
    BY <2>2 DEF AppliedWhole, Drivers
  <2>4. Good(st.applied) /\ applied = Section[commits[st.applied]]
    BY <2>3 DEF AppliedWhole
  <2>5. ASSUME Quiet PROVE st.applied = HEAD
    <3>1. pc = "wait" /\ ~Wake
      BY <2>5 DEF Quiet, Pending, Wake
    <3>2. st.state = "in-sync"
      BY <2>1, <3>1 DEF StateFits
    <3>3. phase # "fallback" /\ att.result \in {"applied", "no-op"}
      BY <3>1, <3>2 DEF Published
    <3>4. OfHead(att)
      BY <3>1, <3>3 DEF HeadSeen, AfterRead, TypeOK
    <3>5. att.commit = HEAD /\ att.commit # 0
      BY <3>1, <3>3, <3>4 DEF OfHead, AttemptFits
    <3> QED BY <3>1, <3>3, <3>5 DEF AttemptFits
  <2> QED BY <2>3, <2>4, <2>5
<1> QED BY <1>1, Invariant, PTL
=============================================================================
