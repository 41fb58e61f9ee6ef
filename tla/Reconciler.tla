------------------------------- MODULE Reconciler -------------------------------
(***************************************************************************)
(* The Reconciler (internal/reconciler/reconciler.go): a level-triggered    *)
(* loop that reads HEAD, validates and compiles it, and applies what        *)
(* changed to four drivers as one transaction.  Around it: the commit       *)
(* notifications that wake it, the boot fallback to the last known good     *)
(* commit, fault injection, and the API handlers that wait for a commit to  *)
(* be reconciled.                                                           *)
(*                                                                          *)
(* A commit is its number in the history, 0 stands for "none" (the code's   *)
(* empty string).  What matters of a configuration is whether it can be     *)
(* read, whether it is valid, and the section hash of each driver.          *)
(***************************************************************************)
EXTENDS Naturals, Sequences, FiniteSets

CONSTANTS Configs,      \* what a commit can hold
          Unreadable,   \* those Read always fails on
          Invalid,      \* those Validate finds an error in
          Hashes,       \* the section hashes
          Section,      \* compile: config -> driver -> hash
          Clients,      \* API handlers that commit and wait
          Toggled,      \* the drivers whose faults are set and cleared
          MaxCommits,   \* bound on the history
          MaxFaults,    \* bound on calls of SetFault
          MaxReadErrors, \* bound on the reads of a readable commit that fail
          MaxCrashes    \* bound on restarts

NoHash == "none"        \* nothing applied yet
Drivers == {"network", "dataplane", "dhcp", "dns"}

ASSUME ReconcilerAssumption ==
  /\ Unreadable \cup Invalid \subseteq Configs
  /\ NoHash \notin Hashes
  /\ Section \in [Configs -> [Drivers -> Hashes]]
  /\ Toggled \subseteq Drivers
  /\ MaxCommits \in Nat \ {0}
  /\ MaxFaults \in Nat /\ MaxReadErrors \in Nat /\ MaxCrashes \in Nat

VARIABLES commits,      \* the history in Git
          inbox,        \* a notification is in the subscription channel (capacity 1)
          relay,        \* the forwarder has taken one and not called Trigger yet
          trigger,      \* the trigger channel (capacity 1) is full
          pc,           \* where the Run goroutine is
          phase,        \* who called reconcile: "boot", "fallback" or "loop"
          att,          \* the Attempt being built, or the last one
          headAtt,      \* boot's copy of the attempt that failed
          st,           \* the Status
          applied,      \* driver -> applied section hash
          attempts,     \* commit -> the result of its last attempt
          fail,         \* drivers whose next commits fail
          stopped,      \* services reported as stopped
          clearing,     \* SetFault has cleared a fault and not called Trigger yet
          lkgFile,      \* the last-known-good file
          wpc,          \* client -> where its handler is
          wfor,         \* client -> the commit it made
          faults,       \* calls of SetFault so far
          unread,       \* of HEAD and the fallback: those the last read of failed
          readErrors,   \* reads of a readable commit that failed so far
          crashes       \* restarts so far

git == <<commits, inbox, wpc, wfor>>
wake == <<relay, trigger, clearing>>
readVars == <<unread, readErrors>>
faultVars == <<fail, stopped, faults, readVars>>
loop == <<pc, phase, att, headAtt, st, applied, attempts>>
vars == <<git, wake, faultVars, loop, lkgFile, crashes>>

Commit == 1..MaxCommits
Rev == 0..MaxCommits
HEAD == Len(commits)
States == {"starting", "reconciling", "in-sync", "failed", "degraded"}
Results == {"none", "applied", "no-op", "rolled-back", "invalid"}

\* The transaction across the drivers: pre-flight, then the order of commits.
Stage(d, o) == [driver |-> d, op |-> o]
AllStages ==
  << Stage("network", "prepare"), Stage("dhcp", "prepare"), Stage("dns", "prepare"),
     Stage("network", "commit"),                             \* additive
     Stage("dataplane", "prepare"), Stage("dataplane", "commit"),
     Stage("dhcp", "commit"), Stage("dns", "commit"),
     Stage("network", "commit") >>                           \* removals
Stages(changed) == {i \in DOMAIN AllStages : AllStages[i].driver \in changed}

AttemptOf(c, res, changed) ==
  [commit |-> c, result |-> res, changed |-> changed, done |-> 0, undo |-> <<>>, undone |-> <<>>]

TypeOK ==
  /\ commits \in Seq(Configs) /\ Len(commits) \in Commit
  /\ inbox \in BOOLEAN /\ relay \in BOOLEAN /\ trigger \in BOOLEAN /\ clearing \in BOOLEAN
  /\ pc \in {"start", "read", "apply", "undo", "record", "save", "finish", "fallback", "wait"}
  /\ phase \in {"boot", "fallback", "loop"}
  /\ att \in [commit : Rev, result : Results, changed : SUBSET Drivers, done : 0..Len(AllStages),
              undo : Seq(Drivers), undone : Seq(Drivers)]
  /\ headAtt \in [commit : Rev, result : Results]
  /\ st \in [state : States, desired : Rev, applied : Rev, lkg : Rev,
             lastCommit : Rev, lastResult : Results]
  /\ applied \in [Drivers -> Hashes \cup {NoHash}]
  /\ attempts \in [Commit -> Results]
  /\ fail \in SUBSET Drivers /\ stopped \in SUBSET {"dhcp", "dns"}
  /\ lkgFile \in Rev
  /\ wpc \in [Clients -> {"idle", "committed", "check", "blocked"}]
  /\ wfor \in [Clients -> Rev]
  /\ faults \in 0..MaxFaults /\ crashes \in 0..MaxCrashes
  /\ unread \in SUBSET {"HEAD", "lkg"} /\ readErrors \in 0..MaxReadErrors

\* Mutant: the initial state is forgotten.
Mutant_NewStatus(lkg) ==
  [state |-> "", desired |-> 0, applied |-> 0, lkg |-> lkg,
   lastCommit |-> 0, lastResult |-> "none"]

\* New: nothing applied; the last known good commit comes from its file.
NewStatus(lkg) ==
  [state |-> "starting", desired |-> 0, applied |-> 0, lkg |-> lkg,
   lastCommit |-> 0, lastResult |-> "none"]

\* The factory commit is there: Open has returned.
Init ==
  /\ \E g \in Configs \ (Unreadable \cup Invalid) : commits = <<g>>
  /\ inbox = FALSE /\ relay = FALSE /\ trigger = FALSE /\ clearing = FALSE
  /\ pc = "start" /\ phase = "boot"
  /\ att = AttemptOf(0, "none", {})
  /\ headAtt = [commit |-> 0, result |-> "none"]
  /\ st = NewStatus(0)
  /\ applied = [d \in Drivers |-> NoHash]
  /\ attempts = [c \in Commit |-> "none"]
  /\ fail = {} /\ stopped = {}
  /\ lkgFile = 0
  /\ wpc = [c \in Clients |-> "idle"]
  /\ wfor = [c \in Clients |-> 0]
  /\ faults = 0 /\ crashes = 0
  /\ unread = {} /\ readErrors = 0

-----------------------------------------------------------------------------
(* The store and the handlers that write: git commit, notify, Wait *)

\* One writer at a time is between git commit and notify (Store.mu).
Committing == \E c \in Clients : wpc[c] = "committed"

\* A handler commits: HEAD moves before anyone is notified.
CommitHead(c) ==
  /\ wpc[c] = "idle"
  /\ ~Committing
  /\ Len(commits) < MaxCommits
  /\ \E g \in Configs : commits' = Append(commits, g)
  /\ wpc' = [wpc EXCEPT ![c] = "committed"]
  /\ wfor' = [wfor EXCEPT ![c] = Len(commits) + 1]
  /\ unread' = unread \ {"HEAD"}
  /\ UNCHANGED <<inbox, wake, fail, stopped, faults, readErrors, loop, lkgFile, crashes>>

\* Mutant: the subscription is made after boot.
Mutant_Subscribed == pc = "wait" \/ phase = "loop"

\* Before Subscribe there is no channel to send to.
Subscribed == pc # "start"

\* notify: a send that does not block, into a channel of capacity 1.
NotifyCommit(c) ==
  /\ wpc[c] = "committed"
  /\ inbox' = (inbox \/ Subscribed)
  /\ wpc' = [wpc EXCEPT ![c] = "check"]
  /\ UNCHANGED <<commits, wfor, wake, faultVars, loop, lkgFile, crashes>>

\* Wait: under the mutex, the attempt of the commit is there, or the handler
\* goes to sleep on the channel that the next publish closes.
Answered(c) == attempts[wfor[c]] # "none"

Leave(c) ==
  /\ wpc' = [wpc EXCEPT ![c] = "idle"]
  /\ wfor' = [wfor EXCEPT ![c] = 0]

WaitCheck(c) ==
  /\ wpc[c] = "check"
  /\ \/ Answered(c) /\ Leave(c)
     \/ /\ ~Answered(c)
        /\ wpc' = [wpc EXCEPT ![c] = "blocked"]
        /\ UNCHANGED wfor
  /\ UNCHANGED <<commits, inbox, wake, faultVars, loop, lkgFile, crashes>>

\* The answer is "pending".
WaitTimeout(c) ==
  /\ wpc[c] = "blocked"
  /\ Leave(c)
  /\ UNCHANGED <<commits, inbox, wake, faultVars, loop, lkgFile, crashes>>

\* Mutant: the channel is replaced and not closed.
Mutant_Publish == UNCHANGED wpc

\* publish closes the channel everyone sleeps on.
Publish == wpc' = [c \in Clients |-> IF wpc[c] = "blocked" THEN "check" ELSE wpc[c]]

-----------------------------------------------------------------------------
(* What wakes the loop *)

\* The forwarder goroutine: take a notification, then call Trigger.
Forward ==
  /\ inbox /\ ~relay /\ Subscribed
  /\ inbox' = FALSE
  /\ relay' = TRUE
  /\ UNCHANGED <<commits, wpc, wfor, trigger, clearing, faultVars, loop, lkgFile, crashes>>

\* Trigger: a send that does not block.
ForwardTrigger ==
  /\ relay
  /\ relay' = FALSE
  /\ trigger' = TRUE
  /\ UNCHANGED <<git, clearing, faultVars, loop, lkgFile, crashes>>

\* The periodic resync, every five minutes.
Resync ==
  /\ Subscribed
  /\ trigger' = TRUE
  /\ UNCHANGED <<git, relay, clearing, faultVars, loop, lkgFile, crashes>>

\* Mutant: clearing a fault is no reason to reconcile.
Mutant_Clears(f) == FALSE

\* Clearing a fault is a change of a runtime fact: reconcile again.
Clears(f) == ~f

\* SetFault changes the flags and publishes; if it cleared the fault, it calls
\* Trigger once the mutex is released.
SetFault(d, f, s) ==
  /\ faults < MaxFaults
  /\ ~clearing
  /\ fail' = IF f THEN fail \cup {d} ELSE fail \ {d}
  /\ stopped' = IF d \notin {"dhcp", "dns"} THEN stopped
                ELSE IF s THEN stopped \cup {d} ELSE stopped \ {d}
  /\ clearing' = Clears(f)
  /\ faults' = faults + 1
  /\ Publish
  /\ UNCHANGED <<commits, inbox, wfor, relay, trigger, readVars, loop, lkgFile, crashes>>

FaultTrigger ==
  /\ clearing
  /\ clearing' = FALSE
  /\ trigger' = TRUE
  /\ UNCHANGED <<git, relay, faultVars, loop, lkgFile, crashes>>

-----------------------------------------------------------------------------
(* reconcile *)

\* Enter reconcile(rev): publish the state "reconciling".
Enter(ph) ==
  /\ pc' = "read"
  /\ phase' = ph
  /\ st' = [st EXCEPT !.state = "reconciling"]
  /\ Publish

\* Run: subscribe, start the forwarder and the resync, then boot.
Run ==
  /\ pc = "start"
  /\ Enter("boot")
  /\ UNCHANGED <<commits, inbox, wfor, wake, faultVars, att, headAtt, applied,
                 attempts, lkgFile, crashes>>

\* The loop takes a trigger.
TakeTrigger ==
  /\ pc = "wait"
  /\ trigger
  /\ trigger' = FALSE
  /\ Enter("loop")
  /\ UNCHANGED <<commits, inbox, wfor, relay, clearing, faultVars, att, headAtt,
                 applied, attempts, lkgFile, crashes>>

\* The commit reconcile works on: HEAD, or the last known good in the fallback.
Wanted == IF phase = "fallback" THEN st.lkg ELSE HEAD

\* Diff: the drivers whose section is not the applied one.
Changed(g) == {d \in Drivers : Section[g][d] # applied[d]}

\* The revision Read is asked for.
Asked == IF phase = "fallback" THEN "lkg" ELSE "HEAD"

\* Read fails, on a commit it can never read or because one of the git commands
\* failed this time: no commit is named and the desired commit stays.
ReadFails ==
  /\ pc = "read"
  /\ \/ commits[Wanted] \in Unreadable /\ UNCHANGED readErrors
     \/ readErrors < MaxReadErrors /\ readErrors' = readErrors + 1
  /\ unread' = unread \cup {Asked}
  /\ att' = AttemptOf(0, "rolled-back", {})
  /\ pc' = "finish"
  /\ UNCHANGED <<git, wake, fail, stopped, faults, phase, headAtt, st, applied,
                 attempts, lkgFile, crashes>>

\* Read, then Validate, Compile and Diff of the tree in hand.  Only HEAD
\* becomes the desired commit.
Read ==
  /\ pc = "read"
  /\ LET w == Wanted
         g == commits[w]
     IN  /\ g \notin Unreadable
         /\ st' = IF phase = "fallback" THEN st ELSE [st EXCEPT !.desired = w]
         /\ \/ /\ g \in Invalid
               /\ att' = AttemptOf(w, "invalid", {})
               /\ pc' = "finish"
            \/ /\ g \notin Invalid
               /\ Changed(g) = {}
               /\ att' = AttemptOf(w, "no-op", {})
               /\ pc' = "record"
            \/ /\ g \notin Invalid
               /\ Changed(g) # {}
               /\ att' = AttemptOf(w, "none", Changed(g))
               /\ pc' = "apply"
  /\ unread' = unread \ {Asked}
  /\ UNCHANGED <<git, wake, fail, stopped, faults, readErrors, phase, headAtt, applied,
                 attempts, lkgFile, crashes>>

\* The stages still to come, by their place; done is the place of the last one.
Left == {i \in Stages(att.changed) : i > att.done}
NextPlace == CHOOSE i \in Left : \A j \in Left : i <= j
NextStage == AllStages[NextPlace]

\* The fault flag is read once per stage, under the mutex.
Fails(s) == s.op = "commit" /\ s.driver \in fail

\* One stage succeeds; a commit is remembered, to be undone on a failure.
ApplyStage ==
  /\ pc = "apply"
  /\ Left # {}
  /\ ~Fails(NextStage)
  /\ att' = [att EXCEPT !.done = NextPlace,
                        !.undo = IF NextStage.op = "commit"
                                   THEN <<NextStage.driver>> \o @ ELSE @]
  /\ UNCHANGED <<git, wake, faultVars, pc, phase, headAtt, st, applied, attempts, lkgFile, crashes>>

StageFails ==
  /\ pc = "apply"
  /\ Left # {}
  /\ Fails(NextStage)
  /\ pc' = "undo"
  /\ UNCHANGED <<git, wake, faultVars, phase, att, headAtt, st, applied, attempts, lkgFile, crashes>>

\* Mutant: the rollback stops before the first committed stage.
Mutant_MoreToUndo == Len(att.undone) + 1 < Len(att.undo)

MoreToUndo == Len(att.undone) < Len(att.undo)

\* The committed stages are rolled back, the last one first.
UndoStage ==
  /\ pc = "undo"
  /\ MoreToUndo
  /\ att' = [att EXCEPT !.undone = Append(@, att.undo[Len(@) + 1])]
  /\ UNCHANGED <<git, wake, faultVars, pc, phase, headAtt, st, applied, attempts, lkgFile, crashes>>

Undone ==
  /\ pc = "undo"
  /\ ~MoreToUndo
  /\ att' = [att EXCEPT !.result = "rolled-back"]
  /\ pc' = "finish"
  /\ UNCHANGED <<git, wake, faultVars, phase, headAtt, st, applied, attempts, lkgFile, crashes>>

AllApplied ==
  /\ pc = "apply"
  /\ Left = {}
  /\ att' = [att EXCEPT !.result = "applied"]
  /\ pc' = "record"
  /\ UNCHANGED <<git, wake, faultVars, phase, headAtt, st, applied, attempts, lkgFile, crashes>>

\* Applied or nothing to do: the commit is what runs, and it is good.
Record ==
  /\ pc = "record"
  /\ applied' = [d \in Drivers |-> IF d \in att.changed
                                     THEN Section[commits[att.commit]][d] ELSE applied[d]]
  /\ st' = [st EXCEPT !.applied = att.commit, !.lkg = att.commit]
  /\ pc' = "save"
  /\ UNCHANGED <<git, wake, faultVars, phase, att, headAtt, attempts, lkgFile, crashes>>

\* Mutant: the desired commit is written, not the one applied.
Mutant_NewLKG == st.desired

NewLKG == att.commit

SaveLKG ==
  /\ pc = "save"
  /\ lkgFile' = NewLKG
  /\ pc' = "finish"
  /\ UNCHANGED <<git, wake, faultVars, phase, att, headAtt, st, applied, attempts, crashes>>

\* Mutant: applied means in sync, the fallback commit too.
Mutant_FinalState ==
  CASE att.result = "invalid" -> "failed"
    [] att.result = "rolled-back" -> IF att.commit = 0 THEN "degraded" ELSE "failed"
    [] OTHER -> "in-sync"

\* The state reconcile ends in: the fallback commit applied is not in sync.
FinalState ==
  CASE att.result = "invalid" -> "failed"
    [] att.result = "rolled-back" -> IF att.commit = 0 THEN "degraded" ELSE "failed"
    [] OTHER -> IF st.desired = att.commit THEN "in-sync" ELSE "failed"

\* Mutant: only an invalid HEAD makes boot fall back.
Mutant_NeedsFallback ==
  phase = "boot" /\ att.result = "invalid" /\ st.lkg # 0 /\ st.lkg # att.commit

\* finish, then back to the caller.  boot falls back when HEAD is not running
\* and another commit is known good.
NeedsFallback ==
  /\ phase = "boot"
  /\ att.result \notin {"applied", "no-op"}
  /\ st.lkg # 0
  /\ st.lkg # att.commit

Finish ==
  /\ pc = "finish"
  /\ st' = [st EXCEPT !.state = FinalState,
                      !.lastCommit = att.commit, !.lastResult = att.result]
  /\ attempts' = IF att.commit = 0 THEN attempts
                 ELSE [attempts EXCEPT ![att.commit] = att.result]
  /\ Publish
  /\ pc' = IF NeedsFallback \/ phase = "fallback" THEN "fallback" ELSE "wait"
  /\ UNCHANGED <<commits, inbox, wfor, wake, faultVars, phase, att, headAtt,
                 applied, lkgFile, crashes>>

\* boot keeps the failed attempt and reconciles the last known good commit.
Fallback ==
  /\ pc = "fallback"
  /\ phase = "boot"
  /\ headAtt' = [commit |-> att.commit, result |-> att.result]
  /\ Enter("fallback")
  /\ UNCHANGED <<commits, inbox, wfor, wake, faultVars, att, applied, attempts,
                 lkgFile, crashes>>

\* If that worked, the status still tells about HEAD.
FallbackDone ==
  /\ pc = "fallback"
  /\ phase = "fallback"
  /\ st' = IF att.result = "applied"
             THEN [st EXCEPT !.state = "failed", !.lastCommit = headAtt.commit,
                             !.lastResult = headAtt.result]
             ELSE st
  /\ Publish
  /\ pc' = "wait"
  /\ UNCHANGED <<commits, inbox, wfor, wake, faultVars, phase, att, headAtt, applied,
                 attempts, lkgFile, crashes>>

Step ==
  \/ Run \/ TakeTrigger \/ ReadFails \/ Read \/ ApplyStage \/ StageFails \/ UndoStage
  \/ Undone \/ AllApplied \/ Record \/ SaveLKG \/ Finish \/ Fallback \/ FallbackDone

-----------------------------------------------------------------------------
\* The daemon is killed and started again.  The history and the file of the
\* last known good commit survive; a file cut while it was written is empty.
Crash ==
  /\ crashes < MaxCrashes
  /\ crashes' = crashes + 1
  /\ \E kept \in IF pc = "save" THEN {lkgFile, 0, NewLKG} ELSE {lkgFile} :
       lkgFile' = kept /\ st' = NewStatus(kept)
  /\ pc' = "start" /\ phase' = "boot"
  /\ att' = AttemptOf(0, "none", {})
  /\ headAtt' = [commit |-> 0, result |-> "none"]
  /\ applied' = [d \in Drivers |-> NoHash]
  /\ attempts' = [c \in Commit |-> "none"]
  /\ inbox' = FALSE /\ relay' = FALSE /\ trigger' = FALSE /\ clearing' = FALSE
  /\ fail' = {} /\ stopped' = {}
  /\ wpc' = [c \in Clients |-> "idle"]
  /\ wfor' = [c \in Clients |-> 0]
  /\ unread' = {}
  /\ UNCHANGED <<commits, faults, readErrors>>

Next ==
  \/ Step
  \/ Forward \/ ForwardTrigger \/ Resync \/ FaultTrigger \/ Crash
  \/ \E c \in Clients : CommitHead(c) \/ NotifyCommit(c) \/ WaitCheck(c) \/ WaitTimeout(c)
  \/ \E d \in Toggled, f, s \in BOOLEAN : SetFault(d, f, s)

\* Goroutines that can run do run.  Nothing is assumed of clients, of the
\* resync, of timeouts or of faults; a read may fail or not.
Fairness ==
  /\ WF_vars(Step)
  /\ WF_vars(Forward) /\ WF_vars(ForwardTrigger) /\ WF_vars(FaultTrigger)
  /\ \A c \in Clients : WF_vars(NotifyCommit(c)) /\ WF_vars(WaitCheck(c))

Spec == Init /\ [][Next]_vars
FairSpec == Spec /\ Fairness
-----------------------------------------------------------------------------
(* Properties *)

Good(c) == commits[c] \notin Unreadable \cup Invalid

\* Something will still make the loop run again.
Pending == inbox \/ relay \/ trigger \/ clearing \/ Committing
Quiet == pc = "wait" /\ ~Pending

\* No wake-up is lost (Trigger, notify, Subscribe, SetFault): when the loop
\* sleeps and nothing is on its way to wake it, it has tried the current HEAD,
\* and runs it if it is valid and no driver is made to fail.  The one exception
\* is a HEAD that git failed to read: nothing but the next trigger reads it
\* again, but then the Status says that it could not be applied.
QuietMeansSettled ==
  Quiet =>
    IF "HEAD" \in unread
      THEN st.state \in {"failed", "degraded"}
      ELSE /\ st.desired = HEAD
           /\ attempts[HEAD] # "none"
           /\ Good(HEAD) /\ fail = {} => st.state = "in-sync" /\ st.applied = HEAD

\* The drivers hold the sections of one valid commit, never of two, and that
\* commit is the one the Status calls applied; "in-sync" is said only of the
\* desired commit (reconcile, boot).
AppliedWhole ==
  /\ st.applied # 0 => Good(st.applied) /\ applied = Section[commits[st.applied]]
  /\ st.applied = 0 => \A d \in Drivers : applied[d] = NoHash
  /\ st.state = "in-sync" => st.applied # 0 /\ st.applied = st.desired

Times(d, s) == Cardinality({i \in DOMAIN s : s[i] = d})

\* A transaction is all or nothing: when an attempt is over, each driver has
\* committed every one of its stages or undone every one it had committed
\* (apply).
AllOrNothing ==
  pc \in {"fallback", "wait"} /\ att.commit # 0 =>
    \A d \in Drivers :
      Times(d, att.undo) - Times(d, att.undone) =
        IF att.result = "applied" /\ d \in att.changed
          THEN Cardinality({i \in DOMAIN AllStages : AllStages[i] = Stage(d, "commit")})
          ELSE 0

\* After boot something runs, unless there was no good commit to fall back to,
\* git failed to read that one too, or a driver failed on it (boot, R-033.1).
BootRunsSomething ==
  pc = "wait" /\ st.applied = 0 =>
    st.lkg = 0 \/ attempts[st.lkg] = "rolled-back" \/ "lkg" \in unread

\* The last known good commit, in memory and on disk, was valid and is not
\* newer than what was applied (reconcile step 5, New).
LKGGood ==
  /\ st.lkg # 0 => Good(st.lkg)
  /\ lkgFile # 0 => Good(lkgFile)
  /\ st.applied # 0 => st.lkg = st.applied

\* A handler does not sleep through the answer it waits for (Wait, publish).
NoStuckWaiter ==
  \A c \in Clients : wpc[c] = "blocked" => attempts[wfor[c]] = "none"

\* Whatever is HEAD is attempted before long, replaced by a newer HEAD that is,
\* or read in vain (Run); as long as the resync ticks, a HEAD that git failed to
\* read is attempted too.
HeadAttempted ==
  /\ []<>(attempts[HEAD] # "none" \/ "HEAD" \in unread)
  /\ WF_vars(Resync) => []<>(attempts[HEAD] # "none" \/ commits[HEAD] \in Unreadable)

\* reconciler.go:211 says of Wait: "blocks until the commit has been
\* reconciled, or a newer commit superseded it".
SupersededReturns ==
  \A c \in Clients : wpc[c] = "blocked" =>
    \A k \in Commit : k > wfor[c] => attempts[k] = "none"
=============================================================================
