--------------------------- MODULE ConfigStore_proofs ---------------------------
(***************************************************************************)
(* Proofs about the Config Manager, for any files, contents, clients,       *)
(* validator and bounds.                                                     *)
(***************************************************************************)
EXTENDS ConfigStore, TLAPS

-----------------------------------------------------------------------------
(* Facts about the requests *)

\* A request to update names a file, content, tree and base of the right kind.
LEMMA UpdateFields ==
  ASSUME NEW n \in Nat, NEW r \in Updates(n)
  PROVE  /\ r.op \in {"create", "update", "user", "delete", "import"}
         /\ r.op \in {"create", "update", "user"} => r.file \in Files /\ r.content \in Contents
         /\ r.op = "delete" => r.file \in Files
         /\ r.op = "import" => r.tree \in Trees
         /\ r.base \in Nat
<1> USE ConfigAssumption
<1>1. CASE r \in Edits(n)
  BY <1>1 DEF Edits
<1>2. CASE r \in Deletes(n)
  BY <1>2 DEF Deletes
<1>3. CASE r \in UserEdits(n)
  BY <1>3 DEF UserEdits
<1>4. CASE r \in ImportRequests(n)
  BY <1>4 DEF ImportRequests
<1> QED BY <1>1, <1>2, <1>3, <1>4 DEF Updates

\* A longer history only adds requests: there are more revisions to name.
LEMMA UpdatesGrow ==
  ASSUME NEW n \in Nat, NEW m \in Nat, n <= m
  PROVE  Updates(n) \subseteq Updates(m) /\ Reverts(n) \subseteq Reverts(m)
<1>1. Edits(n) \subseteq Edits(m)
  BY DEF Edits
<1>2. Deletes(n) \subseteq Deletes(m)
  BY DEF Deletes
<1>3. UserEdits(n) \subseteq UserEdits(m)
  BY DEF UserEdits
<1>4. ImportRequests(n) \subseteq ImportRequests(m)
  BY DEF ImportRequests
<1>5. Reverts(n) \subseteq Reverts(m)
  BY DEF Reverts
<1> QED BY <1>1, <1>2, <1>3, <1>4, <1>5 DEF Updates

\* An imported tree completed with the users of HEAD is a tree again.
LEMMA ImportTreeType ==
  ASSUME NEW t \in Trees, NEW head \in DiskTrees
  PROVE  ImportTree(t, head) \in DiskTrees
BY ConfigAssumption DEF ImportTree, Trees, DiskTrees, Slots

\* The change a handler returns names files of the repository and gives each of
\* them something a file can hold.
LEMMA ChangesType ==
  ASSUME NEW n \in Nat, NEW r \in Updates(n) \cup {SetupRequest}, NEW head \in DiskTrees
  PROVE  /\ DOMAIN ChangesOf(r, head) \subseteq Files
         /\ \A f \in DOMAIN ChangesOf(r, head) : ChangesOf(r, head)[f] \in Slots
<1>1. CASE r \in Updates(n) /\ r.op \in {"create", "update", "user"}
  BY <1>1, UpdateFields DEF ChangesOf, Slots
<1>2. CASE r \in Updates(n) /\ r.op = "delete"
  BY <1>2, UpdateFields DEF ChangesOf, Slots
<1>3. CASE r \in Updates(n) /\ r.op = "import"
  <2> DEFINE t == ImportTree(r.tree, head)
             D == {g \in Files : head[g] # Absent \/ t[g] # Absent}
  <2>1. ChangesOf(r, head) = [f \in D |-> t[f]]
    BY <1>3 DEF ChangesOf
  <2>2. t \in DiskTrees
    BY <1>3, UpdateFields, ImportTreeType
  <2> QED BY <2>1, <2>2 DEF DiskTrees
<1>4. CASE r = SetupRequest
  BY <1>4, ConfigAssumption DEF ChangesOf, SetupRequest, Trees, Slots
<1> QED BY <1>1, <1>2, <1>3, <1>4, UpdateFields

-----------------------------------------------------------------------------
(* The inductive invariant: one actor at a time is past the lock, and what   *)
(* it decided on stays true because nobody else can commit.                  *)

HeadOf(hist) == IF hist = <<>> THEN EmptyTree ELSE hist[Len(hist)]

\* The request was accepted against the present history.
OnUpdate(a, r, hist) ==
  IF a = Setup THEN hist = <<>> /\ r = SetupRequest
  ELSE hist # <<>> /\ r \in Updates(Len(hist)) /\ Accepted(r, hist)

OnRevert(a, r, hist) ==
  a \in Clients /\ r \in Reverts(Len(hist)) /\ r.rev <= Len(hist)

\* The worktree holds the change, except for the files left to write.
Written(r, hist, w, left) ==
  LET changes == ChangesOf(r, HeadOf(hist))
  IN  \A f \in DOMAIN changes \ left : w[f] = changes[f]

\* The worktree holds every file of the tree to restore.
Restores(r, hist, w) ==
  \A f \in Files : hist[r.rev][f] # Absent => w[f] = hist[r.rev][f]

\* Commit id of the history holds what request r asked for.
Lands(r, hist, id) ==
  /\ id \in 2..Len(hist)
  /\ IF r.op = "revert"
       THEN r.rev \in 1..(id - 1) /\ Restores(r, hist, hist[id])
       ELSE \A f \in DOMAIN ChangesOf(r, hist[id - 1]) :
               hist[id][f] = ChangesOf(r, hist[id - 1])[f]

\* The holder of the lock, step by step.
Worker(a) ==
  /\ pc[a] # "idle" <=> holder = a
  /\ pc[a] \in {"write", "stage", "commit"} => Len(commits) < MaxCommits
  /\ pc[a] = "write" =>
       /\ OnUpdate(a, req[a], commits)
       /\ todo[a] \subseteq DOMAIN ChangesOf(req[a], HeadOf(commits))
       /\ Written(req[a], commits, work, todo[a])
  /\ pc[a] \in {"stage", "commit"} =>
       \/ OnUpdate(a, req[a], commits) /\ Written(req[a], commits, work, {})
       \/ OnRevert(a, req[a], commits) /\ Restores(req[a], commits, work)
  /\ pc[a] = "commit" => index = work /\ work # HeadOf(commits)
  /\ pc[a] = "notify" =>
       IF a = Setup THEN Len(commits) = 1 ELSE Lands(req[a], commits, Len(commits))

StoreInv ==
  /\ \A a \in Actors : Worker(a)
  /\ ~repo => commits = <<>> /\ ~serving /\ holder = Nobody
  /\ answer.result = "saved" => Lands(answer.req, commits, answer.id)

\* HEAD is a tree, the one the invariant speaks about.
LEMMA HeadTreeType ==
  ASSUME TypeOK
  PROVE  HeadTree \in DiskTrees /\ HeadTree = HeadOf(commits)
BY ConfigAssumption DEF TypeOK, HeadTree, HeadOf, EmptyTree, DiskTrees, Slots

\* What is left to write are files of the repository with storable contents.
LEMMA TargetType ==
  ASSUME TypeOK, NEW a \in Actors, OnUpdate(a, req[a], commits)
  PROVE  /\ DOMAIN Target(a) \subseteq Files
         /\ \A f \in DOMAIN Target(a) : Target(a)[f] \in Slots
         /\ Target(a) = ChangesOf(req[a], HeadOf(commits))
<1>1. Len(commits) \in Nat /\ req[a] \in Updates(Len(commits)) \cup {SetupRequest}
  BY DEF TypeOK, OnUpdate
<1> QED BY <1>1, HeadTreeType, ChangesType DEF Target

\* The state before the first boot has the right types.
LEMMA TypeInit == Init => TypeOK
<1> SUFFICES ASSUME Init PROVE TypeOK
  OBVIOUS
<1>1. NoRequest \in AnyRequest /\ SetupRequest \in AnyRequest
  BY DEF AnyRequest
<1>2. EmptyTree \in DiskTrees
  BY DEF EmptyTree, DiskTrees, Slots
<1>3. pc \in [Actors -> Steps] /\ req \in [Actors -> AnyRequest] /\ todo \in [Actors -> SUBSET Files]
  BY <1>1 DEF Init, Steps
<1>4. answer \in [client : Actors, req : AnyRequest, result : Results, id : 0..MaxCommits]
  BY <1>1, StoreAssumption DEF Init, NoAnswer, Answer, Results, Actors
<1>5. commits \in Seq(DiskTrees) /\ Len(commits) <= MaxCommits
  BY StoreAssumption DEF Init
<1>6. 0 \in 0..MaxCommits /\ 0 \in 0..MaxFaults
  BY StoreAssumption
<1> QED BY <1>2, <1>3, <1>4, <1>5, <1>6 DEF Init, TypeOK

\* Returning to the caller keeps the types of what it assigns.
LEMMA ReturnType ==
  ASSUME TypeOK, NEW a \in Actors, NEW res \in Results, NEW id \in 0..MaxCommits,
         Return(a, res, id)
  PROVE  /\ holder' \in Actors \cup {Nobody}
         /\ pc' \in [Actors -> Steps]
         /\ req' \in [Actors -> AnyRequest]
         /\ todo' \in [Actors -> SUBSET Files]
         /\ answer' \in [client : Actors, req : AnyRequest, result : Results, id : 0..MaxCommits]
<1>1. NoRequest \in AnyRequest
  BY DEF AnyRequest
<1> QED BY <1>1 DEF TypeOK, Return, Answer, Steps

\* So does a restart.
LEMMA LostType ==
  ASSUME TypeOK, LoseMemory
  PROVE  /\ serving' \in BOOLEAN
         /\ holder' \in Actors \cup {Nobody}
         /\ pc' \in [Actors -> Steps]
         /\ req' \in [Actors -> AnyRequest]
         /\ todo' \in [Actors -> SUBSET Files]
         /\ inbox' \in 0..MaxCommits
         /\ UNCHANGED <<answer, heard>>
<1>1. NoRequest \in AnyRequest
  BY DEF AnyRequest
<1>2. pc' \in [Actors -> Steps] /\ todo' \in [Actors -> SUBSET Files]
  BY DEF LoseMemory, Steps
<1>3. req' \in [Actors -> AnyRequest]
  BY <1>1 DEF LoseMemory
<1>4. inbox' \in 0..MaxCommits
  BY StoreAssumption DEF LoseMemory
<1> QED BY <1>2, <1>3, <1>4 DEF LoseMemory

\* So does a failed step, whoever it fails for.
LEMMA FailType ==
  ASSUME TypeOK, NEW a \in Actors, NEW res \in Results, Fail(a, res)
  PROVE  /\ serving' \in BOOLEAN
         /\ holder' \in Actors \cup {Nobody}
         /\ pc' \in [Actors -> Steps]
         /\ req' \in [Actors -> AnyRequest]
         /\ todo' \in [Actors -> SUBSET Files]
         /\ answer' \in [client : Actors, req : AnyRequest, result : Results, id : 0..MaxCommits]
         /\ inbox' \in 0..MaxCommits
         /\ heard' \in 0..MaxCommits
<1>1. CASE a = Setup
  BY <1>1, LostType DEF Fail, TypeOK
<1>2. CASE a # Setup
  <2>1. Return(a, res, 0) /\ UNCHANGED <<serving, inbox, heard>> /\ 0 \in 0..MaxCommits
    BY <1>2, StoreAssumption DEF Fail
  <2> QED BY <2>1, ReturnType DEF TypeOK
<1> QED BY <1>1, <1>2

\* Failures are counted up to the bound.
LEMMA FaultType ==
  ASSUME TypeOK, Fault
  PROVE  faults' \in 0..MaxFaults
BY StoreAssumption DEF TypeOK, Fault

\* Every step keeps the types.  The invariant is needed for the steps that use
\* the request or the room left in the history.
LEMMA TypeStep ==
  ASSUME TypeOK, StoreInv, [Next]_vars
  PROVE  TypeOK'
<1> USE ConfigAssumption, StoreAssumption DEF TypeOK, disk, Actors
<1>1. CASE OpenExisting
  BY <1>1 DEF OpenExisting
<1>2. CASE OpenFirstBoot
  <2>1. EmptyTree \in DiskTrees
    BY DEF EmptyTree, DiskTrees, Slots
  <2>2. DOMAIN ChangesOf(SetupRequest, EmptyTree) \subseteq Files
    BY <2>1, ChangesType, Zenon
  <2> QED BY <1>2, <2>2 DEF OpenFirstBoot, Steps, AnyRequest, Setup
<1>3. CASE Receive
  BY <1>3 DEF Receive
<1>4. CASE Crash
  BY <1>4, LostType, FaultType DEF Crash
<1>5. ASSUME NEW c \in Clients, BeginUpdate(c)
      PROVE  TypeOK'
  <2>1. PICK r \in Updates(Len(commits)) :
             /\ req' = [req EXCEPT ![c] = r]
             /\ todo' = [todo EXCEPT ![c] = DOMAIN ChangesOf(r, HeadTree)]
    BY <1>5 DEF BeginUpdate
  <2>2. r \in AnyRequest
    BY UpdatesGrow DEF AnyRequest
  <2>3. DOMAIN ChangesOf(r, HeadTree) \subseteq Files
    BY HeadTreeType, ChangesType
  <2> QED BY <1>5, <2>1, <2>2, <2>3 DEF BeginUpdate, Steps
<1>6. ASSUME NEW c \in Clients, RefuseNow(c)
      PROVE  TypeOK'
  <2>1. Updates(Len(commits)) \cup Reverts(Len(commits)) \subseteq AnyRequest
    BY UpdatesGrow DEF AnyRequest
  <2> QED BY <1>6, <2>1 DEF RefuseNow, Answer, Results
<1>7. ASSUME NEW c \in Clients, BeginRevert(c)
      PROVE  TypeOK'
  <2>1. PICK r \in Reverts(Len(commits)) :
             /\ r.rev <= Len(commits)
             /\ ResetTo(commits[r.rev])
             /\ req' = [req EXCEPT ![c] = r]
    BY <1>7 DEF BeginRevert
  <2>2. r \in AnyRequest
    BY UpdatesGrow DEF AnyRequest
  <2>3. r.rev \in 1..Len(commits)
    BY <2>1 DEF Reverts
  <2>4. index' \in DiskTrees /\ work' \in DiskTrees
    BY <2>1, <2>3 DEF ResetTo, DiskTrees
  <2> QED BY <1>7, <2>1, <2>2, <2>4 DEF BeginRevert, Steps
<1>8. ASSUME NEW a \in Actors, WriteFile(a)
      PROVE  TypeOK'
  <2>1. OnUpdate(a, req[a], commits)
    BY <1>8 DEF WriteFile, StoreInv, Worker
  <2>2. work' \in DiskTrees
    BY <1>8, <2>1, TargetType DEF WriteFile, DiskTrees, StoreInv, Worker
  <2> QED BY <1>8, <2>2 DEF WriteFile
<1>9. ASSUME NEW a \in Actors, AllWritten(a)
      PROVE  TypeOK'
  BY <1>9 DEF AllWritten, Steps
<1>10. ASSUME NEW a \in Actors, Stage(a)
       PROVE  TypeOK'
  BY <1>10 DEF Stage, AddAll, Steps
<1>11. ASSUME NEW a \in Actors, NothingToCommit(a)
       PROVE  TypeOK'
  BY <1>11, ReturnType DEF NothingToCommit, AddAll, Results
<1>12. ASSUME NEW a \in Actors, GitCommit(a)
       PROVE  TypeOK'
  <2>1. Len(commits) < MaxCommits
    BY <1>12 DEF GitCommit, StoreInv, Worker
  <2> QED BY <1>12, <2>1 DEF GitCommit, Steps
<1>13. ASSUME NEW a \in Actors, Notify(a)
       PROVE  TypeOK'
  <2>1. Len(commits) \in 0..MaxCommits /\ "saved" \in Results
    BY DEF Results
  <2>2. serving' \in BOOLEAN /\ inbox' \in 0..MaxCommits /\ heard' \in 0..MaxCommits
    BY <1>13, <2>1 DEF Notify, Offer
  <2> QED BY <1>13, <2>1, <2>2, ReturnType DEF Notify
<1>14. ASSUME NEW a \in Actors, WriteFails(a)
       PROVE  TypeOK'
  <2>1. work' \in DiskTrees
    BY <1>14 DEF WriteFails, Restored, DiskTrees, Slots
  <2> QED BY <1>14, <2>1, FailType, FaultType DEF WriteFails, Results
<1>15. ASSUME NEW a \in Actors, StageFails(a)
       PROVE  TypeOK'
  BY <1>15, FailType, FaultType DEF StageFails, AddAll, Results
<1>16. ASSUME NEW a \in Actors, CommitFails(a) \/ HeadFails(a)
       PROVE  TypeOK'
  BY <1>16, FailType, FaultType DEF CommitFails, HeadFails, Results
<1>17. ASSUME NEW c \in Clients, BeginFails(c)
       PROVE  TypeOK'
  <2>1. Updates(Len(commits)) \cup Reverts(Len(commits)) \subseteq AnyRequest
    BY UpdatesGrow DEF AnyRequest
  <2>2. answer' \in [client : Actors, req : AnyRequest, result : Results, id : 0..MaxCommits]
    BY <1>17, <2>1 DEF BeginFails, Answer, Results
  <2>3. work' \in DiskTrees
    BY <1>17 DEF BeginFails, DiskTrees, Reverts
  <2> QED BY <1>17, <2>2, <2>3, FaultType DEF BeginFails
<1>18. CASE UNCHANGED vars
  BY <1>18 DEF vars
<1> QED BY <1>1, <1>2, <1>3, <1>4, <1>5, <1>6, <1>7, <1>8, <1>9, <1>10, <1>11, <1>12,
           <1>13, <1>14, <1>15, <1>16, <1>17, <1>18 DEF Next, Step

-----------------------------------------------------------------------------
(* The invariant is inductive *)

\* Nobody works before the first boot.
LEMMA StoreInvInit == Init => StoreInv
BY StoreAssumption DEF Init, StoreInv, Worker, NoAnswer, Answer, Actors, Setup, Nobody

\* Only the actor that holds the lock, or takes it, changes.
LEMMA OthersIdle ==
  ASSUME TypeOK, StoreInv, NEW a \in Actors, holder \in {a, Nobody},
         NEW s, pc' = [pc EXCEPT ![a] = s], holder' \in {a, Nobody}
  PROVE  \A b \in Actors \ {a} : Worker(b)'
<1> SUFFICES ASSUME NEW b \in Actors, b # a PROVE Worker(b)'
  OBVIOUS
<1>1. holder # b /\ holder' # b
  BY StoreAssumption DEF Actors, Setup, Nobody
<1>2. pc[b] = "idle"
  BY <1>1 DEF StoreInv, Worker
<1> QED BY <1>1, <1>2 DEF TypeOK, Worker

\* Whoever holds the lock works in an existing repository.
LEMMA HolderHasRepo ==
  ASSUME StoreInv, holder \in Actors
  PROVE  repo
BY StoreAssumption DEF StoreInv, Actors, Setup, Nobody

\* After the holder returned, nobody is past the lock.
LEMMA ReturnInv ==
  ASSUME TypeOK, StoreInv, NEW a \in Actors, NEW res, NEW id, Return(a, res, id),
         holder = a
  PROVE  \A b \in Actors : Worker(b)'
<1>1. \A b \in Actors \ {a} : Worker(b)'
  BY OthersIdle, Zenon DEF Return
<1>2. Worker(a)'
  BY StoreAssumption DEF TypeOK, Return, Worker, Actors, Setup, Nobody
<1> QED BY <1>1, <1>2

\* After a restart, nobody is past the lock.
LEMMA LostInv ==
  ASSUME TypeOK, StoreInv, LoseMemory
  PROVE  \A b \in Actors : Worker(b)'
BY StoreAssumption DEF LoseMemory, Worker, Actors, Setup, Nobody

\* After a failed step neither, and no answer says "saved" that did not before.
LEMMA FailInv ==
  ASSUME TypeOK, StoreInv, NEW a \in Actors, NEW res, Fail(a, res), res # "saved",
         holder = a, UNCHANGED commits
  PROVE  /\ \A b \in Actors : Worker(b)'
         /\ answer'.result = "saved" => Lands(answer'.req, commits', answer'.id)
<1>1. CASE a = Setup
  BY <1>1, LostInv DEF Fail, LoseMemory, StoreInv
<1>2. CASE a # Setup
  <2>1. Return(a, res, 0)
    BY <1>2 DEF Fail
  <2>2. \A b \in Actors : Worker(b)'
    BY <2>1, ReturnInv
  <2>3. answer' = Answer(a, req[a], res, 0)
    BY <1>2, <2>1 DEF Return, Actors
  <2> QED BY <2>2, <2>3 DEF Answer
<1> QED BY <1>1, <1>2

\* What a commit holds does not change when the history grows.
LEMMA LandsStays ==
  ASSUME NEW hist \in Seq(DiskTrees), NEW t \in DiskTrees, NEW r, NEW id, Lands(r, hist, id)
  PROVE  Lands(r, Append(hist, t), id)
<1>1. /\ Len(Append(hist, t)) = Len(hist) + 1
      /\ \A k \in 1..Len(hist) : Append(hist, t)[k] = hist[k]
  OBVIOUS
<1>2. id \in 2..Len(hist) /\ id \in Nat /\ Len(hist) \in Nat
  BY DEF Lands
<1>3. Append(hist, t)[id] = hist[id] /\ Append(hist, t)[id - 1] = hist[id - 1]
  BY <1>1, <1>2
<1>4. ASSUME r.op = "revert"
      PROVE  Append(hist, t)[r.rev] = hist[r.rev]
  BY <1>1, <1>2, <1>4 DEF Lands
<1> QED BY <1>1, <1>2, <1>3, <1>4 DEF Lands, Restores

\* git commit records what the request asked for.
LEMMA CommitLands ==
  ASSUME TypeOK, StoreInv, NEW a \in Clients, GitCommit(a)
  PROVE  Lands(req[a], commits', Len(commits'))
<1> DEFINE n == Len(commits)
<1>1. /\ commits' = Append(commits, work)
      /\ n \in Nat
      /\ Len(commits') = n + 1
      /\ commits'[n + 1] = work
      /\ \A k \in 1..n : commits'[k] = commits[k]
  BY DEF GitCommit, StoreInv, Worker, Actors, TypeOK
<1>2. a # Setup /\ a \in Actors
  BY StoreAssumption DEF Setup, Actors
<1>3. CASE OnUpdate(a, req[a], commits) /\ Written(req[a], commits, work, {})
  <2>1. n > 0 /\ req[a] \in Updates(n) /\ HeadOf(commits) = commits[n]
    BY <1>2, <1>3 DEF OnUpdate, HeadOf, TypeOK
  <2>2. req[a].op # "revert"
    BY <1>1, <2>1, UpdateFields
  <2>3. commits'[n] = commits[n]
    BY <1>1, <2>1
  <2> QED BY <1>1, <1>3, <2>1, <2>2, <2>3 DEF Lands, Written
<1>4. CASE OnRevert(a, req[a], commits) /\ Restores(req[a], commits, work)
  <2>1. req[a].op = "revert" /\ req[a].rev \in 1..n
    BY <1>1, <1>4 DEF OnRevert, Reverts
  <2>2. commits'[req[a].rev] = commits[req[a].rev]
    BY <1>1, <2>1
  <2> QED BY <1>1, <1>4, <2>1, <2>2 DEF Lands, Restores
<1> QED BY <1>2, <1>3, <1>4 DEF GitCommit, StoreInv, Worker

\* Every step keeps the invariant: one case per action.
LEMMA StoreInvStep ==
  ASSUME TypeOK, StoreInv, [Next]_vars
  PROVE  StoreInv'
<1> USE DEF disk
<1>1. CASE OpenExisting \/ Receive \/ UNCHANGED vars
  BY <1>1 DEF OpenExisting, Receive, vars, StoreInv, Worker
<1>2. CASE OpenFirstBoot
  <2>1. \A b \in Actors \ {Setup} : Worker(b)'
    BY <1>2, OthersIdle DEF OpenFirstBoot, Actors
  <2>2. commits = <<>> /\ HeadOf(commits) = EmptyTree
    BY <1>2 DEF OpenFirstBoot, StoreInv, HeadOf
  <2>3. Worker(Setup)'
    BY <1>2, <2>2, StoreAssumption
       DEF OpenFirstBoot, TypeOK, Worker, OnUpdate, Written, Actors
  <2> QED BY <1>2, <2>1, <2>3 DEF OpenFirstBoot, StoreInv
<1>3. CASE Crash
  BY <1>3, LostInv DEF Crash, LoseMemory, StoreInv
<1>4. ASSUME NEW c \in Clients, BeginUpdate(c)
      PROVE  StoreInv'
  <2>1. PICK r \in Updates(Len(commits)) :
             /\ Accepted(r, commits)
             /\ req' = [req EXCEPT ![c] = r]
             /\ todo' = [todo EXCEPT ![c] = DOMAIN ChangesOf(r, HeadTree)]
    BY <1>4 DEF BeginUpdate
  <2>2. c \in Actors /\ c # Setup
    BY StoreAssumption DEF Actors, Setup
  <2>3. \A b \in Actors \ {c} : Worker(b)'
    BY <1>4, <2>2, OthersIdle DEF BeginUpdate, LockFree
  <2>4. Worker(c)'
    BY <1>4, <2>1, <2>2, HeadTreeType DEF BeginUpdate, Readable, TypeOK, Worker, OnUpdate, Written
  <2> QED BY <1>4, <2>3, <2>4 DEF BeginUpdate, StoreInv
<1>5. ASSUME NEW c \in Clients, RefuseNow(c) \/ BeginFails(c)
      PROVE  StoreInv'
  <2>1. \A a \in Actors : pc[a] = "idle"
    BY <1>5, StoreAssumption DEF RefuseNow, BeginFails, LockFree, StoreInv, Worker, Actors, Setup, Nobody
  <2>2. CASE RefuseNow(c)
    BY <2>2 DEF RefuseNow, StoreInv, Worker, Answer
  <2>3. CASE BeginFails(c)
    BY <2>1, <2>3 DEF BeginFails, StoreInv, Worker, Answer
  <2> QED BY <1>5, <2>2, <2>3
<1>6. ASSUME NEW c \in Clients, BeginRevert(c)
      PROVE  StoreInv'
  <2>1. PICK r \in Reverts(Len(commits)) :
             /\ r.rev <= Len(commits)
             /\ ResetTo(commits[r.rev])
             /\ req' = [req EXCEPT ![c] = r]
    BY <1>6 DEF BeginRevert
  <2>2. c \in Actors
    BY DEF Actors
  <2>3. \A b \in Actors \ {c} : Worker(b)'
    BY <1>6, <2>2, OthersIdle DEF BeginRevert, LockFree
  <2>4. Worker(c)'
    BY <1>6, <2>1, <2>2 DEF BeginRevert, ResetTo, TypeOK, Worker, OnRevert, Restores
  <2> QED BY <1>6, <2>3, <2>4 DEF BeginRevert, StoreInv
<1>7. ASSUME NEW a \in Actors, WriteFile(a)
      PROVE  StoreInv'
  <2>1. holder = a /\ pc' = [pc EXCEPT ![a] = pc[a]]
    BY <1>7 DEF WriteFile, StoreInv, Worker, TypeOK
  <2>2. \A b \in Actors \ {a} : Worker(b)'
    BY <1>7, <2>1, OthersIdle DEF WriteFile
  <2>3. Target(a) = ChangesOf(req[a], HeadOf(commits))
    BY HeadTreeType DEF Target
  <2>4. DOMAIN Target(a) \subseteq Files
    BY <1>7, TargetType DEF WriteFile, StoreInv, Worker
  <2>5. Worker(a)'
    BY <1>7, <2>1, <2>3, <2>4
       DEF WriteFile, StoreInv, Worker, Written, TypeOK, DiskTrees
  <2> QED BY <1>7, <2>2, <2>5 DEF WriteFile, StoreInv
<1>8. ASSUME NEW a \in Actors, AllWritten(a)
      PROVE  StoreInv'
  <2>1. holder = a
    BY <1>8 DEF AllWritten, StoreInv, Worker
  <2>2. \A b \in Actors \ {a} : Worker(b)'
    BY <1>8, <2>1, OthersIdle DEF AllWritten
  <2>3. Worker(a)'
    BY <1>8, <2>1 DEF AllWritten, StoreInv, Worker, TypeOK
  <2> QED BY <1>8, <2>2, <2>3 DEF AllWritten, StoreInv
<1>9. ASSUME NEW a \in Actors, Stage(a)
      PROVE  StoreInv'
  <2>1. holder = a
    BY <1>9 DEF Stage, StoreInv, Worker
  <2>2. \A b \in Actors \ {a} : Worker(b)'
    BY <1>9, <2>1, OthersIdle DEF Stage
  <2>3. Worker(a)'
    BY <1>9, <2>1, HeadTreeType DEF Stage, AddAll, StoreInv, Worker, TypeOK
  <2> QED BY <1>9, <2>2, <2>3 DEF Stage, StoreInv
<1>10. ASSUME NEW a \in Actors, NothingToCommit(a)
       PROVE  StoreInv'
  <2>1. holder = a
    BY <1>10 DEF NothingToCommit, StoreInv, Worker
  <2>2. \A b \in Actors : Worker(b)'
    BY <1>10, <2>1, ReturnInv DEF NothingToCommit
  <2> QED BY <1>10, <2>2 DEF NothingToCommit, Return, Answer, StoreInv
<1>11. ASSUME NEW a \in Actors, GitCommit(a)
       PROVE  StoreInv'
  <2>1. holder = a
    BY <1>11 DEF GitCommit, StoreInv, Worker
  <2>2. \A b \in Actors \ {a} : Worker(b)'
    BY <1>11, <2>1, OthersIdle DEF GitCommit
  <2>3. commits' = Append(commits, index) /\ Len(commits') = Len(commits) + 1
    BY <1>11 DEF GitCommit, TypeOK
  <2>4. pc'[a] = "notify" /\ holder' = a /\ req' = req
    BY <1>11, <2>1 DEF GitCommit, TypeOK
  <2>5. ASSUME a \in Clients
        PROVE  Worker(a)'
    <3>1. a # Setup
      BY <2>5, StoreAssumption DEF Setup
    <3>2. Lands(req[a], commits', Len(commits'))
      BY <1>11, <2>5, CommitLands
    <3> QED BY <2>4, <3>1, <3>2 DEF Worker
  <2>6. ASSUME a = Setup
        PROVE  Worker(a)'
    <3>1. commits = <<>>
      BY <1>11, <2>6, StoreAssumption DEF GitCommit, StoreInv, Worker, OnUpdate, OnRevert, Setup
    <3> QED BY <2>3, <2>4, <2>6, <3>1 DEF Worker
  <2>7. answer'.result = "saved" => Lands(answer'.req, commits', answer'.id)
    BY <1>11, <2>3, LandsStays DEF GitCommit, StoreInv, TypeOK
  <2>8. repo
    BY <2>1, HolderHasRepo
  <2> QED BY <1>11, <2>2, <2>5, <2>6, <2>7, <2>8 DEF GitCommit, StoreInv, Actors
<1>12. ASSUME NEW a \in Actors, Notify(a)
       PROVE  StoreInv'
  <2>1. holder = a
    BY <1>12 DEF Notify, StoreInv, Worker
  <2>2. \A b \in Actors : Worker(b)'
    BY <1>12, <2>1, ReturnInv DEF Notify
  <2>3. a \in Clients => Lands(req[a], commits, Len(commits))
    BY <1>12, StoreAssumption DEF Notify, StoreInv, Worker, Setup
  <2>4. repo
    BY <2>1, HolderHasRepo
  <2> QED BY <1>12, <2>2, <2>3, <2>4 DEF Notify, Return, Answer, StoreInv
<1>13. ASSUME NEW a \in Actors, WriteFails(a) \/ StageFails(a) \/ CommitFails(a) \/ HeadFails(a)
       PROVE  StoreInv'
  <2>1. PICK res \in {"failed", "unchanged"} : Fail(a, res)
    BY <1>13 DEF WriteFails, StageFails, CommitFails, HeadFails
  <2>2. holder = a /\ UNCHANGED <<repo, commits>>
    BY <1>13 DEF WriteFails, StageFails, CommitFails, HeadFails, StoreInv, Worker
  <2>3. repo
    BY <2>2, HolderHasRepo
  <2> QED BY <2>1, <2>2, <2>3, FailInv DEF StoreInv
<1> QED BY <1>1, <1>2, <1>3, <1>4, <1>5, <1>6, <1>7, <1>8, <1>9, <1>10, <1>11, <1>12, <1>13
        DEF Next, Step

-----------------------------------------------------------------------------
(* What holds whatever fails *)

\* The state of the daemon, its disk and its channels keep their types, at
\* every step and through every failure of store.go.
THEOREM TypeCorrect == Spec => []TypeOK
<1>1. Init => TypeOK /\ StoreInv
  BY TypeInit, StoreInvInit
<1>2. TypeOK /\ StoreInv /\ [Next]_vars => TypeOK' /\ StoreInv'
  BY TypeStep, StoreInvStep
<1> QED BY <1>1, <1>2, PTL DEF Spec

\* One actor at a time is past the lock; what it decided on, wrote and staged is
\* what the commit will hold, and what was answered "saved" is in the history
\* (store.go Update, Revert, commit).
THEOREM StoreInvariant == Spec => []StoreInv
<1>1. Init => TypeOK /\ StoreInv
  BY TypeInit, StoreInvInit
<1>2. TypeOK /\ StoreInv /\ [Next]_vars => TypeOK' /\ StoreInv'
  BY TypeStep, StoreInvStep
<1> QED BY <1>1, <1>2, PTL DEF Spec

\* The check made under the lock is still true when the commit lands, whatever
\* fails in between (store.go Update).
THEOREM DecisionsHold == Spec => []StillAccepted
<1>1. TypeOK /\ StoreInv => StillAccepted
  <2> SUFFICES ASSUME TypeOK, StoreInv, NEW c \in Clients,
                      pc[c] \in {"write", "stage", "commit"}, req[c].op # "revert"
               PROVE  commits # <<>> /\ Accepted(req[c], commits)
    BY DEF StillAccepted
  <2>1. c \in Actors /\ c # Setup
    BY StoreAssumption DEF Actors, Setup
  <2>2. ~OnRevert(c, req[c], commits)
    BY DEF OnRevert, Reverts
  <2>3. OnUpdate(c, req[c], commits)
    BY <2>1, <2>2 DEF StoreInv, Worker
  <2> QED BY <2>1, <2>3 DEF OnUpdate
<1> QED BY <1>1, TypeCorrect, StoreInvariant, PTL

\* What a client was told is saved is in the commit it was told, and stays
\* there (store.go commit).
THEOREM AcknowledgedStays == Spec => []AckDurable
<1>1. TypeOK /\ StoreInv => AckDurable
  <2> SUFFICES ASSUME TypeOK, StoreInv, answer.result = "saved"
               PROVE  AckDurable
    BY DEF AckDurable
  <2> DEFINE r == answer.req
             id == answer.id
  <2>1. Lands(r, commits, id)
    BY DEF StoreInv
  <2>2. CASE r.op = "revert"
    <3>1. r.rev \in 1..Len(commits) /\ id \in 2..Len(commits)
      BY <2>1, <2>2 DEF Lands, TypeOK
    <3>2. DOMAIN commits[r.rev] = Files
      BY <3>1 DEF TypeOK, DiskTrees
    <3> QED BY <2>1, <2>2, <3>1, <3>2 DEF AckDurable, Lands, Restores
  <2>3. CASE r.op # "revert"
    BY <2>1, <2>3 DEF AckDurable, Lands
  <2> QED BY <2>2, <2>3
<1> QED BY <1>1, TypeCorrect, StoreInvariant, PTL

-----------------------------------------------------------------------------
(* What holds until the first failure *)

\* A change applied to a tree gives a tree.
LEMMA PatchType ==
  ASSUME NEW n \in Nat, NEW r \in Updates(n) \cup {SetupRequest}, NEW head \in Trees
  PROVE  Patch(head, ChangesOf(r, head)) \in Trees
<1> SUFFICES ASSUME NEW f \in DOMAIN ChangesOf(r, head), f \in Files
             PROVE  ChangesOf(r, head)[f] \in Contents \cup {Absent}
  BY DEF Patch, Trees
<1>1. CASE r \in Updates(n) /\ r.op \in {"create", "update", "user"}
  BY <1>1, UpdateFields DEF ChangesOf
<1>2. CASE r \in Updates(n) /\ r.op = "delete"
  BY <1>2, UpdateFields DEF ChangesOf
<1>3. CASE r \in Updates(n) /\ r.op = "import"
  <2> DEFINE t == ImportTree(r.tree, head)
             D == {g \in Files : head[g] # Absent \/ t[g] # Absent}
  <2>1. ChangesOf(r, head) = [g \in D |-> t[g]]
    BY <1>3 DEF ChangesOf
  <2>2. t \in Trees
    BY <1>3, UpdateFields DEF ImportTree, Trees
  <2> QED BY <2>1, <2>2 DEF Trees
<1>4. CASE r = SetupRequest
  BY <1>4, ConfigAssumption DEF ChangesOf, SetupRequest, Trees
<1> QED BY <1>1, <1>2, <1>3, <1>4, UpdateFields

\* First boot commits the factory tree.
LEMMA FirstCommit ==
  Patch(EmptyTree, ChangesOf(SetupRequest, EmptyTree)) = Factory
BY ConfigAssumption DEF Patch, EmptyTree, ChangesOf, SetupRequest, Trees

Valid(t) == t \in Trees /\ ErrorsOf(t) = {}

\* On a valid HEAD, an accepted request leads to a valid tree: a change adds no
\* error, an import has none.
LEMMA AcceptedIsValid ==
  ASSUME NEW hist, NEW n \in Nat, NEW r \in Updates(n), NEW head,
         head = hist[Len(hist)], Valid(head), Accepted(r, hist)
  PROVE  Valid(Patch(head, ChangesOf(r, head)))
<1>1. Validates(r, head)
  BY DEF Accepted
<1>2. ErrorsOf(Patch(head, ChangesOf(r, head))) = {}
  BY <1>1 DEF Validates, NewErrors, Valid
<1> QED BY <1>2, PatchType DEF Valid

\* The tree the request in hand will commit.
Outcome(a, r, hist) ==
  IF r.op = "revert" THEN hist[r.rev] ELSE Patch(HeadOf(hist), ChangesOf(r, HeadOf(hist)))

CleanInv ==
  faults = 0 =>
    /\ \A k \in 1..Len(commits) : Valid(commits[k])
    /\ holder = Nobody => work = HeadOf(commits) /\ index = work /\ (repo => commits # <<>>)
    /\ \A a \in Actors :
         /\ pc[a] = "write" =>
              /\ index = HeadOf(commits)
              /\ \A f \in Files \ (DOMAIN ChangesOf(req[a], HeadOf(commits)) \ todo[a]) :
                    work[f] = HeadOf(commits)[f]
         /\ pc[a] \in {"stage", "commit"} => work = Outcome(a, req[a], commits)
         /\ pc[a] = "notify" => work = HeadOf(commits) /\ index = work
    /\ serving /\ (\A a \in Actors : pc[a] # "notify") => heard = Len(commits) \/ inbox # 0

\* Nothing is written before the first boot.
LEMMA CleanInit == Init => CleanInv
BY DEF Init, CleanInv, HeadOf

\* After a failure the invariant says nothing.
LEMMA FaultEnds ==
  ASSUME TypeOK, Fault
  PROVE  CleanInv'
BY DEF TypeOK, Fault, CleanInv

\* Nobody but the holder of the lock is past it.
LEMMA Alone ==
  ASSUME StoreInv, NEW a \in Actors, pc[a] # "idle"
  PROVE  holder = a /\ \A b \in Actors \ {a} : pc[b] = "idle"
BY DEF StoreInv, Worker

\* When the lock is free every actor is idle.
LEMMA NobodyWorks ==
  ASSUME StoreInv, holder = Nobody
  PROVE  \A b \in Actors : pc[b] = "idle"
BY StoreAssumption DEF StoreInv, Worker, Actors, Setup, Nobody

\* Every outcome is a valid tree.
LEMMA OutcomeValid ==
  ASSUME TypeOK, StoreInv, CleanInv, faults = 0, NEW a \in Actors,
         pc[a] \in {"stage", "commit"}
  PROVE  Valid(Outcome(a, req[a], commits))
<1> DEFINE r == req[a]
<1>1. CASE OnUpdate(a, r, commits) /\ a = Setup
  BY <1>1, FirstCommit, ConfigAssumption
     DEF OnUpdate, Outcome, HeadOf, SetupRequest, Valid
<1>2. CASE OnUpdate(a, r, commits) /\ a # Setup
  <2>1. commits # <<>> /\ Len(commits) \in Nat /\ r \in Updates(Len(commits)) /\ Accepted(r, commits)
    BY <1>2 DEF OnUpdate, TypeOK
  <2>2. Len(commits) \in 1..Len(commits)
    BY <2>1 DEF TypeOK
  <2>3. HeadOf(commits) = commits[Len(commits)] /\ Valid(HeadOf(commits))
    BY <2>1, <2>2 DEF HeadOf, CleanInv
  <2>4. Valid(Patch(HeadOf(commits), ChangesOf(r, HeadOf(commits))))
    BY <2>1, <2>3, AcceptedIsValid
  <2>5. r.op # "revert"
    BY <2>1, UpdateFields
  <2> QED BY <2>4, <2>5 DEF Outcome
<1>3. CASE OnRevert(a, r, commits)
  <2>1. r.op = "revert" /\ r.rev \in 1..Len(commits)
    BY <1>3 DEF OnRevert, Reverts, TypeOK
  <2> QED BY <2>1 DEF Outcome, CleanInv
<1> QED BY <1>1, <1>2, <1>3 DEF StoreInv, Worker

\* Every step keeps the invariant: one case per action.
LEMMA CleanStep ==
  ASSUME TypeOK, StoreInv, CleanInv, TypeOK', StoreInv', [Next]_vars
  PROVE  CleanInv'
<1> USE DEF disk
<1>1. CASE OpenExisting \/ Receive \/ UNCHANGED vars
  BY <1>1 DEF OpenExisting, Receive, vars, CleanInv
<1>2. CASE OpenFirstBoot
  <2>1. commits = <<>> /\ ~serving /\ HeadOf(commits) = EmptyTree
    BY <1>2 DEF OpenFirstBoot, StoreInv, HeadOf
  <2>2. \A b \in Actors : pc[b] = "idle"
    BY <1>2, NobodyWorks DEF OpenFirstBoot
  <2>3. \A b \in Actors : pc'[b] # "idle" => b = Setup /\ pc'[b] = "write"
    BY <1>2, <2>2 DEF OpenFirstBoot, TypeOK
  <2> QED BY <1>2, <2>1, <2>3, StoreAssumption
          DEF OpenFirstBoot, CleanInv, TypeOK, DiskTrees, Setup, Nobody, Actors
<1>3. CASE Crash
  BY <1>3, FaultEnds DEF Crash
<1>4. ASSUME NEW c \in Clients, BeginUpdate(c)
      PROVE  CleanInv'
  <2>1. \A b \in Actors : pc[b] = "idle"
    BY <1>4, NobodyWorks DEF BeginUpdate, LockFree
  <2>2. pc'[c] = "write" /\ \A b \in Actors \ {c} : pc'[b] = "idle"
    BY <1>4, <2>1 DEF BeginUpdate, TypeOK, Actors
  <2>3. holder' # Nobody /\ holder = Nobody
    BY <1>4, StoreAssumption DEF BeginUpdate, LockFree, Nobody
  <2> QED BY <1>4, <2>1, <2>2, <2>3 DEF BeginUpdate, CleanInv
<1>5. ASSUME NEW c \in Clients, RefuseNow(c)
      PROVE  CleanInv'
  BY <1>5 DEF RefuseNow, CleanInv
<1>6. ASSUME NEW c \in Clients, BeginRevert(c)
      PROVE  CleanInv'
  <2>1. \A b \in Actors : pc[b] = "idle"
    BY <1>6, NobodyWorks DEF BeginRevert, LockFree
  <2>2. pc'[c] = "stage" /\ \A b \in Actors \ {c} : pc'[b] = "idle"
    BY <1>6, <2>1 DEF BeginRevert, TypeOK, Actors
  <2>3. holder' # Nobody /\ holder = Nobody
    BY <1>6, StoreAssumption DEF BeginRevert, LockFree, Nobody
  <2>4. PICK r \in Reverts(Len(commits)) :
             /\ r.rev <= Len(commits)
             /\ ResetTo(commits[r.rev])
             /\ req' = [req EXCEPT ![c] = r]
    BY <1>6 DEF BeginRevert
  <2>5. req'[c] = r /\ r.op = "revert" /\ r.rev \in 1..Len(commits)
    BY <2>4 DEF TypeOK, Actors, Reverts
  <2>6. commits[r.rev] \in DiskTrees
    BY <2>5 DEF TypeOK
  <2>7. faults = 0 => work' = commits[r.rev]
    BY <2>3, <2>4, <2>6 DEF ResetTo, CleanInv, DiskTrees
  <2> QED BY <1>6, <2>1, <2>2, <2>3, <2>5, <2>7 DEF BeginRevert, CleanInv, Outcome
<1>7. ASSUME NEW a \in Actors, WriteFile(a)
      PROVE  CleanInv'
  <2>1. PICK f \in todo[a] :
             /\ work' = [work EXCEPT ![f] = Target(a)[f]]
             /\ todo' = [todo EXCEPT ![a] = @ \ {f}]
    BY <1>7 DEF WriteFile
  <2>2. holder = a /\ \A b \in Actors \ {a} : pc[b] = "idle"
    BY <1>7, Alone DEF WriteFile
  <2>3. f \in DOMAIN ChangesOf(req[a], HeadOf(commits)) /\ holder # Nobody
    BY <1>7, <2>2, StoreAssumption DEF WriteFile, StoreInv, Worker, Actors, Setup, Nobody
  <2>4. \A g \in Files \ {f} : work'[g] = work[g]
    BY <2>1 DEF TypeOK, DiskTrees
  <2>5. todo'[a] = todo[a] \ {f}
    BY <2>1 DEF TypeOK
  <2>6. faults = 0 =>
          \A g \in Files \ (DOMAIN ChangesOf(req[a], HeadOf(commits)) \ todo'[a]) :
             work'[g] = HeadOf(commits)[g]
    BY <1>7, <2>3, <2>4, <2>5 DEF WriteFile, CleanInv
  <2> QED BY <1>7, <2>2, <2>3, <2>6 DEF WriteFile, CleanInv
<1>8. ASSUME NEW a \in Actors, AllWritten(a)
      PROVE  CleanInv'
  <2> DEFINE changes == ChangesOf(req[a], HeadOf(commits))
  <2>1. holder = a /\ \A b \in Actors \ {a} : pc[b] = "idle"
    BY <1>8, Alone DEF AllWritten
  <2>2. holder # Nobody
    BY <2>1, StoreAssumption DEF Actors, Setup, Nobody
  <2>3. pc'[a] = "stage" /\ \A b \in Actors \ {a} : pc'[b] = "idle"
    BY <1>8, <2>1 DEF AllWritten, TypeOK
  <2>4. faults = 0 => \A f \in Files :
          work[f] = IF f \in DOMAIN changes THEN changes[f] ELSE HeadOf(commits)[f]
    BY <1>8 DEF AllWritten, CleanInv, StoreInv, Worker, Written
  <2>5. OnUpdate(a, req[a], commits)
    BY <1>8 DEF AllWritten, StoreInv, Worker
  <2>6. req[a].op # "revert"
    BY <2>5, UpdateFields DEF OnUpdate, TypeOK, SetupRequest
  <2>7. faults = 0 => work = Outcome(a, req[a], commits)
    BY <2>4, <2>6 DEF Outcome, Patch, TypeOK, DiskTrees
  <2> QED BY <1>8, <2>1, <2>2, <2>3, <2>7 DEF AllWritten, CleanInv
<1>9. ASSUME NEW a \in Actors, Stage(a)
      PROVE  CleanInv'
  <2>1. holder = a /\ \A b \in Actors \ {a} : pc[b] = "idle"
    BY <1>9, Alone DEF Stage
  <2>2. holder # Nobody
    BY <2>1, StoreAssumption DEF Actors, Setup, Nobody
  <2>3. pc'[a] = "commit" /\ \A b \in Actors \ {a} : pc'[b] = "idle"
    BY <1>9, <2>1 DEF Stage, TypeOK
  <2> QED BY <1>9, <2>1, <2>2, <2>3 DEF Stage, CleanInv
<1>10. ASSUME NEW a \in Actors, NothingToCommit(a)
       PROVE  CleanInv'
  <2>1. holder = a /\ \A b \in Actors \ {a} : pc[b] = "idle"
    BY <1>10, Alone DEF NothingToCommit
  <2>2. \A b \in Actors : pc'[b] = "idle"
    BY <1>10, <2>1 DEF NothingToCommit, Return, TypeOK
  <2>3. index' = work' /\ work' = HeadOf(commits)
    BY <1>10, HeadTreeType DEF NothingToCommit, AddAll
  <2>4. faults = 0 => commits # <<>>
    <3> SUFFICES ASSUME faults = 0, commits = <<>>
                 PROVE  FALSE
      OBVIOUS
    <3>1. a = Setup /\ req[a] = SetupRequest
      BY <1>10 DEF NothingToCommit, StoreInv, Worker, OnUpdate, OnRevert, Reverts
    <3>2. work = Factory
      BY <1>10, <3>1, FirstCommit DEF NothingToCommit, CleanInv, Outcome, HeadOf, SetupRequest
    <3> QED BY <2>3, <3>2, <1>10, ConfigAssumption DEF NothingToCommit, HeadOf
  <2> QED BY <1>10, <2>1, <2>2, <2>3, <2>4 DEF NothingToCommit, Return, CleanInv
<1>11. ASSUME NEW a \in Actors, GitCommit(a)
       PROVE  CleanInv'
  <2>1. holder = a /\ \A b \in Actors \ {a} : pc[b] = "idle"
    BY <1>11, Alone DEF GitCommit
  <2>2. holder # Nobody
    BY <2>1, StoreAssumption DEF Actors, Setup, Nobody
  <2>3. pc'[a] = "notify" /\ \A b \in Actors \ {a} : pc'[b] = "idle"
    BY <1>11, <2>1 DEF GitCommit, TypeOK
  <2>4. /\ commits' = Append(commits, work)
        /\ index = work
        /\ Len(commits') = Len(commits) + 1
        /\ commits'[Len(commits) + 1] = work
        /\ \A k \in 1..Len(commits) : commits'[k] = commits[k]
    BY <1>11 DEF GitCommit, StoreInv, Worker, TypeOK
  <2>5. HeadOf(commits') = work
    <3>1. Len(commits) \in Nat /\ Len(commits') # 0
      BY <2>4 DEF TypeOK
    <3>2. commits' # <<>>
      BY <3>1
    <3> QED BY <2>4, <3>2 DEF HeadOf
  <2>6. faults = 0 => Valid(work)
    BY <1>11, OutcomeValid DEF GitCommit, CleanInv
  <2>7. faults = 0 => \A k \in 1..Len(commits') : Valid(commits'[k])
    BY <2>4, <2>6 DEF CleanInv, TypeOK
  <2> QED BY <1>11, <2>1, <2>2, <2>3, <2>4, <2>5, <2>7 DEF GitCommit, CleanInv
<1>12. ASSUME NEW a \in Actors, Notify(a)
       PROVE  CleanInv'
  <2>1. holder = a /\ \A b \in Actors \ {a} : pc[b] = "idle"
    BY <1>12, Alone DEF Notify
  <2>2. \A b \in Actors : pc'[b] = "idle"
    BY <1>12, <2>1 DEF Notify, Return, TypeOK
  <2>3. Len(commits) > 0
    <3>1. Len(commits) = 1 \/ Lands(req[a], commits, Len(commits))
      BY <1>12 DEF Notify, StoreInv, Worker
    <3>2. Lands(req[a], commits, Len(commits)) => Len(commits) \in 2..Len(commits)
      BY Zenon DEF Lands
    <3>3. Len(commits) \in Nat
      BY DEF TypeOK
    <3> QED BY <3>1, <3>2, <3>3
  <2>4. heard' = Len(commits) \/ inbox' # 0
    BY <1>12, <2>3 DEF Notify, Offer
  <2> QED BY <1>12, <2>1, <2>2, <2>3, <2>4 DEF Notify, Return, CleanInv, TypeOK
<1>13. ASSUME NEW a, WriteFails(a) \/ StageFails(a) \/ CommitFails(a) \/ HeadFails(a) \/ BeginFails(a)
       PROVE  CleanInv'
  BY <1>13, FaultEnds DEF WriteFails, StageFails, CommitFails, HeadFails, BeginFails
<1> QED BY <1>1, <1>2, <1>3, <1>4, <1>5, <1>6, <1>7, <1>8, <1>9, <1>10, <1>11, <1>12, <1>13
        DEF Next, Step

\* Until the first failure every commit is a valid configuration (store.go
\* Update, Revert).
THEOREM ValidUntilFault == Spec => [](faults = 0 => CommitsValid)
<1>1. Init => CleanInv
  BY CleanInit
<1>2. TypeOK /\ StoreInv /\ CleanInv /\ TypeOK' /\ StoreInv' /\ [Next]_vars => CleanInv'
  BY CleanStep
<1>3. CleanInv => (faults = 0 => CommitsValid)
  BY DEF CleanInv, CommitsValid, Valid
<1> QED BY <1>1, <1>2, <1>3, TypeCorrect, StoreInvariant, PTL DEF Spec

\* Until the first failure the coalescing channel loses no commit (store.go
\* notify, Subscribe).
THEOREM HeardUntilFault == Spec => [](faults = 0 => NoMissedCommit)
<1>1. Init => CleanInv
  BY CleanInit
<1>2. TypeOK /\ StoreInv /\ CleanInv /\ TypeOK' /\ StoreInv' /\ [Next]_vars => CleanInv'
  BY CleanStep
<1>3. StoreInv /\ CleanInv => (faults = 0 => NoMissedCommit)
  <2> SUFFICES ASSUME StoreInv, CleanInv, faults = 0
               PROVE  NoMissedCommit
    OBVIOUS
  <2> QED BY NobodyWorks DEF CleanInv, NoMissedCommit
<1> QED BY <1>1, <1>2, <1>3, TypeCorrect, StoreInvariant, PTL DEF Spec

-----------------------------------------------------------------------------
(* Without failures the store implements ConfigHistory                       *)

\* The instance of ConfigHistory has the operators of ConfigModel again.
LEMMA SameOperators ==
  /\ \A n : History!Updates(n) = Updates(n) /\ History!Reverts(n) = Reverts(n)
  /\ \A r, t : History!ChangesOf(r, t) = ChangesOf(r, t)
  /\ \A t, ch : History!Patch(t, ch) = Patch(t, ch)
  /\ \A r, hist : History!Accepted(r, hist) = Accepted(r, hist)
<1>1. \A n : History!Updates(n) = Updates(n) /\ History!Reverts(n) = Reverts(n)
  BY DEF History!Updates, History!Reverts, Updates, Reverts, History!Edits, Edits,
         History!Deletes, Deletes, History!UserEdits, UserEdits,
         History!ImportRequests, ImportRequests
<1>2. \A r, t : History!ChangesOf(r, t) = ChangesOf(r, t)
  BY DEF History!ChangesOf, ChangesOf, History!ImportTree, ImportTree
<1>3. \A t, ch : History!Patch(t, ch) = Patch(t, ch)
  BY DEF History!Patch, Patch
<1>4. \A r, hist : History!Accepted(r, hist) = Accepted(r, hist)
  <2> TAKE r, hist
  <2> DEFINE head == hist[Len(hist)]
  <2>1. History!Permitted(r, head) = Permitted(r, head)
    BY DEF History!Permitted, Permitted
  <2>2. History!Validates(r, head) = Validates(r, head)
    BY <1>2, <1>3 DEF History!Validates, Validates, History!NewErrors, NewErrors
  <2>3. History!Fresh(r, hist) = Fresh(r, hist)
    BY <1>2 DEF History!Fresh, Fresh
  <2> QED BY <2>1, <2>2, <2>3 DEF History!Accepted, Accepted
<1> QED BY <1>1, <1>2, <1>3, <1>4

\* The answer as ConfigHistory sees it: given at the instant of git commit.
Answered == IF \E c \in Clients : pc[c] = "notify"
              THEN Answer(holder, req[holder], "saved", Len(commits))
              ELSE answer

\* A step that adds no commit and moves no client to or from "notify" is seen
\* as a stutter, or as the answer it gives.
LEMMA QuietAnswer ==
  ASSUME \A c \in Clients : pc[c] # "notify", \A c \in Clients : pc'[c] # "notify"
  PROVE  Answered = answer /\ Answered' = answer'
BY DEF Answered

\* The initial state maps to the initial state of ConfigHistory.
LEMMA HistoryInit == Init => History!HInit
<1> SUFFICES ASSUME Init PROVE History!HInit
  OBVIOUS
<1>1. \A c \in Clients : pc[c] # "notify"
  BY DEF Init, Actors
<1> QED BY <1>1 DEF Init, History!HInit, History!SetupRequest, NoAnswer, Answer, SetupRequest, Setup

\* Every step of the store is a step of ConfigHistory or a stutter: git commit is
\* Save, Restore or FirstBoot, an answer without a commit is Decline.
LEMMA HistoryStep ==
  ASSUME TypeOK, StoreInv, CleanInv, TypeOK', StoreInv', MaxFaults = 0, [Next]_vars
  PROVE  [History!HNext]_(History!hvars)
<1> USE DEF disk
<1>1. faults = 0 /\ ~Fault
  BY DEF TypeOK, Fault
<1>2. ASSUME UNCHANGED commits, Answered' = Answered
      PROVE  UNCHANGED History!hvars
  BY <1>2 DEF History!hvars, Answered
<1>3. CASE OpenExisting \/ Receive \/ UNCHANGED vars
  BY <1>2, <1>3 DEF OpenExisting, Receive, vars, Answered
<1>4. CASE OpenFirstBoot
  <2>1. \A c \in Clients : pc[c] # "notify"
    BY <1>4, NobodyWorks DEF OpenFirstBoot, Actors
  <2>2. \A c \in Clients : pc'[c] # "notify"
    BY <1>4, <2>1 DEF OpenFirstBoot, TypeOK, Actors
  <2>3. UNCHANGED <<commits, answer>>
    BY <1>4 DEF OpenFirstBoot
  <2> QED BY <1>2, <2>1, <2>2, <2>3, QuietAnswer
<1>5. ASSUME NEW c \in Clients, BeginUpdate(c) \/ BeginRevert(c)
      PROVE  UNCHANGED History!hvars
  <2>1. \A b \in Clients : pc[b] # "notify"
    BY <1>5, NobodyWorks DEF BeginUpdate, BeginRevert, LockFree, Actors
  <2>2. \A b \in Clients : pc'[b] # "notify"
    BY <1>5, <2>1 DEF BeginUpdate, BeginRevert, TypeOK, Actors
  <2>3. UNCHANGED <<commits, answer>>
    BY <1>5 DEF BeginUpdate, BeginRevert
  <2> QED BY <1>2, <2>1, <2>2, <2>3, QuietAnswer
<1>6. ASSUME NEW a \in Actors, WriteFile(a) \/ AllWritten(a) \/ Stage(a)
      PROVE  UNCHANGED History!hvars
  <2>1. \A b \in Clients : pc[b] # "notify"
    BY <1>6, Alone DEF WriteFile, AllWritten, Stage, Actors
  <2>2. \A b \in Clients : pc'[b] # "notify"
    BY <1>6, <2>1 DEF WriteFile, AllWritten, Stage, TypeOK, Actors
  <2>3. UNCHANGED <<commits, answer>>
    BY <1>6 DEF WriteFile, AllWritten, Stage
  <2> QED BY <1>2, <2>1, <2>2, <2>3, QuietAnswer
<1>7. ASSUME NEW a \in Actors, Notify(a)
      PROVE  UNCHANGED History!hvars
  <2>1. holder = a /\ \A b \in Actors \ {a} : pc[b] = "idle"
    BY <1>7, Alone DEF Notify
  <2>2. \A b \in Clients : pc'[b] # "notify"
    BY <1>7, <2>1 DEF Notify, Return, TypeOK, Actors
  <2>3. Answered' = answer' /\ UNCHANGED commits
    BY <1>7, <2>2 DEF Answered, Notify
  <2>4. CASE a \in Clients
    BY <1>2, <1>7, <2>1, <2>3, <2>4 DEF Notify, Return, Answered
  <2>5. CASE a \notin Clients
    BY <1>2, <1>7, <2>1, <2>3, <2>5 DEF Notify, Return, Answered, Actors
  <2> QED BY <2>4, <2>5
<1>8. ASSUME NEW c \in Clients, RefuseNow(c)
      PROVE  History!HNext
  <2>1. \A b \in Clients : pc[b] # "notify" /\ pc'[b] # "notify"
    BY <1>8, NobodyWorks DEF RefuseNow, LockFree, Actors
  <2>2. Answered = answer /\ Answered' = answer' /\ UNCHANGED commits
    BY <1>8, <2>1, QuietAnswer DEF RefuseNow
  <2>3. commits # <<>>
    BY <1>1, <1>8 DEF RefuseNow, LockFree, StoreInv, CleanInv
  <2>4. Readable
    BY <1>1, <2>3 DEF Readable, HeadTree, CleanInv, Valid, TypeOK
  <2>5. \/ \E r \in Updates(Len(commits)) :
              ~Accepted(r, commits) /\ Answered' = Answer(c, r, "refused", 0)
        \/ \E r \in Reverts(Len(commits)) :
              r.rev > Len(commits) /\ Answered' = Answer(c, r, "refused", 0)
    BY <1>8, <2>2, <2>4 DEF RefuseNow
  <2>6. History!Decline(c)
    BY <2>2, <2>3, <2>5, SameOperators DEF History!Decline, History!Reply, Answer, Answered
  <2> QED BY <2>6 DEF History!HNext
<1>9. ASSUME NEW a \in Actors, NothingToCommit(a)
      PROVE  [History!HNext]_(History!hvars)
  <2>1. \A b \in Clients : pc[b] # "notify"
    BY <1>9, Alone DEF NothingToCommit, Actors
  <2>2. \A b \in Clients : pc'[b] # "notify"
    BY <1>9, <2>1 DEF NothingToCommit, Return, TypeOK, Actors
  <2>3. Answered = answer /\ Answered' = answer' /\ UNCHANGED commits
    BY <1>9, <2>1, <2>2, QuietAnswer DEF NothingToCommit
  <2>4. CASE a \notin Clients
    BY <1>2, <1>9, <2>3, <2>4 DEF NothingToCommit, Return
  <2>5. CASE a \in Clients
    <3> DEFINE r == req[a]
    <3>1. a # Setup /\ Answered' = Answer(a, r, "unchanged", 0)
      BY <1>9, <2>3, <2>5, StoreAssumption DEF NothingToCommit, Return, Setup
    <3>2. Outcome(a, r, commits) = HeadOf(commits)
      BY <1>1, <1>9, HeadTreeType DEF NothingToCommit, AddAll, CleanInv
    <3>3. OnUpdate(a, r, commits) \/ OnRevert(a, r, commits)
      BY <1>9 DEF NothingToCommit, StoreInv, Worker
    <3>4. commits # <<>> /\ HeadOf(commits) = History!Tip
      BY <3>1, <3>3 DEF OnUpdate, OnRevert, Reverts, HeadOf, History!Tip
    <3>5. CASE OnUpdate(a, r, commits)
      <4>1. r \in Updates(Len(commits)) /\ Accepted(r, commits)
        BY <3>1, <3>5 DEF OnUpdate
      <4>2. r.op # "revert"
        BY <4>1, UpdateFields DEF TypeOK
      <4>3. Patch(History!Tip, ChangesOf(r, History!Tip)) = History!Tip
        BY <3>2, <3>4, <4>2 DEF Outcome
      <4>4. History!Decline(a)
        BY <2>3, <3>1, <3>4, <4>1, <4>3, SameOperators
           DEF History!Decline, History!Reply, Answer, Answered
      <4> QED BY <2>5, <4>4 DEF History!HNext
    <3>6. CASE OnRevert(a, r, commits)
      <4>1. r \in Reverts(Len(commits)) /\ r.rev <= Len(commits) /\ r.op = "revert"
        BY <3>6 DEF OnRevert, Reverts
      <4>2. commits[r.rev] = History!Tip
        BY <3>2, <3>4, <4>1 DEF Outcome
      <4>3. History!Decline(a)
        BY <2>3, <3>1, <3>4, <4>1, <4>2, SameOperators
           DEF History!Decline, History!Reply, Answer, Answered
      <4> QED BY <2>5, <4>3 DEF History!HNext
    <3> QED BY <3>3, <3>5, <3>6
  <2> QED BY <2>4, <2>5
<1>10. ASSUME NEW a \in Actors, GitCommit(a)
       PROVE  History!HNext
  <2> DEFINE r == req[a]
  <2>1. holder = a /\ \A b \in Actors \ {a} : pc[b] = "idle"
    BY <1>10, Alone DEF GitCommit
  <2>2. Answered = answer
    BY <1>10, <2>1 DEF GitCommit, Answered, Actors
  <2>3. /\ commits' = Append(commits, Outcome(a, r, commits))
        /\ Outcome(a, r, commits) # HeadOf(commits)
        /\ Len(commits') = Len(commits) + 1
        /\ Len(commits) < MaxCommits
    BY <1>1, <1>10 DEF GitCommit, StoreInv, Worker, CleanInv, TypeOK
  <2>4. OnUpdate(a, r, commits) \/ OnRevert(a, r, commits)
    BY <1>10 DEF GitCommit, StoreInv, Worker
  <2>5. CASE a = Setup
    <3>1. a \notin Clients
      BY <2>5, StoreAssumption DEF Setup
    <3>2. commits = <<>> /\ r = SetupRequest
      BY <2>4, <2>5, <3>1 DEF OnUpdate, OnRevert
    <3>3. Outcome(a, r, commits) = Factory
      BY <3>2, FirstCommit DEF Outcome, HeadOf, SetupRequest
    <3>4. Answered' = answer'
      BY <1>10, <2>1, <3>1 DEF GitCommit, Answered, TypeOK, Actors
    <3>5. History!FirstBoot
      BY <1>10, <2>2, <2>3, <3>2, <3>3, <3>4 DEF History!FirstBoot, GitCommit, Answered
    <3> QED BY <3>5 DEF History!HNext
  <2>6. CASE a # Setup
    <3>1. a \in Clients
      BY <2>6 DEF Actors
    <3>2. pc'[a] = "notify" /\ holder' = a /\ req' = req
      BY <1>10, <2>1 DEF GitCommit, TypeOK
    <3>3. Answered' = Answer(a, r, "saved", Len(commits) + 1)
      BY <2>3, <3>1, <3>2 DEF Answered
    <3>4. commits # <<>> /\ HeadOf(commits) = History!Tip
      BY <2>4, <2>6 DEF OnUpdate, OnRevert, Reverts, HeadOf, History!Tip
    <3>5. CASE OnUpdate(a, r, commits)
      <4>1. r \in Updates(Len(commits)) /\ Accepted(r, commits)
        BY <2>6, <3>5 DEF OnUpdate
      <4>2. r.op # "revert"
        BY <4>1, UpdateFields DEF TypeOK
      <4>3. Outcome(a, r, commits) = Patch(History!Tip, ChangesOf(r, History!Tip))
        BY <3>4, <4>2 DEF Outcome
      <4>4. History!Save(a)
        BY <2>3, <3>3, <3>4, <4>1, <4>3, SameOperators
           DEF History!Save, History!Reply, Answer, Answered
      <4> QED BY <3>1, <4>4 DEF History!HNext
    <3>6. CASE OnRevert(a, r, commits)
      <4>1. r \in Reverts(Len(commits)) /\ r.rev <= Len(commits) /\ r.op = "revert"
        BY <3>6 DEF OnRevert, Reverts
      <4>2. Outcome(a, r, commits) = commits[r.rev]
        BY <4>1 DEF Outcome
      <4>3. History!Restore(a)
        BY <2>3, <3>3, <3>4, <4>1, <4>2, SameOperators
           DEF History!Restore, History!Reply, Answer, Answered
      <4> QED BY <3>1, <4>3 DEF History!HNext
    <3> QED BY <2>4, <3>5, <3>6
  <2> QED BY <2>5, <2>6
<1>11. ASSUME NEW a
       PROVE  ~(WriteFails(a) \/ StageFails(a) \/ CommitFails(a) \/ HeadFails(a)
                  \/ BeginFails(a) \/ Crash)
  BY <1>1 DEF WriteFails, StageFails, CommitFails, HeadFails, BeginFails, Crash
<1> QED BY <1>3, <1>4, <1>5, <1>6, <1>7, <1>8, <1>9, <1>10, <1>11 DEF Next, Step, Actors

\* Without failures every request takes effect at one instant, the git commit,
\* as one commit of its own change (store.go Update, Revert).
THEOREM StoreRefinesHistory ==
  ASSUME MaxFaults = 0
  PROVE  Spec => ImplementsHistory
<1>1. Init => CleanInv /\ History!HInit
  BY CleanInit, HistoryInit
<1>2. TypeOK /\ StoreInv /\ CleanInv /\ TypeOK' /\ StoreInv' /\ [Next]_vars
        => CleanInv' /\ [History!HNext]_(History!hvars)
  BY CleanStep, HistoryStep
<1> QED BY <1>1, <1>2, TypeCorrect, StoreInvariant, PTL DEF Spec, ImplementsHistory, History!HSpec
=============================================================================
