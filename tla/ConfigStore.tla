------------------------------ MODULE ConfigStore ------------------------------
(***************************************************************************)
(* The Config Manager (internal/configstore/store.go): a Git repository, a  *)
(* worktree the daemon writes files into, the index git builds the next     *)
(* commit from, and one mutex that serialises the writers.                  *)
(*                                                                          *)
(* A write takes several steps: read HEAD and decide, write the files one   *)
(* by one, git add, git commit, notify.  Any file or git step may fail and  *)
(* the daemon may be killed between two steps; MaxFaults bounds how often.  *)
(* Only the repository, the worktree and the index survive a restart.       *)
(***************************************************************************)
EXTENDS ConfigModel

CONSTANTS Clients,      \* API handlers that write
          MaxCommits,   \* bound on the history
          MaxFaults     \* bound on failed steps and crashes

ASSUME StoreAssumption ==
  /\ MaxCommits \in Nat
  /\ MaxFaults \in Nat
  /\ "setup" \notin Clients /\ "nobody" \notin Clients

Setup == "setup"        \* Open, creating the repository
Nobody == "nobody"
Actors == Clients \cup {Setup}

VARIABLES repo,      \* .git exists
          commits,   \* the history, oldest first; HEAD is the last
          work,      \* the worktree
          index,     \* the index
          serving,   \* Open has returned and the API is up
          holder,    \* who holds Store.mu (Open needs no lock: it runs alone)
          pc,        \* actor -> the step it is at
          req,       \* actor -> the request it works on
          todo,      \* actor -> the files it has still to write
          answer,    \* the last answer given to a client
          inbox,     \* the subscriber's channel (capacity 1): 0 when empty
          heard,     \* the commit the subscriber last saw as HEAD
          faults     \* failures so far

vars == <<repo, commits, work, index, serving, holder, pc, req, todo, answer,
          inbox, heard, faults>>
disk == <<repo, commits, work, index>>

NoRequest == [op |-> "none"]
Answer(c, r, res, id) == [client |-> c, req |-> r, result |-> res, id |-> id]
NoAnswer == Answer(Setup, SetupRequest, "none", 0)
HeadTree == IF commits = <<>> THEN EmptyTree ELSE commits[Len(commits)]

\* Read fails on a file that does not hold exactly one object.
Readable == commits # <<>> /\ HeadTree \in Trees

Steps == {"idle", "write", "stage", "commit", "notify"}
AnyRequest == Updates(MaxCommits) \cup Reverts(MaxCommits) \cup {SetupRequest, NoRequest}
Results == {"none", "saved", "refused", "unchanged", "failed"}

TypeOK ==
  /\ repo \in BOOLEAN
  /\ commits \in Seq(DiskTrees) /\ Len(commits) <= MaxCommits
  /\ work \in DiskTrees
  /\ index \in DiskTrees
  /\ serving \in BOOLEAN
  /\ holder \in Actors \cup {Nobody}
  /\ pc \in [Actors -> Steps]
  /\ req \in [Actors -> AnyRequest]
  /\ todo \in [Actors -> SUBSET Files]
  /\ answer \in [client : Actors, req : AnyRequest, result : Results, id : 0..MaxCommits]
  /\ inbox \in 0..MaxCommits
  /\ heard \in 0..MaxCommits
  /\ faults \in 0..MaxFaults

Init ==
  /\ repo = FALSE
  /\ commits = <<>>
  /\ work = EmptyTree
  /\ index = EmptyTree
  /\ serving = FALSE
  /\ holder = Nobody
  /\ pc = [a \in Actors |-> "idle"]
  /\ req = [a \in Actors |-> NoRequest]
  /\ todo = [a \in Actors |-> {}]
  /\ answer = NoAnswer
  /\ inbox = 0
  /\ heard = 0
  /\ faults = 0

-----------------------------------------------------------------------------
(* Open *)

\* .git exists: nothing else is looked at.  The daemon starts serving and the
\* subscriber reads HEAD.
OpenExisting ==
  /\ ~serving
  /\ holder = Nobody
  /\ repo
  /\ serving' = TRUE
  /\ heard' = Len(commits)
  /\ UNCHANGED <<disk, holder, pc, req, todo, answer, inbox, faults>>

\* First boot: git init, then the factory objects are written and committed
\* like any other change.
OpenFirstBoot ==
  /\ ~serving
  /\ holder = Nobody
  /\ ~repo
  /\ MaxCommits > 0
  /\ repo' = TRUE
  /\ holder' = Setup
  /\ pc' = [pc EXCEPT ![Setup] = "write"]
  /\ req' = [req EXCEPT ![Setup] = SetupRequest]
  /\ todo' = [todo EXCEPT ![Setup] = DOMAIN ChangesOf(SetupRequest, EmptyTree)]
  /\ UNCHANGED <<commits, work, index, serving, answer, inbox, heard, faults>>

-----------------------------------------------------------------------------
(* The steps of Update, Revert and commit *)

\* Mutant: the mutex is forgotten.
Mutant_LockFree == TRUE

LockFree == holder = Nobody

\* Back to the caller: the deferred Unlock, and the answer of the handler.
Return(a, res, id) ==
  /\ pc' = [pc EXCEPT ![a] = "idle"]
  /\ req' = [req EXCEPT ![a] = NoRequest]
  /\ todo' = [todo EXCEPT ![a] = {}]
  /\ holder' = Nobody
  /\ answer' = IF a \in Clients THEN Answer(a, req[a], res, id) ELSE answer

\* A client calls and gets the lock: HEAD is read, the change is built,
\* validated and checked against the base revision.
BeginUpdate(c) ==
  /\ serving /\ LockFree /\ pc[c] = "idle"
  /\ Readable
  /\ Len(commits) < MaxCommits
  /\ \E r \in Updates(Len(commits)) :
       /\ Accepted(r, commits)
       /\ req' = [req EXCEPT ![c] = r]
       /\ todo' = [todo EXCEPT ![c] = DOMAIN ChangesOf(r, HeadTree)]
  /\ pc' = [pc EXCEPT ![c] = "write"]
  /\ holder' = c
  /\ UNCHANGED <<disk, serving, answer, inbox, heard, faults>>

\* The change is refused, the revision to restore is unknown, or HEAD cannot
\* be read: the handler returns at once.
RefuseNow(c) ==
  /\ serving /\ LockFree /\ pc[c] = "idle"
  /\ \/ \E r \in Updates(Len(commits)) :
           /\ ~Readable
           /\ answer' = Answer(c, r, "failed", 0)
     \/ \E r \in Updates(Len(commits)) :
           /\ Readable /\ ~Accepted(r, commits)
           /\ answer' = Answer(c, r, "refused", 0)
     \/ \E r \in Reverts(Len(commits)) :
           /\ r.rev > Len(commits)
           /\ answer' = Answer(c, r, "refused", 0)
  /\ UNCHANGED <<disk, serving, holder, pc, req, todo, inbox, heard, faults>>

\* git read-tree -u --reset: the index becomes the tree; files the old index
\* or the tree knows follow it, files git does not track stay where they are.
ResetTo(t) ==
  /\ index' = t
  /\ work' = [f \in Files |->
                IF index[f] # Absent \/ t[f] # Absent THEN t[f] ELSE work[f]]

BeginRevert(c) ==
  /\ serving /\ LockFree /\ pc[c] = "idle"
  /\ Len(commits) < MaxCommits
  /\ \E r \in Reverts(Len(commits)) :
       /\ r.rev <= Len(commits)
       /\ ResetTo(commits[r.rev])
       /\ req' = [req EXCEPT ![c] = r]
  /\ pc' = [pc EXCEPT ![c] = "stage"]
  /\ holder' = c
  /\ UNCHANGED <<repo, commits, serving, todo, answer, inbox, heard, faults>>

\* The tree the request was judged on: nobody commits while the lock is held.
Target(a) == ChangesOf(req[a], HeadTree)

WriteFile(a) ==
  /\ pc[a] = "write"
  /\ \E f \in todo[a] :
       /\ work' = [work EXCEPT ![f] = Target(a)[f]]
       /\ todo' = [todo EXCEPT ![a] = @ \ {f}]
  /\ UNCHANGED <<repo, commits, index, serving, holder, pc, req, answer, inbox, heard, faults>>

AllWritten(a) ==
  /\ pc[a] = "write"
  /\ todo[a] = {}
  /\ pc' = [pc EXCEPT ![a] = "stage"]
  /\ UNCHANGED <<disk, serving, holder, req, todo, answer, inbox, heard, faults>>

\* Mutant: after the first boot git add -u, which leaves new files out.
Mutant_AddAll ==
  [f \in Files |-> IF index[f] # Absent \/ commits = <<>> THEN work[f] ELSE Absent]

\* What git add -A makes of the index: the whole worktree, whoever wrote it.
AddAll == work

\* git add -A, and git status finds something to commit.
Stage(a) ==
  /\ pc[a] = "stage"
  /\ AddAll # HeadTree
  /\ index' = AddAll
  /\ pc' = [pc EXCEPT ![a] = "commit"]
  /\ UNCHANGED <<repo, commits, work, serving, holder, req, todo, answer, inbox, heard, faults>>

NothingToCommit(a) ==
  /\ pc[a] = "stage"
  /\ AddAll = HeadTree
  /\ index' = AddAll
  /\ Return(a, "unchanged", 0)
  /\ UNCHANGED <<repo, commits, work, serving, inbox, heard, faults>>

GitCommit(a) ==
  /\ pc[a] = "commit"
  /\ commits' = Append(commits, index)
  /\ pc' = [pc EXCEPT ![a] = "notify"]
  /\ UNCHANGED <<repo, work, index, serving, holder, req, todo, answer, inbox, heard, faults>>

\* Mutants: the send is forgotten; the id of the next commit is sent.
Mutant_OfferDropped(ch, id) == ch
Mutant_OfferNext(ch, id) == IF ch = 0 THEN id + 1 ELSE ch

\* A send that does not block: the channel keeps the notification it holds.
Offer(ch, id) == IF ch = 0 THEN id ELSE ch

\* Head, notify, unlock.  Open has no subscriber yet; it returns to main,
\* which starts the subscriber (it reads HEAD first) and the API.
Notify(a) ==
  /\ pc[a] = "notify"
  /\ IF a = Setup
       THEN serving' = TRUE /\ heard' = Len(commits) /\ UNCHANGED inbox
       ELSE inbox' = Offer(inbox, Len(commits)) /\ UNCHANGED <<serving, heard>>
  /\ Return(a, "saved", Len(commits))
  /\ UNCHANGED <<disk, faults>>

-----------------------------------------------------------------------------
(* The subscriber: woken by the channel, it reads HEAD (reconciler.go) *)

Receive ==
  /\ inbox # 0
  /\ inbox' = 0
  /\ heard' = Len(commits)
  /\ UNCHANGED <<disk, serving, holder, pc, req, todo, answer, faults>>

-----------------------------------------------------------------------------
(* Failures *)

\* main exits when Open fails and a killed daemon is restarted: memory is
\* lost, the disk is not.  The answers already given stay given.
LoseMemory ==
  /\ serving' = FALSE
  /\ holder' = Nobody
  /\ pc' = [a \in Actors |-> "idle"]
  /\ req' = [a \in Actors |-> NoRequest]
  /\ todo' = [a \in Actors |-> {}]
  /\ inbox' = 0
  /\ UNCHANGED <<answer, heard>>

Fail(a, res) ==
  IF a = Setup
    THEN LoseMemory
    ELSE Return(a, res, 0) /\ UNCHANGED <<serving, inbox, heard>>

Fault == faults < MaxFaults /\ faults' = faults + 1

\* git checkout -- . : the tracked files come back, the others stay.
Restored(t) == [f \in Files |-> IF index[f] # Absent THEN index[f] ELSE t[f]]

\* Writing f fails, with f untouched or cut short.  Update restores the
\* worktree (best effort: its error is ignored); Open does not.
WriteFails(a) ==
  /\ Fault
  /\ pc[a] = "write"
  /\ \E f \in todo[a] : \E left \in {work[f], Torn} :
       LET broken == [work EXCEPT ![f] = left]
       IN  work' \in IF a = Setup THEN {broken} ELSE {broken, Restored(broken)}
  /\ Fail(a, "failed")
  /\ UNCHANGED <<repo, commits, index>>

\* HEAD cannot be read, or git read-tree fails: the index stays as it was, the
\* worktree may hold a part of the tree to restore.
BeginFails(c) ==
  /\ Fault
  /\ serving /\ LockFree /\ pc[c] = "idle"
  /\ \/ \E r \in Updates(Len(commits)) :
           /\ answer' = Answer(c, r, "failed", 0)
           /\ UNCHANGED work
     \/ \E r \in Reverts(Len(commits)), part \in SUBSET Files :
           /\ r.rev <= Len(commits)
           /\ answer' = Answer(c, r, "failed", 0)
           /\ work' = [f \in Files |->
                         IF f \in part /\ (index[f] # Absent \/ commits[r.rev][f] # Absent)
                           THEN commits[r.rev][f] ELSE work[f]]
  /\ UNCHANGED <<repo, commits, index, serving, holder, pc, req, todo, inbox, heard>>

\* git add fails and leaves the index alone, or git status fails, which is
\* taken for "nothing to commit".
StageFails(a) ==
  /\ Fault
  /\ pc[a] = "stage"
  /\ \/ index' = index /\ Fail(a, "failed")
     \/ index' = AddAll /\ Fail(a, "unchanged")
  /\ UNCHANGED <<repo, commits, work>>

CommitFails(a) ==
  /\ Fault
  /\ pc[a] = "commit"
  /\ Fail(a, "failed")
  /\ UNCHANGED disk

\* The commit is there, but its id cannot be read back: nobody is notified.
HeadFails(a) ==
  /\ Fault
  /\ pc[a] = "notify"
  /\ Fail(a, "failed")
  /\ UNCHANGED disk

Crash ==
  /\ Fault
  /\ serving \/ holder # Nobody
  /\ LoseMemory
  /\ UNCHANGED disk

-----------------------------------------------------------------------------
Step(a) ==
  \/ WriteFile(a) \/ AllWritten(a) \/ Stage(a) \/ NothingToCommit(a)
  \/ GitCommit(a) \/ Notify(a)
  \/ WriteFails(a) \/ StageFails(a) \/ CommitFails(a) \/ HeadFails(a)

Next ==
  \/ OpenExisting \/ OpenFirstBoot \/ Receive \/ Crash
  \/ \E c \in Clients : BeginUpdate(c) \/ RefuseNow(c) \/ BeginRevert(c) \/ BeginFails(c)
  \/ \E a \in Actors : Step(a)

Spec == Init /\ [][Next]_vars

-----------------------------------------------------------------------------
(* Properties *)

\* Every commit is a configuration the validator accepts without an error:
\* validation happens under the lock, on the tree that becomes the commit
\* (store.go Update, config.go mutation and importConfig).
CommitsValid ==
  \A k \in 1..Len(commits) : commits[k] \in Trees /\ ErrorsOf(commits[k]) = {}

\* The coalescing channel loses no commit: when nobody is writing, either the
\* subscriber has seen the current HEAD or a wake-up waits for it
\* (store.go notify, Subscribe).
NoMissedCommit ==
  serving /\ holder = Nobody => heard = Len(commits) \/ inbox # 0

\* What was checked when the lock was taken is still true when the commit
\* lands: the request is valid against HEAD and conflicts with no commit, at
\* every step, whatever fails and whenever the daemon restarts
\* (store.go Update).
StillAccepted ==
  \A c \in Clients :
    pc[c] \in {"write", "stage", "commit"} /\ req[c].op # "revert"
      => commits # <<>> /\ Accepted(req[c], commits)

\* A client told "saved" finds its change in the commit it was given, and
\* that commit stays in the history through failures and restarts
\* (store.go commit, config.go putObject, revert).
AckDurable ==
  LET r == answer.req
      id == answer.id
      wanted == IF r.op = "revert" THEN commits[r.rev] ELSE ChangesOf(r, commits[id - 1])
  IN  answer.result = "saved" =>
        /\ id \in 2..Len(commits)
        /\ \A f \in DOMAIN wanted :
              \/ wanted[f] = commits[id][f]
              \/ r.op = "revert" /\ wanted[f] = Absent

\* With no failure the store does what ConfigHistory says: each request takes
\* effect at the instant of git commit, as one commit of its own change.
History == INSTANCE ConfigHistory WITH
  log <- commits,
  answer <- IF \E c \in Clients : pc[c] = "notify"
              THEN Answer(holder, req[holder], "saved", Len(commits))
              ELSE answer
ImplementsHistory == History!HSpec

\* store.go:265 says of Revert: "creates a new commit whose tree equals rev".
RevertRestoresTree ==
  answer.result = "saved" /\ answer.req.op = "revert"
    => commits[answer.id] = commits[answer.req.rev]

\* store.go:65 says of Open: "creating it with the factory-default
\* configuration on first boot".
ServingHasHead == serving => commits # <<>>
=============================================================================
