----------------------------- MODULE ConfigHistory -----------------------------
(***************************************************************************)
(* What the Config Manager promises, with no Git, no files and no lock: the *)
(* desired state is a history of trees.  Every request takes effect at one  *)
(* instant.  It either appends one tree, the last one with its own change   *)
(* and nothing else applied, or leaves the history alone.                   *)
(***************************************************************************)
EXTENDS ConfigModel

CONSTANTS Clients, MaxCommits

VARIABLES log,      \* the trees committed so far
          answer    \* the last request that took effect and what became of it

hvars == <<log, answer>>

Tip == log[Len(log)]

HInit ==
  /\ log = <<>>
  /\ answer = [client |-> "setup", req |-> SetupRequest, result |-> "none", id |-> 0]

FirstBoot ==
  /\ log = <<>>
  /\ log' = <<Factory>>
  /\ UNCHANGED answer

Reply(c, r, res, id) ==
  answer' = [client |-> c, req |-> r, result |-> res, id |-> id]

\* An accepted request is one new tree, based on the tree it was judged on.
Save(c) ==
  \E r \in Updates(Len(log)) :
    /\ log # <<>>
    /\ Len(log) < MaxCommits
    /\ Reply(c, r, "saved", Len(log) + 1)
    /\ Accepted(r, log)
    /\ Patch(Tip, ChangesOf(r, Tip)) # Tip
    /\ log' = Append(log, Patch(Tip, ChangesOf(r, Tip)))

\* Rollback is a commit whose tree equals the one at rev.
Restore(c) ==
  \E r \in Reverts(Len(log)) :
    /\ Len(log) < MaxCommits
    /\ Reply(c, r, "saved", Len(log) + 1)
    /\ r.rev <= Len(log)
    /\ log[r.rev] # Tip
    /\ log' = Append(log, log[r.rev])

\* A request that is not acceptable, or changes nothing, leaves no trace.
Decline(c) ==
  /\ log # <<>>
  /\ UNCHANGED log
  /\ \/ \E r \in Updates(Len(log)) :
           \/ Reply(c, r, "refused", 0) /\ ~Accepted(r, log)
           \/ /\ Reply(c, r, "unchanged", 0)
              /\ Accepted(r, log)
              /\ Patch(Tip, ChangesOf(r, Tip)) = Tip
     \/ \E r \in Reverts(Len(log)) :
           \/ Reply(c, r, "refused", 0) /\ r.rev > Len(log)
           \/ Reply(c, r, "unchanged", 0) /\ r.rev <= Len(log) /\ log[r.rev] = Tip

HNext == FirstBoot \/ \E c \in Clients : Save(c) \/ Restore(c) \/ Decline(c)

HSpec == HInit /\ [][HNext]_hvars
=============================================================================
