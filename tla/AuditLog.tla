-------------------------------- MODULE AuditLog --------------------------------
(***************************************************************************)
(* The Audit Log (internal/audit/audit.go) with the handlers and the        *)
(* Reconciler that write to it, through failed and torn appends, restarts   *)
(* and power cuts.                                                          *)
(*                                                                         *)
(* Record advances the sequence number and the hash in memory first, then   *)
(* appends the line and ignores every error, and never flushes the file;    *)
(* Open takes both from the last line.  A hash is the chain it stands for:  *)
(* the sequence of what was recorded up to and including its entry.         *)
(***************************************************************************)
EXTENDS Naturals, FiniteSets, Sequences, TLC

CONSTANTS Handlers,     \* API handlers
          MaxCommits,   \* bound on the commits
          MaxEntries,   \* bound on the calls of Record
          MaxFaults,    \* bound on failed appends and power cuts
          MaxRestarts   \* bound on restarts

AuditAssumption ==
  /\ MaxCommits \in Nat \ {0} /\ MaxEntries \in Nat
  /\ MaxFaults \in Nat /\ MaxRestarts \in Nat

VARIABLES head,      \* number of commits in the repository
          up,        \* the daemon runs
          pc,        \* handler -> the step it is at
          about,     \* handler -> the commit it has made (0: none)
          owed,      \* handler -> the entries it has still to record
          attempt,   \* the commit the Reconciler attempted last in this life
          result,    \* the commit whose result it has still to record, or 0
          last, seq, \* Log.last, Log.seq
          file,      \* the lines of audit.log
          cut,       \* the last line has no end of line
          made,      \* ghost: every call of Record, with the life it was made in
          answered,  \* ghost: the commits acknowledged to a client
          life,      \* ghost: restarts so far
          faults     \* failed appends and power cuts so far

handlers == <<pc, about, owed, answered>>
log == <<last, seq, file, cut, made>>
auditVars == <<head, up, handlers, attempt, result, log, life, faults>>

Actors == {"handler", "login", "reconciler"}
Bodies == [seq : 1..MaxEntries, actor : Actors, commit : 0..MaxCommits]
Hashes == Seq(Bodies)

\* nth is a ghost: which call of Record the line comes from.
Lines == [body : Bodies, prev : Hashes, hash : Hashes, whole : BOOLEAN, nth : 1..MaxEntries]

AuditTypeOK ==
  /\ head \in 0..MaxCommits
  /\ up \in BOOLEAN
  /\ pc \in [Handlers -> {"idle", "record", "wait"}]
  /\ about \in [Handlers -> 0..MaxCommits]
  /\ owed \in [Handlers -> 0..2]
  /\ attempt \in 0..MaxCommits /\ result \in 0..MaxCommits
  /\ last \in Hashes /\ seq \in 0..MaxEntries
  /\ file \in Seq(Lines) /\ cut \in BOOLEAN
  /\ made \in Seq([body : Bodies, life : 0..MaxRestarts, stored : BOOLEAN])
  /\ answered \subseteq 1..MaxCommits
  /\ life \in 0..MaxRestarts
  /\ faults \in 0..MaxFaults

\* Open has read the empty file; the repository holds the factory commit.
AuditInit ==
  /\ head = 1
  /\ up = TRUE
  /\ pc = [h \in Handlers |-> "idle"]
  /\ about = [h \in Handlers |-> 0]
  /\ owed = [h \in Handlers |-> 0]
  /\ attempt = 0 /\ result = 0
  /\ last = <<>> /\ seq = 0
  /\ file = <<>> /\ cut = FALSE
  /\ made = <<>>
  /\ answered = {}
  /\ life = 0
  /\ faults = 0

-----------------------------------------------------------------------------
(* Reading the file *)

Readable == \A i \in 1..Len(file) : file[i].whole

Digest(prev, body) == Append(prev, body)

\* The previous hash of the i-th line.
PrevHash(i) == IF i = 1 THEN <<>> ELSE file[i - 1].hash

Verify ==
  /\ Readable
  /\ \A i \in 1..Len(file) :
        /\ file[i].prev = PrevHash(i)
        /\ file[i].hash = Digest(file[i].prev, file[i].body)

-----------------------------------------------------------------------------
(* Record *)

\* The lines after the text of a new one was appended: text that follows a
\* line without its end makes one unreadable line of the two.
AppendText(line) ==
  IF cut THEN [file EXCEPT ![Len(file)].whole = FALSE] ELSE Append(file, line)

\* What an append leaves: everything; nothing (open fails, or write does); a
\* part of the line; the whole line without its end.
Appended(line, outcome) ==
  CASE outcome = "stored" -> file' = AppendText(line) /\ cut' = FALSE
    [] outcome = "lost"   -> UNCHANGED <<file, cut>>
    [] outcome = "torn"   -> file' = AppendText([line EXCEPT !.whole = FALSE]) /\ cut' = TRUE
    [] outcome = "no-end" -> file' = AppendText(line) /\ cut' = TRUE

\* The hash of the next entry's prev, whatever becomes of this one.
Advance(hash, outcome) == hash

Record(actor, commit) ==
  LET body == [seq |-> seq + 1, actor |-> actor, commit |-> commit]
      hash == Digest(last, body)
      line == [body |-> body, prev |-> last, hash |-> hash, whole |-> TRUE, nth |-> Len(made) + 1]
  IN  /\ Len(made) < MaxEntries
      /\ seq' = seq + 1
      /\ \E outcome \in {"stored", "lost", "torn", "no-end"} :
           /\ \/ outcome = "stored" /\ faults' = faults
              \/ outcome # "stored" /\ faults < MaxFaults /\ faults' = faults + 1
           /\ Appended(line, outcome)
           /\ last' = Advance(hash, outcome)
           /\ made' = Append(made, [body |-> body, life |-> life,
                                    stored |-> outcome \in {"stored", "no-end"} /\ ~cut])

-----------------------------------------------------------------------------
(* The handlers *)

AfterCommit == "record"

\* putObject, deleteObject, putUser, importConfig, revert: the commit is made.
Commit(h) ==
  /\ up /\ pc[h] = "idle"
  /\ head < MaxCommits
  /\ head' = head + 1
  /\ about' = [about EXCEPT ![h] = head + 1]
  /\ owed' = [owed EXCEPT ![h] = 1]
  /\ pc' = [pc EXCEPT ![h] = AfterCommit]
  /\ UNCHANGED <<up, answered, attempt, result, log, life, faults>>

\* login, logout, export, fault: one entry, or two when a failed login causes
\* a lockout.
Call(h) ==
  /\ up /\ pc[h] = "idle"
  /\ about' = [about EXCEPT ![h] = 0]
  /\ \E n \in 1..2 : owed' = [owed EXCEPT ![h] = n]
  /\ pc' = [pc EXCEPT ![h] = "record"]
  /\ UNCHANGED <<head, up, answered, attempt, result, log, life, faults>>

RecordCall(h) ==
  /\ up /\ pc[h] = "record"
  /\ Record(IF about[h] = 0 THEN "login" ELSE "handler", about[h])
  /\ owed' = [owed EXCEPT ![h] = @ - 1]
  /\ pc' = [pc EXCEPT ![h] = IF owed[h] = 1 THEN "wait" ELSE "record"]
  /\ UNCHANGED <<head, up, about, answered, attempt, result, life>>

\* The answer; respondApplied gives it when the commit was attempted, or
\* superseded and the time is over.
Respond(h) ==
  /\ up /\ pc[h] = "wait"
  /\ answered' = answered \cup ({about[h]} \ {0})
  /\ pc' = [pc EXCEPT ![h] = "idle"]
  /\ about' = [about EXCEPT ![h] = 0]
  /\ owed' = [owed EXCEPT ![h] = 0]
  /\ UNCHANGED <<head, up, attempt, result, log, life, faults>>

-----------------------------------------------------------------------------
(* The Reconciler and its OnResult hook *)

\* reconcile attempts HEAD; the attempt is published before it is recorded, and
\* a no-op is not recorded.
Attempt ==
  /\ up /\ result = 0 /\ attempt # head
  /\ attempt' = head
  /\ result' \in {0, head}
  /\ UNCHANGED <<head, up, handlers, log, life, faults>>

OnResult ==
  /\ up /\ result # 0
  /\ Record("reconciler", result)
  /\ result' = 0
  /\ UNCHANGED <<head, up, handlers, attempt, life>>

-----------------------------------------------------------------------------
(* Restarts *)

\* The handlers and the memory of the daemon are gone.
Down ==
  /\ life < MaxRestarts
  /\ life' = life + 1
  /\ up' = FALSE
  /\ pc' = [h \in Handlers |-> "idle"]
  /\ about' = [h \in Handlers |-> 0]
  /\ owed' = [h \in Handlers |-> 0]
  /\ attempt' = 0 /\ result' = 0
  /\ last' = <<>> /\ seq' = 0
  /\ UNCHANGED <<head, made, answered>>

Kill ==
  /\ up
  /\ Down
  /\ UNCHANGED <<file, cut, faults>>

\* What was never flushed may be gone, the last line of the rest cut short.
PowerCut ==
  /\ up
  /\ faults < MaxFaults /\ faults' = faults + 1
  /\ \E n \in 0..Len(file) :
       \/ file' = SubSeq(file, 1, n) /\ cut' = (cut /\ n = Len(file))
       \/ n > 0 /\ file' = [SubSeq(file, 1, n) EXCEPT ![n].whole = FALSE] /\ cut' = TRUE
  /\ Down

\* Mutant: the daemon starts a chain of its own.
Mutant_LastHash == <<>>

LastHash == PrevHash(Len(file) + 1)
LastSeq == IF file = <<>> THEN 0 ELSE file[Len(file)].body.seq

\* audit.Open: a line that cannot be parsed ends the start of the daemon.
Open ==
  /\ ~up
  /\ Readable
  /\ up' = TRUE
  /\ last' = LastHash
  /\ seq' = LastSeq
  /\ UNCHANGED <<head, handlers, attempt, result, file, cut, made, life, faults>>

-----------------------------------------------------------------------------
AuditNext ==
  \/ \E h \in Handlers : Commit(h) \/ Call(h) \/ RecordCall(h) \/ Respond(h)
  \/ Attempt \/ OnResult
  \/ Kill \/ PowerCut \/ Open

AuditSpec == AuditInit /\ [][AuditNext]_auditVars

AuditSymmetry == Permutations(Handlers)

-----------------------------------------------------------------------------
(* Properties *)

\* A chain that verifies has a hole only where the daemon was restarted: when
\* entries between two lines of the file are missing, all of them are of an
\* earlier life than the line that follows (audit.go Record, Verify).
GapsBreakTheChain ==
  Verify =>
    \A i \in 1..Len(file) - 1 : \A k \in file[i].nth + 1 .. file[i + 1].nth - 1 :
      made[k].life < made[file[i + 1].nth].life

\* Whatever is lost, torn or repeated by restarts, the sequence numbers of the
\* lines only grow (audit.go Open, Record).
SeqGrows ==
  \A i, j \in 1..Len(file) : i < j => file[i].body.seq < file[j].body.seq

\* While every append succeeds the chain verifies, whoever records what in
\* which order and however often the daemon is killed (audit.go Open, Verify).
UnfailingLogVerifies == faults = 0 => Verify

\* While every append succeeds, a change that was acknowledged has exactly one
\* entry, even when the daemon was killed since (config.go, api.go revert:
\* Record comes before respondApplied).
AcknowledgedIsAudited ==
  faults = 0 =>
    \A c \in answered :
      Cardinality({i \in 1..Len(file) : file[i].body.commit = c
                                        /\ file[i].body.actor = "handler"}) = 1

\* What the log promises: a chain that verifies has a hole only where the daemon
\* was restarted, and its numbers grow; while every append succeeds the chain
\* verifies, and a change that was acknowledged has one entry.
AuditKept ==
  /\ GapsBreakTheChain /\ SeqGrows
  /\ UnfailingLogVerifies /\ AcknowledgedIsAudited

\* audit.go:123 says of Verify: "any modified, removed or reordered entry
\* breaks it".
RemovedBreaksTheChain ==
  Verify => \A k \in 1..Len(made) : made[k].stored =>
              \E i \in 1..Len(file) : file[i].nth = k
=============================================================================
