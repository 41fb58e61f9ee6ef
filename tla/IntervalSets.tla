------------------------------ MODULE IntervalSets ------------------------------
(***************************************************************************)
(* Sets of IPv4 addresses and ports as lists of intervals                   *)
(* (internal/validator/sets.go).  The order of a list and its repetitions   *)
(* mean nothing to the code, so a list is a set of intervals here; they may *)
(* overlap, touch or contain one another.                                   *)
(***************************************************************************)
EXTENDS Integers, SequencesExt

CONSTANT Width      \* bits of an address: 32

ASSUME WidthAssumption == Width \in Nat \ {0}

Top == 2^Width - 1                  \* the largest uint32
Ip == 0..Top
Interval(lo, hi) == [lo |-> lo, hi |-> hi]
Intervals == {v \in [lo : Nat, hi : Nat] : v.lo <= v.hi}

(***************************************************************************)
(* Address objects: a prefix, which may have host bits set, a range, or a   *)
(* name (fqdn, mac) that the data plane cannot match.                       *)
(***************************************************************************)
Subnet(ip, bits) == [form |-> "subnet", ip |-> ip, bits |-> bits]
AddressRange(start, end) == [form |-> "range", start |-> start, end |-> end]
FQDN == [form |-> "fqdn"]
MAC == [form |-> "mac"]

AddressForms ==
  [form : {"subnet"}, ip : Ip, bits : 0..Width]
    \cup [form : {"range"}, start : Ip, end : Ip] \cup {FQDN, MAC}

Block(bits) == 2^(Width - bits)

\* Arithmetic of powers, which the provers do not have.
ASSUME PowersOfTwo ==
  \A bits \in 0..Width : Block(bits) \in 1..2^Width /\ 2^Width % Block(bits) = 0

Masked(ip, bits) == ip - (ip % Block(bits))

(***************************************************************************)
(* addrInterval.  The last address of a subnet is the first with its host    *)
(* bits set: 1<<(32-bits) - 1, in 32 bits, which for a /0 shifts the one out *)
(* and wraps around below zero.  A range in the wrong order is empty.        *)
(***************************************************************************)
HostBits(bits) == ((Block(bits) % 2^Width) - 1) % 2^Width

Span(a) ==
  CASE a.form = "subnet" ->
         {Interval(Masked(a.ip, a.bits), Masked(a.ip, a.bits) + HostBits(a.bits))}
    [] a.form = "range" /\ a.start <= a.end -> {Interval(a.start, a.end)}
    [] OTHER -> {}

\* How the classifier matches the same object (addrContains).
addrContains(a, ip) ==
  \/ a.form = "subnet" /\ Masked(ip, a.bits) = Masked(a.ip, a.bits)
  \/ a.form = "range" /\ a.start <= ip /\ ip <= a.end

(***************************************************************************)
(* norm: sorted, with overlapping and adjacent intervals merged.  hi + 1 is *)
(* computed in 64 bits.                                                     *)
(***************************************************************************)
Merge(out, v) ==
  IF out # <<>> /\ v.lo <= Last(out).hi + 1
    THEN [out EXCEPT ![Len(out)].hi = IF v.hi > @ THEN v.hi ELSE @]
    ELSE Append(out, v)

\* The last one in the order of the sort; with equal lo merge gives the same
\* in either order.
Highest(s) ==
  CHOOSE v \in s : \A w \in s : w.lo < v.lo \/ (w.lo = v.lo /\ w.hi <= v.hi)

Norm(s) ==
  LET norm[t \in SUBSET s] ==
        IF t = {} THEN <<>> ELSE Merge(norm[t \ {Highest(t)}], Highest(t))
  IN  norm[s]

Overlaps(s, o) == \E v \in s, w \in o : v.lo <= w.hi /\ w.lo <= v.hi

\* Mutant: each interval on its own, without norm.
Mutant_Covers(s, o) ==
  \A w \in o : \E v \in s : v.lo <= w.lo /\ w.hi <= v.hi

Covers(s, o) ==
  \A w \in o : \E v \in Range(Norm(s)) : v.lo <= w.lo /\ w.hi <= v.hi

Size(s) ==
  LET n == Norm(s)
      size[k \in 0..Len(n)] == IF k = 0 THEN 0 ELSE size[k-1] + (n[k].hi - n[k].lo) + 1
  IN  size[Len(n)]

\* What a list stands for.
Points(s) == UNION {v.lo .. v.hi : v \in s}
=============================================================================
