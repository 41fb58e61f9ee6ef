------------------------------ MODULE AddressLists ------------------------------
(***************************************************************************)
(* The interval algebra against the sets it stands for.  The Validator       *)
(* builds two lists by appending the interval of one Address after another  *)
(* (addrSet in internal/validator/sets.go) and compares them; the classifier *)
(* asks of each Address whether it contains a destination.                   *)
(***************************************************************************)
EXTENDS IntervalSets, FiniteSets

CONSTANTS Forms,                \* the Addresses there are
          MaxLeft, MaxRight     \* bounds on the lengths of the lists

ASSUME ListsAssumption == Forms \subseteq AddressForms /\ MaxLeft \in Nat /\ MaxRight \in Nat

VARIABLES left, right           \* the Addresses of the two lists so far

listsVars == <<left, right>>

Spans(refs) == UNION {Span(a) : a \in refs}
Matched(refs) == {ip \in Ip : \E a \in refs : addrContains(a, ip)}

ListsInit == left = {} /\ right = {}

AddLeft(a) ==
  /\ Cardinality(left) < MaxLeft
  /\ left' = left \cup {a}
  /\ UNCHANGED right

AddRight(a) ==
  /\ Cardinality(right) < MaxRight
  /\ right' = right \cup {a}
  /\ UNCHANGED left

\* Two other rules are compared: addrSet starts with an empty list.
NextPair == left' = {} /\ right' = {}

ListsNext == NextPair \/ \E a \in Forms : AddLeft(a) \/ AddRight(a)

ListsSpec == ListsInit /\ [][ListsNext]_listsVars

-----------------------------------------------------------------------------

\* The Validator's intervals and the classifier's matching are written
\* separately (sets.go:24, classify.go:50): they describe the same addresses,
\* from a /32 to a /0, with host bits set or not.
SpansMatch == Points(Spans(left)) = Matched(left)

\* Two rules overlap, in dnatOverlaps and managementPort, exactly when some
\* address is matched by both.
OverlapsExact ==
  Overlaps(Spans(left), Spans(right)) <=> Matched(left) \cap Matched(right) # {}

\* An earlier rule covers a later one, in shadowed, exactly when it matches
\* every address of it, even if only several of its Addresses together do.
CoversExact ==
  Covers(Spans(left), Spans(right)) <=> Matched(right) \subseteq Matched(left)

\* The entries a rule takes in the DNAT table, which is limited, are the
\* addresses it matches: none is counted twice, also at the last address.
SizeExact == Size(Spans(left)) = Cardinality(Matched(left))

\* For any two lists of Addresses the Validator's intervals are the addresses
\* that the classifier matches, overlap and cover when those do, and count as
\* many (sets.go, classify.go addrContains).
ListsExact == SpansMatch /\ OverlapsExact /\ CoversExact /\ SizeExact
=============================================================================
