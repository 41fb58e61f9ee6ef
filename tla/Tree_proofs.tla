------------------------------- MODULE Tree_proofs -------------------------------
(***************************************************************************)
(* Proofs about the trees of the configuration: their lists, for any kinds,   *)
(* names, values and documents (ObjectTree, which implements ObjectMap), the    *)
(* uuids of RuleSets and rules, for any names and histories (Uuids), and what a  *)
(* save may break, for any references, groups and palettes (References).       *)
(***************************************************************************)
EXTENDS ObjectTree, Uuids, References, SequenceTheorems, FiniteSetTheorems,
        NaturalsInduction, WellFoundedInduction, TLAPS

-----------------------------------------------------------------------------
(* Sequences *)

\* What is left of a sequence keeps its order.
LEMMA RemoveAtIs ==
  ASSUME NEW S, NEW s \in Seq(S), NEW i \in 1..Len(s)
  PROVE  /\ RemoveAt(s, i) \in Seq(S)
         /\ Len(RemoveAt(s, i)) = Len(s) - 1
         /\ DOMAIN RemoveAt(s, i) = 1..(Len(s) - 1)
         /\ \A k \in 1..(Len(s) - 1) : RemoveAt(s, i)[k] = s[IF k < i THEN k ELSE k + 1]
<1> DEFINE before == SubSeq(s, 1, i-1)
           after == SubSeq(s, i+1, Len(s))
<1>1. Len(s) \in Nat /\ DOMAIN s = 1..Len(s) /\ \A k \in 1..Len(s) : s[k] \in S
  BY LenProperties, ElementOfSeq
<1>2. before \in Seq(S) /\ Len(before) = i - 1 /\ \A k \in 1..(i-1) : before[k] = s[k]
  BY <1>1, SubSeqProperties
<1>3. after \in Seq(S) /\ Len(after) = Len(s) - i /\ \A k \in 1..(Len(s) - i) : after[k] = s[i + k]
  <2>1. i \in Nat /\ i >= 1 /\ i <= Len(s)
    BY <1>1
  <2>2. /\ after \in Seq(S)
        /\ Len(after) = IF i + 1 <= Len(s) THEN Len(s) - (i + 1) + 1 ELSE 0
        /\ \A k \in 1..(Len(s) - (i + 1) + 1) : after[k] = s[(i + 1) + k - 1]
    BY <1>1, <2>1, SubSeqProperties
  <2> HIDE DEF after
  <2>3. Len(after) = Len(s) - i
    <3>1. i + 1 <= Len(s) \/ i = Len(s)
      <4>1. \A m, n \in Nat : m <= n => m + 1 <= n \/ m = n
        OBVIOUS
      <4>2. i \in Nat /\ Len(s) \in Nat /\ i <= Len(s)
        BY <1>1, <2>1
      <4> QED BY ONLY <4>1, <4>2, Zenon
    <3>2. CASE i + 1 <= Len(s)
      BY <1>1, <2>1, <2>2, <3>2
    <3>3. CASE i = Len(s)
      BY <1>1, <2>1, <2>2, <3>3
    <3> QED BY <3>1, <3>2, <3>3
  <2>4. ASSUME NEW k \in 1..(Len(s) - i) PROVE after[k] = s[i + k]
    <3>1. k \in 1..(Len(s) - (i + 1) + 1) /\ (i + 1) + k - 1 = i + k
      BY <1>1, <2>1
    <3> QED BY <2>2, <3>1
  <2> QED BY <2>2, <2>3, <2>4
<1>4. RemoveAt(s, i) = before \o after
  BY DEF RemoveAt
<1> HIDE DEF before, after
<1>5. /\ before \o after \in Seq(S) /\ Len(before \o after) = Len(before) + Len(after)
      /\ \A k \in 1..(Len(before) + Len(after)) :
           (before \o after)[k] = IF k <= Len(before) THEN before[k] ELSE after[k - Len(before)]
  BY <1>2, <1>3, ConcatProperties
<1>6. DOMAIN (before \o after) = 1..(Len(s) - 1) /\ Len(before) + Len(after) = Len(s) - 1
  <2>1. (i - 1) + (Len(s) - i) = Len(s) - 1
    BY <1>1
  <2>2. DOMAIN (before \o after) = 1..Len(before \o after)
    BY <1>5, LenProperties
  <2> QED BY <1>2, <1>3, <1>5, <2>1, <2>2
<1>7. ASSUME NEW k \in 1..(Len(s) - 1)
      PROVE  (before \o after)[k] = s[IF k < i THEN k ELSE k + 1]
  <2>1. CASE k < i
    <3>1. k \in 1..(i-1)
      BY <1>1, <2>1
    <3> QED BY <1>2, <1>5, <1>6, <2>1, <3>1
  <2>2. CASE ~(k < i)
    <3>1. k - (i - 1) \in 1..(Len(s) - i) /\ i + (k - (i - 1)) = k + 1
      BY <1>1, <2>2
    <3>2. k \in 1..(Len(before) + Len(after)) /\ ~(k <= Len(before)) /\ k - Len(before) = k - (i - 1)
      <4>1. k \in Int /\ i \in Int
        BY <1>1
      <4> QED BY <1>2, <1>6, <2>2, <4>1
    <3>3. (before \o after)[k] = after[k - (i - 1)]
      BY <1>5, <3>2
    <3>4. after[k - (i - 1)] = s[k + 1]
      BY <1>3, <3>1
    <3> QED BY <2>2, <3>3, <3>4
  <2> QED BY <2>1, <2>2
<1> QED BY <1>4, <1>5, <1>6, <1>7

-----------------------------------------------------------------------------
(* Lists: an object of a name, at most. *)

OneOfAName(list) == \A i, j \in DOMAIN list : list[i].name = list[j].name => i = j
IsList(list) == list \in Seq(ListObjects) /\ OneOfAName(list)

\* list has an object n of value v.
Has(list, n, v) == \E i \in DOMAIN list : list[i].name = n /\ list[i].value = v

\* What is in a list.
LEMMA ListIs ==
  ASSUME NEW list \in Seq(ListObjects)
  PROVE  /\ Len(list) \in Nat /\ DOMAIN list = 1..Len(list)
         /\ \A i \in DOMAIN list : /\ list[i] \in ListObjects
                                   /\ list[i].name \in ObjectNames /\ list[i].value \in ObjectValues
<1>1. Len(list) \in Nat /\ DOMAIN list = 1..Len(list) /\ \A i \in DOMAIN list : list[i] \in ListObjects
  BY LenProperties, ElementOfSeq
<1> QED BY <1>1 DEF ListObjects

\* A search stops at the object of the name, if there is one.
LEMMA SearchIs ==
  ASSUME NEW list, IsList(list), NEW n
  PROVE  \/ \E i \in DOMAIN list : /\ list[i].name = n
                                   /\ At(list, n) # {} /\ FirstAt(At(list, n)) = i
                                   /\ Find(list, n) = list[i].value
         \/ /\ \A i \in DOMAIN list : list[i].name # n
            /\ At(list, n) = {} /\ Find(list, n) = NoValue
<1>1. CASE At(list, n) = {}
  BY <1>1 DEF At, Find
<1>2. CASE At(list, n) # {}
  <2>1. PICK i \in DOMAIN list : list[i].name = n
    BY <1>2 DEF At
  <2>2. At(list, n) = {i}
    BY <2>1 DEF At, IsList, OneOfAName
  <2>3. i \in Nat
    BY ListIs DEF IsList
  <2>4. FirstAt(At(list, n)) = i
    BY <2>2, <2>3 DEF FirstAt
  <2> QED BY <1>2, <2>1, <2>4 DEF Find
<1> QED BY <1>1, <1>2

\* A search answers with the value of the object, or with none.
LEMMA FindIs ==
  ASSUME NEW list, IsList(list), NEW n
  PROVE  /\ \A v : Has(list, n, v) => Find(list, n) = v
         /\ (\A v : ~Has(list, n, v)) => Find(list, n) = NoValue
<1>1. ASSUME NEW i \in DOMAIN list, list[i].name = n PROVE Find(list, n) = list[i].value
  BY <1>1, SearchIs DEF IsList, OneOfAName
<1>2. ASSUME \A v : ~Has(list, n, v) PROVE Find(list, n) = NoValue
  BY <1>2, SearchIs DEF Has
<1> QED BY <1>1, <1>2 DEF Has

\* Lists of the same objects are searched alike.
LEMMA FindSame ==
  ASSUME NEW l, IsList(l), NEW m, IsList(m), NEW n, \A v : Has(l, n, v) <=> Has(m, n, v)
  PROVE  Find(l, n) = Find(m, n)
BY FindIs

\* An empty list has no object.
LEMMA EmptyList == IsList(<<>>) /\ \A n : Find(<<>>, n) = NoValue
<1>1. <<>> \in Seq(ListObjects) /\ DOMAIN <<>> = {}
  BY EmptySeq
<1> QED BY <1>1 DEF IsList, OneOfAName, Find, At

\* A put replaces the object of the name, or adds one.
LEMMA PutInIs ==
  ASSUME NEW list, IsList(list), NEW o \in ListObjects
  PROVE  /\ IsList(PutIn(list, o))
         /\ \A n : Find(PutIn(list, o), n) = IF n = o.name THEN o.value ELSE Find(list, n)
<1> DEFINE new == PutIn(list, o)
<1>1. Len(list) \in Nat /\ DOMAIN list = 1..Len(list) /\ list \in Seq(ListObjects) /\ OneOfAName(list)
  BY ListIs DEF IsList
<1>2. /\ IsList(new)
      /\ \A n, v : Has(new, n, v) <=> IF n = o.name THEN v = o.value ELSE Has(list, n, v)
  <2>1. CASE At(list, o.name) = {}
    <3>1. /\ new \in Seq(ListObjects) /\ DOMAIN new = 1..(Len(list) + 1)
          /\ \A i \in DOMAIN list : new[i] = list[i]
          /\ new[Len(list) + 1] = o
      BY <1>1, <2>1, AppendProperties, LenProperties DEF PutIn
    <3>2. \A i \in DOMAIN list : list[i].name # o.name
      BY <2>1 DEF At
    <3>3. DOMAIN new = DOMAIN list \cup {Len(list) + 1} /\ Len(list) + 1 \notin DOMAIN list
      BY <1>1, <3>1
    <3>4. OneOfAName(new)
      BY <1>1, <3>1, <3>2, <3>3 DEF OneOfAName
    <3>5. \A n, v : Has(new, n, v) <=> (n = o.name /\ v = o.value) \/ Has(list, n, v)
      <4> HIDE DEF new
      <4> QED BY <3>1, <3>3 DEF Has
    <3>6. \A v : ~Has(list, o.name, v)
      BY <3>2 DEF Has
    <3> QED BY <3>1, <3>4, <3>5, <3>6 DEF IsList
  <2>2. CASE At(list, o.name) # {}
    <3>1. PICK i \in DOMAIN list : list[i].name = o.name /\ FirstAt(At(list, o.name)) = i
      BY <2>2, SearchIs
    <3>2. new = [list EXCEPT ![i] = o]
      BY <2>2, <3>1 DEF PutIn
    <3>3. /\ new \in Seq(ListObjects) /\ DOMAIN new = DOMAIN list
          /\ \A j \in DOMAIN list : new[j] = IF j = i THEN o ELSE list[j]
      BY <1>1, <3>1, <3>2, ExceptSeq
    <3> HIDE DEF new
    <3>4. \A j \in DOMAIN list : new[j].name = list[j].name
      BY <3>1, <3>3
    <3>5. \A j \in DOMAIN list : j # i => list[j].name # o.name
      BY <1>1, <3>1 DEF OneOfAName
    <3>6. OneOfAName(new)
      BY <1>1, <3>3, <3>4 DEF OneOfAName
    <3>7. ASSUME NEW n, NEW v
          PROVE  Has(new, n, v) <=> IF n = o.name THEN v = o.value ELSE Has(list, n, v)
      BY <3>1, <3>3, <3>4, <3>5 DEF Has
    <3> QED BY <3>3, <3>6, <3>7 DEF IsList
  <2> QED BY <2>1, <2>2
<1>3. ASSUME NEW n PROVE Find(new, n) = IF n = o.name THEN o.value ELSE Find(list, n)
  <2> HIDE DEF new
  <2>1. CASE n = o.name
    BY <1>2, <2>1, FindIs
  <2>2. CASE n # o.name
    BY <1>2, <2>2, FindSame
  <2> QED BY <2>1, <2>2
<1> QED BY <1>2, <1>3

\* A deletion removes the object of the name.
LEMMA WithoutIs ==
  ASSUME NEW list, IsList(list), NEW m
  PROVE  /\ IsList(Without(list, m))
         /\ \A n : Find(Without(list, m), n) = IF n = m THEN NoValue ELSE Find(list, n)
<1> DEFINE new == Without(list, m)
<1>1. Len(list) \in Nat /\ DOMAIN list = 1..Len(list) /\ list \in Seq(ListObjects) /\ OneOfAName(list)
  BY ListIs DEF IsList
<1>2. /\ IsList(new)
      /\ \A n, v : Has(new, n, v) <=> n # m /\ Has(list, n, v)
  <2>1. CASE At(list, m) = {}
    BY <1>1, <2>1 DEF Without, At, Has, IsList
  <2>2. CASE At(list, m) # {}
    <3>1. PICK i \in DOMAIN list : list[i].name = m /\ FirstAt(At(list, m)) = i
      BY <2>2, SearchIs
    <3>2. new = RemoveAt(list, i)
      BY <2>2, <3>1 DEF Without
    <3>3. /\ new \in Seq(ListObjects) /\ DOMAIN new = 1..(Len(list) - 1)
          /\ \A k \in 1..(Len(list) - 1) : new[k] = list[IF k < i THEN k ELSE k + 1]
      <4>1. i \in 1..Len(list)
        BY <1>1, <3>1
      <4> HIDE DEF new
      <4> QED BY <1>1, <3>2, <4>1, RemoveAtIs
    <3> HIDE DEF new
    <3> DEFINE old(k) == IF k < i THEN k ELSE k + 1
    <3>4. \A k \in DOMAIN new : old(k) \in DOMAIN list /\ old(k) # i /\ new[k] = list[old(k)]
      BY <1>1, <3>1, <3>3
    <3>5. \A k, l \in DOMAIN new : old(k) = old(l) => k = l
      BY <1>1, <3>1, <3>3
    <3>6. \A j \in DOMAIN list : j # i => \E k \in DOMAIN new : old(k) = j
      <4> TAKE j \in DOMAIN list
      <4> HAVE j # i
      <4>1. CASE j < i
        <5>1. j \in DOMAIN new /\ old(j) = j
          BY <1>1, <3>1, <3>3, <4>1
        <5> QED BY <5>1
      <4>2. CASE j > i
        <5>1. j - 1 \in DOMAIN new /\ old(j - 1) = j
          BY <1>1, <3>1, <3>3, <4>2
        <5> QED BY <5>1
      <4> QED BY <1>1, <3>1, <4>1, <4>2
    <3> HIDE DEF old
    <3>7. OneOfAName(new)
      BY <1>1, <3>4, <3>5 DEF OneOfAName
    <3>8. \A j \in DOMAIN list : j # i => list[j].name # m
      BY <1>1, <3>1 DEF OneOfAName
    <3>9. \A n, v : Has(new, n, v) <=> n # m /\ Has(list, n, v)
      <4> TAKE n, v
      <4>1. ASSUME Has(new, n, v) PROVE n # m /\ Has(list, n, v)
        BY <3>4, <3>8, <4>1 DEF Has
      <4>2. ASSUME n # m, Has(list, n, v) PROVE Has(new, n, v)
        <5>1. PICK j \in DOMAIN list : list[j].name = n /\ list[j].value = v
          BY <4>2 DEF Has
        <5>2. j # i
          BY <3>1, <4>2, <5>1
        <5>3. PICK k \in DOMAIN new : old(k) = j
          BY <3>6, <5>2
        <5> QED BY <3>4, <5>1, <5>3 DEF Has
      <4> QED BY <4>1, <4>2
    <3> QED BY <3>3, <3>7, <3>9 DEF IsList
  <2> QED BY <2>1, <2>2
<1>3. ASSUME NEW n PROVE Find(new, n) = IF n = m THEN NoValue ELSE Find(list, n)
  <2> HIDE DEF new
  <2>1. CASE n = m
    BY <1>2, <2>1, FindIs
  <2>2. CASE n # m
    BY <1>2, <2>2, FindSame
  <2> QED BY <2>1, <2>2
<1> QED BY <1>2, <1>3

\* Ranks are the places of the list, in the order of the names.
LEMMA RankIs ==
  ASSUME ObjectTreeAssumption, NEW list, IsList(list)
  PROVE  /\ \A i \in DOMAIN list : Rank(list, i) \in DOMAIN list
         /\ \A i, j \in DOMAIN list : list[i].name < list[j].name => Rank(list, i) < Rank(list, j)
<1> DEFINE down(i) == {j \in DOMAIN list :
                         list[j].name < list[i].name \/ (list[j].name = list[i].name /\ j <= i)}
<1>1. Len(list) \in Nat /\ DOMAIN list = 1..Len(list) /\ \A i \in DOMAIN list : list[i].name \in Nat
  BY ListIs DEF IsList, ObjectTreeAssumption
<1>2. \A i : Rank(list, i) = Cardinality(down(i))
  BY DEF Rank
<1>3. ASSUME NEW i \in DOMAIN list
      PROVE  /\ IsFiniteSet(down(i)) /\ Cardinality(down(i)) \in Nat
             /\ i \in down(i) /\ Cardinality(down(i)) \in 1..Len(list)
  <2>1. IsFiniteSet(1..Len(list)) /\ Cardinality(1..Len(list)) = Len(list)
    <3>1. IsFiniteSet(1..Len(list)) /\ Cardinality(1..Len(list)) = IF 1 > Len(list) THEN 0 ELSE Len(list) - 1 + 1
      BY <1>1, FS_Interval
    <3> QED BY <1>1, <3>1
  <2>2. down(i) \in SUBSET (1..Len(list)) /\ i \in down(i)
    BY <1>1
  <2> HIDE DEF down
  <2>3. IsFiniteSet(down(i)) /\ Cardinality(down(i)) <= Len(list)
    BY <2>1, <2>2, FS_Subset
  <2>4. Cardinality(down(i)) \in Nat /\ Cardinality(down(i)) # 0
    BY <2>2, <2>3, FS_CardinalityType, FS_EmptySet
  <2> QED BY <1>1, <2>2, <2>3, <2>4
<1>4. ASSUME NEW i \in DOMAIN list, NEW j \in DOMAIN list, list[i].name < list[j].name
      PROVE  Cardinality(down(i)) < Cardinality(down(j))
  <2>1. down(i) \subseteq down(j)
    BY <1>1, <1>4
  <2>2. j \notin down(i)
    BY <1>1, <1>4
  <2>3. /\ IsFiniteSet(down(j)) /\ j \in down(j)
        /\ Cardinality(down(i)) \in Nat /\ Cardinality(down(j)) \in Nat
    BY <1>3
  <2> HIDE DEF down
  <2>4. /\ Cardinality(down(i)) <= Cardinality(down(j))
        /\ Cardinality(down(j)) = Cardinality(down(i)) => down(j) = down(i)
    BY <2>1, <2>3, FS_Subset
  <2> QED BY <2>2, <2>3, <2>4
<1> HIDE DEF down
<1> QED BY <1>1, <1>2, <1>3, <1>4

\* Sorting leaves the objects that there were, in the order of their names.
LEMMA SortedIs ==
  ASSUME ObjectTreeAssumption, NEW list, IsList(list)
  PROVE  /\ IsList(Sorted(list)) /\ DOMAIN Sorted(list) = DOMAIN list
         /\ \A r, t \in DOMAIN list : r < t => Sorted(list)[r].name < Sorted(list)[t].name
         /\ \A n : Find(Sorted(list), n) = Find(list, n)
<1> DEFINE D == DOMAIN list
           rank(i) == Rank(list, i)
           new == Sorted(list)
<1>1. Len(list) \in Nat /\ D = 1..Len(list) /\ \A i \in D : list[i].name \in Nat /\ list[i] \in ListObjects
  BY ListIs DEF IsList, ObjectTreeAssumption
<1>2. \A i \in D : rank(i) \in D
  BY RankIs
<1>3. \A i, j \in D : list[i].name < list[j].name => rank(i) < rank(j)
  BY RankIs
<1>4. \A i, j \in D : list[i].name = list[j].name => i = j
  BY DEF IsList, OneOfAName
<1> HIDE DEF rank
<1>5. \A i, j \in D : rank(i) = rank(j) => i = j
  <2> TAKE i, j \in D
  <2>1. list[i].name < list[j].name \/ list[j].name < list[i].name \/ list[i].name = list[j].name
    BY <1>1
  <2>2. rank(i) \in Nat /\ rank(j) \in Nat
    BY <1>1, <1>2
  <2> QED BY <1>3, <1>4, <2>1, <2>2
\* Every place is a rank: otherwise two objects would have the same.
<1>6. ASSUME NEW r \in D PROVE \E i \in D : rank(i) = r
  <2>1. SUFFICES ASSUME \A i \in D : rank(i) # r PROVE FALSE
    OBVIOUS
  <2> DEFINE f == [i \in D |-> rank(i)]
             T == D \ {r}
  <2>2. f \in [D -> T]
    BY <1>2, <2>1
  <2>3. IsFiniteSet(D) /\ Cardinality(D) \in Nat
    BY <1>1, FS_Interval, FS_CardinalityType
  <2>4. IsFiniteSet(T) /\ Cardinality(T) = Cardinality(D) - 1
    BY <2>3, FS_RemoveElement
  <2>5. Cardinality(T) < Cardinality(D)
    BY <2>3, <2>4
  <2> HIDE DEF D, T
  <2>6. \E i, j \in D : i # j /\ f[i] = f[j]
    <3> HIDE DEF f
    <3> QED BY <2>2, <2>3, <2>4, <2>5, FS_PigeonHole
  <2> QED BY <1>5, <2>6
<1> DEFINE at(r) == CHOOSE i \in D : rank(i) = r
<1>7. \A r \in D : at(r) \in D /\ rank(at(r)) = r
  BY <1>6
<1>8. \A i \in D : at(rank(i)) = i
  BY <1>2, <1>5, <1>7
<1>9. new = [r \in D |-> list[at(r)]]
  BY DEF Sorted, rank
<1> HIDE DEF at
<1>10. DOMAIN new = D /\ \A r \in D : new[r] = list[at(r)]
  BY <1>9
<1>11. new \in Seq(ListObjects)
  <2>1. new \in [1..Len(list) -> ListObjects]
    BY <1>1, <1>7, <1>9
  <2> QED BY <1>1, <2>1
<1>12. ASSUME NEW r \in D, NEW t \in D, r < t PROVE new[r].name < new[t].name
  <2>1. ~(list[at(t)].name < list[at(r)].name)
    BY <1>1, <1>3, <1>7, <1>12
  <2>2. list[at(t)].name # list[at(r)].name
    BY <1>1, <1>4, <1>7, <1>12
  <2>3. list[at(t)].name \in Nat /\ list[at(r)].name \in Nat
    BY <1>1, <1>7
  <2> QED BY <1>10, <2>1, <2>2, <2>3
<1>13. IsList(new)
  <2>1. \A r, t \in D : new[r].name = new[t].name => r = t
    BY <1>4, <1>7, <1>10
  <2> QED BY <1>10, <1>11, <2>1 DEF IsList, OneOfAName
<1>14. ASSUME NEW n PROVE Find(new, n) = Find(list, n)
  <2>1. ASSUME NEW v PROVE Has(new, n, v) <=> Has(list, n, v)
    <3>1. ASSUME Has(new, n, v) PROVE Has(list, n, v)
      BY <1>7, <1>10, <3>1 DEF Has
    <3>2. ASSUME Has(list, n, v) PROVE Has(new, n, v)
      <4>1. PICK i \in D : list[i].name = n /\ list[i].value = v
        BY <3>2 DEF Has
      <4>2. rank(i) \in D /\ new[rank(i)] = list[i]
        BY <1>2, <1>8, <1>10
      <4> QED BY <1>10, <4>1, <4>2 DEF Has
    <3> QED BY <3>1, <3>2
  <2> HIDE DEF new
  <2> QED BY <1>13, <2>1, FindSame
<1> QED BY <1>10, <1>12, <1>13, <1>14

-----------------------------------------------------------------------------
(* ObjectTree: the inductive invariant *)

Lists == {l \in Seq(ListObjects) : OneOfAName(l)}

TreeTypes ==
  /\ lists \in [Kinds -> Lists]
  /\ docs \in Seq(Docs) /\ Len(docs) <= MaxDocs
  /\ reported \subseteq 1..MaxDocs /\ IsFiniteSet(reported)
  /\ DOMAIN src \subseteq Kinds \X ObjectNames /\ IsFiniteSet(DOMAIN src)
  /\ \A x \in DOMAIN src : src[x] \in 1..MaxDocs
  /\ sought \in [kind : Kinds, name : ObjectNames, value : ObjectValues \cup {NoValue}] \cup {Nothing}

\* Document i is the first valid one of object x.
FirstOf(x, i) ==
  /\ docs[i].valid /\ Key(docs[i]) = x
  /\ \A j \in 1..(i-1) : docs[j].valid => Key(docs[j]) # x

\* The documents read are those reported and those that an object came from, the
\* first of its name; and the lists hold these.
DocsKept ==
  /\ DocsRead \in 0..Len(docs)
  /\ 1..DocsRead = Range(src) \cup reported /\ Range(src) \cap reported = {}
  /\ \A x \in DOMAIN src : FirstOf(x, src[x])
  /\ \A i \in 1..DocsRead : docs[i].valid => Key(docs[i]) \in DOMAIN src
  /\ \A k \in Kinds, n \in ObjectNames :
       Find(lists[k], n) = IF <<k, n>> \in DOMAIN src THEN docs[src[<<k, n>>]].object.value ELSE NoValue

TreeIInv == TreeTypes /\ (docs # <<>> => DocsKept)

\* Before the first document is read.
LEMMA InitTreeIInv == ASSUME ObjectTreeAssumption PROVE TreeInit => TreeIInv
<1> SUFFICES ASSUME TreeInit PROVE TreeIInv
  OBVIOUS
<1>1. <<>> \in Lists
  BY EmptyList DEF Lists, IsList
<1>2. DOMAIN src = {} /\ IsFiniteSet({}) /\ Cardinality({}) = 0
  BY EmptySeq, FS_EmptySet DEF TreeInit
<1>3. docs \in Seq(Docs) /\ Len(docs) \in Nat /\ Len(docs) <= MaxDocs
  <2>1. PICK m \in 0..MaxDocs : docs \in [1..m -> Docs]
    BY DEF TreeInit, DocFiles, SeqOf
  <2> QED BY <2>1 DEF ObjectTreeAssumption
<1>4. TreeTypes
  BY <1>1, <1>2, <1>3 DEF TreeInit, TreeTypes
<1>5. DocsRead = 0
  BY <1>2 DEF TreeInit, DocsRead
<1>6. Range(src) = {}
  BY <1>2 DEF Range
<1>7. DocsKept
  <2>1. \A k \in Kinds, n \in ObjectNames : Find(lists[k], n) = NoValue
    BY EmptyList DEF TreeInit
  <2> QED BY <1>2, <1>3, <1>5, <1>6, <2>1 DEF DocsKept, TreeInit
<1> QED BY <1>4, <1>7 DEF TreeIInv

\* What a document is.
LEMMA DocIs ==
  ASSUME TreeTypes, NEW i \in 1..Len(docs)
  PROVE  /\ docs[i].kind \in Kinds /\ docs[i].object \in ListObjects /\ docs[i].valid \in BOOLEAN
         /\ docs[i].object.name \in ObjectNames /\ docs[i].object.value \in ObjectValues
         /\ Key(docs[i]) \in Kinds \X ObjectNames
<1>1. docs[i] \in Docs
  BY ElementOfSeq DEF TreeTypes
<1> QED BY <1>1 DEF Docs, ListObjects, Key

\* A document that is reported.
LEMMA ReportKeeps ==
  ASSUME ObjectTreeAssumption, TreeTypes, DocsKept, Reading, RefusedDoc(docs[DocsRead + 1]),
         reported' = reported \cup {DocsRead + 1}, UNCHANGED <<lists, src, sought, docs>>
  PROVE  TreeTypes' /\ DocsKept'
<1> DEFINE i == DocsRead + 1
<1>1. Len(docs) \in Nat /\ DocsRead \in Nat /\ i \in 1..Len(docs) /\ i \in 1..MaxDocs
  BY LenProperties DEF TreeTypes, DocsKept, Reading, ObjectTreeAssumption
<1>2. i \notin 1..DocsRead
  BY <1>1
<1>3. i \notin reported
  BY <1>2 DEF DocsKept
<1>4. IsFiniteSet(reported') /\ Cardinality(reported') = Cardinality(reported) + 1
  BY <1>3, FS_AddElement DEF TreeTypes
<1>5. DocsRead' = DocsRead + 1
  <2>1. Cardinality(reported) \in Nat /\ Cardinality(DOMAIN src) \in Nat
    BY FS_CardinalityType DEF TreeTypes
  <2> QED BY <1>4, <2>1 DEF DocsRead
<1>6. TreeTypes'
  BY <1>1, <1>4 DEF TreeTypes
<1>7. 1..DocsRead' = (1..DocsRead) \cup {i}
  BY <1>1, <1>5
<1>8. Range(src)' = Range(src)
  BY DEF Range
<1>9. 1..DocsRead' = Range(src)' \cup reported' /\ Range(src)' \cap reported' = {}
  BY <1>2, <1>7, <1>8 DEF DocsKept
<1>10. \A j \in 1..DocsRead' : docs[j].valid => Key(docs[j]) \in DOMAIN src
  BY <1>7 DEF RefusedDoc, DocsKept
<1>11. DocsRead' \in 0..Len(docs)
  BY <1>1, <1>5
<1> QED BY <1>6, <1>9, <1>10, <1>11 DEF DocsKept, FirstOf

\* A document whose object is put into the tree.
LEMMA ReadKeeps ==
  ASSUME ObjectTreeAssumption, TreeTypes, DocsKept, Reading, ~RefusedDoc(docs[DocsRead + 1]),
         NEW i, i = DocsRead + 1, NEW d, d = docs[i],
         lists' = [lists EXCEPT ![d.kind] = PutIn(@, d.object)],
         src' = [k \in DOMAIN src \cup {Key(d)} |-> IF k = Key(d) THEN i ELSE src[k]],
         sought' = Sought(d.kind, d.object), UNCHANGED <<reported, docs>>
  PROVE  TreeTypes' /\ DocsKept'
<1>1. Len(docs) \in Nat /\ DocsRead \in Nat /\ i \in 1..Len(docs) /\ i \in 1..MaxDocs
  BY LenProperties DEF TreeTypes, DocsKept, Reading, ObjectTreeAssumption
<1>2. /\ d.kind \in Kinds /\ d.object \in ListObjects /\ d.valid
      /\ d.object.name \in ObjectNames /\ d.object.value \in ObjectValues
      /\ Key(d) \in Kinds \X ObjectNames /\ Key(d) \notin DOMAIN src
  BY <1>1, DocIs DEF RefusedDoc
<1>3. Key(d) = <<d.kind, d.object.name>>
  BY DEF Key
<1>4. /\ DOMAIN src' = DOMAIN src \cup {Key(d)}
      /\ src'[Key(d)] = i /\ \A x \in DOMAIN src : src'[x] = src[x]
  BY <1>2
<1>5. IsFiniteSet(DOMAIN src') /\ Cardinality(DOMAIN src') = Cardinality(DOMAIN src) + 1
  BY <1>2, <1>4, FS_AddElement DEF TreeTypes
<1>6. DocsRead' = DocsRead + 1
  <2>1. Cardinality(reported) \in Nat /\ Cardinality(DOMAIN src) \in Nat
    BY FS_CardinalityType DEF TreeTypes
  <2> QED BY <1>5, <2>1 DEF DocsRead
<1>7. IsList(lists[d.kind])
  BY <1>2 DEF TreeTypes, Lists, IsList
<1>8. PutIn(lists[d.kind], d.object) \in Lists
  BY <1>2, <1>7, PutInIs DEF Lists, IsList
<1>9. lists' \in [Kinds -> Lists]
  BY <1>8 DEF TreeTypes
<1>10. sought' \in [kind : Kinds, name : ObjectNames, value : ObjectValues \cup {NoValue}]
  BY <1>2 DEF Sought
<1>11. TreeTypes'
  BY <1>1, <1>2, <1>4, <1>5, <1>9, <1>10 DEF TreeTypes
<1>12. 1..DocsRead' = (1..DocsRead) \cup {i} /\ i \notin 1..DocsRead
  BY <1>1, <1>6
<1>13. Range(src)' = Range(src) \cup {i}
  <2>1. Range(src)' = {src'[x] : x \in DOMAIN src'}
    BY DEF Range
  <2> QED BY <1>4, <2>1 DEF Range
<1>14. 1..DocsRead' = Range(src)' \cup reported' /\ Range(src)' \cap reported' = {}
  BY <1>12, <1>13 DEF DocsKept
<1>15. \A x \in DOMAIN src' : FirstOf(x, src'[x])
  <2> TAKE x \in DOMAIN src'
  <2>1. CASE x \in DOMAIN src
    BY <1>4, <2>1 DEF DocsKept
  <2>2. CASE x = Key(d)
    <3>1. ASSUME NEW j \in 1..(i-1), docs[j].valid PROVE Key(docs[j]) # Key(d)
      <4>1. j \in 1..DocsRead
        BY <1>1
      <4>2. Key(docs[j]) \in DOMAIN src
        BY <3>1, <4>1 DEF DocsKept
      <4> QED BY <1>2, <4>2
    <3> QED BY <1>2, <1>4, <2>2, <3>1 DEF FirstOf
  <2> QED BY <1>4, <2>1, <2>2
<1>16. \A j \in 1..DocsRead' : docs'[j].valid => Key(docs'[j]) \in DOMAIN src'
  BY <1>4, <1>12 DEF DocsKept
<1>17. ASSUME NEW k \in Kinds, NEW n \in ObjectNames
       PROVE  Find(lists'[k], n) = IF <<k, n>> \in DOMAIN src' THEN docs'[src'[<<k, n>>]].object.value ELSE NoValue
  <2>1. CASE k = d.kind /\ n = d.object.name
    <3>1. Find(lists'[k], n) = d.object.value
      <4>1. lists'[k] = PutIn(lists[k], d.object)
        BY <2>1 DEF TreeTypes
      <4> QED BY <1>2, <1>7, <2>1, <4>1, PutInIs
    <3> QED BY <1>3, <1>4, <2>1, <3>1
  <2>2. CASE ~(k = d.kind /\ n = d.object.name)
    <3>1. Find(lists'[k], n) = Find(lists[k], n)
      <4>1. CASE k = d.kind
        <5>1. lists'[k] = PutIn(lists[k], d.object)
          BY <4>1 DEF TreeTypes
        <5> QED BY <1>2, <1>7, <2>2, <4>1, <5>1, PutInIs
      <4>2. CASE k # d.kind
        BY <4>2 DEF TreeTypes
      <4> QED BY <4>1, <4>2
    <3>2. <<k, n>> # Key(d)
      BY <1>3, <2>2
    <3> QED BY <1>4, <3>1, <3>2 DEF DocsKept
  <2> QED BY <2>1, <2>2
<1>18. DocsRead' \in 0..Len(docs)'
  BY <1>1, <1>6
<1>19. \A x \in DOMAIN src' : FirstOf(x, src[x])'
  BY <1>15 DEF FirstOf
<1> QED BY <1>11, <1>14, <1>16, <1>17, <1>18, <1>19 DEF DocsKept

\* ParseDoc: one or the other.
LEMMA ParseDocKeeps ==
  ASSUME ObjectTreeAssumption, TreeIInv, ParseDoc
  PROVE  TreeIInv'
<1>1. docs # <<>> /\ TreeTypes /\ DocsKept
  <2>1. DocsRead \in Nat
    BY FS_CardinalityType DEF TreeIInv, TreeTypes, DocsRead
  <2>2. DocsRead < Len(docs)
    BY DEF ParseDoc, Reading
  <2>3. Len(<<>>) = 0
    BY EmptySeq
  <2> QED BY <2>1, <2>2, <2>3 DEF TreeIInv
<1> DEFINE i == DocsRead + 1
           d == docs[i]
<1>2. CASE RefusedDoc(d)
  <2>1. reported' = reported \cup {i} /\ UNCHANGED <<lists, src, sought, docs>> /\ Reading
    BY <1>2 DEF ParseDoc
  <2> QED BY <1>1, <1>2, <2>1, ReportKeeps DEF TreeIInv
<1>3. CASE ~RefusedDoc(d)
  <2>1. /\ lists' = [lists EXCEPT ![d.kind] = PutIn(@, d.object)]
        /\ src' = [k \in DOMAIN src \cup {Key(d)} |-> IF k = Key(d) THEN i ELSE src[k]]
        /\ sought' = Sought(d.kind, d.object) /\ UNCHANGED <<reported, docs>> /\ Reading
    BY <1>3 DEF ParseDoc
  <2> QED BY <1>1, <1>3, <2>1, ReadKeeps DEF TreeIInv
<1> QED BY <1>2, <1>3

\* The lists of a sorted tree.
LEMMA SortAllKeeps ==
  ASSUME ObjectTreeAssumption, TreeTypes, SortAll
  PROVE  /\ lists' \in [Kinds -> Lists]
         /\ \A k \in Kinds : /\ lists'[k] = Sorted(lists[k])
                             /\ \A n : Find(lists'[k], n) = Find(lists[k], n)
<1>1. ASSUME NEW k \in Kinds PROVE IsList(lists[k])
  BY DEF TreeTypes, Lists, IsList
<1>2. \A k \in Kinds : lists'[k] = Sorted(lists[k])
  BY DEF SortAll
<1>3. \A k \in Kinds : Sorted(lists[k]) \in Lists
  BY <1>1, SortedIs DEF Lists, IsList
<1>4. lists' \in [Kinds -> Lists]
  BY <1>3 DEF SortAll
<1> QED BY <1>1, <1>2, <1>4, SortedIs

\* Every step keeps the inductive invariant.
LEMMA StepTreeIInv ==
  ASSUME ObjectTreeAssumption, TreeIInv, [TreeNext]_treeVars
  PROVE  TreeIInv'
<1>1. CASE ParseDoc
  BY <1>1, ParseDocKeeps
<1>2. CASE TreeLoaded
  <2>1. TreeTypes /\ lists' \in [Kinds -> Lists] /\ docs' = <<>> /\ UNCHANGED <<src, reported, sought>>
    BY <1>2, SortAllKeeps DEF TreeIInv, TreeLoaded
  <2>2. <<>> \in Seq(Docs) /\ Len(<<>>) = 0 /\ 0 <= MaxDocs
    BY EmptySeq DEF ObjectTreeAssumption
  <2> QED BY <2>1, <2>2 DEF TreeIInv, TreeTypes
<1>3. CASE Reread
  <2>1. TreeTypes /\ lists' \in [Kinds -> Lists] /\ docs = <<>> /\ UNCHANGED <<docs, src, reported, sought>>
    BY <1>3, SortAllKeeps DEF TreeIInv, Reread, NoDocs
  <2> QED BY <2>1 DEF TreeIInv, TreeTypes
<1>4. ASSUME NEW k \in Kinds, NEW o \in ListObjects, PutObject(k, o) PROVE TreeIInv'
  <2>1. PutIn(lists[k], o) \in Lists
    BY PutInIs DEF TreeIInv, TreeTypes, Lists, IsList
  <2>2. Sought(k, o) \in [kind : Kinds, name : ObjectNames, value : ObjectValues \cup {NoValue}]
    BY DEF Sought, ListObjects
  <2> QED BY <1>4, <2>1, <2>2 DEF PutObject, NoDocs, TreeIInv, TreeTypes
<1>5. ASSUME NEW k \in Kinds, NEW n \in ObjectNames, DeleteObject(k, n) PROVE TreeIInv'
  <2>1. Without(lists[k], n) \in Lists
    BY WithoutIs DEF TreeIInv, TreeTypes, Lists, IsList
  <2>2. Sought(k, [name |-> n, value |-> NoValue])
          \in [kind : Kinds, name : ObjectNames, value : ObjectValues \cup {NoValue}]
    BY DEF Sought
  <2> QED BY <1>5, <2>1, <2>2 DEF DeleteObject, NoDocs, TreeIInv, TreeTypes
<1>6. CASE UNCHANGED treeVars
  BY <1>6 DEF treeVars, TreeIInv, TreeTypes, DocsKept, DocsRead, Range, FirstOf
<1> QED BY <1>1, <1>2, <1>3, <1>4, <1>5, <1>6 DEF TreeNext

\* The inductive invariant holds of every run.
THEOREM TreeInvariant == ASSUME ObjectTreeAssumption PROVE TreeSpec => []TreeIInv
<1>1. TreeInit => TreeIInv
  BY InitTreeIInv
<1>2. TreeIInv /\ [TreeNext]_treeVars => TreeIInv'
  BY StepTreeIInv
<1> QED BY <1>1, <1>2, PTL DEF TreeSpec

-----------------------------------------------------------------------------
(* What the tree promises *)

\* Every list is one of objects of different names, so it is no longer than there
\* are names, and what is known of documents and requests is about such objects.
THEOREM TreeTypeCorrect ==
  ASSUME ObjectTreeAssumption, IsFiniteSet(ObjectNames)
  PROVE  TreeSpec => []TreeTypeOK
<1>1. TreeIInv => TreeTypeOK
  <2> SUFFICES ASSUME TreeIInv PROVE TreeTypeOK
    OBVIOUS
  <2>1. ASSUME NEW k \in Kinds PROVE lists[k] \in Seq(ListObjects) /\ Len(lists[k]) <= Cardinality(ObjectNames)
    <3> DEFINE l == lists[k]
               f == [i \in 1..Len(l) |-> l[i].name]
    <3>1. IsList(l)
      BY DEF TreeIInv, TreeTypes, Lists, IsList
    <3>2. Len(l) \in Nat /\ DOMAIN l = 1..Len(l) /\ \A i \in 1..Len(l) : l[i].name \in ObjectNames
      BY <3>1, ListIs DEF IsList
    <3> HIDE DEF l
    <3>3. f \in [1..Len(l) -> ObjectNames]
      BY <3>2
    <3>4. \A i, j \in 1..Len(l) : f[i] = f[j] => i = j
      BY <3>1, <3>2 DEF IsList, OneOfAName
    <3>5. IsFiniteSet(1..Len(l)) /\ Cardinality(1..Len(l)) = IF 1 > Len(l) THEN 0 ELSE Len(l) - 1 + 1
      BY <3>2, FS_Interval
    <3>6. Cardinality(1..Len(l)) = Len(l)
      BY <3>2, <3>5
    <3>7. Cardinality(ObjectNames) \in Nat
      BY FS_CardinalityType
    <3>8. ~(Cardinality(ObjectNames) < Cardinality(1..Len(l)))
      <4> HIDE DEF f
      <4> QED BY <3>3, <3>4, <3>5, FS_PigeonHole
    <3>9. Len(l) <= Cardinality(ObjectNames)
      BY <3>2, <3>6, <3>7, <3>8
    <3> QED BY <3>1, <3>9 DEF IsList, l
  <2> QED BY <2>1 DEF TreeTypeOK, TreeIInv, TreeTypes
<1> QED BY <1>1, TreeInvariant, PTL

\* What is known of the documents read says that none is lost.
LEMMA LostNothing == ASSUME ObjectTreeAssumption, TreeIInv PROVE NothingLost
<1> SUFFICES ASSUME docs # <<>> PROVE NothingLost
  BY DEF NothingLost
<1>1. TreeTypes /\ DocsKept
  BY DEF TreeIInv
<1> DEFINE read == 1..DocsRead
           first(k, n) == {i \in read : /\ docs[i].valid /\ Key(docs[i]) = <<k, n>>
                                        /\ \A j \in 1..(i-1) : docs[j].valid => Key(docs[j]) # <<k, n>>}
<1>2. DocsRead \in Nat
  BY <1>1 DEF DocsKept
<1>3. read = Range(src) \cup reported /\ Range(src) \cap reported = {}
  BY <1>1 DEF DocsKept
<1>4. ASSUME NEW k \in Kinds, NEW n \in ObjectNames
      PROVE  /\ first(k, n) = {Relocate(k, n)} \ {0}
             /\ Find(lists[k], n) = IF first(k, n) = {} THEN NoValue
                                    ELSE docs[Relocate(k, n)].object.value
  <2>1. Find(lists[k], n) = IF <<k, n>> \in DOMAIN src THEN docs[src[<<k, n>>]].object.value ELSE NoValue
    BY <1>1 DEF DocsKept
  <2>2. CASE <<k, n>> \in DOMAIN src
    <3> DEFINE s == src[<<k, n>>]
    <3>1. s \in read /\ s # 0
      BY <1>2, <1>3, <2>2 DEF Range
    <3>2. FirstOf(<<k, n>>, s)
      BY <1>1, <2>2 DEF DocsKept
    <3>3. s \in first(k, n)
      BY <3>1, <3>2 DEF FirstOf
    <3> HIDE DEF s
    <3>4. ASSUME NEW i \in first(k, n) PROVE i = s
      <4>1. i \in Nat /\ s \in Nat /\ i >= 1 /\ s >= 1
        BY <1>2, <3>1
      <4>2. CASE i < s
        <5>1. i \in 1..(s-1)
          BY <4>1, <4>2
        <5> QED BY <3>2, <5>1 DEF FirstOf
      <4>3. CASE s < i
        <5>1. s \in 1..(i-1)
          BY <4>1, <4>3
        <5> QED BY <3>2, <5>1 DEF FirstOf
      <4> QED BY <4>1, <4>2, <4>3
    <3>5. first(k, n) = {s}
      <4> HIDE DEF first
      <4> QED BY <3>3, <3>4
    <3>6. Relocate(k, n) = s
      BY <2>2 DEF Relocate, s
    <3>7. Find(lists[k], n) = docs[s].object.value
      BY <2>1, <2>2 DEF s
    <3> HIDE DEF first
    <3> QED BY <3>1, <3>5, <3>6, <3>7
  <2>3. CASE <<k, n>> \notin DOMAIN src
    <3>1. \A i \in read : docs[i].valid => Key(docs[i]) # <<k, n>>
      BY <1>1, <2>3 DEF DocsKept
    <3>2. first(k, n) = {}
      BY <3>1
    <3>3. Relocate(k, n) = 0
      BY <2>3 DEF Relocate
    <3> HIDE DEF first
    <3> QED BY <2>1, <2>3, <3>2, <3>3
  <2> QED BY <2>2, <2>3
<1> HIDE DEF first
<1> QED BY <1>3, <1>4 DEF NothingLost, first

\* What is visited.
LEMMA VisitIs ==
  ASSUME ObjectTreeAssumption, NEW p
  PROVE  p \in Visits <=> /\ p = <<p[1], p[2]>>
                          /\ p[1] \in DOMAIN KindOrder /\ p[2] \in DOMAIN lists[KindOrder[p[1]]]
<1>1. ASSUME p \in Visits
      PROVE  /\ p = <<p[1], p[2]>>
             /\ p[1] \in DOMAIN KindOrder /\ p[2] \in DOMAIN lists[KindOrder[p[1]]]
  <2>1. PICK i \in DOMAIN KindOrder : p \in {i} \X DOMAIN lists[KindOrder[i]]
    BY <1>1 DEF Visits
  <2>2. p[1] = i /\ p[2] \in DOMAIN lists[KindOrder[i]] /\ p = <<p[1], p[2]>>
    BY <2>1
  <2> QED BY <2>2
<1>2. ASSUME p = <<p[1], p[2]>>, p[1] \in DOMAIN KindOrder, p[2] \in DOMAIN lists[KindOrder[p[1]]]
      PROVE  p \in Visits
  <2>1. <<p[1], p[2]>> \in {p[1]} \X DOMAIN lists[KindOrder[p[1]]]
    BY <1>2
  <2> QED BY <1>2, <2>1 DEF Visits
<1> QED BY <1>1, <1>2

\* A place in the order of the kinds is of a kind.
LEMMA KindIs == ASSUME ObjectTreeAssumption, NEW i \in DOMAIN KindOrder PROVE KindOrder[i] \in Kinds /\ i \in Nat
BY LenProperties DEF ObjectTreeAssumption, Kinds, Range

\* Lists with an object of a name are visited once.
LEMMA VisitedOnce == ASSUME ObjectTreeAssumption, TreeIInv PROVE EachOnce
<1> SUFFICES ASSUME NEW p \in Visits, NEW q \in Visits, Visited(p) = Visited(q) PROVE p = q
  BY DEF EachOnce
<1>1. /\ p = <<p[1], p[2]>> /\ p[1] \in DOMAIN KindOrder /\ p[2] \in DOMAIN lists[KindOrder[p[1]]]
      /\ q = <<q[1], q[2]>> /\ q[1] \in DOMAIN KindOrder /\ q[2] \in DOMAIN lists[KindOrder[q[1]]]
  BY VisitIs
<1>2. p[1] = q[1] /\ lists[KindOrder[p[1]]][p[2]].name = lists[KindOrder[p[1]]][q[2]].name
  BY DEF Visited
<1>3. OneOfAName(lists[KindOrder[p[1]]])
  BY <1>1, KindIs DEF TreeIInv, TreeTypes, Lists
<1>4. p[2] = q[2]
  BY <1>1, <1>2, <1>3 DEF OneOfAName
<1> QED BY <1>1, <1>2, <1>4

\* Sorted lists are visited by name.
LEMMA SortedInOrder ==
  ASSUME ObjectTreeAssumption, TreeIInv
  PROVE  InOrder
<1> SUFFICES ASSUME TreeLoaded \/ Reread, NEW p \in Visits', NEW q \in Visits', Before(p, q)
             PROVE  Before(Visited(p)', Visited(q)')
  BY DEF InOrder
<1>1. SortAll /\ TreeTypes
  BY DEF TreeLoaded, Reread, TreeIInv
<1>2. ASSUME NEW x \in Visits'
      PROVE  x[1] \in DOMAIN KindOrder /\ x[2] \in DOMAIN lists'[KindOrder[x[1]]]
  <2>1. PICK i \in DOMAIN KindOrder : x \in {i} \X DOMAIN lists'[KindOrder[i]]
    BY DEF Visits
  <2> QED BY <2>1
<1>3. /\ p[1] \in DOMAIN KindOrder /\ p[2] \in DOMAIN lists'[KindOrder[p[1]]]
      /\ q[1] \in DOMAIN KindOrder /\ q[2] \in DOMAIN lists'[KindOrder[q[1]]]
  BY <1>2
<1>4. /\ Visited(p)' = <<p[1], lists'[KindOrder[p[1]]][p[2]].name>>
      /\ Visited(q)' = <<q[1], lists'[KindOrder[q[1]]][q[2]].name>>
  BY DEF Visited
<1>5. CASE p[1] < q[1]
  BY <1>4, <1>5 DEF Before
<1>6. CASE p[1] = q[1] /\ p[2] < q[2]
  <2> DEFINE l == lists[KindOrder[p[1]]]
  <2>1. KindOrder[p[1]] \in Kinds /\ IsList(l)
    BY <1>1, <1>3, KindIs DEF TreeTypes, Lists, IsList
  <2>2. lists'[KindOrder[p[1]]] = Sorted(l)
    BY <1>1, <2>1 DEF SortAll
  <2>3. DOMAIN Sorted(l) = DOMAIN l
        /\ \A r, t \in DOMAIN l : r < t => Sorted(l)[r].name < Sorted(l)[t].name
    BY <2>1, SortedIs
  <2> HIDE DEF l
  <2> QED BY <1>3, <1>4, <1>6, <2>2, <2>3 DEF Before
<1> QED BY <1>5, <1>6 DEF Before

\* The objects of the tree, as a map.
InMap == [k \in Kinds |-> [n \in ObjectNames |-> Find(lists[k], n)]]

\* Where the same is found, the map is the same.
LEMMA MapSame ==
  ASSUME \A k \in Kinds, n \in ObjectNames : Find(lists'[k], n) = Find(lists[k], n)
  PROVE  InMap' = InMap
BY DEF InMap

\* One list that changes at one name changes the map there.
LEMMA MapChanges ==
  ASSUME lists \in [Kinds -> Lists], NEW k \in Kinds, NEW x \in ObjectNames, NEW v, NEW m,
         lists' = [lists EXCEPT ![k] = m],
         \A n : Find(m, n) = IF n = x THEN v ELSE Find(lists[k], n)
  PROVE  InMap' = [InMap EXCEPT ![k][x] = v]
<1>1. \A j \in Kinds : lists'[j] = IF j = k THEN m ELSE lists[j]
  OBVIOUS
<1>2. \A j \in Kinds, n \in ObjectNames :
        Find(lists'[j], n) = IF j = k /\ n = x THEN v ELSE Find(lists[j], n)
  BY <1>1
<1>3. InMap' = [j \in Kinds |-> [n \in ObjectNames |-> Find(lists'[j], n)]]
  BY DEF InMap
<1>4. InMap' = [j \in Kinds |-> [n \in ObjectNames |-> IF j = k /\ n = x THEN v ELSE Find(lists[j], n)]]
  BY <1>2, <1>3
<1> DEFINE row == [InMap[k] EXCEPT ![x] = v]
<1>5. [InMap EXCEPT ![k][x] = v] = [j \in Kinds |-> IF j = k THEN row ELSE InMap[j]]
  BY DEF InMap
<1>6. row = [n \in ObjectNames |-> IF n = x THEN v ELSE Find(lists[k], n)]
  BY DEF InMap
<1>7. \A j \in Kinds : InMap[j] = [n \in ObjectNames |-> Find(lists[j], n)]
  BY DEF InMap
<1> HIDE DEF row
<1>8. ASSUME NEW j \in Kinds
      PROVE  [n \in ObjectNames |-> IF j = k /\ n = x THEN v ELSE Find(lists[j], n)]
               = IF j = k THEN row ELSE InMap[j]
  BY <1>6, <1>7
<1> QED BY <1>4, <1>5, <1>8

\* An empty tree is an empty map.
LEMMA InitMap == ASSUME ObjectTreeAssumption PROVE TreeInit => Map!Init
<1>1. TreeInit => InMap = [k \in Kinds |-> [n \in ObjectNames |-> NoValue]]
  BY EmptyList DEF TreeInit, InMap
<1> QED BY <1>1 DEF TreeInit, InMap, Map!Init, Nothing

\* Each step is a put, a deletion or nothing to the map.
LEMMA StepMap ==
  ASSUME ObjectTreeAssumption, TreeIInv, [TreeNext]_treeVars
  PROVE  [Map!Next]_(Map!vars)
<1>1. lists \in [Kinds -> Lists] /\ TreeTypes
  BY DEF TreeIInv, TreeTypes
<1>2. ASSUME NEW k \in Kinds PROVE IsList(lists[k])
  BY <1>1 DEF Lists, IsList
<1>3. ASSUME NEW r, r \in [kind : Kinds, name : ObjectNames, value : ObjectValues \cup {NoValue}],
             sought' = r, InMap' = [InMap EXCEPT ![r.kind][r.name] = r.value]
      PROVE  Map!Next
  BY <1>3 DEF Map!Next, Map!Requests, InMap
<1>4. ASSUME InMap' = InMap, sought' = sought PROVE UNCHANGED Map!vars
  BY <1>4 DEF Map!vars, InMap
<1>5. ASSUME NEW k \in Kinds, NEW o \in ListObjects, sought' = Sought(k, o),
             lists' = [lists EXCEPT ![k] = PutIn(@, o)]
      PROVE  Map!Next
  <2>1. o.name \in ObjectNames /\ o.value \in ObjectValues
    BY DEF ListObjects
  <2>2. \A n : Find(PutIn(lists[k], o), n) = IF n = o.name THEN o.value ELSE Find(lists[k], n)
    BY <1>2, PutInIs
  <2>3. lists' = [lists EXCEPT ![k] = PutIn(lists[k], o)]
    BY <1>1, <1>5
  <2>4. InMap' = [InMap EXCEPT ![k][o.name] = o.value]
    BY <1>1, <2>1, <2>2, <2>3, MapChanges
  <2> DEFINE r == [kind |-> k, name |-> o.name, value |-> o.value]
  <2>5. r \in [kind : Kinds, name : ObjectNames, value : ObjectValues \cup {NoValue}]
    BY <2>1
  <2>6. sought' = r /\ r.kind = k /\ r.name = o.name /\ r.value = o.value
    BY <1>5 DEF Sought
  <2>7. InMap' = [InMap EXCEPT ![r.kind][r.name] = r.value]
    BY <2>4, <2>6
  <2> HIDE DEF r
  <2> QED BY <1>3, <2>5, <2>6, <2>7
<1>6. CASE ParseDoc
  <2> DEFINE d == docs[DocsRead + 1]
  <2>1. CASE RefusedDoc(d)
    <3>1. lists' = lists /\ sought' = sought
      BY <1>6, <2>1 DEF ParseDoc
    <3> QED BY <1>4, <3>1, MapSame
  <2>2. CASE ~RefusedDoc(d)
    <3>1. d.kind \in Kinds /\ d.object \in ListObjects
      <4>1. DocsRead \in Nat
        BY <1>1, FS_CardinalityType DEF TreeTypes, DocsRead
      <4>2. DocsRead + 1 \in 1..Len(docs)
        <5>1. Len(docs) \in Nat /\ DocsRead < Len(docs)
          BY <1>1, <1>6, LenProperties DEF TreeTypes, ParseDoc, Reading
        <5> QED BY <4>1, <5>1
      <4> QED BY <1>1, <4>2, DocIs
    <3>2. lists' = [lists EXCEPT ![d.kind] = PutIn(@, d.object)] /\ sought' = Sought(d.kind, d.object)
      BY <1>6, <2>2 DEF ParseDoc
    <3> QED BY <1>5, <3>1, <3>2
  <2> QED BY <2>1, <2>2
<1>7. CASE TreeLoaded \/ Reread
  <2>1. SortAll /\ sought' = sought
    BY <1>7 DEF TreeLoaded, Reread
  <2> QED BY <1>1, <1>4, <2>1, SortAllKeeps, MapSame
<1>8. ASSUME NEW k \in Kinds, NEW o \in ListObjects, PutObject(k, o) PROVE Map!Next
  BY <1>5, <1>8 DEF PutObject
<1>9. ASSUME NEW k \in Kinds, NEW n \in ObjectNames, DeleteObject(k, n) PROVE Map!Next
  <2>1. \A m : Find(Without(lists[k], n), m) = IF m = n THEN NoValue ELSE Find(lists[k], m)
    BY <1>2, WithoutIs
  <2>2. lists' = [lists EXCEPT ![k] = Without(lists[k], n)]
    BY <1>1, <1>9 DEF DeleteObject
  <2>3. InMap' = [InMap EXCEPT ![k][n] = NoValue]
    BY <1>1, <2>1, <2>2, MapChanges
  <2> DEFINE r == [kind |-> k, name |-> n, value |-> NoValue]
  <2>4. r \in [kind : Kinds, name : ObjectNames, value : ObjectValues \cup {NoValue}]
    OBVIOUS
  <2>5. sought' = r /\ r.kind = k /\ r.name = n /\ r.value = NoValue
    BY <1>9 DEF DeleteObject, Sought
  <2>6. InMap' = [InMap EXCEPT ![r.kind][r.name] = r.value]
    BY <2>3, <2>5
  <2> HIDE DEF r
  <2> QED BY <1>3, <2>4, <2>5, <2>6
<1>10. CASE UNCHANGED treeVars
  <2>1. lists' = lists /\ sought' = sought
    BY <1>10 DEF treeVars
  <2> QED BY <1>4, <2>1, MapSame
<1> QED BY <1>6, <1>7, <1>8, <1>9, <1>10 DEF TreeNext

\* The lists of a tree are a map from kind and name to the last object put there;
\* no document of a file is lost in silence, no object visited twice, and a tree
\* that was read is visited kind by kind and by name (tree.go List, load.go
\* ParseDocs).
THEOREM TreeImplementsMap ==
  ASSUME ObjectTreeAssumption
  PROVE  TreeSpec => ImplementsMap
<1>1. TreeInit => Map!Init
  BY InitMap
<1>2. TreeIInv /\ [TreeNext]_treeVars => [Map!Next]_(Map!vars)
  BY StepMap
<1>3. TreeIInv => NothingLost /\ EachOnce
  BY LostNothing, VisitedOnce
<1>4. TreeIInv /\ [TreeNext]_treeVars => [InOrder]_treeVars
  BY SortedInOrder
<1> QED BY <1>1, <1>2, <1>3, <1>4, TreeInvariant, PTL
        DEF TreeSpec, ImplementsMap, MapRefined, Map!Spec, ReadInOrder

-----------------------------------------------------------------------------
(* The uuids of the history *)

StoredRule == [name : RuleNames, uuid : Nat \ {0}, id : Nat \ {0}]
StoredSet == [uuid : Nat \ {0}, id : Nat \ {0}, rules : Seq(StoredRule)]
Stored == [RuleSetNames -> StoredSet \cup {NoSet}]

\* What is sent has the uuids it was read with, or none.
Sent == [uuid : Nat, id : Nat \ {0}, rules : Seq([name : RuleNames, uuid : Nat, id : Nat \ {0}])]

NamesDistinct(t) == \A s \in RuleSetNames : HasSet(t, s) => DistinctNames(t[s])

\* Commits are trees whose rules have a name each; ids and uuids were given out,
\* no two RuleSets share a uuid, and there is one for an id until a form
\* overwrites a text that it was not made from.
HistoryKept ==
  /\ trees \in Seq(Stored) /\ Len(trees) \in 1..MaxTrees
  /\ generated \in Nat /\ issued \in Nat /\ overwrote \in BOOLEAN
  /\ \A k \in DOMAIN trees : NamesDistinct(trees[k])
  /\ \A x \in Everything : x[1] \in 1..issued /\ x[2] \in 1..generated
  /\ OneUuidEach

\* The ids and uuids of a tree are those of its RuleSets.
LEMMA ItemsAre ==
  ASSUME NEW t
  PROVE  \A x : x \in Items(t) <=> \E s \in RuleSetNames : HasSet(t, s) /\ x \in ItemsOf(t[s])
BY DEF Items

\* Those of the history are those of its commits.
LEMMA EverythingIs ==
  \A x : x \in Everything <=> \E k \in DOMAIN trees : x \in Items(trees[k])
BY DEF Everything, Range

\* The uuids of a RuleSet are those it has in the commits.
LEMMA UuidsOfAre ==
  ASSUME NEW s
  PROVE  \A u : u \in UuidsOf(s) <=>
           \E k \in DOMAIN trees : HasSet(trees[k], s) /\ \E x \in ItemsOf(trees[k][s]) : u = x[2]
BY DEF UuidsOf, Seen, HasSet

\* HEAD is one of the commits.
LEMMA HeadIs ==
  ASSUME HistoryKept
  PROVE  /\ HeadTree \in Stored /\ NamesDistinct(HeadTree)
         /\ Items(HeadTree) \subseteq Everything
         /\ \E k \in DOMAIN trees : HeadTree = trees[k]
<1>1. Len(trees) \in DOMAIN trees /\ HeadTree = trees[Len(trees)]
  BY LenProperties DEF HistoryKept, Last, HeadTree
<1>2. trees[Len(trees)] \in Stored
  BY ElementOfSeq, LenProperties DEF HistoryKept
<1> QED BY <1>1, <1>2, EverythingIs DEF HistoryKept

\* What a RuleSet of the history is.
LEMMA TextIs ==
  ASSUME HistoryKept, NEW s \in RuleSetNames, NEW k \in DOMAIN trees, HasSet(trees[k], s)
  PROVE  /\ trees[k][s] \in StoredSet /\ DistinctNames(trees[k][s])
         /\ \A x \in ItemsOf(trees[k][s]) :
              x \in Everything /\ x[1] \in 1..issued /\ x[2] \in UuidsOf(s)
<1>1. trees[k] \in Stored /\ NamesDistinct(trees[k])
  BY ElementOfSeq, LenProperties DEF HistoryKept
<1>2. ASSUME NEW x \in ItemsOf(trees[k][s])
      PROVE  x \in Everything /\ x[1] \in 1..issued /\ x[2] \in UuidsOf(s)
  <2>1. x \in Everything
    BY EverythingIs, ItemsAre
  <2>2. x[2] \in UuidsOf(s)
    BY UuidsOfAre
  <2> QED BY <2>1, <2>2 DEF HistoryKept
<1> QED BY <1>1, <1>2 DEF Stored, NamesDistinct, HasSet

\* A commit of what was there already, and of one thing that is new, in RuleSet o.
LEMMA HistoryGrows ==
  ASSUME UuidsAssumption, HistoryKept, NEW t \in Stored, NamesDistinct(t), CommitTree(t), NEW o,
         generated' \in Nat, issued' \in Nat, generated' >= generated, issued' >= issued,
         overwrote' \in BOOLEAN, overwrote => overwrote',
         \A s \in RuleSetNames : HasSet(t, s) => \A x \in ItemsOf(t[s]) :
           /\ x[1] \in 1..issued'
           /\ x[2] \in UuidsOf(s) \/ (s = o /\ x[2] = generated + 1 /\ generated' >= generated + 1),
         ~overwrote' => \A x \in Items(t) :
           \/ x \in Everything
           \/ x = <<issued + 1, generated + 1>> /\ issued' >= issued + 1 /\ generated' >= generated + 1
  PROVE  HistoryKept'
<1> USE DEF HistoryKept
<1>1. CASE UNCHANGED trees
  <2>1. Everything' = Everything /\ \A s : UuidsOf(s)' = UuidsOf(s)
    BY <1>1 DEF Everything, UuidsOf, Seen
  <2>2. OneUuidEach'
    BY <2>1 DEF OneUuidEach
  <2>3. \A k \in DOMAIN trees' : NamesDistinct(trees'[k])
    BY <1>1
  <2>4. \A x \in Everything' : x[1] \in 1..issued' /\ x[2] \in 1..generated'
    BY <2>1
  <2> QED BY <1>1, <2>2, <2>3, <2>4
<1>2. CASE Len(trees) < MaxTrees /\ trees' = Append(trees, t)
  <2>1. /\ trees' \in Seq(Stored) /\ Len(trees') = Len(trees) + 1
        /\ DOMAIN trees' = 1..Len(trees') /\ DOMAIN trees = 1..Len(trees)
        /\ \A k \in 1..Len(trees) : trees'[k] = trees[k]
        /\ trees'[Len(trees) + 1] = t
    BY <1>2, AppendProperties, LenProperties
  <2>2. Len(trees') \in 1..MaxTrees
    <3> Len(trees) \in Nat /\ MaxTrees \in Int
      BY <1>2, LenProperties DEF UuidsAssumption
    <3> QED BY <1>2, <2>1
  <2>3. \A k \in DOMAIN trees' : k \in DOMAIN trees \/ k = Len(trees) + 1
    BY <2>1
  <2>4. \A k \in DOMAIN trees' : NamesDistinct(trees'[k])
    <3> TAKE k \in DOMAIN trees'
    <3>1. k \in DOMAIN trees \/ k = Len(trees) + 1
      BY <2>3
    <3> QED BY <3>1, <2>1
  <2>5. \A x \in Everything' : x \in Everything \/ x \in Items(t)
    <3> TAKE x \in Everything'
    <3>1. PICK k \in DOMAIN trees' : x \in Items(trees'[k])
      BY EverythingIs DEF Everything, Range
    <3>2. k \in DOMAIN trees \/ k = Len(trees) + 1
      BY <2>3
    <3> QED BY <3>1, <3>2, <2>1, EverythingIs
  <2>6. ASSUME NEW s \in RuleSetNames, NEW u \in UuidsOf(s)'
        PROVE  u \in UuidsOf(s) \/ (s = o /\ u = generated + 1)
    <3>1. PICK k \in DOMAIN trees' :
            HasSet(trees'[k], s) /\ \E x \in ItemsOf(trees'[k][s]) : u = x[2]
      BY DEF UuidsOf, Seen, HasSet
    <3>2. CASE k \in DOMAIN trees
      BY <2>1, <3>1, <3>2, UuidsOfAre
    <3>3. CASE k = Len(trees) + 1
      BY <2>1, <3>1, <3>3
    <3> QED BY <2>3, <3>2, <3>3
  <2>7. \A s \in RuleSetNames : \A u \in UuidsOf(s) : u \in 1..generated
    <3> TAKE s \in RuleSetNames
    <3> TAKE u \in UuidsOf(s)
    <3>1. PICK k \in DOMAIN trees : HasSet(trees[k], s) /\ \E x \in ItemsOf(trees[k][s]) : u = x[2]
      BY UuidsOfAre
    <3> QED BY <3>1, TextIs
  <2>8. ASSUME NEW r \in RuleSetNames, NEW s \in RuleSetNames, r # s,
               NEW u \in UuidsOf(r)', u \in UuidsOf(s)'
        PROVE  FALSE
    <3>1. u \in UuidsOf(r) \/ (r = o /\ u = generated + 1)
      BY <2>6
    <3>2. u \in UuidsOf(s) \/ (s = o /\ u = generated + 1)
      BY <2>6, <2>8
    <3>3. ~(generated + 1 \in 1..generated)
      OBVIOUS
    <3>4. UuidsOf(r) \cap UuidsOf(s) = {}
      BY <2>8 DEF OneUuidEach
    <3> QED BY <2>7, <2>8, <3>1, <3>2, <3>3, <3>4
  <2>9. \A x \in Everything' : x[1] \in 1..issued' /\ x[2] \in 1..generated'
    <3> TAKE x \in Everything'
    <3>1. CASE x \in Everything
      <4>1. x[1] \in 1..issued /\ x[2] \in 1..generated
        BY <3>1
      <4> QED BY <4>1
    <3>2. CASE x \in Items(t)
      <4>1. PICK s \in RuleSetNames : HasSet(t, s) /\ x \in ItemsOf(t[s])
        BY <3>2, ItemsAre
      <4>2. /\ x[1] \in 1..issued'
            /\ x[2] \in UuidsOf(s) \/ (x[2] = generated + 1 /\ generated' >= generated + 1)
        BY <4>1
      <4>3. x[2] \in 1..generated'
        BY <2>7, <4>2
      <4> QED BY <4>2, <4>3
    <3> QED BY <2>5, <3>1, <3>2
  <2>10. ~overwrote' => \A x, y \in Everything' : x[1] = y[1] <=> x[2] = y[2]
    <3> HAVE ~overwrote'
    <3> TAKE x, y \in Everything'
    <3> DEFINE new == <<issued + 1, generated + 1>>
    <3>1. \A z \in Everything' : z \in Everything \/ z = new
      BY <2>5
    <3>2. \A z \in Everything : z[1] # issued + 1 /\ z[2] # generated + 1
      <4> TAKE z \in Everything
      <4>1. z[1] \in 1..issued /\ z[2] \in 1..generated
        OBVIOUS
      <4> QED BY <4>1
    <3>3. CASE x \in Everything /\ y \in Everything
      BY <3>3 DEF OneUuidEach
    <3>4. CASE x \in Everything /\ y = new
      BY <3>2, <3>4
    <3>5. CASE x = new /\ y \in Everything
      BY <3>2, <3>5
    <3>6. CASE x = new /\ y = new
      BY <3>6
    <3> QED BY <3>1, <3>3, <3>4, <3>5, <3>6
  <2>11. OneUuidEach'
    BY <2>8, <2>10 DEF OneUuidEach
  <2> QED BY <2>1, <2>2, <2>4, <2>9, <2>11
<1> QED BY <1>1, <1>2 DEF CommitTree

-----------------------------------------------------------------------------
(* AssignUUIDs *)

\* Of distinct names one has the name that is looked for, or none has.
LEMMA ByName ==
  ASSUME NEW o \in StoredSet, DistinctNames(o), NEW name
  PROVE  \/ \E i \in DOMAIN o.rules :
              o.rules[i].name = name /\ UuidByName(o.rules, name) = o.rules[i].uuid
         \/ /\ \A i \in DOMAIN o.rules : o.rules[i].name # name
            /\ UuidByName(o.rules, name) = NoUuid
<1> DEFINE at == {i \in DOMAIN o.rules : o.rules[i].name = name}
<1>1. CASE at = {}
  BY <1>1 DEF UuidByName
<1>2. CASE at # {}
  <2>1. PICK i \in at : TRUE
    BY <1>2
  <2>2. o.rules \in Seq(StoredRule) /\ DOMAIN o.rules \subseteq Nat
    BY LenProperties DEF StoredSet
  <2>3. \A j \in at : j = i
    BY <2>1 DEF DistinctNames
  <2>4. (CHOOSE j \in at : \A k \in at : k <= j) = i
    BY <2>1, <2>2, <2>3
  <2> QED BY <1>2, <2>1, <2>4 DEF UuidByName
<1> QED BY <1>1, <1>2

\* A RuleSet, or none, as AssignUUIDs finds it in the previous version.
Previous(prev) == prev = NoSet \/ (prev \in StoredSet /\ DistinctNames(prev))

\* The id that the uuid at k of Kept goes with.
IdAt(obj, k) == IF k = 1 THEN obj.id ELSE obj.rules[k - 1].id

\* There is a place for the RuleSet and one for each of its rules.
LEMMA KeptAre ==
  ASSUME NEW obj \in Sent, NEW prev, Previous(prev)
  PROVE  LET K == KeptUuids(obj, prev) IN
         /\ Len(obj.rules) \in Nat /\ DOMAIN obj.rules = 1..Len(obj.rules)
         /\ DOMAIN K = 1..(1 + Len(obj.rules))
         /\ \A k \in DOMAIN K : K[k] \in Nat
         /\ K[1] = KeepUUID(obj.uuid, IF prev = NoSet THEN NoUuid ELSE prev.uuid)
         /\ \A i \in DOMAIN obj.rules :
              K[i + 1] = KeepUUID(obj.rules[i].uuid,
                           IF prev = NoSet THEN NoUuid ELSE UuidByName(prev.rules, obj.rules[i].name))
<1> DEFINE K == KeptUuids(obj, prev)
           first == KeepUUID(obj.uuid, IF prev = NoSet THEN NoUuid ELSE prev.uuid)
           of(i) == KeepUUID(obj.rules[i].uuid,
                      IF prev = NoSet THEN NoUuid ELSE UuidByName(prev.rules, obj.rules[i].name))
           rest == [i \in DOMAIN obj.rules |-> of(i)]
           n == Len(obj.rules)
<1>1. n \in Nat /\ DOMAIN obj.rules = 1..n
  BY LenProperties DEF Sent
<1>2. first \in Nat
  BY DEF Sent, Previous, StoredSet, KeepUUID, NoUuid
<1>3. ASSUME NEW i \in DOMAIN obj.rules PROVE of(i) \in Nat
  <2>1. obj.rules[i].uuid \in Nat
    <3>1. obj.rules \in Seq([name : RuleNames, uuid : Nat, id : Nat \ {0}])
      BY DEF Sent
    <3>2. obj.rules[i] \in [name : RuleNames, uuid : Nat, id : Nat \ {0}]
      BY <1>1, <3>1, ElementOfSeq
    <3> QED BY <3>2
  <2>2. CASE prev = NoSet
    BY <2>1, <2>2 DEF KeepUUID, NoUuid
  <2>3. CASE prev # NoSet
    <3>1. prev \in StoredSet /\ DistinctNames(prev)
      BY <2>3 DEF Previous
    <3>2. \A j \in DOMAIN prev.rules : prev.rules[j].uuid \in Nat
      <4>1. prev.rules \in Seq(StoredRule)
        BY <3>1 DEF StoredSet
      <4>2. \A j \in DOMAIN prev.rules : prev.rules[j] \in StoredRule
        BY <4>1, ElementOfSeq, LenProperties
      <4> QED BY <4>2 DEF StoredRule
    <3>3. UuidByName(prev.rules, obj.rules[i].name) \in Nat
      BY <3>1, <3>2, ByName DEF NoUuid
    <3> QED BY <2>1, <2>3, <3>3 DEF KeepUUID, NoUuid
  <2> QED BY <2>2, <2>3
<1>4. rest \in Seq(Nat) /\ Len(rest) = n
  BY <1>1, <1>3, IsASeq, LenProperties
<1>5. <<first>> \in Seq(Nat) /\ Len(<<first>>) = 1 /\ <<first>>[1] = first
  BY <1>2
<1>6. K = <<first>> \o rest
  BY DEF KeptUuids
<1> HIDE DEF first, rest, of
<1>7. /\ <<first>> \o rest \in Seq(Nat) /\ Len(<<first>> \o rest) = 1 + n
      /\ (<<first>> \o rest)[1] = first
      /\ \A i \in 1..n : (<<first>> \o rest)[i + 1] = rest[i]
  <2>1. /\ <<first>> \o rest \in Seq(Nat)
        /\ Len(<<first>> \o rest) = Len(<<first>>) + Len(rest)
        /\ \A i \in 1..(Len(<<first>>) + Len(rest)) :
             (<<first>> \o rest)[i] = IF i <= Len(<<first>>) THEN <<first>>[i] ELSE rest[i - Len(<<first>>)]
    BY <1>4, <1>5, ConcatProperties
  <2> QED BY <1>1, <1>4, <1>5, <2>1
<1>8. K \in Seq(Nat) /\ DOMAIN K = 1..(1 + n) /\ \A k \in DOMAIN K : K[k] \in Nat
  BY <1>1, <1>6, <1>7, LenProperties, ElementOfSeq
<1>9. K[1] = first /\ \A i \in DOMAIN obj.rules : K[i + 1] = of(i)
  BY <1>1, <1>6, <1>7 DEF rest
<1> QED BY <1>1, <1>8, <1>9 DEF first, of

\* When one uuid at most is made, a thing has the uuid that is kept for it, or
\* that one.
LEMMA AssignedItems ==
  ASSUME NEW obj \in Sent, NEW prev, Previous(prev), DistinctNames(obj), generated \in Nat,
         NEW m, Missing(KeptUuids(obj, prev)) \subseteq {m}
  PROVE  LET K == KeptUuids(obj, prev) new == AssignUUIDs(obj, prev) IN
         /\ new \in StoredSet /\ DistinctNames(new)
         /\ \A x \in ItemsOf(new) : \E k \in DOMAIN K :
              x = <<IdAt(obj, k), IF K[k] # NoUuid THEN K[k] ELSE generated + 1>>
         /\ Cardinality(Missing(K)) = IF Missing(K) = {} THEN 0 ELSE 1
<1> DEFINE K == KeptUuids(obj, prev)
           new == AssignUUIDs(obj, prev)
           uuid(k) == IF K[k] # NoUuid THEN K[k]
                      ELSE generated + Cardinality({l \in Missing(K) : l <= k})
           n == Len(obj.rules)
<1>1. /\ n \in Nat /\ DOMAIN obj.rules = 1..n
      /\ DOMAIN K = 1..(1 + n)
      /\ \A k \in DOMAIN K : K[k] \in Nat
  BY KeptAre
<1>2. Cardinality(Missing(K)) = IF Missing(K) = {} THEN 0 ELSE 1
  <2>1. Missing(K) = {} \/ Missing(K) = {m}
    OBVIOUS
  <2> QED BY <2>1, FS_EmptySet, FS_Singleton
<1>3. ASSUME NEW k \in DOMAIN K
      PROVE  uuid(k) \in Nat \ {0} /\ uuid(k) = IF K[k] # NoUuid THEN K[k] ELSE generated + 1
  <2>1. CASE K[k] # NoUuid
    BY <1>1, <2>1 DEF NoUuid
  <2>2. CASE K[k] = NoUuid
    <3>1. k \in Missing(K)
      BY <2>2 DEF Missing
    <3>2. {l \in Missing(K) : l <= k} = {k}
      <4>1. k \in Nat
        BY <1>1
      <4> QED BY <3>1, <4>1
    <3>3. Cardinality({k}) = 1
      BY FS_Singleton
    <3> HIDE DEF K
    <3> QED BY <2>2, <3>2, <3>3
  <2> QED BY <2>1, <2>2
<1>4. new = [obj EXCEPT !.uuid = uuid(1), !.rules = [i \in DOMAIN @ |-> [@[i] EXCEPT !.uuid = uuid(i + 1)]]]
  BY DEF AssignUUIDs
<1> HIDE DEF new, uuid, K
<1>5. /\ new.id = obj.id /\ new.uuid = uuid(1)
      /\ new.rules = [i \in 1..n |-> [obj.rules[i] EXCEPT !.uuid = uuid(i + 1)]]
      /\ new = [uuid |-> new.uuid, id |-> new.id, rules |-> new.rules]
  BY <1>1, <1>4 DEF Sent
<1>6. ASSUME NEW i \in 1..n
      PROVE  /\ new.rules[i] \in StoredRule
             /\ new.rules[i].name = obj.rules[i].name
             /\ new.rules[i].id = obj.rules[i].id /\ new.rules[i].uuid = uuid(i + 1)
  <2>1. obj.rules[i] \in [name : RuleNames, uuid : Nat, id : Nat \ {0}]
    BY <1>1, ElementOfSeq DEF Sent
  <2>2. uuid(i + 1) \in Nat \ {0}
    BY <1>1, <1>3
  <2> QED BY <1>5, <2>1, <2>2 DEF StoredRule
<1>7. new.rules \in Seq(StoredRule) /\ DOMAIN new.rules = 1..n
  <2>1. DOMAIN new.rules = 1..n /\ new.rules = [i \in 1..n |-> new.rules[i]]
    BY <1>5
  <2>2. new.rules \in [1..n -> StoredRule]
    BY <1>6, <2>1
  <2> QED BY <1>1, <2>1, <2>2, SeqDef
<1>8. new \in StoredSet
  <2>1. uuid(1) \in Nat \ {0} /\ obj.id \in Nat \ {0}
    BY <1>1, <1>3 DEF Sent
  <2> QED BY <1>5, <1>7, <2>1 DEF StoredSet
<1>9. DistinctNames(new)
  BY <1>1, <1>6, <1>7 DEF DistinctNames
<1>10. ASSUME NEW x \in ItemsOf(new)
       PROVE  \E k \in DOMAIN K : x = <<IdAt(obj, k), IF K[k] # NoUuid THEN K[k] ELSE generated + 1>>
  <2>1. CASE x = <<new.id, new.uuid>>
    <3>1. 1 \in DOMAIN K
      BY <1>1
    <3> QED BY <1>3, <1>5, <2>1, <3>1 DEF IdAt
  <2>2. CASE x \in {<<r.id, r.uuid>> : r \in Range(new.rules)}
    <3>1. PICK i \in 1..n : x = <<new.rules[i].id, new.rules[i].uuid>>
      BY <1>7, <2>2 DEF Range
    <3>2. i + 1 \in DOMAIN K /\ i + 1 # 1 /\ (i + 1) - 1 = i
      BY <1>1
    <3>3. IdAt(obj, i + 1) = obj.rules[i].id
      BY <3>2 DEF IdAt
    <3>4. x = <<obj.rules[i].id, uuid(i + 1)>>
      BY <1>6, <3>1
    <3> QED BY <1>3, <3>2, <3>3, <3>4
  <2> QED BY <2>1, <2>2 DEF ItemsOf
<1> QED BY <1>2, <1>8, <1>9, <1>10 DEF new, K

-----------------------------------------------------------------------------
(* The requests of the forms *)

\* Putting an object whose uuids are all of its RuleSet, but for one thing at
\* most, which is new; they are kept for what they belong to, unless a form
\* overwrites what it was not made from.
LEMMA PutKeeps ==
  ASSUME UuidsAssumption, HistoryKept, NEW s \in RuleSetNames, NEW obj \in Sent, NEW new \in {0, 1},
         PutSet(s, obj, new), NEW m, Missing(KeptUuids(obj, HeadTree[s])) \subseteq {m},
         overwrote' \in BOOLEAN, overwrote => overwrote',
         m \in Missing(KeptUuids(obj, HeadTree[s])) => IdAt(obj, m) = issued + 1 /\ new = 1,
         \A k \in DOMAIN KeptUuids(obj, HeadTree[s]) :
           /\ IdAt(obj, k) \in 1..(issued + new)
           /\ KeptUuids(obj, HeadTree[s])[k] # NoUuid =>
                /\ KeptUuids(obj, HeadTree[s])[k] \in UuidsOf(s)
                /\ ~overwrote' => <<IdAt(obj, k), KeptUuids(obj, HeadTree[s])[k]>> \in Everything
  PROVE  HistoryKept'
<1> DEFINE prev == HeadTree[s]
           K == KeptUuids(obj, prev)
           t == [HeadTree EXCEPT ![s] = AssignUUIDs(obj, prev)]
<1>1. /\ HeadTree \in Stored /\ NamesDistinct(HeadTree) /\ Items(HeadTree) \subseteq Everything
      /\ \E k \in DOMAIN trees : HeadTree = trees[k]
  BY HeadIs
<1>2. Previous(prev)
  BY <1>1 DEF Stored, NamesDistinct, HasSet, Previous
<1>3. generated \in Nat /\ issued \in Nat
  BY DEF HistoryKept
<1>4. DistinctNames(obj) /\ CommitTree(t) /\ issued' = issued + new
      /\ generated' = generated + Cardinality(Missing(K))
  BY DEF PutSet
<1>5. /\ AssignUUIDs(obj, prev) \in StoredSet /\ DistinctNames(AssignUUIDs(obj, prev))
      /\ \A x \in ItemsOf(AssignUUIDs(obj, prev)) : \E k \in DOMAIN K :
           x = <<IdAt(obj, k), IF K[k] # NoUuid THEN K[k] ELSE generated + 1>>
      /\ Cardinality(Missing(K)) = IF Missing(K) = {} THEN 0 ELSE 1
  BY <1>2, <1>3, <1>4, AssignedItems
<1>6. t \in Stored /\ t[s] = AssignUUIDs(obj, prev) /\ \A r \in RuleSetNames \ {s} : t[r] = HeadTree[r]
  BY <1>1, <1>5 DEF Stored
<1>7. NamesDistinct(t)
  <2> SUFFICES ASSUME NEW r \in RuleSetNames, HasSet(t, r) PROVE DistinctNames(t[r])
    BY DEF NamesDistinct
  <2>1. CASE r = s
    BY <1>5, <1>6, <2>1
  <2>2. CASE r # s
    BY <1>1, <1>6, <2>2 DEF NamesDistinct, HasSet
  <2> QED BY <2>1, <2>2
<1>8. generated' \in Nat /\ issued' \in Nat /\ generated' >= generated /\ issued' >= issued
  BY <1>3, <1>4, <1>5
<1> HIDE DEF t
<1>9. ASSUME NEW r \in RuleSetNames, HasSet(t, r), NEW x \in ItemsOf(t[r])
      PROVE  /\ x[1] \in 1..issued'
             /\ x[2] \in UuidsOf(r) \/ (r = s /\ x[2] = generated + 1 /\ generated' >= generated + 1)
             /\ ~overwrote' =>
                  \/ x \in Everything
                  \/ x = <<issued + 1, generated + 1>> /\ issued' >= issued + 1 /\ generated' >= generated + 1
  <2>1. CASE r # s
    <3>1. t[r] = HeadTree[r] /\ HasSet(HeadTree, r)
      BY <1>6, <1>9, <2>1 DEF HasSet
    <3>2. x \in Everything /\ x[1] \in 1..issued /\ x[2] \in UuidsOf(r)
      BY <1>1, <1>9, <3>1, TextIs
    <3> QED BY <1>3, <1>8, <3>2
  <2>2. CASE r = s
    <3>1. PICK k \in DOMAIN K : x = <<IdAt(obj, k), IF K[k] # NoUuid THEN K[k] ELSE generated + 1>>
      BY <1>5, <1>6, <1>9, <2>2
    <3>2. x[1] = IdAt(obj, k) /\ IdAt(obj, k) \in 1..issued'
      BY <1>4, <3>1
    <3>3. CASE K[k] # NoUuid
      BY <2>2, <3>1, <3>2, <3>3
    <3>4. CASE K[k] = NoUuid
      <4>1. k \in Missing(K)
        BY <3>4 DEF Missing
      <4>2. k = m /\ IdAt(obj, m) = issued + 1 /\ new = 1
        BY <4>1
      <4>3. generated' = generated + 1 /\ issued' = issued + 1
        BY <1>3, <1>4, <1>5, <4>1, <4>2
      <4> QED BY <1>3, <2>2, <3>1, <3>2, <3>4, <4>2, <4>3
    <3> QED BY <3>3, <3>4
  <2> QED BY <2>1, <2>2
<1>10. ~overwrote' => \A x \in Items(t) :
         \/ x \in Everything
         \/ x = <<issued + 1, generated + 1>> /\ issued' >= issued + 1 /\ generated' >= generated + 1
  BY <1>9, ItemsAre
<1> QED BY <1>4, <1>6, <1>7, <1>8, <1>9, <1>10, HistoryGrows

\* What the rules of an edited RuleSet are: those it had, each once renamed at
\* most to a name that none had, and a new one.
FromOld(r, old) ==
  \E j \in DOMAIN old :
    /\ r.uuid = old[j].uuid /\ r.id = old[j].id
    /\ r.name = old[j].name \/ \A l \in DOMAIN old : old[l].name # r.name

IsNew(r, old) ==
  r.uuid = NoUuid /\ r.id = issued + 1 /\ \A j \in DOMAIN old : old[j].name # r.name

\* The rules of a RuleSet of the history.
LEMMA RuleIs ==
  ASSUME HistoryKept, NEW s \in RuleSetNames, NEW k \in DOMAIN trees, HasSet(trees[k], s),
         NEW j \in DOMAIN trees[k][s].rules
  PROVE  LET r == trees[k][s].rules[j] IN
         /\ r.uuid # NoUuid /\ r.uuid \in UuidsOf(s)
         /\ r.id \in 1..issued /\ <<r.id, r.uuid>> \in Everything
<1> DEFINE o == trees[k][s]
<1>1. /\ o \in StoredSet
      /\ \A x \in ItemsOf(o) : x \in Everything /\ x[1] \in 1..issued /\ x[2] \in UuidsOf(s)
  BY TextIs
<1>2. o.rules \in Seq(StoredRule)
  BY <1>1 DEF StoredSet
<1>3. o.rules[j] \in StoredRule
  BY <1>2, ElementOfSeq, LenProperties
<1>4. <<o.rules[j].id, o.rules[j].uuid>> \in ItemsOf(o)
  BY DEF ItemsOf, Range
<1> QED BY <1>1, <1>3, <1>4 DEF StoredRule, NoUuid

\* An edit sends rules that the text it was made from has, and one that is new.
LEMMA EditKeeps ==
  ASSUME UuidsAssumption, HistoryKept, NEW s \in RuleSetNames, NEW seen \in Seen(s), NEW rules,
         NEW new \in {0, 1}, EditSet(s, seen, rules, new),
         rules \in Seq([name : RuleNames, uuid : Nat, id : Nat \ {0}]),
         \A i \in DOMAIN rules :
           \/ i = Len(rules) /\ new = 1 /\ IsNew(rules[i], seen.rules)
           \/ FromOld(rules[i], seen.rules)
  PROVE  HistoryKept'
<1> DEFINE prev == HeadTree[s]
           obj == [seen EXCEPT !.rules = rules]
           K == KeptUuids(obj, prev)
           m == Len(rules)
<1>1. PICK head \in DOMAIN trees : HeadTree = trees[head]
  BY HeadIs
<1>2. PICK k \in DOMAIN trees : seen = trees[k][s] /\ HasSet(trees[k], s)
  BY DEF Seen, HasSet
<1>3. /\ seen \in StoredSet /\ DistinctNames(seen)
      /\ \A x \in ItemsOf(seen) : x \in Everything /\ x[1] \in 1..issued /\ x[2] \in UuidsOf(s)
  BY <1>2, TextIs
<1>4. prev # NoSet => /\ prev \in StoredSet /\ DistinctNames(prev) /\ HasSet(trees[head], s)
                      /\ \A x \in ItemsOf(prev) : x[2] \in UuidsOf(s)
  BY <1>1, TextIs DEF HasSet
<1>5. obj \in Sent /\ obj.rules = rules /\ obj.uuid = seen.uuid /\ obj.id = seen.id
  BY <1>3 DEF StoredSet, Sent
<1>6. Previous(prev)
  BY <1>4 DEF Previous
<1>7. /\ PutSet(s, obj, new) /\ overwrote' = (overwrote \/ seen # prev)
      /\ overwrote' \in BOOLEAN /\ generated \in Nat /\ issued \in Nat
  BY DEF EditSet, HistoryKept
<1> HIDE DEF obj
<1>8. /\ Len(rules) \in Nat /\ DOMAIN rules = 1..Len(rules)
      /\ DOMAIN K = 1..(1 + Len(rules))
      /\ K[1] = KeepUUID(seen.uuid, IF prev = NoSet THEN NoUuid ELSE prev.uuid)
      /\ \A i \in DOMAIN rules :
           K[i + 1] = KeepUUID(rules[i].uuid,
                        IF prev = NoSet THEN NoUuid ELSE UuidByName(prev.rules, rules[i].name))
  BY <1>5, <1>6, KeptAre
<1> DEFINE Kept(n) == /\ K[n] # NoUuid /\ K[n] \in UuidsOf(s) /\ IdAt(obj, n) \in 1..issued
                      /\ seen = prev => <<IdAt(obj, n), K[n]>> \in Everything
<1>9. Kept(1)
  <2>1. seen.uuid # NoUuid /\ <<seen.id, seen.uuid>> \in ItemsOf(seen) /\ IdAt(obj, 1) = seen.id
    BY <1>3, <1>5 DEF StoredSet, NoUuid, ItemsOf, IdAt
  <2>2. seen.uuid \in UuidsOf(s) /\ seen.id \in 1..issued /\ <<seen.id, seen.uuid>> \in Everything
    BY <1>3, <2>1
  <2>3. prev # NoSet => prev.uuid # NoUuid /\ prev.uuid \in UuidsOf(s)
    <3> HAVE prev # NoSet
    <3>1. prev.uuid # NoUuid /\ <<prev.id, prev.uuid>> \in ItemsOf(prev)
      BY <1>4 DEF StoredSet, NoUuid, ItemsOf
    <3> QED BY <1>4, <3>1
  <2>4. K[1] = IF prev = NoSet THEN seen.uuid ELSE prev.uuid
    BY <1>8, <2>3 DEF KeepUUID
  <2> HIDE DEF prev, K
  <2>5. prev = NoSet => K[1] = seen.uuid
    BY <2>4
  <2>6. prev # NoSet => K[1] = prev.uuid
    BY <2>4
  <2>7. seen = prev => K[1] = seen.uuid
    BY <2>5, <2>6
  <2> QED BY <2>1, <2>2, <2>3, <2>5, <2>6, <2>7
<1>10. ASSUME NEW i \in DOMAIN rules
       PROVE  \/ i = m /\ new = 1 /\ K[i + 1] = NoUuid /\ IdAt(obj, i + 1) = issued + 1
              \/ /\ i = m /\ new = 1 /\ IdAt(obj, i + 1) = issued + 1
                 /\ seen # prev /\ K[i + 1] # NoUuid /\ K[i + 1] \in UuidsOf(s)
              \/ Kept(i + 1)
  <2>1. IdAt(obj, i + 1) = rules[i].id
    <3>1. i + 1 # 1 /\ (i + 1) - 1 = i
      BY <1>8
    <3> QED BY <1>5, <3>1 DEF IdAt
  <2> DEFINE u == IF prev = NoSet THEN NoUuid ELSE UuidByName(prev.rules, rules[i].name)
  <2>2. K[i + 1] = KeepUUID(rules[i].uuid, u)
    BY <1>8
  <2>3. \/ /\ prev # NoSet
           /\ \E j \in DOMAIN prev.rules : prev.rules[j].name = rules[i].name /\ u = prev.rules[j].uuid
        \/ /\ prev # NoSet => \A j \in DOMAIN prev.rules : prev.rules[j].name # rules[i].name
           /\ u = NoUuid
    BY <1>4, ByName
  <2>4. u # NoUuid => u \in UuidsOf(s)
    BY <1>1, <1>4, <2>3, RuleIs
  <2> HIDE DEF u
  <2>5. CASE i = m /\ new = 1 /\ IsNew(rules[i], seen.rules)
    <3>1. rules[i].uuid = NoUuid /\ rules[i].id = issued + 1
      BY <2>5 DEF IsNew
    <3>2. K[i + 1] = u
      BY <2>2, <3>1 DEF KeepUUID
    <3>3. seen = prev => u = NoUuid
      BY <1>2, <2>3, <2>5 DEF IsNew, HasSet
    <3> QED BY <2>1, <2>4, <2>5, <3>1, <3>2, <3>3
  <2>6. CASE FromOld(rules[i], seen.rules)
    <3>1. PICK j \in DOMAIN seen.rules :
            /\ rules[i].uuid = seen.rules[j].uuid /\ rules[i].id = seen.rules[j].id
            /\ \/ rules[i].name = seen.rules[j].name
               \/ \A l \in DOMAIN seen.rules : seen.rules[l].name # rules[i].name
      BY <2>6 DEF FromOld
    <3>2. LET r == seen.rules[j] IN
          /\ r.uuid # NoUuid /\ r.uuid \in UuidsOf(s)
          /\ r.id \in 1..issued /\ <<r.id, r.uuid>> \in Everything
      BY <1>2, RuleIs
    <3>3. K[i + 1] # NoUuid /\ K[i + 1] \in UuidsOf(s)
      BY <2>2, <2>4, <3>1, <3>2 DEF KeepUUID
    <3>4. seen = prev => K[i + 1] = seen.rules[j].uuid
      <4> HAVE seen = prev
      <4>1. u = NoUuid \/ u = seen.rules[j].uuid
        BY <1>2, <1>3, <2>3, <3>1 DEF DistinctNames, HasSet
      <4> QED BY <2>2, <3>1, <4>1 DEF KeepUUID
    <3> QED BY <2>1, <3>1, <3>2, <3>3, <3>4
  <2> QED BY <2>5, <2>6
<1>11. \A n \in DOMAIN K : n = 1 \/ \E i \in DOMAIN rules : n = i + 1
  <2> TAKE n \in DOMAIN K
  <2>1. n = 1 \/ (n - 1 \in DOMAIN rules /\ n = (n - 1) + 1)
    BY <1>8
  <2> QED BY <2>1
<1> DEFINE Fresh(n) == /\ n = m + 1 /\ new = 1 /\ IdAt(obj, n) = issued + 1
                       /\ K[n] # NoUuid => seen # prev /\ K[n] \in UuidsOf(s)
<1>12. \A n \in DOMAIN K : Fresh(n) \/ Kept(n)
  <2> TAKE n \in DOMAIN K
  <2>1. CASE n = 1
    BY <1>9, <2>1
  <2>2. CASE \E i \in DOMAIN rules : n = i + 1
    <3>1. PICK i \in DOMAIN rules : n = i + 1
      BY <2>2
    <3> QED BY <1>10, <3>1
  <2> QED BY <1>11, <2>1, <2>2
<1>13. Missing(K) \subseteq {m + 1}
  BY <1>12 DEF Missing
<1>14. m + 1 \in Missing(K) => IdAt(obj, m + 1) = issued + 1 /\ new = 1
  BY <1>12 DEF Missing
<1>15. \A n \in DOMAIN K :
         /\ IdAt(obj, n) \in 1..(issued + new)
         /\ K[n] # NoUuid => K[n] \in UuidsOf(s) /\ (~overwrote' => <<IdAt(obj, n), K[n]>> \in Everything)
  <2>1. ~overwrote' => seen = prev
    BY <1>7
  <2> HIDE DEF K, m, prev
  <2> TAKE n \in DOMAIN K
  <2>2. CASE Fresh(n)
    <3>1. issued + 1 \in 1..(issued + 1) /\ new = 1
      BY <1>7, <2>2
    <3> QED BY <2>1, <2>2, <3>1
  <2>3. CASE Kept(n)
    <3>1. \A x \in 1..issued : x \in 1..(issued + new)
      BY <1>7
    <3> QED BY <2>1, <2>3, <3>1
  <2> QED BY <1>12, <2>2, <2>3
<1> HIDE DEF K, m
<1> QED BY <1>5, <1>7, <1>13, <1>14, <1>15, PutKeeps DEF K

\* A rule that the editor takes out, or puts in somewhere else, leaves rules that
\* the RuleSet had.
LEMMA RemoveAtElements ==
  ASSUME NEW S, NEW s \in Seq(S), NEW i \in 1..Len(s)
  PROVE  /\ RemoveAt(s, i) \in Seq(S) /\ Len(RemoveAt(s, i)) = Len(s) - 1
         /\ \A k \in DOMAIN RemoveAt(s, i) : \E j \in DOMAIN s : RemoveAt(s, i)[k] = s[j]
<1>1. Len(s) \in Nat /\ DOMAIN s = 1..Len(s)
  BY LenProperties
<1>2. \A k \in 1..(Len(s) - 1) : (IF k < i THEN k ELSE k + 1) \in DOMAIN s
  BY <1>1
<1>3. /\ RemoveAt(s, i) \in Seq(S) /\ Len(RemoveAt(s, i)) = Len(s) - 1
      /\ DOMAIN RemoveAt(s, i) = 1..(Len(s) - 1)
      /\ \A k \in 1..(Len(s) - 1) : RemoveAt(s, i)[k] = s[IF k < i THEN k ELSE k + 1]
  BY RemoveAtIs
<1> QED BY ONLY <1>2, <1>3

\* What is put in is the only thing that is new.
LEMMA InsertAtElements ==
  ASSUME NEW S, NEW s \in Seq(S), NEW i \in 1..(Len(s) + 1), NEW e \in S
  PROVE  /\ InsertAt(s, i, e) \in Seq(S)
         /\ \A k \in DOMAIN InsertAt(s, i, e) :
              InsertAt(s, i, e)[k] = e \/ \E j \in DOMAIN s : InsertAt(s, i, e)[k] = s[j]
<1> DEFINE before == SubSeq(s, 1, i-1)
           with == Append(before, e)
           after == SubSeq(s, i, Len(s))
<1>1. Len(s) \in Nat /\ DOMAIN s = 1..Len(s) /\ \A k \in 1..Len(s) : s[k] \in S
  BY LenProperties, ElementOfSeq
<1>2. before \in Seq(S) /\ Len(before) = i - 1 /\ \A k \in 1..(i-1) : before[k] = s[k]
  BY <1>1, SubSeqProperties
<1>3. after \in Seq(S) /\ Len(after) = Len(s) - i + 1 /\ \A k \in 1..(Len(s) - i + 1) : after[k] = s[i + k - 1]
  BY <1>1, SubSeqProperties
<1>4. InsertAt(s, i, e) = with \o after
  BY <1>2, AppendIsConcat DEF InsertAt
<1>5. /\ with \in Seq(S) /\ Len(with) = i
      /\ \A k \in 1..(i-1) : with[k] = s[k]
      /\ with[i] = e
  BY <1>2, AppendProperties
<1> HIDE DEF before, with, after
<1>6. /\ with \o after \in Seq(S) /\ Len(with \o after) = Len(with) + Len(after)
      /\ \A k \in 1..(Len(with) + Len(after)) :
           (with \o after)[k] = IF k <= Len(with) THEN with[k] ELSE after[k - Len(with)]
  BY <1>3, <1>5, ConcatProperties
<1>7. DOMAIN (with \o after) = 1..(Len(s) + 1)
  BY <1>1, <1>3, <1>5, <1>6, LenProperties
<1>8. ASSUME NEW k \in 1..(Len(s) + 1)
      PROVE  (with \o after)[k] = e \/ \E j \in DOMAIN s : (with \o after)[k] = s[j]
  <2>1. CASE k < i
    <3>1. (with \o after)[k] = s[k] /\ k \in DOMAIN s
      BY <1>1, <1>3, <1>5, <1>6, <2>1
    <3> QED BY <3>1
  <2>2. CASE k = i
    BY <1>1, <1>3, <1>5, <1>6, <2>2
  <2>3. CASE k > i
    <3>1. k - i \in 1..(Len(s) - i + 1) /\ i + (k - i) - 1 = k - 1 /\ k - 1 \in DOMAIN s
      BY <1>1, <2>3
    <3>2. (with \o after)[k] = after[k - i]
      BY <1>1, <1>3, <1>5, <1>6, <2>3
    <3>3. after[k - i] = s[k - 1]
      BY <1>3, <3>1
    <3> QED BY <3>1, <3>2, <3>3
  <2>4. k \in Int /\ i \in Int
    BY <1>1
  <2>5. k < i \/ k = i \/ k > i
    BY <2>4
  <2> QED BY <2>1, <2>2, <2>3, <2>5
<1> QED BY <1>4, <1>6, <1>7, <1>8

\* Each request of a form.
LEMMA FormKeeps ==
  ASSUME UuidsAssumption, HistoryKept, NEW s \in RuleSetNames, Form(s)
  PROVE  HistoryKept'
<1> DEFINE SentRules == [name : RuleNames, uuid : Nat, id : Nat \ {0}]
           prev == HeadTree[s]
<1>1. /\ HeadTree \in Stored /\ NamesDistinct(HeadTree) /\ Items(HeadTree) \subseteq Everything
      /\ \E k \in DOMAIN trees : HeadTree = trees[k]
  BY HeadIs
<1>2. generated \in Nat /\ issued \in Nat /\ issued + 1 \in Nat \ {0} /\ overwrote \in BOOLEAN
  BY DEF HistoryKept
<1>3. CASE CreateSet(s)
  <2>1. NewSet \in Sent /\ NewSet.uuid = 0 /\ NewSet.id = issued + 1 /\ NewSet.rules = <<>> /\ DOMAIN NewSet.rules = {}
    BY <1>2 DEF NewSet, Sent, NoUuid
  <2>2. prev = NoSet /\ Previous(prev) /\ PutSet(s, NewSet, 1) /\ overwrote' = overwrote
    BY <1>3 DEF CreateSet, HasSet, Previous
  <2>3. LET K == KeptUuids(NewSet, prev) IN DOMAIN K = 1..1 /\ K[1] = 0
    <3>1. Len(NewSet.rules) = 0
      BY <2>1
    <3>2. /\ DOMAIN KeptUuids(NewSet, prev) = 1..(1 + Len(NewSet.rules))
          /\ KeptUuids(NewSet, prev)[1] = KeepUUID(NewSet.uuid, IF prev = NoSet THEN NoUuid ELSE prev.uuid)
      BY <2>1, <2>2, KeptAre
    <3>3. KeepUUID(0, NoUuid) = 0
      BY DEF KeepUUID, NoUuid
    <3> QED BY <2>1, <2>2, <3>1, <3>2, <3>3
  <2>4. /\ Missing(KeptUuids(NewSet, prev)) \subseteq {1}
        /\ IdAt(NewSet, 1) = issued + 1
    BY <2>1, <2>3 DEF Missing, IdAt
  <2>5. \A k \in DOMAIN KeptUuids(NewSet, prev) :
          /\ IdAt(NewSet, k) \in 1..(issued + 1)
          /\ KeptUuids(NewSet, prev)[k] = NoUuid
    BY <1>2, <2>1, <2>3 DEF NoUuid, IdAt
  <2> QED BY <1>2, <2>1, <2>2, <2>4, <2>5, PutKeeps
<1>4. CASE DeleteSet(s)
  <2> DEFINE t == [HeadTree EXCEPT ![s] = NoSet]
  <2>1. t \in Stored /\ CommitTree(t) /\ UNCHANGED <<generated, issued, overwrote>>
    BY <1>1, <1>4 DEF Stored, DeleteSet
  <2>2. \A r \in RuleSetNames : HasSet(t, r) => r # s /\ t[r] = HeadTree[r] /\ HasSet(HeadTree, r)
    BY <1>1 DEF Stored, HasSet
  <2> HIDE DEF t
  <2>3. NamesDistinct(t)
    BY <1>1, <2>2 DEF NamesDistinct
  <2>4. \A x \in Items(t) : x \in Everything
    BY <1>1, <2>2, ItemsAre
  <2>5. \A r \in RuleSetNames : HasSet(t, r) => \A x \in ItemsOf(t[r]) :
          x[1] \in 1..issued /\ x[2] \in UuidsOf(r)
    BY <1>1, <2>2, TextIs
  <2> QED BY <1>2, <2>1, <2>3, <2>4, <2>5, HistoryGrows
<1>5. ASSUME NEW seen \in Seen(s),
             \/ KeepItems(s, seen)
             \/ \E name \in RuleNames : AddItem(s, seen, name)
             \/ \E i \in DOMAIN seen.rules :
                  \/ RemoveItem(s, seen, i)
                  \/ \E name \in RuleNames : RenameItem(s, seen, i, name)
                  \/ seen = HeadTree[s] /\ \E j \in DOMAIN seen.rules : MoveItem(s, i, j)
      PROVE  HistoryKept'
  <2>1. seen \in StoredSet /\ DistinctNames(seen) /\ seen.rules \in Seq(StoredRule)
    <3>1. PICK k \in DOMAIN trees : seen = trees[k][s] /\ HasSet(trees[k], s)
      BY DEF Seen, HasSet
    <3> QED BY <3>1, TextIs DEF StoredSet
  <2>2. /\ Len(seen.rules) \in Nat /\ DOMAIN seen.rules = 1..Len(seen.rules)
        /\ \A i \in DOMAIN seen.rules : seen.rules[i] \in StoredRule
    BY <2>1, LenProperties, ElementOfSeq
  <2>3. seen.rules \in Seq(SentRules)
    <3>1. StoredRule \subseteq SentRules
      BY DEF StoredRule
    <3> QED BY <2>1, <3>1, SeqMonotonic
  <2>4. ASSUME NEW name \in RuleNames, AddItem(s, seen, name) PROVE HistoryKept'
    <3> DEFINE rules == Append(seen.rules, SentRule(name))
               m == Len(seen.rules) + 1
    <3>1. /\ rules \in Seq(SentRules) /\ DOMAIN rules = 1..m /\ Len(rules) = m
          /\ rules[m] = SentRule(name)
          /\ \A i \in 1..Len(seen.rules) : rules[i] = seen.rules[i]
      <4>1. SentRule(name) \in SentRules
        BY <1>2 DEF SentRule, NoUuid
      <4> QED BY <2>2, <2>3, <4>1, AppendProperties, LenProperties
    <3>2. EditSet(s, seen, rules, 1) /\ DistinctNames([seen EXCEPT !.rules = rules])
      BY <2>4 DEF AddItem, EditSet, PutSet
    <3>3. \A i, j \in DOMAIN rules : rules[i].name = rules[j].name => i = j
      BY <2>1, <3>2 DEF DistinctNames, StoredSet
    <3>4. \A j \in DOMAIN seen.rules : seen.rules[j].name # rules[m].name
      <4>1. \A j \in DOMAIN seen.rules : j \in DOMAIN rules /\ j # m /\ m \in DOMAIN rules
        <5>1. \A n \in Nat : \A j \in 1..n : j \in 1..(n + 1) /\ j # n + 1 /\ n + 1 \in 1..(n + 1)
          OBVIOUS
        <5> HIDE DEF rules
        <5> QED BY <2>2, <3>1, <5>1
      <4> HIDE DEF rules, m
      <4> QED BY <2>2, <3>1, <3>3, <4>1
    <3> HIDE DEF rules
    <3>5. ASSUME NEW i \in DOMAIN rules
          PROVE  (i = Len(rules) /\ IsNew(rules[i], seen.rules)) \/ FromOld(rules[i], seen.rules)
      <4>1. i = m \/ i \in DOMAIN seen.rules
        <5>1. i \in 1..(Len(seen.rules) + 1)
          BY <3>1
        <5>2. i = Len(seen.rules) + 1 \/ i \in 1..Len(seen.rules)
          BY <2>2, <5>1
        <5> QED BY <2>2, <5>2
      <4>2. CASE i = m
        BY <3>1, <3>4, <4>2 DEF SentRule, IsNew
      <4>3. CASE i \in DOMAIN seen.rules
        BY <2>2, <3>1, <4>3 DEF FromOld
      <4> QED BY <4>1, <4>2, <4>3
    <3> QED BY <3>1, <3>2, <3>5, EditKeeps
  <2>5. ASSUME NEW i \in DOMAIN seen.rules, RemoveItem(s, seen, i) PROVE HistoryKept'
    <3> DEFINE rules == RemoveAt(seen.rules, i)
    <3>1. /\ rules \in Seq(SentRules)
          /\ \A k \in DOMAIN rules : \E j \in DOMAIN seen.rules : rules[k] = seen.rules[j]
      <4>1. i \in 1..Len(seen.rules)
        BY <2>2
      <4> HIDE DEF SentRules
      <4> QED BY <2>3, <4>1, RemoveAtElements
    <3>2. EditSet(s, seen, rules, 0)
      BY <2>5 DEF RemoveItem
    <3> HIDE DEF rules
    <3>3. \A k \in DOMAIN rules : FromOld(rules[k], seen.rules)
      BY <3>1 DEF FromOld
    <3> QED BY <3>1, <3>2, <3>3, EditKeeps
  <2>6. ASSUME NEW i \in DOMAIN seen.rules, NEW name \in RuleNames, RenameItem(s, seen, i, name) PROVE HistoryKept'
    <3> DEFINE rules == [seen.rules EXCEPT ![i].name = name]
    <3>1. /\ DOMAIN rules = DOMAIN seen.rules
          /\ rules[i] = [seen.rules[i] EXCEPT !.name = name]
          /\ \A k \in DOMAIN seen.rules \ {i} : rules[k] = seen.rules[k]
      OBVIOUS
    <3>2. rules[i] \in SentRules /\ rules[i].name = name
          /\ rules[i].uuid = seen.rules[i].uuid /\ rules[i].id = seen.rules[i].id
      BY <2>2, <3>1 DEF StoredRule
    <3>3. rules \in Seq(SentRules)
      BY <2>2, <2>3, <3>2, ExceptSeq
    <3>4. EditSet(s, seen, rules, 0) /\ DistinctNames([seen EXCEPT !.rules = rules])
      BY <2>6 DEF RenameItem, EditSet, PutSet
    <3>5. \A k, j \in DOMAIN rules : rules[k].name = rules[j].name => k = j
      BY <2>1, <3>4 DEF DistinctNames, StoredSet
    <3> HIDE DEF rules
    <3>6. \A j \in DOMAIN seen.rules : j # i => seen.rules[j].name # name
      BY <3>1, <3>2, <3>5
    <3>7. ASSUME NEW k \in DOMAIN rules PROVE FromOld(rules[k], seen.rules)
      <4>1. CASE k = i
        <5>1. name = seen.rules[i].name \/ \A l \in DOMAIN seen.rules : seen.rules[l].name # name
          BY <3>6
        <5> QED BY <3>1, <3>2, <4>1, <5>1 DEF FromOld
      <4>2. CASE k # i
        BY <3>1, <4>2 DEF FromOld
      <4> QED BY <4>1, <4>2
    <3> QED BY <3>3, <3>4, <3>7, EditKeeps
  <2>7. ASSUME NEW i \in DOMAIN seen.rules, NEW j \in DOMAIN seen.rules, seen = HeadTree[s],
               MoveItem(s, i, j)
        PROVE  HistoryKept'
    <3> DEFINE left == RemoveAt(seen.rules, i)
               rules == InsertAt(left, j, seen.rules[i])
    <3>1. /\ left \in Seq(SentRules)
          /\ \A k \in DOMAIN left : \E l \in DOMAIN seen.rules : left[k] = seen.rules[l]
      <4>1. i \in 1..Len(seen.rules)
        BY <2>2
      <4> HIDE DEF SentRules
      <4> QED BY <2>3, <4>1, RemoveAtElements
    <3>2. Len(left) = Len(seen.rules) - 1
      BY <2>2, <2>3, RemoveAtElements
    <3>3. j \in 1..(Len(left) + 1)
      BY <2>2, <3>2
    <3>4. seen.rules[i] \in SentRules
      BY <2>2 DEF StoredRule
    <3> HIDE DEF left
    <3>5. /\ rules \in Seq(SentRules)
          /\ \A k \in DOMAIN rules : rules[k] = seen.rules[i] \/ \E l \in DOMAIN left : rules[k] = left[l]
      <4> HIDE DEF SentRules
      <4> QED BY <3>1, <3>3, <3>4, InsertAtElements
    <3>6. \A k \in DOMAIN rules : \E l \in DOMAIN seen.rules : rules[k] = seen.rules[l]
      BY <3>1, <3>5
    <3>7. EditSet(s, seen, rules, 0)
      BY <2>7 DEF MoveItem, left
    <3> HIDE DEF rules
    <3>8. \A k \in DOMAIN rules : FromOld(rules[k], seen.rules)
      BY <3>6 DEF FromOld
    <3> QED BY <3>5, <3>7, <3>8, EditKeeps
  <2>8. ASSUME KeepItems(s, seen) PROVE HistoryKept'
    <3>1. EditSet(s, seen, seen.rules, 0)
      BY <2>8 DEF KeepItems
    <3>2. \A i \in DOMAIN seen.rules : FromOld(seen.rules[i], seen.rules)
      BY DEF FromOld
    <3> QED BY <2>3, <3>1, <3>2, EditKeeps
  <2> QED BY <1>5, <2>4, <2>5, <2>6, <2>7, <2>8
<1>6. CASE HasSet(HeadTree, s) /\ \E i, j \in DOMAIN HeadTree[s].rules : MoveItem(s, i, j)
  <2>1. HeadTree[s] \in Seen(s)
    BY <1>1, <1>6 DEF Seen, HasSet
  <2> QED BY <1>5, <1>6, <2>1
<1> QED BY <1>3, <1>4, <1>5, <1>6 DEF Form

\* The inductive invariant holds of every run of the forms.
LEMMA HistoryAlwaysKept == ASSUME UuidsAssumption PROVE FormSpec => []HistoryKept
<1>1. UuidsInit => HistoryKept
  <2> SUFFICES ASSUME UuidsInit PROVE HistoryKept
    OBVIOUS
  <2>1. PICK s \in RuleSetNames, n \in RuleNames :
          trees = << [r \in RuleSetNames |-> IF r = s
                       THEN [uuid |-> 1, id |-> 1, rules |-> <<[name |-> n, uuid |-> 2, id |-> 2]>>]
                       ELSE NoSet] >>
    BY DEF UuidsInit
  <2> DEFINE rule == [name |-> n, uuid |-> 2, id |-> 2]
             obj == [uuid |-> 1, id |-> 1, rules |-> <<rule>>]
             t == [r \in RuleSetNames |-> IF r = s THEN obj ELSE NoSet]
  <2>2. trees = <<t>> /\ generated = 2 /\ issued = 2 /\ overwrote = FALSE
    BY <2>1 DEF UuidsInit
  <2>3. <<rule>> \in Seq(StoredRule) /\ obj \in StoredSet /\ DOMAIN <<rule>> = {1} /\ <<rule>>[1] = rule
    BY DEF StoredRule, StoredSet
  <2>4. t \in Stored
    BY <2>3 DEF Stored
  <2>5. DistinctNames(obj)
    BY DEF DistinctNames
  <2>6. \A x \in ItemsOf(obj) : x = <<1, 1>> \/ x = <<2, 2>>
    BY DEF ItemsOf, Range
  <2>7. \A r \in RuleSetNames : HasSet(t, r) => t[r] = obj
    BY DEF HasSet
  <2> HIDE DEF t, obj
  <2>8. NamesDistinct(t)
    BY <2>5, <2>7 DEF NamesDistinct
  <2>9. trees \in Seq(Stored) /\ Len(trees) = 1 /\ DOMAIN trees = {1} /\ trees[1] = t
    BY <2>2, <2>4
  <2>10. \A x \in Everything : x = <<1, 1>> \/ x = <<2, 2>>
    BY <2>6, <2>7, <2>9, EverythingIs, ItemsAre
  <2>11. 1 \in 1..MaxTrees
    BY DEF UuidsAssumption
  <2>12. \A r \in RuleSetNames : r # s => UuidsOf(r) = {}
    <3> TAKE r \in RuleSetNames
    <3> HAVE r # s
    <3>1. ~HasSet(t, r)
      BY DEF t, HasSet
    <3> QED BY <2>9, <3>1, UuidsOfAre
  <2>13. OneUuidEach
    <3>1. \A q, r \in RuleSetNames : q # r => UuidsOf(q) \cap UuidsOf(r) = {}
      BY <2>12
    <3>2. \A x, y \in Everything : x[1] = y[1] <=> x[2] = y[2]
      BY <2>10
    <3> QED BY <3>1, <3>2 DEF OneUuidEach
  <2>14. \A k \in DOMAIN trees : NamesDistinct(trees[k])
    BY <2>8, <2>9
  <2>15. \A x \in Everything : x[1] \in 1..issued /\ x[2] \in 1..generated
    BY <2>2, <2>10
  <2>16. generated \in Nat /\ issued \in Nat /\ overwrote \in BOOLEAN
    BY <2>2
  <2> QED BY <2>9, <2>11, <2>13, <2>14, <2>15, <2>16 DEF HistoryKept
<1>2. HistoryKept /\ [FormNext]_uuidsVars => HistoryKept'
  <2> SUFFICES ASSUME HistoryKept, [FormNext]_uuidsVars PROVE HistoryKept'
    OBVIOUS
  <2>1. CASE \E s \in RuleSetNames : Form(s)
    BY <2>1, FormKeeps
  <2>2. CASE \E k \in DOMAIN trees : RevertTree(k)
    <3>1. PICK k \in DOMAIN trees : CommitTree(trees[k]) /\ UNCHANGED <<generated, issued, overwrote>>
      BY <2>2 DEF RevertTree
    <3>2. trees[k] \in Stored /\ NamesDistinct(trees[k])
      BY ElementOfSeq, LenProperties DEF HistoryKept
    <3>3. \A x \in Items(trees[k]) : x \in Everything
      BY EverythingIs
    <3>4. generated \in Nat /\ issued \in Nat /\ overwrote \in BOOLEAN
      BY DEF HistoryKept
    <3>5. \A s \in RuleSetNames : HasSet(trees[k], s) => \A x \in ItemsOf(trees[k][s]) :
            x[1] \in 1..issued /\ x[2] \in UuidsOf(s)
      BY TextIs
    <3> QED BY <3>1, <3>2, <3>3, <3>4, <3>5, HistoryGrows
  <2>3. CASE UNCHANGED uuidsVars
    <3>1. /\ UNCHANGED <<trees, generated, issued, overwrote>> /\ Everything' = Everything
          /\ \A s : UuidsOf(s)' = UuidsOf(s)
      BY <2>3 DEF uuidsVars, Everything, UuidsOf, Seen
    <3>2. OneUuidEach'
      BY <3>1 DEF HistoryKept, OneUuidEach
    <3>3. \A k \in DOMAIN trees' : NamesDistinct(trees'[k])
      BY <3>1 DEF HistoryKept
    <3> QED BY <3>1, <3>2, <3>3 DEF HistoryKept
  <2> QED BY <2>1, <2>2, <2>3 DEF FormNext
<1> QED BY <1>1, <1>2, PTL DEF FormSpec

\* The ids and uuids in the history were given out.
THEOREM UuidsTypeCorrect == ASSUME UuidsAssumption PROVE FormSpec => []UuidsTypeOK
<1>1. HistoryKept => UuidsTypeOK
  BY DEF HistoryKept, UuidsTypeOK
<1> QED BY <1>1, HistoryAlwaysKept, PTL

\* Through the forms, also those that were opened on a text that was changed since,
\* and Revert no two RuleSets ever share a uuid; until such a form overwrites the
\* text of HEAD a uuid tells a rule, or a RuleSet, from all others in all of the
\* history, however often it is renamed, moved, deleted and made again (tree.go
\* AssignUUIDs, the forms of policies.js, store.go Revert).
THEOREM UuidsTellApart == ASSUME UuidsAssumption PROVE FormSpec => []OneUuidEach
<1>1. HistoryKept => OneUuidEach
  BY DEF HistoryKept
<1> QED BY <1>1, HistoryAlwaysKept, PTL

-----------------------------------------------------------------------------
(* References: errors and what is wrong with a tree *)

LEMMA LeastNumber ==
  ASSUME NEW S, S \subseteq Nat, S # {}
  PROVE  \E n \in S : \A m \in S : n <= m
<1>1. PICK n \in S : \A m \in S : ~(<<m, n>> \in OpToRel(<, Nat))
  BY NatLessThanWellFounded, WFMin
<1>2. \A m, k \in Nat : m < k => <<m, k>> \in OpToRel(<, Nat)
  BY DEF OpToRel
<1>3. \A m \in S : ~(m < n)
  BY <1>1, <1>2
<1> QED BY <1>3

\* A set of numbers up to a bound has a greatest.
LEMMA GreatestNumber ==
  ASSUME NEW S, NEW b \in Nat, S \subseteq 0..b, S # {}
  PROVE  \E n \in S : \A m \in S : m <= n
<1> DEFINE above == {k \in Nat : \A m \in S : m <= k}
<1>1. above \subseteq Nat /\ above # {}
  <2>1. b \in above
    OBVIOUS
  <2> QED BY <2>1
<1>2. PICK n \in above : \A k \in above : n <= k
  BY <1>1, LeastNumber
<1>3. ASSUME n \notin S PROVE FALSE
  <2>1. \A m \in S : m < n
    BY <1>2, <1>3
  <2>2. n > 0
    <3>1. PICK m \in S : TRUE
      OBVIOUS
    <3> QED BY <2>1, <3>1
  <2>3. n - 1 \in above
    BY <2>1, <2>2
  <2> QED BY <1>2, <2>3
<1> QED BY <1>2, <1>3

\* Every error is a finding.
LEMMA ErrorsAreFindings ==
  ASSUME NEW t, NEW f \in TreeErrors(t)
  PROVE  f = Finding(f.file, f.path, f.rule, f.reason)
<1>1. CASE f \in NameErrors(t)
  BY <1>1 DEF NameErrors, Finding
<1>2. CASE f \in RefErrors(t)
  BY <1>2 DEF RefErrors, Dangling, Finding
<1>3. CASE f \in CycleErrors(t)
  BY <1>3 DEF CycleErrors, Finding
<1>4. CASE f \in ColorErrors(t)
  BY <1>4 DEF ColorErrors, Finding
<1> QED BY <1>1, <1>2, <1>3, <1>4 DEF TreeErrors

\* What is accepted has no error that HEAD has not.
LEMMA AcceptedAddsNone ==
  ASSUME NEW t, AcceptedTree(t)
  PROVE  TreeErrors(t) \subseteq TreeErrors(tree)
<1> SUFFICES ASSUME NEW f \in TreeErrors(t) PROVE f \in TreeErrors(tree)
  OBVIOUS
<1>1. PICK g \in TreeErrors(tree) : ErrorKey(g) = ErrorKey(f)
  BY DEF AcceptedTree, NewErrors
<1>2. g.file = f.file /\ g.path = f.path /\ g.rule = f.rule /\ g.reason = f.reason
  BY <1>1 DEF ErrorKey
<1>3. f = Finding(f.file, f.path, f.rule, f.reason) /\ g = Finding(g.file, g.path, g.rule, g.reason)
  BY ErrorsAreFindings
<1>4. f = g
  BY <1>2, <1>3
<1> QED BY <1>4

\* The colours before c that look like it, and the last of them.
Earlier(t, c) == {d \in Colors(t) : d < c /\ t.colors[d].hex = t.colors[c].hex}
Latest(t, c)  == CHOOSE d \in Earlier(t, c) : \A e \in Earlier(t, c) : e <= d

\* The errors by their rules.
LEMMA ErrorsByRule ==
  ASSUME NEW t, NEW f \in TreeErrors(t)
  PROVE  \/ f.rule = "unique-name" /\ f \in NameErrors(t)
         \/ f.rule = "dangling-ref" /\ f \in RefErrors(t)
         \/ /\ f.rule = "dangling-ref" /\ t.color # None /\ t.color \notin Colors(t)
            /\ f = Finding(<<"RuleSet">>, -1, "dangling-ref", <<t.color>>)
         \/ f.rule = "group-cycle"
         \/ /\ f.rule = "duplicate-hex"
            /\ \E c \in Colors(t) : /\ Earlier(t, c) # {}
                                    /\ f = Finding(<<"Color", c>>, 1, "duplicate-hex", <<Latest(t, c)>>)
         \/ f.rule = "predefined-unknown"
         \/ /\ f.rule = "predefined-hex"
            /\ \E c \in Colors(t) \cap DOMAIN ShippedHex :
                 /\ t.colors[c].predefined /\ ShippedHex[c] # t.colors[c].hex
                 /\ f = Finding(<<"Color", c>>, 1, "predefined-hex", <<c>>)
         \/ /\ f.rule = "predefined-shadow"
            /\ \E c \in Colors(t) \cap DOMAIN ShippedHex :
                 /\ ~t.colors[c].predefined
                 /\ f = Finding(<<"Color", c>>, 2, "predefined-shadow", <<c>>)
         \/ /\ f.rule = "predefined-missing"
            /\ \E c \in DOMAIN ShippedHex \ Colors(t) :
                 f = Finding(<<"Color", c>>, 0, "predefined-missing", <<c>>)
<1>1. CASE f \in NameErrors(t)
  <2>1. f.rule = "unique-name"
    BY <1>1 DEF NameErrors, Finding
  <2> QED BY <1>1, <2>1
<1>2. CASE f \in RefErrors(t)
  <2>1. f.rule = "dangling-ref"
    BY <1>2 DEF RefErrors, Dangling, Finding
  <2> QED BY <1>2, <2>1
<1>3. CASE f \in CycleErrors(t)
  <2>1. f.rule = "group-cycle"
    BY <1>3 DEF CycleErrors, Finding
  <2> QED BY <2>1
<1>4. CASE f \in ColorErrors(t)
  <2>1. CASE \E c \in Colors(t) : /\ Earlier(t, c) # {}
                                  /\ f = Finding(<<"Color", c>>, 1, "duplicate-hex", <<Latest(t, c)>>)
    <3>1. f.rule = "duplicate-hex"
      BY <2>1 DEF Finding
    <3> QED BY <2>1, <3>1
  <2>2. CASE \E c \in Colors(t) : f = Finding(<<"Color", c>>, 2, "predefined-unknown", <<c>>)
    <3>1. f.rule = "predefined-unknown"
      BY <2>2 DEF Finding
    <3> QED BY <3>1
  <2>3. CASE \E c \in Colors(t) \cap DOMAIN ShippedHex :
               /\ t.colors[c].predefined /\ ShippedHex[c] # t.colors[c].hex
               /\ f = Finding(<<"Color", c>>, 1, "predefined-hex", <<c>>)
    <3>1. f.rule = "predefined-hex"
      BY <2>3 DEF Finding
    <3> QED BY <2>3, <3>1
  <2>4. CASE \E c \in Colors(t) \cap DOMAIN ShippedHex :
               /\ ~t.colors[c].predefined
               /\ f = Finding(<<"Color", c>>, 2, "predefined-shadow", <<c>>)
    <3>1. f.rule = "predefined-shadow"
      BY <2>4 DEF Finding
    <3> QED BY <2>4, <3>1
  <2>5. CASE \E c \in DOMAIN ShippedHex \ Colors(t) :
               f = Finding(<<"Color", c>>, 0, "predefined-missing", <<c>>)
    <3>1. f.rule = "predefined-missing"
      BY <2>5 DEF Finding
    <3> QED BY <2>5, <3>1
  <2>6. CASE /\ t.color # None /\ t.color \notin Colors(t)
             /\ f = Finding(<<"RuleSet">>, -1, "dangling-ref", <<t.color>>)
    <3>1. f.rule = "dangling-ref"
      BY <2>6 DEF Finding
    <3> QED BY <2>6, <3>1
  <2> QED BY <1>4, <2>1, <2>2, <2>3, <2>4, <2>5, <2>6, Zenon DEF ColorErrors, Earlier, Latest
<1> QED BY <1>1, <1>2, <1>3, <1>4 DEF TreeErrors

-----------------------------------------------------------------------------
(* Trees whose errors are all errors of another *)

\* A reference to a name that is not there is in its place in the other too.
LEMMA SameDangling ==
  ASSUME ReferencesAssumption, NEW t \in Trees, NEW u \in Trees, TreeErrors(t) \subseteq TreeErrors(u)
  PROVE  /\ \A n \in Range(t.rules) : ~InNamespace(t, n) => n \in Range(u.rules) /\ ~InNamespace(u, n)
         /\ \A g \in GroupsOf(t) : \A n \in Range(t.groups[g]) :
              ~InNamespace(t, n) => g \in GroupsOf(u) /\ n \in Range(u.groups[g]) /\ ~InNamespace(u, n)
<1>1. \A l \in Members \cup RuleSources : DOMAIN l \subseteq Nat \ {0}
  BY LenProperties DEF ReferencesAssumption
<1>2. \A v \in Trees : v.rules \in RuleSources /\ \A g \in GroupsOf(v) : v.groups[g] \in Members
  BY DEF Trees, GroupsOf
<1>3. \A g : <<"RuleSet">> # <<"AddressGroup", g>>
  BY Zenon
<1> DEFINE InRules(f, v) == f \in Dangling(v, <<"RuleSet">>, v.rules)
           InGroup(f, v, g) == f \in Dangling(v, <<"AddressGroup", g>>, v.groups[g])
<1>4. ASSUME NEW f, NEW v, f \in TreeErrors(v), f.rule = "dangling-ref", f.path \in Nat
      PROVE  InRules(f, v) \/ \E g \in GroupsOf(v) : InGroup(f, v, g)
  <2>1. f \in RefErrors(v) \/ f = Finding(<<"RuleSet">>, -1, "dangling-ref", <<v.color>>)
    BY <1>4, ErrorsByRule
  <2>2. f # Finding(<<"RuleSet">>, -1, "dangling-ref", <<v.color>>)
    BY <1>4 DEF Finding
  <2> QED BY <2>1, <2>2 DEF RefErrors
<1>5. ASSUME NEW n \in Range(t.rules), ~InNamespace(t, n)
      PROVE  n \in Range(u.rules) /\ ~InNamespace(u, n)
  <2>1. PICK i \in DOMAIN t.rules : t.rules[i] = n
    BY <1>5 DEF Range
  <2> DEFINE f == Finding(<<"RuleSet">>, i, "dangling-ref", <<n>>)
  <2>2. InRules(f, t)
    BY <1>5, <2>1 DEF Dangling
  <2>3. f \in TreeErrors(u)
    BY <2>2 DEF TreeErrors, RefErrors
  <2>4. f.rule = "dangling-ref" /\ f.path = i /\ f.file = <<"RuleSet">> /\ f.reason = <<n>> /\ i \in Nat
    BY <1>1, <1>2, <2>1 DEF Finding
  <2> HIDE DEF f
  <2>5. InRules(f, u)
    <3>1. ASSUME NEW g, InGroup(f, u, g) PROVE FALSE
      <4>1. f.file = <<"AddressGroup", g>>
        BY <3>1 DEF Dangling, Finding
      <4> QED BY <1>3, <2>4, <4>1
    <3> QED BY <1>4, <2>3, <2>4, <3>1
  <2>6. PICK j \in DOMAIN u.rules : ~InNamespace(u, u.rules[j]) /\ f.reason = <<u.rules[j]>>
    BY <2>5 DEF Dangling, Finding
  <2> QED BY <2>4, <2>6 DEF Range
<1>6. ASSUME NEW g \in GroupsOf(t), NEW n \in Range(t.groups[g]), ~InNamespace(t, n)
      PROVE  g \in GroupsOf(u) /\ n \in Range(u.groups[g]) /\ ~InNamespace(u, n)
  <2>1. PICK i \in DOMAIN t.groups[g] : t.groups[g][i] = n
    BY <1>6 DEF Range
  <2> DEFINE f == Finding(<<"AddressGroup", g>>, i, "dangling-ref", <<n>>)
  <2>2. InGroup(f, t, g)
    BY <1>6, <2>1 DEF Dangling
  <2>3. f \in TreeErrors(u)
    BY <1>6, <2>2 DEF TreeErrors, RefErrors
  <2>4. /\ f.rule = "dangling-ref" /\ f.path = i /\ f.file = <<"AddressGroup", g>>
        /\ f.reason = <<n>> /\ i \in Nat
    BY <1>1, <1>2, <1>6, <2>1 DEF Finding
  <2> HIDE DEF f
  <2>5. ~InRules(f, u)
    <3>1. InRules(f, u) => f.file = <<"RuleSet">>
      BY DEF Dangling, Finding
    <3> QED BY <1>3, <2>4, <3>1
  <2>6. PICK h \in GroupsOf(u) : InGroup(f, u, h)
    BY <1>4, <2>3, <2>4, <2>5
  <2>7. PICK j \in DOMAIN u.groups[h] :
          /\ ~InNamespace(u, u.groups[h][j])
          /\ f.file = <<"AddressGroup", h>> /\ f.reason = <<u.groups[h][j]>>
    BY <2>6 DEF Dangling, Finding
  <2>8. h = g /\ u.groups[h][j] = n
    BY <2>4, <2>7
  <2> QED BY <2>7, <2>8 DEF Range
<1> QED BY <1>5, <1>6

\* A colour that is not there is the same, and so is a name used twice.
LEMMA SameColorAndNames ==
  ASSUME ReferencesAssumption, NEW t \in Trees, NEW u \in Trees, TreeErrors(t) \subseteq TreeErrors(u)
  PROVE  /\ t.color # None /\ t.color \notin Colors(t) => u.color = t.color /\ u.color \notin Colors(u)
         /\ t.addresses \cap GroupsOf(t) \subseteq u.addresses \cap GroupsOf(u)
<1>1. ASSUME t.color # None, t.color \notin Colors(t)
      PROVE  u.color = t.color /\ u.color \notin Colors(u)
  <2> DEFINE f == Finding(<<"RuleSet">>, -1, "dangling-ref", <<t.color>>)
  <2>1. f \in TreeErrors(u)
    BY <1>1 DEF TreeErrors, ColorErrors
  <2>2. f.rule = "dangling-ref" /\ f.path = -1 /\ f.reason = <<t.color>>
    BY DEF Finding
  <2> HIDE DEF f
  <2>3. f \notin RefErrors(u)
    <3>1. \A l \in Members \cup RuleSources : DOMAIN l \subseteq Nat
      BY LenProperties DEF ReferencesAssumption
    <3>2. u.rules \in RuleSources /\ \A g \in GroupsOf(u) : u.groups[g] \in Members
      BY DEF Trees, GroupsOf
    <3>3. f \in RefErrors(u) => f.path \in Nat
      BY <3>1, <3>2 DEF RefErrors, Dangling, Finding
    <3> QED BY <2>2, <3>3
  <2>4. u.color \notin Colors(u) /\ f = Finding(<<"RuleSet">>, -1, "dangling-ref", <<u.color>>)
    BY <2>1, <2>2, <2>3, ErrorsByRule
  <2> QED BY <2>2, <2>4 DEF Finding
<1>2. ASSUME NEW n \in t.addresses \cap GroupsOf(t)
      PROVE  n \in u.addresses \cap GroupsOf(u)
  <2> DEFINE f == Finding(<<"AddressGroup", n>>, 0, "unique-name", <<n>>)
  <2>1. f \in TreeErrors(u)
    BY <1>2 DEF TreeErrors, NameErrors
  <2>2. f.rule = "unique-name" /\ f.reason = <<n>>
    BY DEF Finding
  <2> HIDE DEF f
  <2>3. f \in NameErrors(u)
    BY <2>1, <2>2, ErrorsByRule
  <2> QED BY <2>2, <2>3 DEF NameErrors, Finding
<1> QED BY <1>1, <1>2

\* A shipped Color that is not as it was shipped is not in the other either.
LEMMA SamePalette ==
  ASSUME ReferencesAssumption, NEW t \in Trees, NEW u \in Trees, TreeErrors(t) \subseteq TreeErrors(u),
         NEW c \in DOMAIN ShippedHex, t.colors[c] # [hex |-> ShippedHex[c], predefined |-> TRUE]
  PROVE  u.colors[c] # [hex |-> ShippedHex[c], predefined |-> TRUE]
<1> DEFINE shipped == [hex |-> ShippedHex[c], predefined |-> TRUE]
<1>1. c \in ColorNames /\ shipped \in ColorSpecs /\ shipped # None
  <2>1. c \in ColorNames /\ ShippedHex[c] \in Hexes
    BY DEF ReferencesAssumption
  <2>2. shipped \in ColorSpecs
    BY <2>1 DEF ColorSpecs
  <2>3. None \notin ColorSpecs
    BY DEF ReferencesAssumption
  <2> QED BY <2>1, <2>2, <2>3
<1>2. \A v \in Trees : \A d \in Colors(v) : v.colors[d] \in ColorSpecs
  BY DEF Trees, Colors
<1>3. CASE c \notin Colors(t)
  <2> DEFINE f == Finding(<<"Color", c>>, 0, "predefined-missing", <<c>>)
  <2>1. f \in TreeErrors(u)
    BY <1>3 DEF TreeErrors, ColorErrors
  <2>2. f.rule = "predefined-missing" /\ f.reason = <<c>>
    BY DEF Finding
  <2> HIDE DEF f
  <2>3. PICK d \in DOMAIN ShippedHex \ Colors(u) : f = Finding(<<"Color", d>>, 0, "predefined-missing", <<d>>)
    BY <2>1, <2>2, ErrorsByRule
  <2>4. d = c
    BY <2>2, <2>3 DEF Finding
  <2> QED BY <1>1, <2>3, <2>4 DEF Colors
<1>4. CASE c \in Colors(t) /\ ~t.colors[c].predefined
  <2> DEFINE f == Finding(<<"Color", c>>, 2, "predefined-shadow", <<c>>)
  <2>1. f \in TreeErrors(u)
    BY <1>4 DEF TreeErrors, ColorErrors
  <2>2. f.rule = "predefined-shadow" /\ f.reason = <<c>>
    BY DEF Finding
  <2> HIDE DEF f
  <2>3. PICK d \in Colors(u) : ~u.colors[d].predefined /\ f = Finding(<<"Color", d>>, 2, "predefined-shadow", <<d>>)
    BY <2>1, <2>2, ErrorsByRule
  <2>4. d = c
    BY <2>2, <2>3 DEF Finding
  <2> QED BY <2>3, <2>4
<1>5. CASE c \in Colors(t) /\ t.colors[c].predefined
  <2>1. t.colors[c].hex # ShippedHex[c]
    BY <1>1, <1>2, <1>5 DEF ColorSpecs
  <2> DEFINE f == Finding(<<"Color", c>>, 1, "predefined-hex", <<c>>)
  <2>2. f \in TreeErrors(u)
    BY <1>5, <2>1 DEF TreeErrors, ColorErrors
  <2>3. f.rule = "predefined-hex" /\ f.reason = <<c>>
    BY DEF Finding
  <2> HIDE DEF f
  <2>4. PICK d \in Colors(u) :
          ShippedHex[d] # u.colors[d].hex /\ f = Finding(<<"Color", d>>, 1, "predefined-hex", <<d>>)
    BY <2>2, <2>3, ErrorsByRule
  <2>5. d = c
    BY <2>3, <2>4 DEF Finding
  <2> QED BY <2>4, <2>5
<1> QED BY <1>3, <1>4, <1>5

\* Two Colors of one hex are of one in the other: each names the one before it,
\* and a first pair that differs there would be named.
LEMMA SameTwins ==
  ASSUME ReferencesAssumption, NEW t \in Trees, NEW u \in Trees, TreeErrors(t) \subseteq TreeErrors(u),
         NEW c \in Colors(t), NEW d \in Colors(t), c < d, t.colors[c].hex = t.colors[d].hex
  PROVE  c \in Colors(u) /\ d \in Colors(u) /\ u.colors[c].hex = u.colors[d].hex
<1> DEFINE Twin(v, e) == e \in Colors(v) /\ c < e /\ v.colors[c].hex = v.colors[e].hex
           apart == {e \in Colors(t) : Twin(t, e) /\ ~(c \in Colors(u) /\ Twin(u, e))}
<1>1. Colors(t) \subseteq Nat
  BY DEF Colors, ReferencesAssumption
<1>2. ASSUME apart # {} PROVE FALSE
  <2>1. apart \subseteq Nat
    BY <1>1
  <2>2. PICK e \in apart : \A x \in apart : e <= x
    BY <1>2, <2>1, LeastNumber
  <2> HIDE DEF apart
  <2>3. e \in Colors(t) /\ Twin(t, e) /\ ~(c \in Colors(u) /\ Twin(u, e)) /\ e \in Nat /\ c \in Nat
    BY <1>1, <2>2 DEF apart
  <2>4. Latest(t, e) \in Earlier(t, e) /\ \A x \in Earlier(t, e) : x <= Latest(t, e)
    <3>1. Earlier(t, e) \subseteq 0..e
      BY <1>1, <2>3 DEF Earlier
    <3>2. c \in Earlier(t, e)
      BY <2>3 DEF Earlier
    <3>3. \E x \in Earlier(t, e) : \A y \in Earlier(t, e) : y <= x
      BY <2>3, <3>1, <3>2, GreatestNumber
    <3> QED BY <3>3 DEF Latest
  <2> DEFINE m == Latest(t, e)
             f == Finding(<<"Color", e>>, 1, "duplicate-hex", <<m>>)
  <2>5. f \in TreeErrors(u)
    <3>1. e \in {x \in Colors(t) : Earlier(t, x) # {}}
      BY <2>3, <2>4
    <3>2. f \in {Finding(<<"Color", x>>, 1, "duplicate-hex", <<Latest(t, x)>>) :
                   x \in {y \in Colors(t) : Earlier(t, y) # {}}}
      BY <3>1
    <3> HIDE DEF f
    <3>3. f \in ColorErrors(t)
      BY <3>2, Zenon DEF ColorErrors, Earlier, Latest
    <3> QED BY <3>3 DEF TreeErrors
  <2>6. f.rule = "duplicate-hex" /\ f.file = <<"Color", e>> /\ f.reason = <<m>>
    BY DEF Finding
  <2>7. m \in Colors(t) /\ m < e /\ t.colors[m].hex = t.colors[e].hex /\ c <= m /\ m \in Nat
    BY <1>1, <2>3, <2>4 DEF Earlier
  <2> HIDE DEF f, m
  <2>8. PICK x \in Colors(u) : /\ Earlier(u, x) # {}
                               /\ f = Finding(<<"Color", x>>, 1, "duplicate-hex", <<Latest(u, x)>>)
    BY <2>5, <2>6, ErrorsByRule
  <2>9. x = e /\ m = Latest(u, e)
    BY <2>6, <2>8 DEF Finding
  <2>10. m \in Earlier(u, e)
    <3>1. Earlier(u, e) \subseteq 0..e
      BY <2>3 DEF Earlier, Colors, ReferencesAssumption
    <3>2. \E y \in Earlier(u, e) : \A z \in Earlier(u, e) : z <= y
      BY <2>3, <2>8, <2>9, <3>1, GreatestNumber
    <3> QED BY <2>9, <3>2 DEF Latest
  <2>11. e \in Colors(u) /\ m \in Colors(u) /\ u.colors[m].hex = u.colors[e].hex
    BY <2>8, <2>9, <2>10 DEF Earlier
  <2>12. CASE m = c
    BY <2>3, <2>11, <2>12
  <2>13. CASE m # c
    <3>1. Twin(t, m) /\ m \notin apart
      BY <2>2, <2>3, <2>7, <2>13
    <3>2. c \in Colors(u) /\ Twin(u, m)
      BY <2>7, <3>1 DEF apart
    <3> QED BY <2>3, <2>11, <3>2
  <2> QED BY <2>12, <2>13
<1> QED BY <1>2

\* All of it.
LEMMA NoNewErrorBreaksNothing ==
  ASSUME ReferencesAssumption, NEW t \in Trees, NEW u \in Trees, TreeErrors(t) \subseteq TreeErrors(u)
  PROVE  Broken(t) \subseteq Broken(u)
<1> SUFFICES ASSUME NEW x \in Broken(t) PROVE x \in Broken(u)
  OBVIOUS
<1>1. CASE \E n \in Range(t.rules) : ~InNamespace(t, n) /\ x = <<"rule", n>>
  BY <1>1, SameDangling DEF Broken
<1>2. CASE \E g \in GroupsOf(t), n \in AddressNames :
             n \in Range(t.groups[g]) /\ ~InNamespace(t, n) /\ x = <<"member", g, n>>
  <2>1. PICK g \in GroupsOf(t), n \in AddressNames :
          n \in Range(t.groups[g]) /\ ~InNamespace(t, n) /\ x = <<"member", g, n>>
    BY <1>2
  <2>2. g \in GroupsOf(u) /\ n \in Range(u.groups[g]) /\ ~InNamespace(u, n)
    BY <2>1, SameDangling
  <2> DEFINE e == <<g, n>>
  <2>3. /\ e \in {y \in GroupsOf(u) \X AddressNames : y[2] \in Range(u.groups[y[1]]) /\ ~InNamespace(u, y[2])}
        /\ x = <<"member", e[1], e[2]>>
    BY <2>1, <2>2
  <2> QED BY <2>3, Zenon DEF Broken
<1>3. CASE t.color \notin Colors(t) \cup {None} /\ x = <<"color", t.color>>
  BY <1>3, SameColorAndNames DEF Broken
<1>4. CASE \E n \in t.addresses \cap GroupsOf(t) : x = <<"twice", n>>
  BY <1>4, SameColorAndNames DEF Broken
<1>5. CASE \E c \in DOMAIN ShippedHex :
             t.colors[c] # [hex |-> ShippedHex[c], predefined |-> TRUE] /\ x = <<"palette", c>>
  BY <1>5, SamePalette DEF Broken
<1>6. CASE \E c, d \in Colors(t) : c < d /\ t.colors[c].hex = t.colors[d].hex /\ x = <<"hex", c, d>>
  <2>1. PICK c \in Colors(t), d \in Colors(t) :
          c < d /\ t.colors[c].hex = t.colors[d].hex /\ x = <<"hex", c, d>>
    BY <1>6
  <2>2. c \in Colors(u) /\ d \in Colors(u) /\ u.colors[c].hex = u.colors[d].hex
    BY <2>1, SameTwins
  <2> DEFINE p == <<c, d>>
  <2>3. /\ p \in {y \in Colors(u) \X Colors(u) : y[1] < y[2] /\ u.colors[y[1]].hex = u.colors[y[2]].hex}
        /\ x = <<"hex", p[1], p[2]>>
    BY <2>1, <2>2
  <2> QED BY <2>3, Zenon DEF Broken
<1> QED BY <1>1, <1>2, <1>3, <1>4, <1>5, <1>6 DEF Broken

-----------------------------------------------------------------------------
(* References: what is saved *)

\* A step leaves a tree that may be, or none.
LEMMA StepKeepsTrees ==
  ASSUME ReferencesAssumption, ReferencesTypeOK, [ReferencesNext]_tree
  PROVE  ReferencesTypeOK' /\ (tree' # tree => AcceptedTree(tree'))
<1> USE DEF ReferencesTypeOK
<1>1. ASSUME NEW t \in Trees, Save(t) PROVE ReferencesTypeOK' /\ (tree' # tree => AcceptedTree(tree'))
  BY <1>1 DEF Save
<1>2. ASSUME NEW n \in AddressNames, PutAddress(n) PROVE \E t \in Trees : Save(t)
  BY <1>2 DEF PutAddress, Trees
<1>3. ASSUME NEW n \in AddressNames, DeleteAddress(n) PROVE \E t \in Trees : Save(t)
  BY <1>3 DEF DeleteAddress, Trees
<1>4. ASSUME NEW n \in AddressNames, DeleteGroup(n) PROVE \E t \in Trees : Save(t)
  BY <1>4 DEF DeleteGroup, Trees
<1>5. ASSUME NEW n \in AddressNames, NEW l \in Members, PutGroup(n, l) PROVE \E t \in Trees : Save(t)
  BY <1>5 DEF PutGroup, Trees
<1>6. ASSUME NEW l \in RuleSources, PutRules(l) PROVE \E t \in Trees : Save(t)
  BY <1>6 DEF PutRules, Trees
<1>7. ASSUME NEW c \in ColorNames \cup {None}, PaintRules(c) PROVE \E t \in Trees : Save(t)
  BY <1>7 DEF PaintRules, Trees
<1>8. ASSUME NEW c \in ColorNames, DeleteColor(c) PROVE \E t \in Trees : Save(t)
  BY <1>8 DEF DeleteColor, Trees
<1>9. ASSUME NEW c \in ColorNames, NEW s \in ColorSpecs, PutColor(c, s) PROVE \E t \in Trees : Save(t)
  BY <1>9 DEF PutColor, Trees
<1>10. CASE UNCHANGED tree
  BY <1>10
<1> QED BY <1>1, <1>2, <1>3, <1>4, <1>5, <1>6, <1>7, <1>8, <1>9, <1>10 DEF ReferencesNext

\* HEAD is a tree of the objects there are, whatever is saved, for any names, lists
\* and palettes.
THEOREM ReferencesTypeCorrect == ASSUME ReferencesAssumption PROVE ReferencesSpec => []ReferencesTypeOK
<1>1. ReferencesInit => ReferencesTypeOK
  BY DEF ReferencesInit, ReferencesTypeOK, ReferencesAssumption
<1>2. ReferencesTypeOK /\ [ReferencesNext]_tree => ReferencesTypeOK'
  BY StepKeepsTrees
<1> QED BY <1>1, <1>2, PTL DEF ReferencesSpec

\* A change that is accepted, because HEAD has all of its errors already, breaks no
\* reference, name or colour that was whole: for any names, lists, palettes and any
\* HEAD (config.go newErrors).
THEOREM SavesAreJudgedRight == ASSUME ReferencesAssumption PROVE ReferencesSpec => SavesBreakNothing
<1>1. ASSUME ReferencesTypeOK, [ReferencesNext]_tree PROVE [NothingBroken]_tree
  <2>1. ReferencesTypeOK' /\ (tree' # tree => AcceptedTree(tree'))
    BY <1>1, StepKeepsTrees
  <2>2. tree' # tree => Broken(tree') \subseteq Broken(tree)
    BY <1>1, <2>1, AcceptedAddsNone, NoNewErrorBreaksNothing DEF ReferencesTypeOK
  <2> QED BY <2>2 DEF NothingBroken
<1> QED BY <1>1, ReferencesTypeCorrect, PTL DEF ReferencesSpec, SavesBreakNothing
=============================================================================
