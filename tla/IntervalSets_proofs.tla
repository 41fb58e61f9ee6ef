-------------------------- MODULE IntervalSets_proofs --------------------------
(***************************************************************************)
(* Facts about addresses and lists of intervals, for addresses of any width: *)
(* that the interval of an Address holds what the classifier matches, and     *)
(* what norm, covers and size compute.  They are recursions over a finite     *)
(* list; where an induction is needed, the smallest counterexample is shown   *)
(* not to be one.                                                            *)
(***************************************************************************)
EXTENDS IntervalSets, FiniteSetTheorems, SequenceTheorems, WellFoundedInduction, TLAPS

-----------------------------------------------------------------------------
(* Blocks of addresses *)

\* The remainder by a block is less than the block.
LEMMA Remainder ==
  ASSUME NEW n \in Nat, NEW b \in Nat \ {0}
  PROVE  /\ n % b \in 0..b-1 /\ n \div b \in Nat
         /\ n = b * (n \div b) + (n % b)
  OBVIOUS

\* A number less than a block above a multiple of it has this multiple below it.
LEMMA SameBlock ==
  ASSUME NEW B \in Nat \ {0}, NEW x \in Nat, NEW y \in Nat,
         x - (x % B) <= y, y <= x - (x % B) + (B - 1)
  PROVE  y - (y % B) = x - (x % B)
<1> DEFINE p == x \div B
           q == y \div B
           r == x % B
           u == y % B
<1>1. x = B * p + r /\ r \in 0..(B - 1) /\ p \in Int
  OBVIOUS
<1>2. y = B * q + u /\ u \in 0..(B - 1) /\ q \in Int
  OBVIOUS
<1> HIDE DEF p, q, r, u
<1>3. B * p <= B * q + u /\ B * q + u <= B * p + (B - 1)
  BY <1>1, <1>2 DEF r, u
<1>4. ~(q < p)
  <2> SUFFICES ASSUME q + 1 <= p PROVE FALSE
    BY <1>1, <1>2
  <2>1. B * (q + 1) <= B * p
    BY <1>1, <1>2
  <2>2. B * (q + 1) = B * q + B
    BY <1>2
  <2> QED BY <1>1, <1>2, <1>3, <2>1, <2>2
<1>5. ~(p < q)
  <2> SUFFICES ASSUME p + 1 <= q PROVE FALSE
    BY <1>1, <1>2
  <2>1. B * (p + 1) <= B * q
    BY <1>1, <1>2
  <2>2. B * (p + 1) = B * p + B
    BY <1>1
  <2> QED BY <1>1, <1>2, <1>3, <2>1, <2>2
<1>6. p = q
  BY <1>1, <1>2, <1>4, <1>5
<1> QED BY <1>1, <1>2, <1>6 DEF r, u

\* A block has addresses, and the last one is the first with its host bits set,
\* the /0 included, whose size does not fit.
LEMMA BlockSize ==
  ASSUME NEW bits \in 0..Width
  PROVE  Block(bits) \in Nat \ {0} /\ HostBits(bits) = Block(bits) - 1
<1> DEFINE b == Block(bits)
           w == 2^Width
<1>1. w \in Nat /\ b \in 1..w
  BY PowersOfTwo, WidthAssumption
<1>2. HostBits(bits) = ((b % w) - 1) % w
  BY DEF HostBits
<1>3. b \in Nat \ {0} /\ w \in Nat \ {0}
  BY <1>1
<1> HIDE DEF b, w
<1>4. CASE b = w
  <2>1. b % w = 0
    BY <1>3, <1>4
  <2>2. (0 - 1) % w = w - 1
    BY <1>3
  <2> QED BY <1>2, <1>3, <1>4, <2>1, <2>2 DEF b
<1>5. CASE b < w
  <2>1. b % w = b /\ (b - 1) % w = b - 1
    BY <1>3, <1>5
  <2> QED BY <1>2, <1>3, <2>1 DEF b
<1> QED BY <1>1, <1>4, <1>5

\* An address lies in the block it is masked to.
LEMMA InBlock ==
  ASSUME NEW ip \in Nat, NEW bits \in 0..Width
  PROVE  /\ Masked(ip, bits) \in Nat
         /\ Masked(ip, bits) <= ip /\ ip <= Masked(ip, bits) + HostBits(bits)
<1> DEFINE b == Block(bits)
<1>1. b \in Nat \ {0} /\ HostBits(bits) = b - 1
  BY BlockSize
<1>2. Masked(ip, bits) = ip - (ip % b)
  BY DEF Masked
<1> HIDE DEF b
<1>3. ip % b \in 0..b-1 /\ ip % b <= ip
  <2>1. ip % b \in 0..b-1 /\ ip \div b \in Nat /\ ip = b * (ip \div b) + (ip % b)
    BY <1>1, Remainder
  <2>2. b * (ip \div b) \in Nat
    BY <1>1, <2>1
  <2> QED BY <2>1, <2>2
<1> QED BY <1>1, <1>2, <1>3

\* An address between two of one block lies in it too.
LEMMA BlockIsConvex ==
  ASSUME NEW bits \in 0..Width, NEW x \in Nat, NEW y \in Nat, NEW ip \in Nat,
         Masked(x, bits) = Masked(y, bits), x <= ip, ip <= y
  PROVE  Masked(ip, bits) = Masked(x, bits)
<1>1. Block(bits) \in Nat \ {0} /\ HostBits(bits) = Block(bits) - 1
  BY BlockSize
<1>2. /\ Masked(x, bits) \in Nat /\ Masked(x, bits) <= x
      /\ y <= Masked(x, bits) + (Block(bits) - 1)
  BY <1>1, InBlock
<1>3. Masked(x, bits) <= ip /\ ip <= Masked(x, bits) + (Block(bits) - 1)
  BY <1>1, <1>2
<1> QED BY <1>1, <1>3, SameBlock DEF Masked

\* A block ends where all addresses do, or before.
LEMMA BlockFits ==
  ASSUME NEW ip \in Ip, NEW bits \in 0..Width
  PROVE  Masked(ip, bits) + HostBits(bits) \in Ip
<1> DEFINE b == Block(bits)
           w == 2^Width
           q == ip \div b
           n == w \div b
<1>1. /\ w \in Nat /\ b \in 1..w /\ w % b = 0 /\ ip \in 0..(w - 1)
      /\ HostBits(bits) = b - 1
  BY PowersOfTwo, WidthAssumption, BlockSize DEF Ip, Top
<1>2. Masked(ip, bits) = ip - (ip % b)
  BY DEF Masked
<1>3. Ip = 0..(w - 1)
  BY DEF Ip, Top
<1> HIDE DEF b, w
<1>4. b \in Nat \ {0} /\ w \in Nat /\ ip \in Nat
  BY <1>1
<1>5. ip % b \in 0..b-1 /\ q \in Nat /\ ip = b * q + (ip % b)
  BY <1>4, Remainder
<1>6. n \in Nat /\ w = b * n
  <2>1. (w \div b) \in Nat /\ w = b * (w \div b) + (w % b)
    BY <1>4, Remainder
  <2>2. n \in Nat /\ b * n \in Nat
    BY <1>4, <2>1
  <2> QED BY <1>1, <2>1, <2>2
<1> HIDE DEF q, n
<1>7. b * q \in Nat /\ b * q < b * n
  BY <1>1, <1>4, <1>5, <1>6
<1>8. q < n
  <2> SUFFICES ASSUME n <= q PROVE FALSE
    BY <1>5, <1>6
  <2>1. b * n <= b * q
    BY <1>4, <1>5, <1>6
  <2> QED BY <1>6, <1>7, <2>1
<1>9. b * q + b <= b * n
  <2>1. b * (q + 1) <= b * n
    BY <1>4, <1>5, <1>6, <1>8
  <2>2. b * (q + 1) = b * q + b
    BY <1>4, <1>5
  <2> QED BY <2>1, <2>2
<1>10. b * q + (b - 1) \in 0..(w - 1)
  BY <1>1, <1>4, <1>6, <1>7, <1>9
<1>11. Masked(ip, bits) = b * q
  BY <1>2, <1>5, <1>7, <1>4
<1> QED BY <1>1, <1>3, <1>10, <1>11

\* Addresses are numbers.
LEMMA IpType == Ip \subseteq Nat /\ 0 \in Ip /\ \A x, y \in Ip : x..y \subseteq Ip
<1> DEFINE w == 2^Width
<1>1. w \in Nat \ {0}
  <2>1. w \in Nat /\ Block(Width) \in 1..w
    BY WidthAssumption, PowersOfTwo
  <2> HIDE DEF w
  <2> QED BY <2>1
<1> HIDE DEF w
<1> QED BY <1>1 DEF Ip, Top, w

-----------------------------------------------------------------------------
(* The interval of an Address *)

\* An address that an object contains lies in the interval of the object.
LEMMA SpanContains ==
  ASSUME NEW a \in AddressForms, NEW ip \in Ip, addrContains(a, ip)
  PROVE  \E v \in Span(a) : v.lo \in Int /\ v.hi \in Int /\ v.lo <= ip /\ ip <= v.hi
<1>1. CASE a.form = "subnet"
  <2>1. a.ip \in Int /\ a.bits \in 0..Width
    BY <1>1 DEF AddressForms, FQDN, MAC, Ip
  <2> DEFINE B == Block(a.bits)
             lo == Masked(a.ip, a.bits)
             hi == Masked(a.ip, a.bits) + HostBits(a.bits)
  <2>2. B \in Nat \ {0} /\ HostBits(a.bits) = B - 1
    BY <2>1, BlockSize
  <2>3. Masked(ip, a.bits) = Masked(a.ip, a.bits)
    BY <1>1 DEF addrContains
  <2>4. ip \in Int /\ lo = ip - (ip % B)
    BY <2>3 DEF Masked, Ip
  <2>5. Span(a) = {[lo |-> lo, hi |-> hi]}
    BY <1>1 DEF Span, Interval
  <2>6. hi = lo + (B - 1)
    BY <2>2
  <2> HIDE DEF B, lo, hi
  <2>7. ip % B \in 0..(B - 1)
    BY <2>2, <2>4
  <2>8. lo \in Int /\ hi \in Int /\ lo <= ip /\ ip <= hi
    BY <2>2, <2>4, <2>6, <2>7
  <2> QED BY <2>5, <2>8
<1>2. CASE a.form = "range"
  <2>1. a.start \in Int /\ a.end \in Int /\ ip \in Int
    BY <1>2 DEF AddressForms, FQDN, MAC, Ip
  <2>2. a.start <= ip /\ ip <= a.end
    BY <1>2 DEF addrContains
  <2>3. Span(a) = {[lo |-> a.start, hi |-> a.end]}
    BY <1>2, <2>1, <2>2 DEF Span, Interval
  <2> QED BY <2>1, <2>2, <2>3
<1> QED BY <1>1, <1>2 DEF addrContains

\* ... and every address in it is one of the Address.
LEMMA SpanOnlyContains ==
  ASSUME NEW a \in AddressForms, NEW ip \in Ip, NEW v \in Span(a),
         v.lo <= ip, ip <= v.hi
  PROVE  addrContains(a, ip)
<1>1. CASE a.form = "subnet"
  <2>1. a.ip \in Nat /\ ip \in Nat /\ a.bits \in 0..Width
    BY <1>1 DEF AddressForms, FQDN, MAC, Ip
  <2>2. Block(a.bits) \in Nat \ {0} /\ HostBits(a.bits) = Block(a.bits) - 1
    BY <2>1, BlockSize
  <2>3. v.lo = Masked(a.ip, a.bits) /\ v.hi = Masked(a.ip, a.bits) + HostBits(a.bits)
    BY <1>1 DEF Span, Interval
  <2>4. Masked(ip, a.bits) = Masked(a.ip, a.bits)
    BY <2>1, <2>2, <2>3, SameBlock DEF Masked
  <2> QED BY <1>1, <2>4 DEF addrContains
<1>2. CASE a.form = "range" /\ a.start <= a.end
  BY <1>2 DEF Span, Interval, addrContains
<1>3. CASE ~(a.form = "subnet") /\ ~(a.form = "range" /\ a.start <= a.end)
  BY <1>3 DEF Span
<1> QED BY <1>1, <1>2, <1>3

\* The interval of an Address is one, and ends where all addresses do, or before.
LEMMA SpanIntervals ==
  ASSUME NEW a \in AddressForms
  PROVE  /\ Span(a) \subseteq Intervals
         /\ \A v \in Span(a) : v.lo .. v.hi \subseteq Ip /\ v.hi \in Ip
<1>1. CASE a.form = "subnet"
  <2> DEFINE lo == Masked(a.ip, a.bits)
             hi == Masked(a.ip, a.bits) + HostBits(a.bits)
  <2>1. a.ip \in Ip /\ a.bits \in 0..Width
    BY <1>1 DEF AddressForms, FQDN, MAC
  <2>2. lo \in Nat /\ lo <= a.ip /\ a.ip <= hi /\ hi \in Ip
    BY <2>1, IpType, InBlock, BlockFits
  <2>3. Span(a) = {[lo |-> lo, hi |-> hi]}
    BY <1>1 DEF Span, Interval
  <2> HIDE DEF lo, hi
  <2>4. Ip \subseteq Nat /\ \A y \in Ip : 0..y \subseteq Ip
    BY IpType
  <2>5. lo \in Nat /\ hi \in Nat /\ lo <= hi
    <3>1. a.ip \in Nat /\ hi \in Nat
      BY <2>1, <2>2, <2>4
    <3> QED BY <2>2, <3>1
  <2>6. lo..hi \subseteq 0..hi
    BY <2>5
  <2> QED BY <2>2, <2>3, <2>4, <2>5, <2>6 DEF Intervals
<1>2. CASE a.form = "range" /\ a.start <= a.end
  <2>1. a.start \in Ip /\ a.end \in Ip
    BY <1>2 DEF AddressForms, FQDN, MAC
  <2>2. Span(a) = {[lo |-> a.start, hi |-> a.end]}
    BY <1>2 DEF Span, Interval
  <2>3. a.start .. a.end \subseteq Ip /\ a.start \in Nat /\ a.end \in Nat
    BY <2>1, IpType
  <2> QED BY <1>2, <2>1, <2>2, <2>3 DEF Intervals
<1>3. CASE ~(a.form = "subnet") /\ ~(a.form = "range" /\ a.start <= a.end)
  BY <1>3 DEF Span
<1> QED BY <1>1, <1>2, <1>3

\* Intervals with a point in common overlap.
LEMMA CommonPoint ==
  ASSUME NEW S, NEW T, NEW x \in Int,
         \E v \in S : v.lo \in Int /\ v.hi \in Int /\ v.lo <= x /\ x <= v.hi,
         \E w \in T : w.lo \in Int /\ w.hi \in Int /\ w.lo <= x /\ x <= w.hi
  PROVE  Overlaps(S, T)
<1>1. PICK v \in S : v.lo \in Int /\ v.hi \in Int /\ v.lo <= x /\ x <= v.hi
  OBVIOUS
<1>2. PICK w \in T : w.lo \in Int /\ w.hi \in Int /\ w.lo <= x /\ x <= w.hi
  OBVIOUS
<1>3. v.lo <= w.hi /\ w.lo <= v.hi
  BY <1>1, <1>2
<1> QED BY <1>3 DEF Overlaps

\* A bounded set of intervals is finite.
LEMMA BoundedIntervals ==
  ASSUME NEW n \in Nat, NEW s, s \subseteq Intervals, \A v \in s : v.hi <= n
  PROVE  IsFiniteSet(s)
<1> DEFINE All == [lo : 0..n, hi : 0..n]
           rec == [k \in (0..n) \X (0..n) |-> [lo |-> k[1], hi |-> k[2]]]
<1>1. IsFiniteSet((0..n) \X (0..n))
  <2>1. IsFiniteSet(0..n)
    BY FS_Interval
  <2> QED BY <2>1, FS_Product
<1>2. rec \in Surjection((0..n) \X (0..n), All)
  <2>1. rec \in [(0..n) \X (0..n) -> All]
    OBVIOUS
  <2>2. ASSUME NEW v \in All
        PROVE  \E k \in (0..n) \X (0..n) : rec[k] = v
    <3>1. <<v.lo, v.hi>> \in (0..n) \X (0..n)
      OBVIOUS
    <3>2. rec[<<v.lo, v.hi>>] = v
      BY <3>1
    <3> QED BY <3>1, <3>2
  <2> HIDE DEF rec, All
  <2> QED BY <2>1, <2>2 DEF Surjection
<1>3. IsFiniteSet(All)
  BY <1>1, <1>2, FS_Surjection
<1>4. s \subseteq All
  BY DEF Intervals
<1> QED BY <1>3, <1>4, FS_Subset

-----------------------------------------------------------------------------
(* Lists of intervals *)

\* Of a collection of finite sets there is a smallest one.
LEMMA SmallestSet ==
  ASSUME NEW S, NEW C, C \subseteq FiniteSubsetsOf(S), C # {}
  PROVE  \E t \in C : \A u \in C : ~(u \subseteq t /\ u # t)
<1>1. \E t \in C : \A u \in C : ~(<<u, t>> \in StrictSubsetOrdering(S))
  BY FS_StrictSubsetOrderingWellFounded, WFMin
<1>2. \A t, u \in C : u \subseteq t /\ u # t => <<u, t>> \in StrictSubsetOrdering(S)
  BY DEF StrictSubsetOrdering, FiniteSubsetsOf
<1> QED BY <1>1, <1>2

\* Of finitely many intervals one is the last in the order of norm.
LEMMA HighestProperties ==
  ASSUME NEW s, s \subseteq Intervals, IsFiniteSet(s), s # {}
  PROVE  /\ Highest(s) \in s
         /\ \A w \in s : w.lo < Highest(s).lo
                           \/ (w.lo = Highest(s).lo /\ w.hi <= Highest(s).hi)
<1> DEFINE Above(v, w) == w.lo < v.lo \/ (w.lo = v.lo /\ w.hi <= v.hi)
           Bad == {t \in FiniteSubsetsOf(s) : t # {} /\ ~\E v \in t : \A w \in t : Above(v, w)}
<1>1. Bad = {}
  <2> SUFFICES ASSUME Bad # {} PROVE FALSE
    OBVIOUS
  <2>1. PICK t \in Bad : \A u \in Bad : ~(u \subseteq t /\ u # t)
    <3>1. Bad \subseteq FiniteSubsetsOf(s)
      OBVIOUS
    <3> HIDE DEF Bad
    <3> QED BY <3>1, SmallestSet
  <2>2. PICK x \in t : TRUE
    OBVIOUS
  <2>3. t \subseteq s /\ IsFiniteSet(t) /\ IsFiniteSet(t \ {x})
    BY FS_RemoveElement DEF FiniteSubsetsOf
  <2>4. t \ {x} \notin Bad
    BY <2>1, <2>2
  <2>5. CASE t = {x}
    BY <2>3, <2>5 DEF Intervals
  <2>6. CASE t # {x}
    <3>1. PICK v \in t \ {x} : \A w \in t \ {x} : Above(v, w)
      BY <2>2, <2>3, <2>4, <2>6 DEF FiniteSubsetsOf
    <3>2. Above(v, x) \/ Above(x, v)
      <4>1. v \in Intervals /\ x \in Intervals
        BY <2>2, <2>3
      <4>2. v.lo \in Nat /\ v.hi \in Nat /\ x.lo \in Nat /\ x.hi \in Nat
        BY <4>1 DEF Intervals
      <4> QED BY <4>2
    <3>3. Above(x, v) => \A w \in t : Above(x, w)
      BY <2>2, <2>3, <3>1 DEF Intervals
    <3>4. Above(v, x) => \A w \in t : Above(v, w)
      BY <3>1
    <3> QED BY <2>2, <3>1, <3>2, <3>3, <3>4
  <2> QED BY <2>5, <2>6
<1>2. s \in FiniteSubsetsOf(s)
  BY DEF FiniteSubsetsOf
<1>3. \E v \in s : \A w \in s : Above(v, w)
  BY <1>1, <1>2
<1> QED BY <1>3 DEF Highest

\* An interval that is the last of a list is the last of a part that has it.
LEMMA HighestOfPart ==
  ASSUME NEW s, s \subseteq Intervals, IsFiniteSet(s), s # {},
         NEW u \in SUBSET s, Highest(s) \in u
  PROVE  Highest(u) = Highest(s)
<1>1. u \subseteq Intervals /\ IsFiniteSet(u) /\ u # {}
  BY FS_Subset
<1> DEFINE v == Highest(s)
           w == Highest(u)
<1>2. /\ v \in u /\ w \in u /\ v \in s /\ w \in s
      /\ w.lo < v.lo \/ (w.lo = v.lo /\ w.hi <= v.hi)
      /\ v.lo < w.lo \/ (v.lo = w.lo /\ v.hi <= w.hi)
  BY <1>1, HighestProperties
<1> HIDE DEF v, w
<1>3. v \in Intervals /\ w \in Intervals
  BY <1>2
<1>4. v.lo = w.lo /\ v.hi = w.hi
  BY <1>2, <1>3 DEF Intervals
<1>5. v = w
  BY <1>3, <1>4 DEF Intervals
<1> QED BY <1>5 DEF v, w

\* The recursion of norm defines a function.
Normed(h, s) ==
  h = [t \in SUBSET s |->
         IF t = {} THEN <<>> ELSE Merge(h[t \ {Highest(t)}], Highest(t))]

\* It does for any finite list: the smallest one for which it does not would
\* be one for which it does, by its last interval and the function of the rest.
LEMMA NormExists ==
  ASSUME NEW s, s \subseteq Intervals, IsFiniteSet(s)
  PROVE  \E h : Normed(h, s)
<1> DEFINE Bad == {t \in FiniteSubsetsOf(s) : ~\E h : Normed(h, t)}
<1>1. Bad = {}
  <2> SUFFICES ASSUME Bad # {} PROVE FALSE
    OBVIOUS
  <2>1. PICK t \in Bad : \A u \in Bad : ~(u \subseteq t /\ u # t)
    <3>1. Bad \subseteq FiniteSubsetsOf(s)
      OBVIOUS
    <3> HIDE DEF Bad
    <3> QED BY <3>1, SmallestSet
  <2>2. t \subseteq Intervals /\ IsFiniteSet(t)
    BY DEF FiniteSubsetsOf
  <2>3. CASE t = {}
    <3> DEFINE h == [u \in SUBSET t |-> <<>>]
    <3>1. Normed(h, t)
      BY <2>3 DEF Normed
    <3> QED BY <3>1
  <2>4. CASE t # {}
    <3> DEFINE x == Highest(t)
               r == t \ {x}
    <3>1. x \in t
      BY <2>2, <2>4, HighestProperties
    <3>2. r \in FiniteSubsetsOf(s)
      BY <2>2, FS_RemoveElement DEF FiniteSubsetsOf
    <3>3. PICK g : Normed(g, r)
      BY <2>1, <3>1, <3>2
    <3>4. \A u \in SUBSET t : x \in u => Highest(u) = x
      BY <2>2, <2>4, HighestOfPart
    <3> HIDE DEF x
    <3> DEFINE h == [u \in SUBSET t |-> IF x \in u THEN Merge(g[u \ {x}], x) ELSE g[u]]
    <3>5. ASSUME NEW u \in SUBSET t
          PROVE  h[u] = IF u = {} THEN <<>> ELSE Merge(h[u \ {Highest(u)}], Highest(u))
      <4>1. CASE x \in u
        <5>1. Highest(u) = x /\ u # {} /\ x \notin u \ {x} /\ u \ {x} \in SUBSET t
          BY <4>1, <3>4
        <5>2. h[u] = Merge(g[u \ {x}], x)
          BY <4>1
        <5>3. h[u \ {x}] = g[u \ {x}]
          BY <5>1
        <5> QED BY <5>1, <5>2, <5>3
      <4>2. CASE x \notin u
        <5>1. u \in SUBSET r /\ u \ {Highest(u)} \in SUBSET t /\ x \notin u \ {Highest(u)}
          BY <4>2
        <5>2. h[u] = g[u] /\ h[u \ {Highest(u)}] = g[u \ {Highest(u)}]
          BY <4>2, <5>1
        <5>3. g[u] = IF u = {} THEN <<>> ELSE Merge(g[u \ {Highest(u)}], Highest(u))
          BY <3>3, <5>1 DEF Normed
        <5> QED BY <5>2, <5>3
      <4> QED BY <4>1, <4>2
    <3>6. Normed(h, t)
      <4> HIDE DEF h
      <4>1. h = [u \in SUBSET t |-> h[u]]
        BY DEF h
      <4> QED BY <3>5, <4>1 DEF Normed
    <3> QED BY <3>6
  <2> QED BY <2>3, <2>4
<1>2. s \in FiniteSubsetsOf(s)
  BY DEF FiniteSubsetsOf
<1> QED BY <1>1, <1>2

\* So norm is what its recursion says.
LEMMA NormUnfold ==
  ASSUME NEW s, s \subseteq Intervals, IsFiniteSet(s)
  PROVE  \E h : Normed(h, s) /\ Norm(s) = h[s]
<1> DEFINE norm == CHOOSE h : Normed(h, s)
<1>1. Normed(norm, s)
  BY NormExists
<1>2. Norm(s) = norm[s]
  BY DEF Norm, Normed
<1> QED BY <1>1, <1>2

\* What norm makes of a list: intervals in order, with gaps between them, that
\* hold the points of the list and no others.
Merged(out, u) ==
  /\ out \in Seq(Intervals)
  /\ \A i, j \in 1..Len(out) : i < j => out[i].hi + 1 < out[j].lo
  /\ \A i \in 1..Len(out) : out[i].lo .. out[i].hi \subseteq Points(u)
  /\ \A v \in u : \E i \in 1..Len(out) : out[i].lo <= v.lo /\ v.hi <= out[i].hi
  /\ out # <<>> => \E v \in u : out[Len(out)].lo = v.lo

\* One more interval, that begins where or after all others do, keeps it so.
LEMMA MergeKeeps ==
  ASSUME NEW u, u \subseteq Intervals, NEW x \in u, \A w \in u : w.lo <= x.lo,
         NEW out, Merged(out, u \ {x})
  PROVE  Merged(Merge(out, x), u)
<1> DEFINE n == Len(out)
           new == Merge(out, x)
<1>1. /\ out \in Seq(Intervals) /\ n \in Nat /\ x \in Intervals
      /\ \A i \in 1..n : out[i] \in Intervals
      /\ out # <<>> <=> n # 0
  BY LenProperties, ElementOfSeq, EmptySeq DEF Merged
<1>2. x.lo \in Nat /\ x.hi \in Nat /\ x.lo <= x.hi
  BY <1>1 DEF Intervals
<1>3. \A i \in 1..n : out[i].lo \in Nat /\ out[i].hi \in Nat /\ out[i].lo <= out[i].hi
  BY <1>1 DEF Intervals
<1>4. x.lo .. x.hi \subseteq Points(u) /\ Points(u \ {x}) \subseteq Points(u)
  BY DEF Points
<1>5. CASE n # 0 /\ x.lo <= out[n].hi + 1
  <2> DEFINE top == IF x.hi > out[n].hi THEN x.hi ELSE out[n].hi
             last == [lo |-> out[n].lo, hi |-> top]
  <2>1. n \in 1..n /\ out[n].lo <= x.lo
    BY <1>1, <1>5 DEF Merged
  <2>2. last \in Intervals /\ out[n].hi <= top /\ x.hi <= top
    BY <1>2, <1>3, <2>1 DEF Intervals
  <2>3. new = [out EXCEPT ![n] = last]
    <3>1. new = [out EXCEPT ![n].hi = top]
      BY <1>1, <1>5 DEF Merge, Last
    <3>2. [out[n] EXCEPT !.hi = top] = last
      BY <1>1, <2>1 DEF Intervals
    <3> QED BY <3>1, <3>2
  <2>4. /\ new \in Seq(Intervals) /\ Len(new) = n
        /\ \A i \in 1..n : new[i] = IF i = n THEN last ELSE out[i]
    BY <1>1, <2>1, <2>2, <2>3, ExceptSeq
  <2> HIDE DEF new
  <2>5. \A i, j \in 1..n : i < j => new[i].hi + 1 < new[j].lo
    BY <1>1, <2>1, <2>4 DEF Merged
  <2>6. last.lo .. last.hi \subseteq Points(u)
    <3>1. \A p \in last.lo .. last.hi : p \in out[n].lo .. out[n].hi \/ p \in x.lo .. x.hi
      BY <1>2, <1>3, <1>5, <2>1
    <3> QED BY <1>4, <2>1, <3>1 DEF Merged
  <2>7. \A i \in 1..n : new[i].lo .. new[i].hi \subseteq Points(u)
    BY <1>4, <2>4, <2>6 DEF Merged
  <2>8. ASSUME NEW v \in u
        PROVE  \E i \in 1..n : new[i].lo <= v.lo /\ v.hi <= new[i].hi
    <3>1. CASE v = x
      BY <2>1, <2>2, <2>4, <3>1
    <3>2. CASE v # x
      <4>1. PICK i \in 1..n : out[i].lo <= v.lo /\ v.hi <= out[i].hi
        BY <3>2 DEF Merged
      <4>2. v.lo \in Nat /\ v.hi \in Nat
        BY DEF Intervals
      <4>3. new[i].lo = out[i].lo /\ out[i].hi <= new[i].hi
        BY <1>3, <2>2, <2>4
      <4>4. new[i].hi \in Nat
        BY <1>3, <2>2, <2>4 DEF Intervals
      <4> QED BY <1>3, <4>1, <4>2, <4>3, <4>4
    <3> QED BY <3>1, <3>2
  <2>9. \E v \in u : new[Len(new)].lo = v.lo
    BY <1>1, <1>5, <2>1, <2>4 DEF Merged
  <2> QED BY <2>4, <2>5, <2>7, <2>8, <2>9 DEF Merged, new
<1>6. CASE ~(n # 0 /\ x.lo <= out[n].hi + 1)
  <2>1. new = Append(out, x)
    BY <1>1, <1>6 DEF Merge, Last
  <2>2. /\ new \in Seq(Intervals) /\ Len(new) = n + 1
        /\ \A i \in 1..n : new[i] = out[i]
        /\ new[n + 1] = x
    BY <1>1, <2>1, AppendProperties
  <2> HIDE DEF new
  <2>3. ASSUME NEW i \in 1..(n + 1), NEW j \in 1..(n + 1), i < j
        PROVE  new[i].hi + 1 < new[j].lo
    <3>1. CASE j # n + 1
      <4>1. i \in 1..n /\ j \in 1..n
        BY <1>1, <2>3, <3>1
      <4> QED BY <2>2, <2>3, <4>1 DEF Merged
    <3>2. CASE j = n + 1
      <4>1. i \in 1..n /\ n \in 1..n /\ out[n].hi + 1 < x.lo
        BY <1>1, <1>2, <1>3, <1>6, <2>3
      <4>2. i # n => out[i].hi + 1 < out[n].lo
        BY <4>1 DEF Merged
      <4>3. out[i].hi + 1 < x.lo
        BY <1>2, <1>3, <4>1, <4>2
      <4> QED BY <2>2, <3>2, <4>1, <4>3
    <3> QED BY <3>1, <3>2
  <2>4. \A i \in 1..(n + 1) : new[i].lo .. new[i].hi \subseteq Points(u)
    <3>1. \A i \in 1..n : out[i].lo .. out[i].hi \subseteq Points(u)
      BY <1>4 DEF Merged
    <3>2. \A i \in 1..(n + 1) : i \in 1..n \/ i = n + 1
      BY <1>1
    <3> QED BY <1>4, <2>2, <3>1, <3>2
  <2>5. ASSUME NEW v \in u
        PROVE  \E i \in 1..(n + 1) : new[i].lo <= v.lo /\ v.hi <= new[i].hi
    <3>1. CASE v = x
      <4>1. n + 1 \in 1..(n + 1)
        BY <1>1
      <4> QED BY <1>2, <2>2, <3>1, <4>1
    <3>2. CASE v # x
      <4>1. PICK i \in 1..n : out[i].lo <= v.lo /\ v.hi <= out[i].hi
        BY <3>2 DEF Merged
      <4>2. i \in 1..(n + 1)
        BY <1>1
      <4> QED BY <2>2, <4>1, <4>2
    <3> QED BY <3>1, <3>2
  <2> QED BY <2>2, <2>3, <2>4, <2>5 DEF Merged, new
<1> QED BY <1>5, <1>6

\* And so norm does that to the whole list.
LEMMA NormMerges ==
  ASSUME NEW s, s \subseteq Intervals, IsFiniteSet(s)
  PROVE  Merged(Norm(s), s)
<1>1. PICK h : Normed(h, s) /\ Norm(s) = h[s]
  BY NormUnfold
<1> DEFINE Bad == {t \in FiniteSubsetsOf(s) : ~Merged(h[t], t)}
<1>2. Bad = {}
  <2> SUFFICES ASSUME Bad # {} PROVE FALSE
    OBVIOUS
  <2>1. PICK t \in Bad : \A u \in Bad : ~(u \subseteq t /\ u # t)
    <3>1. Bad \subseteq FiniteSubsetsOf(s)
      OBVIOUS
    <3> HIDE DEF Bad
    <3> QED BY <3>1, SmallestSet
  <2>2. t \in SUBSET s /\ t \subseteq Intervals /\ IsFiniteSet(t)
    BY DEF FiniteSubsetsOf
  <2>3. h[t] = IF t = {} THEN <<>> ELSE Merge(h[t \ {Highest(t)}], Highest(t))
    BY <1>1, <2>2 DEF Normed
  <2>4. CASE t = {}
    <3>1. <<>> \in Seq(Intervals) /\ Len(<<>>) = 0
      BY EmptySeq
    <3>2. Merged(<<>>, {})
      BY <3>1 DEF Merged
    <3> QED BY <2>3, <2>4, <3>2
  <2>5. CASE t # {}
    <3> DEFINE x == Highest(t)
    <3>1. x \in t /\ \A w \in t : w.lo < x.lo \/ w.lo = x.lo
      BY <2>2, <2>5, HighestProperties
    <3>2. \A w \in t : w.lo <= x.lo
      BY <2>2, <3>1 DEF Intervals
    <3>3. t \ {x} \in FiniteSubsetsOf(s)
      BY <2>2, FS_RemoveElement DEF FiniteSubsetsOf
    <3>4. Merged(h[t \ {x}], t \ {x})
      BY <2>1, <3>1, <3>3
    <3>5. h[t] = Merge(h[t \ {x}], x)
      BY <2>3, <2>5
    <3> HIDE DEF x
    <3>6. Merged(h[t], t)
      BY <2>2, <3>1, <3>2, <3>4, <3>5, MergeKeeps
    <3> QED BY <3>6
  <2> QED BY <2>4, <2>5
<1>3. s \in FiniteSubsetsOf(s)
  BY DEF FiniteSubsetsOf
<1> QED BY <1>1, <1>2, <1>3

\* One list covers another exactly when it has all its points: norm merges what
\* only together holds an interval, and nothing else.
THEOREM CoversIsInclusion ==
  ASSUME NEW s, s \subseteq Intervals, IsFiniteSet(s), NEW o, o \subseteq Intervals
  PROVE  Covers(s, o) <=> Points(o) \subseteq Points(s)
<1> DEFINE n == Norm(s)
<1>1. Merged(n, s)
  BY NormMerges
<1> HIDE DEF n
<1>2. /\ Len(n) \in Nat
      /\ \A i \in 1..Len(n) : n[i].lo \in Nat /\ n[i].hi \in Nat /\ n[i].lo <= n[i].hi
      /\ \A w \in o : w.lo \in Nat /\ w.hi \in Nat /\ w.lo <= w.hi
      /\ \A v \in s : v.lo \in Nat /\ v.hi \in Nat
  <2>1. Len(n) \in Nat /\ \A i \in 1..Len(n) : n[i] \in Intervals
    BY <1>1, LenProperties, ElementOfSeq DEF Merged
  <2> QED BY <2>1 DEF Intervals
<1>3. Covers(s, o) <=> \A w \in o : \E i \in 1..Len(n) : n[i].lo <= w.lo /\ w.hi <= n[i].hi
  <2>1. DOMAIN n = 1..Len(n)
    BY <1>1, LenProperties DEF Merged
  <2>2. Range(n) = {n[i] : i \in 1..Len(n)}
    BY <2>1 DEF Range
  <2> QED BY <2>2 DEF Covers, n
<1>4. ASSUME Covers(s, o), NEW p \in Points(o)
      PROVE  p \in Points(s)
  <2>1. PICK w \in o : p \in w.lo .. w.hi
    BY <1>4 DEF Points
  <2>2. PICK i \in 1..Len(n) : n[i].lo <= w.lo /\ w.hi <= n[i].hi
    BY <1>3, <1>4
  <2>3. p \in n[i].lo .. n[i].hi
    BY <1>2, <2>1, <2>2
  <2> QED BY <1>1, <2>3 DEF Merged
<1>5. ASSUME Points(o) \subseteq Points(s), NEW w \in o
      PROVE  \E i \in 1..Len(n) : n[i].lo <= w.lo /\ w.hi <= n[i].hi
  <2>1. \A p \in w.lo .. w.hi : \E i \in 1..Len(n) : n[i].lo <= p /\ p <= n[i].hi
    <3> SUFFICES ASSUME NEW p \in w.lo .. w.hi
                 PROVE  \E i \in 1..Len(n) : n[i].lo <= p /\ p <= n[i].hi
      OBVIOUS
    <3>1. p \in Points(s)
      BY <1>5 DEF Points
    <3>2. PICK v \in s : p \in v.lo .. v.hi
      BY <3>1 DEF Points
    <3>3. PICK i \in 1..Len(n) : n[i].lo <= v.lo /\ v.hi <= n[i].hi
      BY <1>1 DEF Merged
    <3>4. n[i].lo <= p /\ p <= n[i].hi
      BY <1>2, <3>2, <3>3
    <3> QED BY <3>4
  <2>2. PICK i \in 1..Len(n) : n[i].lo <= w.lo /\ w.lo <= n[i].hi
    BY <1>2, <2>1
  <2>3. SUFFICES ASSUME n[i].hi < w.hi PROVE FALSE
    BY <1>2, <2>2
  <2>4. n[i].hi + 1 \in w.lo .. w.hi
    BY <1>2, <2>2, <2>3
  <2>5. PICK j \in 1..Len(n) : n[j].lo <= n[i].hi + 1 /\ n[i].hi + 1 <= n[j].hi
    BY <2>1, <2>4
  <2>6. i < j => n[i].hi + 1 < n[j].lo
    BY <1>1 DEF Merged
  <2>7. j < i => n[j].hi + 1 < n[i].lo
    BY <1>1 DEF Merged
  <2>8. i = j \/ i < j \/ j < i
    OBVIOUS
  <2> QED BY <1>2, <2>5, <2>6, <2>7, <2>8
<1> QED BY <1>3, <1>4, <1>5

\* Of a set of numbers there is a smallest one.
LEMMA SmallestNumber ==
  ASSUME NEW S, S \subseteq Nat, S # {}
  PROVE  \E n \in S : \A m \in S : n <= m
<1>1. PICK n \in S : \A m \in S : ~(<<m, n>> \in OpToRel(<, Nat))
  BY NatLessThanWellFounded, WFMin
<1>2. \A m, k \in Nat : m < k => <<m, k>> \in OpToRel(<, Nat)
  BY DEF OpToRel
<1>3. \A m \in S : ~(m < n)
  BY <1>1, <1>2
<1> QED BY <1>3

\* The first k intervals of a normed list, and how many points they have.
Upto(n, k) == UNION {n[i].lo .. n[i].hi : i \in 1..k}

\* Each interval of a normal list adds as many points as it is long.
LEMMA UptoGrows ==
  ASSUME NEW s, NEW n, Merged(n, s), NEW k \in 1..Len(n)
  PROVE  /\ IsFiniteSet(Upto(n, k)) /\ IsFiniteSet(Upto(n, k - 1))
         /\ Cardinality(Upto(n, k)) = Cardinality(Upto(n, k - 1)) + (n[k].hi - n[k].lo) + 1
<1>1. /\ Len(n) \in Nat
      /\ \A i \in 1..Len(n) : n[i].lo \in Nat /\ n[i].hi \in Nat /\ n[i].lo <= n[i].hi
  <2>1. Len(n) \in Nat /\ \A i \in 1..Len(n) : n[i] \in Intervals
    BY LenProperties, ElementOfSeq DEF Merged
  <2> QED BY <2>1 DEF Intervals
<1>2. \A i \in 1..Len(n) : i < k => n[i].hi + 1 < n[k].lo
  BY DEF Merged
<1> DEFINE I == n[k].lo .. n[k].hi
<1>3. Upto(n, k - 1) \subseteq 0..n[k].hi
  <2> SUFFICES ASSUME NEW x \in Upto(n, k - 1) PROVE x \in 0..n[k].hi
    OBVIOUS
  <2>1. PICK i \in 1..(k - 1) : x \in n[i].lo .. n[i].hi
    BY DEF Upto
  <2>2. i \in 1..Len(n) /\ i < k
    BY <1>1
  <2> QED BY <1>1, <1>2, <2>1, <2>2
<1>4. Upto(n, k - 1) \cap I = {}
  <2> SUFFICES ASSUME NEW x \in Upto(n, k - 1), x \in I PROVE FALSE
    OBVIOUS
  <2>1. PICK i \in 1..(k - 1) : x \in n[i].lo .. n[i].hi
    BY DEF Upto
  <2>2. i \in 1..Len(n) /\ i < k
    BY <1>1
  <2> QED BY <1>1, <1>2, <2>1, <2>2
<1>5. IsFiniteSet(Upto(n, k - 1))
  <2> DEFINE top == n[k].hi
  <2>1. top \in Int
    BY <1>1
  <2>2. Upto(n, k - 1) \subseteq 0..top
    BY <1>3
  <2> HIDE DEF top
  <2>3. IsFiniteSet(0..top)
    BY <2>1, FS_Interval
  <2> QED BY <2>2, <2>3, FS_Subset
<1>6. IsFiniteSet(I) /\ Cardinality(I) = n[k].hi - n[k].lo + 1
  <2>1. n[k].lo \in Int /\ n[k].hi \in Int /\ ~(n[k].lo > n[k].hi)
    BY <1>1
  <2> QED BY <2>1, FS_Interval
<1>7. Upto(n, k) = Upto(n, k - 1) \cup I
  <2>1. 1..k = (1..(k - 1)) \cup {k}
    BY <1>1
  <2> QED BY <2>1 DEF Upto
<1> HIDE DEF I
<1>8. /\ IsFiniteSet(Upto(n, k))
      /\ Cardinality(Upto(n, k)) = Cardinality(Upto(n, k - 1)) + Cardinality(I)
                                    - Cardinality({})
  BY <1>4, <1>5, <1>6, <1>7, FS_Union
<1>9. Cardinality({}) = 0 /\ Cardinality(Upto(n, k - 1)) \in Nat
  BY <1>5, FS_EmptySet, FS_CardinalityType
<1> QED BY <1>1, <1>5, <1>6, <1>8, <1>9

\* The recursion of size.
Sized(f, n) ==
  f = [k \in 0..Len(n) |->
         IF k = 0 THEN 0 ELSE f[k - 1] + (n[k].hi - n[k].lo) + 1]

\* The recursion of size does define a function on a normal list: the one that
\* counts the points.
LEMMA SizeUnfold ==
  ASSUME NEW s, Merged(Norm(s), s)
  PROVE  \E f : Sized(f, Norm(s)) /\ Size(s) = f[Len(Norm(s))]
<1> DEFINE n == Norm(s)
           h == [k \in 0..Len(n) |-> Cardinality(Upto(n, k))]
           size == CHOOSE f : Sized(f, n)
<1>1. Len(n) \in Nat
  BY LenProperties DEF Merged
<1>2. ASSUME NEW k \in 0..Len(n)
      PROVE  h[k] = IF k = 0 THEN 0 ELSE h[k - 1] + (n[k].hi - n[k].lo) + 1
  <2>1. CASE k = 0
    <3>1. Upto(n, 0) = {}
      BY DEF Upto
    <3> QED BY <2>1, <3>1, FS_EmptySet
  <2>2. CASE k # 0
    <3>1. k \in 1..Len(n) /\ k - 1 \in 0..Len(n)
      BY <1>1, <2>2
    <3> HIDE DEF n
    <3>2. Cardinality(Upto(n, k)) = Cardinality(Upto(n, k - 1)) + (n[k].hi - n[k].lo) + 1
      BY <3>1, UptoGrows DEF n
    <3> QED BY <2>2, <3>1, <3>2
  <2> QED BY <2>1, <2>2
<1>3. Sized(h, n)
  <2> HIDE DEF n
  <2>1. h = [k \in 0..Len(n) |-> h[k]]
    OBVIOUS
  <2> HIDE DEF h
  <2> QED BY <1>2, <2>1 DEF Sized
<1>4. Sized(size, n)
  BY <1>3
<1>5. Size(s) = size[Len(n)]
  BY DEF Size, Sized
<1> QED BY <1>4, <1>5

\* The size of a list is the number of its points: none counts twice.
THEOREM SizeIsCardinality ==
  ASSUME NEW s, s \subseteq Intervals, IsFiniteSet(s)
  PROVE  IsFiniteSet(Points(s)) /\ Size(s) = Cardinality(Points(s))
<1> DEFINE n == Norm(s)
<1>1. Merged(n, s)
  BY NormMerges
<1>2. PICK f : Sized(f, n) /\ Size(s) = f[Len(n)]
  BY <1>1, SizeUnfold
<1> HIDE DEF n
<1>3. Len(n) \in Nat /\ \A i \in 1..Len(n) : n[i] \in Intervals
  BY <1>1, LenProperties, ElementOfSeq DEF Merged
<1>4. Points(s) = Upto(n, Len(n))
  <2>1. ASSUME NEW x \in Points(s) PROVE x \in Upto(n, Len(n))
    <3>1. PICK v \in s : x \in v.lo .. v.hi
      BY <2>1 DEF Points
    <3>2. PICK i \in 1..Len(n) : n[i].lo <= v.lo /\ v.hi <= n[i].hi
      BY <1>1 DEF Merged
    <3>3. /\ v.lo \in Nat /\ v.hi \in Nat /\ n[i].lo \in Nat /\ n[i].hi \in Nat
      BY <1>3 DEF Intervals
    <3>4. x \in n[i].lo .. n[i].hi
      BY <3>1, <3>2, <3>3
    <3> QED BY <3>4 DEF Upto
  <2>2. Upto(n, Len(n)) \subseteq Points(s)
    BY <1>1 DEF Merged, Upto
  <2> QED BY <2>1, <2>2
<1> DEFINE Bad == {k \in 0..Len(n) : f[k] # Cardinality(Upto(n, k))}
<1>5. Bad = {}
  <2> SUFFICES ASSUME Bad # {} PROVE FALSE
    OBVIOUS
  <2>1. PICK k \in Bad : \A m \in Bad : k <= m
    <3>1. Bad \subseteq Nat
      OBVIOUS
    <3> HIDE DEF Bad
    <3> QED BY <3>1, SmallestNumber
  <2>2. f[k] = IF k = 0 THEN 0 ELSE f[k - 1] + (n[k].hi - n[k].lo) + 1
    BY <1>2 DEF Sized
  <2>3. CASE k = 0
    <3>1. Upto(n, 0) = {}
      BY DEF Upto
    <3> QED BY <2>2, <2>3, <3>1, FS_EmptySet
  <2>4. CASE k # 0
    <3>1. k \in 1..Len(n) /\ k - 1 \in 0..Len(n) /\ ~(k <= k - 1)
      BY <1>3, <2>4
    <3>2. f[k - 1] = Cardinality(Upto(n, k - 1))
      BY <2>1, <3>1
    <3>3. Cardinality(Upto(n, k)) = Cardinality(Upto(n, k - 1)) + (n[k].hi - n[k].lo) + 1
      BY <1>1, <3>1, UptoGrows
    <3> QED BY <2>2, <2>4, <3>2, <3>3
  <2> QED BY <2>3, <2>4
<1>6. Len(n) \in 0..Len(n)
  BY <1>3
<1>7. IsFiniteSet(Upto(n, Len(n)))
  <2>1. CASE Len(n) = 0
    <3>1. Upto(n, 0) = {}
      BY DEF Upto
    <3> QED BY <2>1, <3>1, FS_EmptySet
  <2>2. CASE Len(n) # 0
    <3>1. Len(n) \in 1..Len(n)
      BY <1>3, <2>2
    <3> QED BY <1>1, <3>1, UptoGrows
  <2> QED BY <2>1, <2>2
<1>8. Size(s) = Cardinality(Upto(n, Len(n)))
  BY <1>2, <1>5, <1>6
<1> QED BY <1>4, <1>7, <1>8
=============================================================================
