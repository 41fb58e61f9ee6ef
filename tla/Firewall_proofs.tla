----------------------------- MODULE Firewall_proofs -----------------------------
(***************************************************************************)
(* Proofs about the firewall part of a configuration and about what compile  *)
(* makes of it, for any objects, any width of addresses and any edits that   *)
(* the schema lets pass.                                                    *)
(***************************************************************************)
EXTENDS Compiler, IntervalSets_proofs

-----------------------------------------------------------------------------
(* Edits leave a tree a tree *)

\* The rules of a RuleSet that exists are a sequence of Policies.
LEMMA RulesType ==
  ASSUME NEW t \in Trees, NEW n \in Present(t)
  PROVE  /\ n \in SetNames
         /\ t.sets[n] \in RuleSetSpec
         /\ t.sets[n].rules \in Seq(Policy)
         /\ DOMAIN t.sets[n].rules = 1..Len(t.sets[n].rules)
         /\ Len(t.sets[n].rules) \in Nat
         /\ \A i \in DOMAIN t.sets[n].rules : t.sets[n].rules[i] \in Policy
<1>1. n \in SetNames /\ t.sets[n] \in RuleSetSpec
  BY DEF Present, Trees
<1>2. t.sets[n].rules \in Seq(Policy)
  BY <1>1 DEF RuleSetSpec
<1> QED BY <1>1, <1>2, LenProperties, ElementOfSeq

\* A rule that the editor takes out leaves a sequence of rules.
LEMMA RemoveAtType ==
  ASSUME NEW S, NEW s \in Seq(S), NEW i \in 1..Len(s)
  PROVE  RemoveAt(s, i) \in Seq(S)
<1>1. Len(s) \in Nat /\ \A k \in 1..Len(s) : s[k] \in S
  BY LenProperties, ElementOfSeq
<1>2. SubSeq(s, 1, i-1) \in Seq(S)
  BY <1>1, SubSeqProperties
<1>3. SubSeq(s, i+1, Len(s)) \in Seq(S)
  BY <1>1, SubSeqProperties
<1> QED BY <1>2, <1>3, ConcatProperties DEF RemoveAt

\* And so does one that it puts in.
LEMMA InsertAtType ==
  ASSUME NEW S, NEW s \in Seq(S), NEW i \in 1..(Len(s)+1), NEW e \in S
  PROVE  InsertAt(s, i, e) \in Seq(S)
<1>1. Len(s) \in Nat /\ \A k \in 1..Len(s) : s[k] \in S
  BY LenProperties, ElementOfSeq
<1>2. SubSeq(s, 1, i-1) \in Seq(S)
  BY <1>1, SubSeqProperties
<1>3. SubSeq(s, i, Len(s)) \in Seq(S)
  BY <1>1, SubSeqProperties
<1>4. <<e>> \in Seq(S)
  OBVIOUS
<1>5. SubSeq(s, 1, i-1) \o <<e>> \in Seq(S)
  BY <1>2, <1>4, ConcatProperties
<1> QED BY <1>3, <1>5, ConcatProperties DEF InsertAt

\* To cut a rule out leaves one rule less.
LEMMA RemoveAtLength ==
  ASSUME NEW S, NEW s \in Seq(S), NEW i \in 1..Len(s)
  PROVE  Len(RemoveAt(s, i)) = Len(s) - 1
<1> DEFINE before == SubSeq(s, 1, i-1)
           after == SubSeq(s, i+1, Len(s))
<1>1. Len(s) \in Nat /\ \A k \in 1..Len(s) : s[k] \in S
  BY LenProperties, ElementOfSeq
<1>2. before \in Seq(S) /\ Len(before) = i - 1
  BY <1>1, SubSeqProperties
<1>3. after \in Seq(S) /\ Len(after) = Len(s) - i
  BY <1>1, SubSeqProperties
<1>4. RemoveAt(s, i) = before \o after
  BY DEF RemoveAt
<1> HIDE DEF before, after
<1>5. Len(before \o after) = Len(before) + Len(after)
  BY <1>2, <1>3, ConcatProperties
<1> QED BY <1>1, <1>2, <1>3, <1>4, <1>5

\* New rules in a RuleSet that exists give a tree.
LEMMA RulesOfTree ==
  ASSUME NEW t \in Trees, NEW n \in Present(t), NEW rules \in Seq(Policy)
  PROVE  [t EXCEPT !.sets[n].rules = rules] \in Trees
<1>1. n \in SetNames /\ t.sets[n] \in RuleSetSpec
  BY RulesType
<1>2. [t.sets[n] EXCEPT !.rules = rules] \in RuleSetSpec
  BY <1>1 DEF RuleSetSpec
<1> QED BY <1>1, <1>2 DEF Trees

\* What Save does, whatever is saved: the tree stays one, and without errors.
LEMMA SaveValid ==
  ASSUME TypeOK, Valid(tree), NEW t, t \in Trees, Save(t)
  PROVE  TypeOK' /\ Valid(tree)'
<1>1. CASE Valid(t)
  BY <1>1 DEF Save, TypeOK
<1>2. CASE ~Valid(t)
  BY <1>2 DEF Save, TypeOK
<1> QED BY <1>1, <1>2

\* Edits of Interfaces, Zones, Addresses and routes leave a valid tree.
LEMMA ObjectsPreserve ==
  ASSUME TypeOK, Valid(tree), Objects
  PROVE  TypeOK' /\ Valid(tree)'
<1> USE FirewallAssumption
<1> USE DEF TypeOK
<1>1. ASSUME NEW i \in Interfaces, NEW s \in InterfaceSpecs[i], PutInterface(i, s)
      PROVE  TypeOK' /\ Valid(tree)'
  <2>1. s \in InterfaceSpec
    OBVIOUS
  <2>2. [tree EXCEPT !.interfaces[i] = s] \in Trees
    BY <2>1 DEF Trees
  <2> QED BY <1>1, <2>2, SaveValid DEF PutInterface
<1>2. ASSUME NEW z \in ZoneNames, DeleteZone(z)
      PROVE  TypeOK' /\ Valid(tree)'
  <2>1. [tree EXCEPT !.zones[z] = None] \in Trees
    BY DEF Trees
  <2> QED BY <1>2, <2>1, SaveValid DEF DeleteZone
<1>3. ASSUME NEW z \in ZoneNames, NEW s \in ZoneSpecs[z], PutZone(z, s)
      PROVE  TypeOK' /\ Valid(tree)'
  <2>1. s \in ZoneSpec
    OBVIOUS
  <2>2. [tree EXCEPT !.zones[z] = s] \in Trees
    BY <2>1 DEF Trees
  <2> QED BY <1>3, <2>2, SaveValid DEF PutZone
<1>4. ASSUME NEW a \in AddressNames, NEW s \in AddressSpecs[a], PutAddress(a, s)
      PROVE  TypeOK' /\ Valid(tree)'
  <2>1. s \in AddressSpec
    OBVIOUS
  <2>2. [tree EXCEPT !.addresses[a] = s] \in Trees
    BY <2>1 DEF Trees
  <2> QED BY <1>4, <2>2, SaveValid DEF PutAddress
<1>5. ASSUME NEW k \in RouteNames, DeleteRoute(k)
      PROVE  TypeOK' /\ Valid(tree)'
  <2>1. [tree EXCEPT !.routes[k] = None] \in Trees
    BY DEF Trees
  <2> QED BY <1>5, <2>1, SaveValid DEF DeleteRoute
<1>6. ASSUME NEW k \in RouteNames, NEW s \in RouteSpecs[k], PutRoute(k, s)
      PROVE  TypeOK' /\ Valid(tree)'
  <2>1. s \in RouteSpec
    OBVIOUS
  <2>2. [tree EXCEPT !.routes[k] = s] \in Trees
    BY <2>1 DEF Trees
  <2> QED BY <1>6, <2>2, SaveValid DEF PutRoute
<1> QED BY <1>1, <1>2, <1>3, <1>4, <1>5, <1>6 DEF Objects

\* So do new and deleted RuleSets, and new rules.
LEMMA RuleSetsPreserve ==
  ASSUME TypeOK, Valid(tree), RuleSets
  PROVE  TypeOK' /\ Valid(tree)'
<1> USE FirewallAssumption
<1> USE DEF TypeOK
<1>1. ASSUME NEW n \in SetNames, DeleteRuleSet(n)
      PROVE  TypeOK' /\ Valid(tree)'
  <2>1. [tree EXCEPT !.sets[n] = None] \in Trees
    BY DEF Trees
  <2> QED BY <1>1, <2>1, SaveValid DEF DeleteRuleSet
<1>2. ASSUME NEW n \in SetNames, NEW p \in Pairs, NewRuleSet(n, p)
      PROVE  TypeOK' /\ Valid(tree)'
  <2> DEFINE s == [from |-> p[1], to |-> p[2], rules |-> <<>>]
  <2>1. <<>> \in Seq(Policy)
    BY EmptySeq
  <2>2. s \in RuleSetSpec
    BY <2>1 DEF RuleSetSpec
  <2> HIDE DEF s
  <2>3. [tree EXCEPT !.sets[n] = s] \in Trees
    BY <2>2 DEF Trees
  <2>4. Save([tree EXCEPT !.sets[n] = s])
    BY <1>2 DEF NewRuleSet, s
  <2> QED BY <2>3, <2>4, SaveValid
<1>3. ASSUME NEW n \in SetNames, NEW r \in Rules, NewRule(n, r)
      PROVE  TypeOK' /\ Valid(tree)'
  <2>1. n \in Present(tree) /\ r \in Policy
    BY <1>3 DEF NewRule
  <2>2. Append(tree.sets[n].rules, r) \in Seq(Policy)
    BY <2>1, RulesType, AppendProperties
  <2>3. [tree EXCEPT !.sets[n].rules = Append(tree.sets[n].rules, r)] \in Trees
    BY <2>1, <2>2, RulesOfTree
  <2> QED BY <1>3, <2>3, SaveValid DEF NewRule, SaveRules
<1> QED BY <1>1, <1>2, <1>3 DEF RuleSets

\* And so do edits of rules that are there.
LEMMA PoliciesPreserve ==
  ASSUME TypeOK, Valid(tree), Policies
  PROVE  TypeOK' /\ Valid(tree)'
<1> USE FirewallAssumption
<1> USE DEF TypeOK
<1>0. PICK n \in Present(tree) : \E k \in DOMAIN tree.sets[n].rules :
        \/ RemoveRule(n, k)
        \/ ToggleRule(n, k)
        \/ \E r \in Rules : EditRule(n, k, r)
        \/ \E j \in DOMAIN tree.sets[n].rules : MoveRule(n, k, j)
  BY DEF Policies
<1>1. PICK i \in DOMAIN tree.sets[n].rules :
        \/ RemoveRule(n, i)
        \/ ToggleRule(n, i)
        \/ \E r \in Rules : EditRule(n, i, r)
        \/ \E j \in DOMAIN tree.sets[n].rules : MoveRule(n, i, j)
  BY <1>0
<1> DEFINE rules == tree.sets[n].rules
<1>2. /\ rules \in Seq(Policy) /\ Len(rules) \in Nat
      /\ DOMAIN rules = 1..Len(rules)
      /\ i \in 1..Len(rules) /\ rules[i] \in Policy
  BY RulesType
<1>3. ASSUME NEW new \in Seq(Policy), SaveRules(n, new)
      PROVE  TypeOK' /\ Valid(tree)'
  <2>1. [tree EXCEPT !.sets[n].rules = new] \in Trees
    BY RulesOfTree
  <2> QED BY <1>3, <2>1, SaveValid DEF SaveRules
<1> HIDE DEF rules
<1>4. CASE RemoveRule(n, i)
  BY <1>2, <1>3, <1>4, RemoveAtType DEF RemoveRule, rules
<1>5. CASE ToggleRule(n, i)
  <2> DEFINE r == [rules[i] EXCEPT !.enabled = ~rules[i].enabled]
  <2>1. r \in Policy
    BY <1>2 DEF Policy
  <2>2. [rules EXCEPT ![i] = r] \in Seq(Policy)
    BY <1>2, <2>1, ExceptSeq
  <2>3. SaveRules(n, [rules EXCEPT ![i] = r])
    BY <1>5 DEF ToggleRule, rules
  <2> QED BY <1>3, <2>2, <2>3
<1>6. ASSUME NEW r \in Rules, EditRule(n, i, r)
      PROVE  TypeOK' /\ Valid(tree)'
  <2>1. [rules EXCEPT ![i] = r] \in Seq(Policy)
    BY <1>2, ExceptSeq
  <2> QED BY <1>3, <1>6, <2>1 DEF EditRule, rules
<1>7. ASSUME NEW j \in DOMAIN rules, MoveRule(n, i, j)
      PROVE  TypeOK' /\ Valid(tree)'
  <2>1. RemoveAt(rules, i) \in Seq(Policy) /\ Len(RemoveAt(rules, i)) = Len(rules) - 1
    BY <1>2, RemoveAtType, RemoveAtLength
  <2>2. j \in 1..(Len(RemoveAt(rules, i)) + 1)
    BY <1>2, <2>1
  <2>3. InsertAt(RemoveAt(rules, i), j, rules[i]) \in Seq(Policy)
    BY <1>2, <2>1, <2>2, InsertAtType
  <2> QED BY <1>3, <1>7, <2>3 DEF MoveRule, rules
<1> QED BY <1>1, <1>4, <1>5, <1>6, <1>7 DEF rules

\* The tree is well formed and has no error, whatever was edited.
Sound == TypeOK /\ Valid(tree)

\* An edit keeps it so, saved or refused.
LEMMA SoundStays ==
  ASSUME Sound, [Next]_tree
  PROVE  Sound'
<1>1. CASE UNCHANGED tree
  BY <1>1 DEF Sound, TypeOK
<1>2. CASE Next
  BY <1>2, ObjectsPreserve, RuleSetsPreserve, PoliciesPreserve DEF Next, Sound
<1> QED BY <1>1, <1>2

\* What the Validator let in is all there ever is.
LEMMA SoundAlways == Spec => []Sound
<1>1. Init => Sound
  BY FirewallAssumption DEF Init, Sound, TypeOK
<1> QED BY <1>1, SoundStays, PTL DEF Spec

\* Type correctness.
THEOREM TypeCorrect == Spec => []TypeOK
<1>1. Sound => TypeOK
  BY DEF Sound
<1> QED BY <1>1, SoundAlways, PTL

-----------------------------------------------------------------------------
(* Which RuleSet governs *)

\* The sides of a RuleSet that exists are Interfaces or Zones.
LEMMA SidesType ==
  ASSUME NEW t \in Trees, NEW n \in Present(t)
  PROVE  /\ t.sets[n].from \in Interfaces \cup ZoneNames
         /\ t.sets[n].to \in Interfaces \cup ZoneNames
BY RulesType DEF RuleSetSpec

\* ZoneOf finds the one Zone an Interface belongs to.
LEMMA ZoneOfMember ==
  ASSUME NEW t, ZonesDisjoint(t), NEW i \in Interfaces, NEW z \in ZonesOf(t, i)
  PROVE  ZoneOf(t, i) = z
<1>1. \A y \in ZonesOf(t, i) : y = z
  BY DEF ZonesDisjoint
<1> QED BY <1>1 DEF ZoneOf

\* A side that contains an Interface is the Interface itself or its Zone.
LEMMA SideContains ==
  ASSUME NEW t \in Trees, ZonesDisjoint(t), NEW ref \in Interfaces \cup ZoneNames,
         NEW i \in Side(t, ref)
  PROVE  /\ i \in Interfaces
         /\ \/ ref \in Interfaces /\ ref = i
            \/ ref \in ZoneNames /\ ref \notin Interfaces /\ ZoneOf(t, i) = ref
<1>1. CASE ref \in Interfaces
  BY <1>1 DEF Side
<1>2. CASE ref \notin Interfaces
  <2>1. ref \in ZoneNames /\ t.zones[ref] # None /\ i \in t.zones[ref].interfaces
    BY <1>2 DEF Side
  <2>2. t.zones[ref] \in ZoneSpec
    BY <2>1 DEF Trees
  <2>3. i \in Interfaces
    BY <2>1, <2>2 DEF ZoneSpec
  <2>4. ref \in ZonesOf(t, i)
    BY <2>1 DEF ZonesOf
  <2> QED BY <1>2, <2>1, <2>3, <2>4, ZoneOfMember
<1> QED BY <1>1, <1>2

\* Of a tree without errors one RuleSet at most governs a pair of Interfaces:
\* DM-37 makes the Zone of an Interface unique, DM-38 forbids a RuleSet on the
\* Interface beside one on its Zone, DM-07 two on the same sides.
LEMMA GoverningIsUnique ==
  ASSUME NEW t \in Trees, ZonesDisjoint(t), SidesValid(t),
         NEW in \in Interfaces, NEW out \in Interfaces,
         NEW n \in SetNames, NEW k \in SetNames,
         Governs(t, n, in, out), Governs(t, k, in, out)
  PROVE  n = k /\ in # out
<1> USE FirewallAssumption
<1> DEFINE s == t.sets[n]
           u == t.sets[k]
<1>1. n \in Present(t) /\ k \in Present(t)
  BY DEF Governs
<1>2. /\ s.from \in Interfaces \cup ZoneNames /\ s.to \in Interfaces \cup ZoneNames
      /\ u.from \in Interfaces \cup ZoneNames /\ u.to \in Interfaces \cup ZoneNames
  BY <1>1, SidesType
<1>3. /\ in \in Side(t, s.from) /\ out \in Side(t, s.to)
      /\ in \in Side(t, u.from) /\ out \in Side(t, u.to)
  BY DEF Governs
<1>4. /\ s.from # s.to /\ ZoneMembers(t, s)
      /\ u.from # u.to /\ ZoneMembers(t, u)
      /\ u.from = s.from /\ u.to = s.to => k = n
  BY <1>1 DEF SidesValid
<1> HIDE DEF s, u
<1>5. \/ s.from \in Interfaces /\ s.from = in
      \/ s.from \in ZoneNames /\ s.from \notin Interfaces /\ ZoneOf(t, in) = s.from
  BY <1>2, <1>3, SideContains
<1>6. \/ u.from \in Interfaces /\ u.from = in
      \/ u.from \in ZoneNames /\ u.from \notin Interfaces /\ ZoneOf(t, in) = u.from
  BY <1>2, <1>3, SideContains
<1>7. \/ s.to \in Interfaces /\ s.to = out
      \/ s.to \in ZoneNames /\ s.to \notin Interfaces /\ ZoneOf(t, out) = s.to
  BY <1>2, <1>3, SideContains
<1>8. \/ u.to \in Interfaces /\ u.to = out
      \/ u.to \in ZoneNames /\ u.to \notin Interfaces /\ ZoneOf(t, out) = u.to
  BY <1>2, <1>3, SideContains
<1>9. in # out
  BY <1>4, <1>5, <1>7 DEF ZoneMembers
<1>10. s.from = u.from /\ s.to = u.to
  BY <1>4, <1>5, <1>6, <1>7, <1>8 DEF ZoneMembers
<1> QED BY <1>4, <1>9, <1>10

\* At most one RuleSet applies to a pair of Interfaces, whatever was edited.
THEOREM GoverningAlwaysUnique == Spec => []OneRuleSetGoverns
<1>1. Sound => OneRuleSetGoverns
  BY GoverningIsUnique DEF Sound, TypeOK, Valid, OneRuleSetGoverns
<1> QED BY <1>1, SoundAlways, PTL

-----------------------------------------------------------------------------
(* The Validator's intervals contain what the classifier matches *)

\* And so for a list of objects ...
LEMMA AddressesInside ==
  ASSUME NEW t \in Trees, NEW refs, NEW ip \in Ip, InAddresses(t, refs, ip),
         ~AddrSet(t, refs).any
  PROVE  \E v \in AddrSet(t, refs).ivs :
           v.lo \in Int /\ v.hi \in Int /\ v.lo <= ip /\ ip <= v.hi
<1>1. refs # AnyObject
  BY DEF AddrSet
<1>2. PICK a \in ExpandAddresses(refs) : addrContains(t.addresses[a].spec, ip)
  BY <1>1 DEF InAddresses
<1>3. a \in AddressNames
  <2>1. PICK ref \in DOMAIN Expansion : a \in Expansion[ref]
    BY <1>2 DEF ExpandAddresses
  <2>2. \A r \in DOMAIN Expansion : Expansion[r] \subseteq AddressNames
    BY DEF Expansion
  <2> QED BY <2>1, <2>2
<1>4. t.addresses[a].spec \in AddressForms
  BY <1>3 DEF Trees, AddressSpec
<1>5. PICK v \in Span(t.addresses[a].spec) :
        v.lo \in Int /\ v.hi \in Int /\ v.lo <= ip /\ ip <= v.hi
  BY <1>2, <1>4, SpanContains
<1>6. v \in AddrSet(t, refs).ivs
  BY <1>2, <1>5 DEF AddrSet
<1> QED BY <1>5, <1>6

\* ... and for the ports of a list of services.
LEMMA PortsInside ==
  ASSUME NEW refs, NEW proto \in Protocols, NEW port \in 0..PortTop,
         InServices(refs, proto, port), ~SvcSet(refs).any
  PROVE  \E v \in SvcSet(refs).ports[proto] :
           v.lo \in Int /\ v.hi \in Int /\ v.lo <= port /\ port <= v.hi
<1> USE FirewallAssumption
<1>1. refs # AnyObject
  BY DEF SvcSet
<1>2. PICK e \in Entries(refs) :
        e.proto = proto /\ (e.port = None \/ (e.port.lo <= port /\ port <= e.port.hi))
  BY <1>1 DEF InServices
<1>3. e \in ServiceEntry
  BY <1>2 DEF Entries
<1>4. PortSpan(e) \in SvcSet(refs).ports[proto]
  BY <1>2 DEF SvcSet
<1>5. CASE e.port = None
  BY <1>4, <1>5 DEF PortSpan, Interval
<1>6. CASE e.port # None
  <2>1. e.port.lo \in Int /\ e.port.hi \in Int
    BY <1>3, <1>6 DEF ServiceEntry
  <2> QED BY <1>2, <1>4, <1>6, <2>1 DEF PortSpan
<1> QED BY <1>5, <1>6

-----------------------------------------------------------------------------
(* Translation *)

\* What the classifier takes for a candidate is an enabled dnat rule of a
\* RuleSet that the flow enters, and it matches.
LEMMA CandidateProperties ==
  ASSUME NEW t \in Trees, NEW f \in Flows, NEW d \in Candidates(t, f)
  PROVE  /\ d \in Dnats(t) /\ d = <<d[1], d[2]>>
         /\ d[1] \in Present(t) /\ d[2] \in DOMAIN t.sets[d[1]].rules
         /\ RuleAt(t, d) \in Policy
         /\ f.in \in Incoming(t, d)
         /\ IsDnat(RuleAt(t, d))
         /\ Matches(t, RuleAt(t, d), f)
<1>1. /\ d \in Positions(t) /\ f.in \in Incoming(t, d)
      /\ IsDnat(RuleAt(t, d)) /\ Matches(t, RuleAt(t, d), f)
  BY DEF Candidates
<1>2. PICK n \in Present(t) : d \in {n} \X DOMAIN t.sets[n].rules
  BY <1>1 DEF Positions
<1>3. d = <<d[1], d[2]>> /\ d[1] \in Present(t) /\ d[2] \in DOMAIN t.sets[d[1]].rules
  BY <1>2
<1>4. RuleAt(t, d) \in Policy
  BY <1>3, RulesType DEF RuleAt
<1>5. RuleAt(t, d).enabled
  BY <1>1 DEF Matches
<1> QED BY <1>1, <1>3, <1>4, <1>5 DEF Dnats

\* A flow has the fields of one.
LEMMA FlowType ==
  ASSUME NEW f \in Flows
  PROVE  /\ f.in \in Interfaces /\ f.src \in Ip /\ f.dst \in Ip /\ f.dst \in Int
         /\ f.proto \in Protocols /\ f.port \in 0..PortTop /\ f.port \in Int
BY FirewallAssumption DEF Ip

\* The destinations of two candidates overlap, for both contain that of the flow.
LEMMA DestinationsOverlap ==
  ASSUME NEW t \in Trees, NEW f \in Flows,
         NEW d \in Candidates(t, f), NEW e \in Candidates(t, f)
  PROVE  AddrOverlaps(Dst(t, d), Dst(t, e))
<1> DEFINE a == Dst(t, d)
           b == Dst(t, e)
           Hit(s) == \E v \in s.ivs :
                       v.lo \in Int /\ v.hi \in Int /\ v.lo <= f.dst /\ f.dst <= v.hi
<1>1. a.any \/ Hit(a)
  BY CandidateProperties, AddressesInside, FlowType DEF Matches, Dst
<1>2. b.any \/ Hit(b)
  BY CandidateProperties, AddressesInside, FlowType DEF Matches, Dst
<1>3. Hit(a) => a.ivs # {}
  OBVIOUS
<1>4. Hit(b) => b.ivs # {}
  OBVIOUS
<1>5. Hit(a) /\ Hit(b) => Overlaps(a.ivs, b.ivs)
  BY CommonPoint, FlowType
<1> HIDE DEF a, b, Hit
<1>6. AddrOverlaps(a, b)
  BY <1>1, <1>2, <1>3, <1>4, <1>5 DEF AddrOverlaps
<1> QED BY <1>6 DEF a, b

\* And so do their services.
LEMMA ServicesOverlap ==
  ASSUME NEW t \in Trees, NEW f \in Flows,
         NEW d \in Candidates(t, f), NEW e \in Candidates(t, f)
  PROVE  SvcOverlaps(Svc(t, d), Svc(t, e))
<1> DEFINE a == Svc(t, d)
           b == Svc(t, e)
           Hit(s) == \E v \in s.ports[f.proto] :
                       v.lo \in Int /\ v.hi \in Int /\ v.lo <= f.port /\ f.port <= v.hi
<1>1. a.any \/ Hit(a)
  BY CandidateProperties, PortsInside, FlowType DEF Matches, Svc
<1>2. b.any \/ Hit(b)
  BY CandidateProperties, PortsInside, FlowType DEF Matches, Svc
<1>3. Hit(a) /\ Hit(b) => Overlaps(a.ports[f.proto], b.ports[f.proto])
  BY CommonPoint, FlowType
<1> HIDE DEF a, b, Hit
<1>4. SvcOverlaps(a, b)
  BY <1>1, <1>2, <1>3, FlowType DEF SvcOverlaps
<1> QED BY <1>4 DEF a, b

\* Two dnat rules that match the same new flow would be an error of the tree.
LEMMA UniqueTranslation ==
  ASSUME NEW t \in Trees, DnatsValid(t), NEW f \in Flows,
         NEW d \in Candidates(t, f), NEW e \in Candidates(t, f)
  PROVE  d = e
<1>1. /\ d \in Dnats(t) /\ e \in Dnats(t)
      /\ f.in \in Incoming(t, d) \cap Incoming(t, e)
  BY CandidateProperties
<1>2. DnatOverlap(t, d, e)
  BY <1>1, DestinationsOverlap, ServicesOverlap DEF DnatOverlap
<1> QED BY <1>1, <1>2 DEF DnatsValid

\* So the first candidate is the one there is.
LEMMA FirstIsOnly ==
  ASSUME NEW t \in Trees, DnatsValid(t), NEW f \in Flows, NEW d \in Candidates(t, f)
  PROVE  First(Candidates(t, f)) = d
<1>1. \A e \in Candidates(t, f) : e = d
  BY UniqueTranslation
<1>2. d[2] \in Nat
  BY CandidateProperties, RulesType
<1> QED BY <1>1, <1>2 DEF First

\* The translation of a packet is never ambiguous, whatever was edited.
THEOREM TranslationNeverAmbiguous == Spec => []OneTranslation
<1>1. Sound => OneTranslation
  BY UniqueTranslation DEF Sound, TypeOK, Valid, OneTranslation
<1> QED BY <1>1, SoundAlways, PTL

\* No dnat rule takes the connections to the management port that enter through
\* its Interface, whatever was edited.
THEOREM ManagementStaysLocal == Spec => []ManagementPortLocal
<1>1. ASSUME Sound, NEW f \in Flows, tree.interfaces[f.in].https,
             NEW p \in tree.interfaces[f.in].own, f.dst = p.ip,
             f.proto = "tcp", f.port = HTTPSPort, NEW d \in Candidates(tree, f)
      PROVE  FALSE
  <2>1. tree \in Trees /\ DnatsValid(tree)
    BY <1>1 DEF Sound, TypeOK, Valid
  <2>2. d \in Dnats(tree) /\ f.in \in Incoming(tree, d) /\ Matches(tree, RuleAt(tree, d), f)
    BY <2>1, CandidateProperties
  <2> DEFINE At(x) == {Interval(x, x)}
             Hit(S, x) == \E v \in S :
                            v.lo \in Int /\ v.hi \in Int /\ v.lo <= x /\ x <= v.hi
  <2>3. \A x \in Int : Hit(At(x), x)
    BY DEF Interval
  <2>4. SvcHas(Svc(tree, d), "tcp", HTTPSPort)
    <3>1. Svc(tree, d).any \/ Hit(Svc(tree, d).ports["tcp"], HTTPSPort)
      BY <1>1, <2>2, PortsInside, FlowType DEF Matches, Svc
    <3>2. Hit(Svc(tree, d).ports["tcp"], HTTPSPort)
            => Overlaps(Svc(tree, d).ports["tcp"], At(HTTPSPort))
      BY <1>1, <2>3, CommonPoint, FlowType
    <3> QED BY <3>1, <3>2 DEF SvcHas
  <2>5. Dst(tree, d).any \/ Overlaps(Dst(tree, d).ivs, OwnIps(tree, f.in))
    <3>1. Dst(tree, d).any \/ Hit(Dst(tree, d).ivs, f.dst)
      BY <2>1, <2>2, AddressesInside, FlowType DEF Matches, Dst
    <3>2. Hit(OwnIps(tree, f.in), f.dst)
      <4>1. Interval(f.dst, f.dst) \in OwnIps(tree, f.in)
        BY <1>1 DEF OwnIps
      <4> QED BY <4>1, FlowType DEF Interval
    <3> QED BY <3>1, <3>2, CommonPoint, FlowType
  <2>6. HitsManagementPort(tree, d)
    BY <1>1, <2>2, <2>4, <2>5 DEF HitsManagementPort
  <2> QED BY <2>1, <2>2, <2>6 DEF DnatsValid
<1>2. Sound => ManagementPortLocal
  BY <1>1 DEF ManagementPortLocal
<1> QED BY <1>2, SoundAlways, PTL

-----------------------------------------------------------------------------
(* First match *)

\* Of a set of positions there is a first one.
LEMMA LeastProperties ==
  ASSUME NEW S, S \subseteq Nat, S # {}
  PROVE  Least(S) \in S /\ \A m \in S : Least(S) <= m
<1>1. \E n \in S : \A m \in S : n <= m
  BY SmallestNumber
<1> QED BY <1>1 DEF Least

\* The RuleSet the classifier finds for a pair does govern it.
LEMMA GoverningProperties ==
  ASSUME NEW t \in Trees, NEW in, NEW out
  PROVE  /\ Governing(t, in, out) # None =>
              /\ Governing(t, in, out) \in SetNames
              /\ Governs(t, Governing(t, in, out), in, out)
         /\ Governing(t, in, out) = None => \A n \in SetNames : ~Governs(t, n, in, out)
<1> DEFINE S == {n \in SetNames : Governs(t, n, in, out)}
<1>1. CASE S = {}
  BY <1>1 DEF Governing
<1>2. CASE S # {}
  <2>1. Governing(t, in, out) = Least(S)
    BY <1>2 DEF Governing
  <2>2. Least(S) \in S
    BY <1>2, LeastProperties, FirewallAssumption
  <2>3. Least(S) \in SetNames /\ Governs(t, Least(S), in, out)
    BY <2>2
  <2> QED BY <2>1, <2>3, FirewallAssumption
<1> QED BY <1>1, <1>2

\* What is governed leaves through another Interface.
LEMMA GovernedLeaves ==
  ASSUME NEW t \in Trees, ZonesDisjoint(t), SidesValid(t), NEW in \in Interfaces, NEW out,
         NEW n \in SetNames, Governs(t, n, in, out)
  PROVE  out # in
<1>1. n \in Present(t) /\ out \in Side(t, t.sets[n].to)
  BY DEF Governs
<1>2. out \in Interfaces
  BY <1>1, SidesType, SideContains
<1> QED BY <1>2, GoverningIsUnique

\* Only a rule that accepts translates, and only when it is the first of its
\* RuleSet that matches.
LEMMA TranslatedPassed ==
  ASSUME NEW t \in Trees, ZonesDisjoint(t), SidesValid(t), RulesValid(t),
         NEW f \in Flows, NEW d \in Candidates(t, f),
         Translated(t, f, d).action = "accept"
  PROVE  Passed(t, f, Translated(t, f, d))
<1> DEFINE out == Route(t, FirstIP(t.addresses[RuleAt(t, d).nat.to].spec))
           rules == t.sets[d[1]].rules
           K == {k \in DOMAIN rules : Matches(t, rules[k], f)}
           i == Least(K)
           v == Translated(t, f, d)
<1>1. /\ d[1] \in Present(t) /\ d[1] \in SetNames /\ d[2] \in DOMAIN rules
      /\ RuleAt(t, d) = rules[d[2]]
      /\ RuleAt(t, d) \in Policy /\ IsDnat(RuleAt(t, d)) /\ Matches(t, RuleAt(t, d), f)
  BY CandidateProperties, RulesType DEF RuleAt
<1>2. DOMAIN rules = 1..Len(rules) /\ Len(rules) \in Nat
  BY <1>1, RulesType
<1>3. i \in K /\ \A m \in K : i <= m
  <2>1. K \subseteq Nat /\ K # {}
    BY <1>1, <1>2
  <2> HIDE DEF K
  <2> QED BY <2>1, LeastProperties
<1>4. /\ Governing(t, f.in, out) = d[1]
      /\ rules[i].name = RuleAt(t, d).name
      /\ v = Verdict("accept", "policy", out, d[1], i)
  BY DEF Translated, Verdict
<1> HIDE DEF out, v
<1>5. i = d[2]
  BY <1>1, <1>3, <1>4 DEF RulesValid
<1>6. RuleAt(t, d).action = "accept"
  BY <1>1 DEF Policy, IsDnat, NoNat
<1>7. d[1] # None
  BY <1>1, FirewallAssumption
<1>8. Governs(t, d[1], f.in, out)
  BY <1>4, <1>7, GoverningProperties
<1>9. out # f.in
  BY <1>1, <1>8, GovernedLeaves, FlowType
<1>10. \A k \in 1..(i - 1) : ~Matches(t, rules[k], f)
  <2> SUFFICES ASSUME NEW k \in 1..(i - 1), Matches(t, rules[k], f) PROVE FALSE
    OBVIOUS
  <2>1. i \in 1..Len(rules)
    BY <1>2, <1>3
  <2> HIDE DEF i
  <2>2. k \in K /\ k < i
    BY <1>2, <2>1
  <2> HIDE DEF K
  <2> QED BY <1>3, <2>1, <2>2
<1>11. Matches(t, rules[i], f) /\ rules[i].action = "accept"
  BY <1>1, <1>3, <1>5, <1>6
<1>12. v.out = out /\ v.set = d[1] /\ v.policy = i
  BY <1>4 DEF Verdict
<1>13. Passed(t, f, v)
  <2> HIDE DEF i
  <2> QED BY <1>7, <1>8, <1>9, <1>10, <1>11, <1>12 DEF Passed
<1> QED BY <1>13 DEF v

\* A dnat rule translates to an Address: the schema requires one.
LEMMA DnatTarget ==
  ASSUME NEW r \in Policy, IsDnat(r)
  PROVE  r.nat.to \in AddressNames
<1>1. r.nat \in NatSpec /\ r.nat.type = "dnat"
  BY DEF Policy, IsDnat
<1>2. r.nat # NoNat
  BY <1>1 DEF NoNat
<1>3. r.nat \notin [type : {"snat"}, to : AddressNames \cup {None}, svc : {None}]
  BY <1>1
<1>4. r.nat \in [type : {"dnat"}, to : AddressNames, svc : DOMAIN Services \cup {None}]
  BY <1>1, <1>2, <1>3 DEF NatSpec
<1> QED BY <1>4

\* A subnet and a range have a first address.
LEMMA FirstIPType ==
  ASSUME NEW a \in AddressForms, a.form \in {"range", "subnet"}
  PROVE  FirstIP(a) \in Ip
<1>1. CASE a.form = "subnet"
  <2>1. a.ip \in Ip
    BY <1>1 DEF AddressForms, FQDN, MAC
  <2> QED BY <1>1, <2>1 DEF FirstIP
<1>2. CASE a.form = "range"
  <2>1. a.start \in Ip
    BY <1>2 DEF AddressForms, FQDN, MAC
  <2> QED BY <1>2, <2>1 DEF FirstIP
<1> QED BY <1>1, <1>2

\* The rest passes by the first rule of its RuleSet that matches and translates
\* nothing, or inside a Zone; a dnat rule never matches it, or there would be a
\* candidate: its RuleSet governs, so the flow enters it.
LEMMA ForwardedPassed ==
  ASSUME NEW t \in Trees, RulesValid(t),
         NEW f \in Flows, Candidates(t, f) = {},
         Forwarded(t, f).action = "accept"
  PROVE  Passed(t, f, Forwarded(t, f))
<1> DEFINE out == Route(t, f.dst)
           n == Governing(t, f.in, out)
           rules == t.sets[n].rules
           hits == {k \in DOMAIN rules : ~IsDnat(rules[k]) /\ Matches(t, rules[k], f)}
           v == Forwarded(t, f)
<1>1. ~(out \in {None, f.in})
  BY DEF Forwarded, Verdict
<1> USE FlowType
<1>2. CASE n = None
  <2>1. v = Verdict("accept", "intra-zone", out, None, None) /\ IntraZone(t, f.in, out)
    BY <1>1, <1>2 DEF Forwarded, Verdict
  <2> HIDE DEF v, out
  <2>2. \A m \in SetNames : ~Governs(t, m, f.in, out)
    BY <1>2, GoverningProperties
  <2> DEFINE z == ZoneOf(t, f.in)
  <2>3. z # None /\ z = ZoneOf(t, out) /\ t.zones[z].intra = "allow"
    BY <2>1 DEF IntraZone
  <2>4. \A i : ZoneOf(t, i) # None => ZoneOf(t, i) \in ZonesOf(t, i)
    BY DEF ZoneOf
  <2>5. /\ z \in ZoneNames /\ t.zones[z] # None
        /\ f.in \in t.zones[z].interfaces /\ out \in t.zones[z].interfaces
    BY <2>3, <2>4 DEF ZonesOf
  <2> HIDE DEF n, z
  <2>6. v.out = out /\ v.set = None
    BY <2>1 DEF Verdict
  <2>7. Passed(t, f, v)
    BY <1>1, <2>2, <2>3, <2>5, <2>6 DEF Passed
  <2> QED BY <2>7 DEF v
<1>3. CASE n # None
  <2>1. /\ hits # {}
        /\ v = Verdict(rules[Least(hits)].action, "policy", out, n, Least(hits))
    BY <1>1, <1>3 DEF Forwarded, Verdict
  <2> DEFINE i == Least(hits)
  <2>2. n \in SetNames /\ Governs(t, n, f.in, out)
    BY <1>3, GoverningProperties
  <2>3. n \in Present(t) /\ DOMAIN rules = 1..Len(rules) /\ Len(rules) \in Nat
    BY <2>2, RulesType DEF Governs
  <2>4. i \in hits /\ \A m \in hits : i <= m
    <3>1. hits \subseteq Nat
      BY <2>3
    <3> HIDE DEF hits
    <3> QED BY <2>1, <3>1, LeastProperties
  <2>5. v.out = out /\ v.set = n /\ v.policy = i /\ v.action = rules[i].action
    <3> HIDE DEF v, i, n, out, rules
    <3> QED BY <2>1 DEF Verdict, i
  <2>6. ASSUME NEW k \in DOMAIN rules, IsDnat(rules[k]), Matches(t, rules[k], f)
        PROVE  FALSE
    <3> DEFINE d == <<n, k>>
    <3>1. d \in Positions(t) /\ RuleAt(t, d) = rules[k]
      BY <2>3 DEF Positions, RuleAt
    <3>2. f.in \in Incoming(t, d)
      BY <2>2 DEF Governs, Incoming
    <3>3. NatValid(t, rules[k], t.sets[n].to) /\ rules[k] \in Policy
      BY <2>3, RulesType DEF RulesValid, RuleValid
    <3>4. rules[k].nat.to \in AddressNames
      BY <2>6, <3>3, DnatTarget
    <3> DEFINE a == t.addresses[rules[k].nat.to].spec
    <3>5. a \in AddressForms
      BY <3>4 DEF Trees, AddressSpec
    <3>6. a.form \in {"range", "subnet"}
      BY <2>6, <3>3 DEF NatValid, SingleHostOrRange
    <3>7. FirstIP(a) \in Ip
      BY <3>5, <3>6, FirstIPType
    <3>8. d \in Candidates(t, f)
      BY <2>6, <3>1, <3>2, <3>7, FirewallAssumption DEF Candidates
    <3> QED BY <3>8
  <2>7. \A k \in 1..(i - 1) : ~Matches(t, rules[k], f)
    <3> SUFFICES ASSUME NEW k \in 1..(i - 1), Matches(t, rules[k], f) PROVE FALSE
      OBVIOUS
    <3>1. i \in 1..Len(rules)
      BY <2>3, <2>4
    <3> HIDE DEF i
    <3>2. k \in DOMAIN rules /\ k < i
      BY <2>3, <3>1
    <3>3. k \in hits
      BY <2>6, <3>2
    <3> HIDE DEF hits
    <3> QED BY <2>4, <3>1, <3>2, <3>3
  <2>8. Matches(t, rules[i], f)
    BY <2>4
  <2> HIDE DEF v, out, i
  <2>9. Passed(t, f, v)
    <3>1. v.set # None /\ v.out # f.in
      BY <1>1, <1>3, <2>5
    <3>2. rules[i].action = "accept"
      BY <2>5 DEF v
    <3> HIDE DEF n
    <3> QED BY <2>2, <2>5, <2>7, <2>8, <3>1, <3>2 DEF Passed
  <2> QED BY <2>9 DEF v
<1> QED BY <1>2, <1>3

\* Nothing passes by accident, whatever was edited.
THEOREM NothingPassesByAccident == Spec => []AcceptedByFirstMatch
<1>1. ASSUME Sound, NEW f \in Flows, Classify(tree, f).action = "accept"
      PROVE  Passed(tree, f, Classify(tree, f))
  <2>1. /\ tree \in Trees /\ ZonesDisjoint(tree) /\ SidesValid(tree)
        /\ RulesValid(tree) /\ DnatsValid(tree)
    BY <1>1 DEF Sound, TypeOK, Valid
  <2> DEFINE S == Candidates(tree, f)
  <2>2. CASE S = {}
    BY <1>1, <2>1, <2>2, ForwardedPassed DEF Classify
  <2>3. CASE S # {}
    <3>1. PICK d \in S : TRUE
      BY <2>3
    <3>2. First(S) = d
      BY <2>1, FirstIsOnly
    <3>3. Classify(tree, f) = Translated(tree, f, d)
      BY <2>3, <3>2 DEF Classify
    <3> HIDE DEF S
    <3> QED BY <1>1, <2>1, <3>1, <3>3, TranslatedPassed DEF S
  <2> QED BY <2>2, <2>3
<1>2. Sound => AcceptedByFirstMatch
  BY <1>1 DEF AcceptedByFirstMatch
<1> QED BY <1>2, SoundAlways, PTL

-----------------------------------------------------------------------------
(* Routes *)

\* A destination is in one subnet of an enabled Interface at most.
LEMMA OneLinkLeads ==
  ASSUME NEW t \in Trees, SubnetsDisjoint(t), NEW dst \in Ip,
         NEW l \in Links(t), NEW m \in Links(t), Leads(l, dst), Leads(m, dst)
  PROVE  l = m
<1>1. /\ Subnet(l.ip, l.bits) \in AddressForms /\ Subnet(m.ip, m.bits) \in AddressForms
      /\ dst \in Int
  <2>1. \A i \in Interfaces, p \in Prefix :
          p \in t.interfaces[i].own => p.ip \in Ip /\ p.bits \in 0..Width
    BY DEF Prefix
  <2>2. \A i \in Interfaces : t.interfaces[i].own \subseteq Prefix
    BY DEF Trees, InterfaceSpec
  <2>3. l.ip \in Ip /\ l.bits \in 0..Width /\ m.ip \in Ip /\ m.bits \in 0..Width
    BY <2>1, <2>2 DEF Links
  <2> QED BY <2>3 DEF Subnet, AddressForms, Ip
<1>2. Overlaps(Span(Subnet(l.ip, l.bits)), Span(Subnet(m.ip, m.bits)))
  BY <1>1, SpanContains, CommonPoint DEF Leads
<1> QED BY <1>2 DEF SubnetsDisjoint

\* The links of a configuration are finitely many.
LEMMA LinksFinite ==
  ASSUME NEW t \in Trees
  PROVE  /\ IsFiniteSet(ActiveLinks(t)) /\ IsFiniteSet(Routes(t))
         /\ \A l \in ActiveLinks(t) : l \in Links(t) /\ l.bits \in Nat
<1> DEFINE Keys == (Interfaces \X Ip) \X (0..Width)
           rec == [k \in Keys |-> [iface |-> k[1][1], ip |-> k[1][2], bits |-> k[2]]]
           All == [iface : Interfaces, ip : Ip, bits : 0..Width]
<1>1. IsFiniteSet(Keys)
  <2>1. Top \in Int
    <3>1. 2^Width \in Nat
      BY PowersOfTwo, WidthAssumption, SMT DEF Block
    <3> QED BY <3>1 DEF Top
  <2>2. IsFiniteSet(Ip) /\ IsFiniteSet(0..Width)
    BY <2>1, FS_Interval, WidthAssumption DEF Ip
  <2>3. IsFiniteSet(Interfaces \X Ip)
    BY <2>2, FS_Product, FirewallAssumption
  <2> QED BY <2>2, <2>3, FS_Product
<1>2. rec \in Surjection(Keys, All)
  <2>1. rec \in [Keys -> All]
    OBVIOUS
  <2>2. ASSUME NEW l \in All
        PROVE  \E k \in Keys : rec[k] = l
    <3>1. <<<<l.iface, l.ip>>, l.bits>> \in Keys
      OBVIOUS
    <3>2. rec[<<<<l.iface, l.ip>>, l.bits>>] = l
      BY <3>1
    <3> QED BY <3>1, <3>2
  <2> HIDE DEF rec, Keys, All
  <2> QED BY <2>1, <2>2 DEF Surjection
<1>3. IsFiniteSet(All)
  BY <1>1, <1>2, FS_Surjection
<1>4. \A i \in Interfaces : t.interfaces[i].own \subseteq Prefix
  BY DEF Trees, InterfaceSpec
<1>5. ActiveLinks(t) \subseteq All
  BY <1>4 DEF ActiveLinks, Links, Prefix
<1>6. Routes(t) \subseteq RouteNames
  BY DEF Routes
<1>7. IsFiniteSet(ActiveLinks(t)) /\ IsFiniteSet(Routes(t))
  BY <1>3, <1>5, <1>6, FS_Subset, FirewallAssumption
<1> QED BY <1>5, <1>7, WidthAssumption DEF ActiveLinks

\* An order of a finite set names each of its elements.
LEMMA Enumerates ==
  ASSUME NEW S, IsFiniteSet(S), NEW f \in SetToSeqs(S)
  PROVE  /\ DOMAIN f \subseteq Nat
         /\ \A i \in DOMAIN f : f[i] \in S
         /\ \A x \in S : \E i \in DOMAIN f : f[i] = x
         /\ SetToSeq(S) \in SetToSeqs(S)
<1> DEFINE D == 1..Cardinality(S)
<1>1. f \in [D -> S] /\ IsInjective(f)
  BY DEF SetToSeqs, IsInjective
<1>2. IsFiniteSet(D) /\ Cardinality(D) = Cardinality(S)
  BY FS_Interval, FS_CardinalityType
<1>3. f \in Surjection(D, S)
  BY <1>1, <1>2, FS_Injection DEF Injection
<1>4. SetToSeq(S) \in [D -> S] /\ IsInjective(SetToSeq(S))
  BY <1>1 DEF SetToSeq
<1> QED BY <1>1, <1>3, <1>4 DEF SetToSeqs, IsInjective, Surjection

\* What the walk over the Interfaces finds is the one subnet that holds the destination.
LEMMA DirectIs ==
  ASSUME NEW t \in Trees, SubnetsDisjoint(t), NEW dst \in Ip, NEW h \in SetToSeqs(ActiveLinks(t))
  PROVE  /\ (\A l \in ActiveLinks(t) : ~Leads(l, dst)) => Direct(h, dst) = [iface |-> None, bits |-> -1]
         /\ \A l \in ActiveLinks(t) : Leads(l, dst) => Direct(h, dst) = l
<1> DEFINE L == ActiveLinks(t)
           none == [iface |-> None, bits |-> -1]
           S == {i \in DOMAIN h : Leads(h[i], dst)}
           first == CHOOSE i \in S : \A j \in S :
                      \/ h[i].bits > h[j].bits
                      \/ h[i].bits = h[j].bits /\ i <= j
<1>1. /\ DOMAIN h \subseteq Nat /\ \A i \in DOMAIN h : h[i] \in L
      /\ \A l \in L : \E i \in DOMAIN h : h[i] = l
  BY LinksFinite, Enumerates
<1>2. CASE S = {}
  <2>1. Direct(h, dst) = none
    BY <1>2 DEF Direct
  <2> QED BY <1>1, <1>2, <2>1
<1>3. CASE S # {}
  <2>1. \A i, j \in S : h[i] = h[j]
    BY <1>1, LinksFinite, OneLinkLeads
  <2>2. Least(S) \in S /\ \A j \in S : Least(S) <= j
    BY <1>1, <1>3, LeastProperties
  <2>3. first \in S
    BY <2>1, <2>2
  <2>4. Direct(h, dst) = h[first]
    BY <1>3 DEF Direct
  <2> HIDE DEF first
  <2>5. \A i \in S : Direct(h, dst) = h[i]
    BY <2>1, <2>3, <2>4
  <2> QED BY <1>1, <1>3, <2>5
<1> QED BY <1>2, <1>3

\* It depends on no order.
LEMMA DirectUnambiguous ==
  ASSUME NEW t \in Trees, SubnetsDisjoint(t), NEW dst \in Ip,
         NEW f \in SetToSeqs(ActiveLinks(t)), NEW g \in SetToSeqs(ActiveLinks(t))
  PROVE  Direct(f, dst) = Direct(g, dst) /\ Direct(f, dst).bits \in Int
<1>1. CASE \A l \in ActiveLinks(t) : ~Leads(l, dst)
  BY <1>1, DirectIs
<1>2. CASE \E l \in ActiveLinks(t) : Leads(l, dst)
  BY <1>2, DirectIs, LinksFinite
<1> QED BY <1>1, <1>2

\* Position i is the first with the least three numbers, in lexicographic order.
FirstOf(S, a, b, c, i) ==
  \A j \in S :
    \/ a[i] < a[j]
    \/ a[i] = a[j] /\ b[i] < b[j]
    \/ a[i] = a[j] /\ b[i] = b[j] /\ c[i] < c[j]
    \/ a[i] = a[j] /\ b[i] = b[j] /\ c[i] = c[j] /\ i <= j

\* Of positions with three numbers each there is a first least one.
LEMMA LeastOfThree ==
  ASSUME NEW S, S \subseteq Nat, S # {},
         NEW a \in [S -> Nat], NEW b \in [S -> Nat], NEW c \in [S -> Nat]
  PROVE  \E i \in S : FirstOf(S, a, b, c, i)
<1>1. PICK k \in S : \A j \in S : a[k] <= a[j]
  <2> DEFINE V == {a[i] : i \in S}
  <2>1. V \subseteq Nat /\ V # {}
    OBVIOUS
  <2>2. Least(V) \in V /\ \A m \in V : Least(V) <= m
    BY <2>1, LeastProperties
  <2> QED BY <2>2
<1>2. PICK l \in S : a[l] = a[k] /\ \A j \in S : a[j] = a[k] => b[l] <= b[j]
  <2> DEFINE V == {b[i] : i \in {j \in S : a[j] = a[k]}}
  <2>1. V \subseteq Nat /\ V # {}
    OBVIOUS
  <2>2. Least(V) \in V /\ \A m \in V : Least(V) <= m
    BY <2>1, LeastProperties
  <2> QED BY <2>2
<1>3. PICK m \in S : /\ a[m] = a[k] /\ b[m] = b[l]
                     /\ \A j \in S : a[j] = a[k] /\ b[j] = b[l] => c[m] <= c[j]
  <2> DEFINE V == {c[i] : i \in {j \in S : a[j] = a[k] /\ b[j] = b[l]}}
  <2>1. V \subseteq Nat /\ V # {}
    BY <1>2
  <2>2. Least(V) \in V /\ \A n \in V : Least(V) <= n
    BY <2>1, LeastProperties
  <2> QED BY <2>2
<1>4. PICK i \in S : /\ a[i] = a[k] /\ b[i] = b[l] /\ c[i] = c[m]
                     /\ \A j \in S : a[j] = a[k] /\ b[j] = b[l] /\ c[j] = c[m] => i <= j
  <2> DEFINE V == {j \in S : a[j] = a[k] /\ b[j] = b[l] /\ c[j] = c[m]}
  <2>1. V \subseteq Nat /\ V # {}
    BY <1>3
  <2>2. Least(V) \in V /\ \A n \in V : Least(V) <= n
    BY <2>1, LeastProperties
  <2> QED BY <2>2
<1>5. ASSUME NEW j \in S
      PROVE  \/ a[i] < a[j]
             \/ a[i] = a[j] /\ b[i] < b[j]
             \/ a[i] = a[j] /\ b[i] = b[j] /\ c[i] < c[j]
             \/ a[i] = a[j] /\ b[i] = b[j] /\ c[i] = c[j] /\ i <= j
  <2>1. /\ a[i] \in Nat /\ a[j] \in Nat /\ b[i] \in Nat /\ b[j] \in Nat
        /\ c[i] \in Nat /\ c[j] \in Nat
    OBVIOUS
  <2>2. a[i] = a[j] \/ a[i] < a[j]
    BY <1>1, <1>4, <2>1
  <2>3. a[i] = a[j] => b[i] = b[j] \/ b[i] < b[j]
    BY <1>2, <1>4, <2>1
  <2>4. a[i] = a[j] /\ b[i] = b[j] => c[i] = c[j] \/ c[i] < c[j]
    BY <1>3, <1>4, <2>1
  <2>5. a[i] = a[j] /\ b[i] = b[j] /\ c[i] = c[j] => i <= j
    BY <1>4
  <2> QED BY <2>2, <2>3, <2>4, <2>5
<1> QED BY <1>5 DEF FirstOf

\* Of routes in some order there is a first best one, and none beats it.
LEMMA FirstBest ==
  ASSUME NEW S, S \subseteq Nat, S # {}, NEW route,
         \A i \in S : route[i] \in RouteSpec
  PROVE  LET first == CHOOSE i \in S : \A j \in S :
                 Beats(route[i], route[j]) \/ (~Beats(route[j], route[i]) /\ i <= j)
         IN  first \in S /\ \A j \in S : ~Beats(route[j], route[first])
<1> DEFINE a == [i \in S |-> Width - route[i].bits]
           b == [i \in S |-> Preference(route[i])[1]]
           c == [i \in S |-> Preference(route[i])[2]]
           first == CHOOSE i \in S : \A j \in S :
                 Beats(route[i], route[j]) \/ (~Beats(route[j], route[i]) /\ i <= j)
<1>1. a \in [S -> Nat] /\ b \in [S -> Nat] /\ c \in [S -> Nat]
  <2>1. ASSUME NEW r \in RouteSpec
        PROVE  /\ Width - r.bits \in Nat
               /\ Preference(r)[1] \in Nat /\ Preference(r)[2] \in Nat
    BY WidthAssumption DEF RouteSpec, Preference
  <2> QED BY <2>1
<1>2. \A i, j \in S :
        Beats(route[i], route[j])
          <=> \/ a[i] < a[j]
              \/ a[i] = a[j] /\ b[i] < b[j]
              \/ a[i] = a[j] /\ b[i] = b[j] /\ c[i] < c[j]
  <2> SUFFICES ASSUME NEW i \in S, NEW j \in S
               PROVE  Beats(route[i], route[j])
                        <=> \/ a[i] < a[j]
                            \/ a[i] = a[j] /\ b[i] < b[j]
                            \/ a[i] = a[j] /\ b[i] = b[j] /\ c[i] < c[j]
    OBVIOUS
  <2>1. route[i].bits \in Int /\ route[j].bits \in Int
    BY DEF RouteSpec
  <2>2. /\ route[i].bits > route[j].bits <=> a[i] < a[j]
        /\ route[i].bits = route[j].bits <=> a[i] = a[j]
    BY <2>1, WidthAssumption
  <2>3. Better(Preference(route[i]), Preference(route[j]))
          <=> b[i] < b[j] \/ (b[i] = b[j] /\ c[i] < c[j])
    BY DEF Better
  <2> HIDE DEF a, b, c
  <2> QED BY <2>2, <2>3 DEF Beats
<1> HIDE DEF a, b, c
<1>3. \A i \in S : a[i] \in Nat /\ b[i] \in Nat /\ c[i] \in Nat
  BY <1>1
<1>4. \A i, j \in S : Beats(route[i], route[j]) => ~Beats(route[j], route[i])
  BY <1>2, <1>3
<1>5. \E i \in S : \A j \in S :
        Beats(route[i], route[j]) \/ (~Beats(route[j], route[i]) /\ i <= j)
  <2>1. PICK i \in S : FirstOf(S, a, b, c, i)
    BY <1>1, LeastOfThree
  <2>2. ASSUME NEW j \in S
        PROVE  Beats(route[i], route[j]) \/ (~Beats(route[j], route[i]) /\ i <= j)
    BY <1>2, <1>3, <2>1 DEF FirstOf
  <2> QED BY <2>2
<1>6. first \in S /\ \A j \in S :
        Beats(route[first], route[j]) \/ (~Beats(route[j], route[first]) /\ first <= j)
  BY <1>5
<1> HIDE DEF first
<1>7. \A j \in S : ~Beats(route[j], route[first])
  BY <1>4, <1>6
<1> QED BY <1>6, <1>7 DEF first

\* Two routes to the same destinations that no preference tells apart are one.
LEMMA NoTies ==
  ASSUME NEW t \in Trees, RoutesValid(t), NEW dst,
         NEW j \in Routes(t), NEW k \in Routes(t),
         Leads(t.routes[j], dst), Leads(t.routes[k], dst),
         ~Beats(t.routes[j], t.routes[k]), ~Beats(t.routes[k], t.routes[j])
  PROVE  j = k
<1> DEFINE r == t.routes[j]
           q == t.routes[k]
<1>1. r \in RouteSpec /\ q \in RouteSpec
  BY DEF Trees, Routes
<1>2. /\ r.bits \in Int /\ q.bits \in Int
      /\ Preference(r) \in Nat \X Nat /\ Preference(q) \in Nat \X Nat
  BY <1>1 DEF RouteSpec, Preference
<1>3. r.bits = q.bits
  BY <1>2 DEF Beats
<1>4. Preference(r)[1] = Preference(q)[1] /\ Preference(r)[2] = Preference(q)[2]
  BY <1>2, <1>3 DEF Beats, Better
<1>5. Preference(r) = Preference(q)
  BY <1>2, <1>4
<1>6. Masked(r.ip, r.bits) = Masked(q.ip, q.bits)
  BY <1>3 DEF Leads, addrContains, Subnet
<1>7. RouteKey(r) = RouteKey(q)
  BY <1>3, <1>5, <1>6 DEF RouteKey
<1> QED BY <1>7 DEF RoutesValid

\* The routes to a destination that have a longer prefix than d.
Fitting(t, dst, d) == {k \in Routes(t) : Leads(t.routes[k], dst) /\ t.routes[k].bits > d.bits}

\* What the walk over the routes ends with: the subnet, or a route that no other beats.
LEMMA WalkEnds ==
  ASSUME NEW t \in Trees, NEW dst, NEW ls, NEW ns \in SetToSeqs(Routes(t)),
         NEW d, Direct(ls, dst) = d
  PROVE  /\ Fitting(t, dst, d) = {} => RouteOver(t, ls, ns, dst) = d.iface
         /\ Fitting(t, dst, d) # {} => \E k \in Fitting(t, dst, d) :
              /\ RouteOver(t, ls, ns, dst) = t.routes[k].iface
              /\ \A j \in Fitting(t, dst, d) : ~Beats(t.routes[j], t.routes[k])
<1> DEFINE Fit == {k \in Routes(t) : Leads(t.routes[k], dst) /\ t.routes[k].bits > d.bits}
           route == [i \in DOMAIN ns |-> t.routes[ns[i]]]
           S == {i \in DOMAIN ns : Leads(route[i], dst) /\ route[i].bits > d.bits}
           first == CHOOSE i \in S : \A j \in S :
               Beats(route[i], route[j]) \/ (~Beats(route[j], route[i]) /\ i <= j)
<1>1. /\ DOMAIN ns \subseteq Nat /\ \A i \in DOMAIN ns : ns[i] \in Routes(t)
      /\ \A k \in Routes(t) : \E i \in DOMAIN ns : ns[i] = k
  BY LinksFinite, Enumerates
<1>2. RouteOver(t, ls, ns, dst) = IF S = {} THEN d.iface ELSE route[first].iface
  BY DEF RouteOver
<1>3. \A i \in DOMAIN ns : i \in S <=> ns[i] \in Fit
  BY <1>1
<1>4. \A k \in Fit : \E i \in S : ns[i] = k
  BY <1>1
<1>5. CASE Fit = {}
  BY <1>2, <1>3, <1>5 DEF Fitting
<1>6. CASE Fit # {}
  <2>1. S # {} /\ S \subseteq Nat
    BY <1>1, <1>4, <1>6
  <2>2. \A i \in S : route[i] \in RouteSpec
    BY <1>1 DEF Trees, Routes
  <2>3. first \in S /\ \A j \in S : ~Beats(route[j], route[first])
    <3> HIDE DEF route, S
    <3> QED BY <2>1, <2>2, FirstBest
  <2> HIDE DEF first
  <2>4. ns[first] \in Fit /\ route[first] = t.routes[ns[first]]
    BY <1>3, <2>3
  <2>5. \A j \in Fit : ~Beats(t.routes[j], t.routes[ns[first]])
    BY <1>4, <2>3, <2>4
  <2>6. /\ RouteOver(t, ls, ns, dst) = t.routes[ns[first]].iface
        /\ Fitting(t, dst, d) = Fit
    BY <1>2, <2>1, <2>4 DEF Fitting
  <2> HIDE DEF Fit
  <2> QED BY <1>6, <2>4, <2>5, <2>6
<1> QED BY <1>5, <1>6

\* So the whole walk depends on no order.
LEMMA OrderMeansNothing ==
  ASSUME NEW t \in Trees, SubnetsDisjoint(t), RoutesValid(t), NEW dst \in Ip,
         NEW links \in SetToSeqs(ActiveLinks(t)), NEW names \in SetToSeqs(Routes(t)),
         NEW links2 \in SetToSeqs(ActiveLinks(t)), NEW names2 \in SetToSeqs(Routes(t))
  PROVE  RouteOver(t, links, names, dst) = RouteOver(t, links2, names2, dst)
<1> DEFINE d == Direct(links, dst)
           Fit == {k \in Routes(t) : Leads(t.routes[k], dst) /\ t.routes[k].bits > d.bits}
<1>1. Direct(links2, dst) = d
  BY DirectUnambiguous
<1> HIDE DEF d
<1>2. ASSUME NEW ls, Direct(ls, dst) = d, NEW ns \in SetToSeqs(Routes(t))
      PROVE  /\ Fit = {} => RouteOver(t, ls, ns, dst) = d.iface
             /\ Fit # {} => \E k \in Fit :
                  /\ RouteOver(t, ls, ns, dst) = t.routes[k].iface
                  /\ \A j \in Fit : ~Beats(t.routes[j], t.routes[k])
  BY <1>2, WalkEnds DEF Fitting
<1>3. CASE Fit = {}
  BY <1>1, <1>2, <1>3 DEF d
<1>4. CASE Fit # {}
  <2>1. PICK k \in Fit : /\ RouteOver(t, links, names, dst) = t.routes[k].iface
                         /\ \A j \in Fit : ~Beats(t.routes[j], t.routes[k])
    BY <1>2, <1>4 DEF d
  <2>2. PICK m \in Fit : /\ RouteOver(t, links2, names2, dst) = t.routes[m].iface
                         /\ \A j \in Fit : ~Beats(t.routes[j], t.routes[m])
    BY <1>1, <1>2, <1>4
  <2>3. k = m
    BY <2>1, <2>2, NoTies
  <2> QED BY <2>1, <2>2, <2>3
<1> QED BY <1>3, <1>4

\* Where a packet leaves depends on no order of files.
THEOREM RouteAlwaysUnambiguous == Spec => []RouteUnambiguous
<1>1. Sound => RouteUnambiguous
  <2> SUFFICES ASSUME Sound, NEW f \in Flows,
                      NEW links \in SetToSeqs(ActiveLinks(tree)),
                      NEW names \in SetToSeqs(Routes(tree))
               PROVE  RouteOver(tree, links, names, f.dst) = Route(tree, f.dst)
    BY DEF RouteUnambiguous
  <2>1. tree \in Trees /\ SubnetsDisjoint(tree) /\ RoutesValid(tree)
    BY DEF Sound, TypeOK, Valid
  <2>2. /\ SetToSeq(ActiveLinks(tree)) \in SetToSeqs(ActiveLinks(tree))
        /\ SetToSeq(Routes(tree)) \in SetToSeqs(Routes(tree))
    BY <2>1, LinksFinite, Enumerates
  <2> QED BY <2>1, <2>2, OrderMeansNothing, FlowType DEF Route
<1> QED BY <1>1, SoundAlways, PTL

-----------------------------------------------------------------------------
(* The warning about a shadowed dnat rule *)

\* What a list of Addresses leads to, and its intervals.
LEMMA ListedIntervals ==
  ASSUME NEW t \in Trees, NEW refs
  PROVE  /\ \A a \in ExpandAddresses(refs) : t.addresses[a].spec \in AddressForms
         /\ AddrSet(t, refs).ivs \subseteq Intervals
         /\ IsFiniteSet(AddrSet(t, refs).ivs)
<1>1. \A a \in ExpandAddresses(refs) : t.addresses[a].spec \in AddressForms
  <2>1. \A r \in DOMAIN Expansion : Expansion[r] \subseteq AddressNames
    BY DEF Expansion
  <2>2. ExpandAddresses(refs) \subseteq AddressNames
    BY <2>1 DEF ExpandAddresses
  <2> QED BY <2>2 DEF Trees, AddressSpec
<1>2. AddrSet(t, refs).ivs = UNION {Span(t.addresses[a].spec) : a \in ExpandAddresses(refs)}
  BY DEF AddrSet
<1>3. \A v \in AddrSet(t, refs).ivs : v \in Intervals /\ v.hi <= Top
  <2>1. \A v \in AddrSet(t, refs).ivs : v \in Intervals /\ v.hi \in Ip
    BY <1>1, <1>2, SpanIntervals
  <2> QED BY <2>1 DEF Ip
<1>4. Top \in Nat
  <2>1. 2^Width \in Nat \ {0}
    BY PowersOfTwo, WidthAssumption, SMT DEF Block
  <2> QED BY <2>1 DEF Top
<1> QED BY <1>1, <1>3, <1>4, BoundedIntervals

\* A list of Addresses that covers another matches what it matches.
LEMMA CoveredAddresses ==
  ASSUME NEW t \in Trees, NEW refs, NEW more, NEW ip \in Ip,
         AddrCovers(AddrSet(t, more), AddrSet(t, refs)), InAddresses(t, refs, ip)
  PROVE  InAddresses(t, more, ip)
<1> DEFINE a == AddrSet(t, more)
           b == AddrSet(t, refs)
<1>1. CASE more = AnyObject
  BY <1>1 DEF InAddresses
<1>2. CASE more # AnyObject
  <2>1. ~a.any /\ ~b.any /\ Covers(a.ivs, b.ivs)
    BY <1>2 DEF AddrCovers, AddrSet
  <2>2. Points(b.ivs) \subseteq Points(a.ivs)
    BY <2>1, ListedIntervals, CoversIsInclusion
  <2>3. ip \in Points(b.ivs)
    <3>1. PICK v \in b.ivs : v.lo \in Int /\ v.hi \in Int /\ v.lo <= ip /\ ip <= v.hi
      BY <2>1, AddressesInside
    <3> QED BY <3>1 DEF Points, Ip
  <2>4. PICK v \in a.ivs : ip \in v.lo .. v.hi
    BY <2>2, <2>3 DEF Points
  <2>5. PICK x \in ExpandAddresses(more) : v \in Span(t.addresses[x].spec)
    BY <2>4 DEF AddrSet
  <2>6. v.lo <= ip /\ ip <= v.hi
    BY <2>4, ListedIntervals DEF Intervals
  <2>7. addrContains(t.addresses[x].spec, ip)
    BY <2>5, <2>6, ListedIntervals, SpanOnlyContains
  <2> QED BY <2>7 DEF InAddresses
<1> QED BY <1>1, <1>2

\* The ports of a list of Services.
LEMMA ListedPorts ==
  ASSUME NEW refs, NEW proto \in Protocols
  PROVE  /\ Entries(refs) \subseteq ServiceEntry
         /\ SvcSet(refs).ports[proto] \subseteq Intervals
         /\ IsFiniteSet(SvcSet(refs).ports[proto])
<1>1. Entries(refs) \subseteq ServiceEntry
  BY FirewallAssumption DEF Entries
<1>2. \A v \in SvcSet(refs).ports[proto] : v \in Intervals /\ v.hi <= PortTop
  <2>1. \A v \in SvcSet(refs).ports[proto] : \E e \in Entries(refs) : v = PortSpan(e)
    BY DEF SvcSet
  <2>2. ASSUME NEW e \in ServiceEntry
        PROVE  PortSpan(e) \in Intervals /\ PortSpan(e).hi <= PortTop
    <3>1. PortTop \in Nat
      BY FirewallAssumption
    <3>2. CASE e.port = None
      BY <3>1, <3>2 DEF PortSpan, Interval, Intervals
    <3>3. CASE e.port # None
      <4>1. e.port \in [lo : 1..PortTop, hi : 1..PortTop] /\ e.port.lo <= e.port.hi
        BY <3>3 DEF ServiceEntry
      <4> QED BY <3>1, <3>3, <4>1 DEF PortSpan, Intervals
    <3> QED BY <3>2, <3>3
  <2> QED BY <1>1, <2>1, <2>2
<1> QED BY <1>1, <1>2, BoundedIntervals, FirewallAssumption

\* And so for a list of Services.
LEMMA CoveredServices ==
  ASSUME NEW refs, NEW more, NEW proto \in Protocols, NEW port \in 0..PortTop,
         SvcCovers(SvcSet(more), SvcSet(refs)), InServices(refs, proto, port)
  PROVE  InServices(more, proto, port)
<1> DEFINE a == SvcSet(more)
           b == SvcSet(refs)
<1>1. CASE more = AnyObject
  BY <1>1 DEF InServices
<1>2. CASE more # AnyObject
  <2>1. ~a.any /\ ~b.any /\ Covers(a.ports[proto], b.ports[proto])
    BY <1>2 DEF SvcCovers, SvcSet
  <2>2. Points(b.ports[proto]) \subseteq Points(a.ports[proto])
    BY <2>1, ListedPorts, CoversIsInclusion
  <2>3. port \in Points(b.ports[proto])
    <3>1. PICK v \in b.ports[proto] :
            v.lo \in Int /\ v.hi \in Int /\ v.lo <= port /\ port <= v.hi
      BY <2>1, PortsInside
    <3> QED BY <3>1 DEF Points
  <2>4. PICK v \in a.ports[proto] : port \in v.lo .. v.hi
    BY <2>2, <2>3 DEF Points
  <2>5. PICK e \in Entries(more) : e.proto = proto /\ v = PortSpan(e)
    BY <2>4 DEF SvcSet
  <2>6. e.port = None \/ (e.port.lo <= port /\ port <= e.port.hi)
    <3>1. v.lo <= port /\ port <= v.hi
      BY <2>4, ListedPorts DEF Intervals
    <3> QED BY <2>5, <3>1 DEF PortSpan
  <2> QED BY <2>5, <2>6 DEF InServices
<1> QED BY <1>1, <1>2

\* A dnat rule with the warning never translates.
THEOREM ShadowedWarningTrue == Spec => []ShadowedNeverTranslates
<1>1. Sound /\ AcceptedByFirstMatch => ShadowedNeverTranslates
  <2> SUFFICES ASSUME Sound, AcceptedByFirstMatch,
                      NEW d \in Dnats(tree), Shadowed(tree, d), NEW f \in Flows,
                      Classify(tree, f).action = "accept",
                      Classify(tree, f).set = d[1], Classify(tree, f).policy = d[2]
               PROVE  FALSE
    BY DEF ShadowedNeverTranslates
  <2> DEFINE rules == tree.sets[d[1]].rules
             v == Classify(tree, f)
  <2>1. tree \in Trees
    BY DEF Sound, TypeOK
  <2>2. d[1] \in SetNames /\ d[1] \in Present(tree) /\ d[2] \in DOMAIN rules
    BY DEF Dnats, Positions, Present
  <2>3. d[1] # None
    BY <2>2, FirewallAssumption
  <2>4. Passed(tree, f, v)
    BY DEF AcceptedByFirstMatch
  <2>5. /\ Matches(tree, rules[d[2]], f)
        /\ \A k \in 1..(d[2] - 1) : ~Matches(tree, rules[k], f)
    BY <2>3, <2>4 DEF Passed
  <2>6. PICK j \in 1..(d[2] - 1) :
          /\ rules[j].enabled
          /\ AddrCovers(AddrSet(tree, rules[j].source), AddrSet(tree, rules[d[2]].source))
          /\ AddrCovers(AddrSet(tree, rules[j].destination),
                        AddrSet(tree, rules[d[2]].destination))
          /\ SvcCovers(SvcSet(rules[j].service), SvcSet(rules[d[2]].service))
    BY DEF Shadowed, RuleAt, Dst, Svc
  <2>7. /\ InAddresses(tree, rules[j].source, f.src)
        /\ InAddresses(tree, rules[j].destination, f.dst)
    BY <2>1, <2>5, <2>6, FlowType, CoveredAddresses DEF Matches
  <2>8. InServices(rules[j].service, f.proto, f.port)
    <3>1. InServices(rules[d[2]].service, f.proto, f.port)
      BY <2>5 DEF Matches
    <3> HIDE DEF rules
    <3> QED BY <2>6, <3>1, FlowType, CoveredServices
  <2>9. Matches(tree, rules[j], f)
    BY <2>6, <2>7, <2>8 DEF Matches
  <2> QED BY <2>5, <2>9
<1> QED BY <1>1, SoundAlways, NothingPassesByAccident, PTL

-----------------------------------------------------------------------------
(* What the sections tell apart *)

\* Hashes that are equal are those of equal parts.
LEMMA SectionsTell ==
  ASSUME NEW t, NEW s, NEW u, NEW v, Sections(t, s) = Sections(u, v)
  PROVE  /\ t.interfaces = u.interfaces /\ RouteSpecsOf(t) = RouteSpecsOf(u)
         /\ {CompiledSet(t, n) : n \in Present(t)} = {CompiledSet(u, n) : n \in Present(u)}
         /\ IntraZones(t) = IntraZones(u)
         /\ SpecValues(t, s.trusted) = SpecValues(u, v.trusted)
         /\ s.access = v.access /\ s.dhcp = v.dhcp /\ s.dns = v.dns /\ s.ntpOn = v.ntpOn
         /\ DnsOn(t, s) = DnsOn(u, v) /\ NtpOn(t, s) = NtpOn(u, v)
<1> DEFINE a == Sections(t, s)
           b == Sections(u, v)
<1>1. a.network = b.network /\ a.dataplane = b.dataplane /\ a.dhcp = b.dhcp /\ a.dns = b.dns
  OBVIOUS
<1>2. t.interfaces = u.interfaces /\ s.access = v.access /\ RouteSpecsOf(t) = RouteSpecsOf(u)
  <2>1. /\ a.network.links = b.network.links /\ a.network.access = b.network.access
        /\ a.network.routes = b.network.routes
    BY <1>1
  <2> QED BY <2>1 DEF Sections
<1>3. /\ {CompiledSet(t, n) : n \in Present(t)} = {CompiledSet(u, n) : n \in Present(u)}
      /\ IntraZones(t) = IntraZones(u) /\ SpecValues(t, s.trusted) = SpecValues(u, v.trusted)
  <2>1. /\ a.dataplane.sets = b.dataplane.sets /\ a.dataplane.intra = b.dataplane.intra
        /\ a.dataplane.trusted = b.dataplane.trusted
    BY <1>1
  <2> QED BY <2>1 DEF Sections
<1>4. /\ s.dhcp = v.dhcp /\ s.dns = v.dns /\ s.ntpOn = v.ntpOn
      /\ DnsOn(t, s) = DnsOn(u, v) /\ NtpOn(t, s) = NtpOn(u, v)
  <2>1. /\ a.dns.dns = b.dns.dns /\ a.dns.ntpOn = b.dns.ntpOn
        /\ a.dns.dnsAt = b.dns.dnsAt /\ a.dns.ntpAt = b.dns.ntpAt
    BY <1>1
  <2> QED BY <1>1, <2>1 DEF Sections
<1> QED BY <1>2, <1>3, <1>4

\* Zones with the same members and the same traffic between them stand for the same.
LEMMA ZonesAlike ==
  ASSUME NEW t \in Trees, NEW u \in Trees, IntraZones(t) = IntraZones(u),
         \A z \in ZoneNames : t.zones[z] # None /\ u.zones[z] # None =>
                                t.zones[z].interfaces = u.zones[z].interfaces
  PROVE  /\ \A ref \in Interfaces \cup ZoneNames : Side(t, ref) = Side(u, ref)
         /\ \A i, j : IntraZone(t, i, j) <=> IntraZone(u, i, j)
<1>1. \A z \in ZoneNames : t.zones[z] # None <=> u.zones[z] # None
  <2>1. DOMAIN IntraZones(t) = DOMAIN IntraZones(u)
    OBVIOUS
  <2> QED BY <2>1 DEF IntraZones
<1>2. \A z \in ZoneNames : t.zones[z] # None => t.zones[z].intra = u.zones[z].intra
  <2> SUFFICES ASSUME NEW z \in ZoneNames, t.zones[z] # None
               PROVE  t.zones[z].intra = u.zones[z].intra
    OBVIOUS
  <2>1. IntraZones(t)[z] = t.zones[z].intra /\ IntraZones(u)[z] = u.zones[z].intra
    BY <1>1 DEF IntraZones
  <2> QED BY <2>1
<1>3. \A i : ZonesOf(t, i) = ZonesOf(u, i) /\ ZonesOf(t, i) \subseteq ZoneNames
  BY <1>1 DEF ZonesOf
<1>4. \A i : /\ ZoneOf(t, i) = ZoneOf(u, i)
             /\ ZoneOf(t, i) # None => ZoneOf(t, i) \in ZonesOf(t, i)
  <2> SUFFICES ASSUME NEW i
               PROVE  /\ ZoneOf(t, i) = ZoneOf(u, i)
                      /\ ZoneOf(t, i) # None => ZoneOf(t, i) \in ZonesOf(t, i)
    OBVIOUS
  <2>1. ZoneOf(t, i) = ZoneOf(u, i)
    <3>1. ZonesOf(t, i) = ZonesOf(u, i)
      BY <1>3
    <3> DEFINE pick(S) == IF S = {} THEN None ELSE CHOOSE z \in S : TRUE
    <3>2. ZoneOf(t, i) = pick(ZonesOf(t, i)) /\ ZoneOf(u, i) = pick(ZonesOf(u, i))
      BY DEF ZoneOf
    <3> HIDE DEF pick
    <3> QED BY <3>1, <3>2
  <2>2. ASSUME ZonesOf(t, i) # {}
        PROVE  ZoneOf(t, i) \in ZonesOf(t, i)
    <3>1. (CHOOSE z \in ZonesOf(t, i) : TRUE) \in ZonesOf(t, i)
      BY <2>2
    <3> QED BY <2>2, <3>1 DEF ZoneOf
  <2> QED BY <2>1, <2>2 DEF ZoneOf
<1>5. \A i : ZoneOf(t, i) # None => t.zones[ZoneOf(t, i)].intra = u.zones[ZoneOf(t, i)].intra
  BY <1>2, <1>4 DEF ZonesOf
<1> QED BY <1>1, <1>4, <1>5 DEF Side, IntraZone

\* Lists that stand for the same specs match the same addresses ...
LEMMA AddressesAlike ==
  ASSUME NEW t, NEW u, NEW refs, NEW more, SpecValues(t, refs) = SpecValues(u, more), NEW ip
  PROVE  InAddresses(t, refs, ip) <=> InAddresses(u, more, ip)
<1>1. /\ refs = AnyObject <=> more = AnyObject
      /\ {t.addresses[a].spec : a \in ExpandAddresses(refs)}
           = {u.addresses[a].spec : a \in ExpandAddresses(more)}
  <2>1. /\ SpecValues(t, refs).any = SpecValues(u, more).any
        /\ SpecValues(t, refs).specs = SpecValues(u, more).specs
    OBVIOUS
  <2>2. (refs = AnyObject) = (more = AnyObject)
    BY <2>1, Zenon DEF SpecValues
  <2> QED BY <2>1, <2>2 DEF SpecValues
<1>2. (\E a \in ExpandAddresses(refs) : addrContains(t.addresses[a].spec, ip))
        <=> (\E a \in ExpandAddresses(more) : addrContains(u.addresses[a].spec, ip))
  BY <1>1
<1> QED BY <1>1, <1>2 DEF InAddresses

\* ... and lists of the same entries the same services.
LEMMA ServicesAlike ==
  ASSUME NEW refs, NEW more, ServiceValues(refs) = ServiceValues(more), NEW proto, NEW port
  PROVE  InServices(refs, proto, port) <=> InServices(more, proto, port)
<1>1. /\ ServiceValues(refs).any = ServiceValues(more).any
      /\ ServiceValues(refs).entries = ServiceValues(more).entries
  OBVIOUS
<1>2. (refs = AnyObject) = (more = AnyObject)
  BY <1>1, Zenon DEF ServiceValues
<1>3. Entries(refs) = Entries(more)
  <2>1. {Services[s] : s \in refs \cap DOMAIN Services}
          = {Services[s] : s \in more \cap DOMAIN Services}
    BY <1>1 DEF ServiceValues
  <2> QED BY <2>1 DEF Entries
<1> QED BY <1>2, <1>3 DEF InServices

\* Rules with the same entry match the same flows and do the same with them.
LEMMA RulesAlike ==
  ASSUME NEW t, NEW u, NEW r \in Policy, NEW q \in Policy, r.enabled, q.enabled,
         EntryOf(t, r) = EntryOf(u, q)
  PROVE  /\ r.name = q.name /\ r.action = q.action /\ (IsDnat(r) <=> IsDnat(q))
         /\ IsDnat(r) => t.addresses[r.nat.to].spec = u.addresses[q.nat.to].spec
         /\ \A f : Matches(t, r, f) <=> Matches(u, q, f)
<1>1. /\ r.name = q.name /\ r.action = q.action /\ Resolved(t, r.nat) = Resolved(u, q.nat)
      /\ SpecValues(t, r.source) = SpecValues(u, q.source)
      /\ SpecValues(t, r.destination) = SpecValues(u, q.destination)
      /\ ServiceValues(r.service) = ServiceValues(q.service)
  <2> DEFINE a == EntryOf(t, r)
             b == EntryOf(u, q)
  <2>1. /\ a.name = b.name /\ a.action = b.action /\ a.nat = b.nat /\ a.source = b.source
        /\ a.destination = b.destination /\ a.service = b.service
    OBVIOUS
  <2> QED BY <2>1 DEF EntryOf
<1>2. \A nat, w : Resolved(w, nat).type = nat.type
  BY DEF Resolved
<1>3. r.nat.type = q.nat.type
  BY <1>1, <1>2
<1>4. ASSUME IsDnat(r)
      PROVE  t.addresses[r.nat.to].spec = u.addresses[q.nat.to].spec
  <2>1. Resolved(t, r.nat).to = Resolved(u, q.nat).to
    BY <1>1
  <2> QED BY <1>3, <1>4, <2>1 DEF Resolved, IsDnat
<1>5. \A f : Matches(t, r, f) <=> Matches(u, q, f)
  BY <1>1, AddressesAlike, ServicesAlike DEF Matches
<1> QED BY <1>1, <1>3, <1>4, <1>5 DEF IsDnat

\* The number of a place among places grows with it.
LEMMA NumberGrows ==
  ASSUME NEW n \in Nat, NEW P \in SUBSET (1..n), NEW i \in P, NEW j \in P, i < j
  PROVE  /\ Number(P, i) \in Nat /\ Number(P, j) \in Nat
         /\ Number(P, i) < Number(P, j)
<1> DEFINE I == {k \in P : k <= i}
           J == {k \in P : k <= j}
<1>1. IsFiniteSet(P)
  <2>1. IsFiniteSet(1..n)
    BY FS_Interval
  <2> QED BY <2>1, FS_Subset
<1>2. IsFiniteSet(I) /\ IsFiniteSet(J)
  BY <1>1, FS_Subset
<1>3. I \in SUBSET J /\ j \in J /\ j \notin I
  <2>1. i \in Int /\ j \in Int /\ \A k \in P : k \in Int
    OBVIOUS
  <2>2. \A k \in P : k <= i => k <= j
    BY <2>1
  <2>3. j \in J /\ j \notin I
    BY <2>1
  <2> QED BY <2>2, <2>3
<1> HIDE DEF I, J
<1>4. Cardinality(I) <= Cardinality(J) /\ (Cardinality(I) = Cardinality(J) => I = J)
  BY <1>2, <1>3, FS_Subset
<1>5. Cardinality(I) \in Nat /\ Cardinality(J) \in Nat
  BY <1>2, FS_CardinalityType
<1>6. Cardinality(I) < Cardinality(J)
  BY <1>3, <1>4, <1>5
<1> QED BY <1>5, <1>6 DEF Number, I, J

\* RuleSets with the same hash are the same RuleSets, compiled to the same.
LEMMA RuleSetsAlike ==
  ASSUME NEW t, NEW u,
         {CompiledSet(t, n) : n \in Present(t)} = {CompiledSet(u, n) : n \in Present(u)}
  PROVE  /\ Present(t) = Present(u)
         /\ \A n \in Present(t) : CompiledSet(t, n) = CompiledSet(u, n)
<1>1. \A w, n : CompiledSet(w, n).name = n
  BY DEF CompiledSet
<1>2. ASSUME NEW w, NEW x, {CompiledSet(w, n) : n \in Present(w)} = {CompiledSet(x, n) : n \in Present(x)},
             NEW n \in Present(w)
      PROVE  n \in Present(x) /\ CompiledSet(w, n) = CompiledSet(x, n)
  <2>1. PICK k \in Present(x) : CompiledSet(w, n) = CompiledSet(x, k)
    BY <1>2
  <2>2. k = n
    BY <1>1, <2>1
  <2> QED BY <2>1, <2>2
<1> QED BY <1>2

\* And an enabled rule of the one has its like in the other, with the same number.
LEMMA RuleHasLike ==
  ASSUME NEW t, NEW u, NEW n, CompiledSet(t, n) = CompiledSet(u, n), NEW k \in EnabledIn(t, n)
  PROVE  \E m \in EnabledIn(u, n) :
           /\ Number(EnabledIn(u, n), m) = Number(EnabledIn(t, n), k)
           /\ EntryOf(u, u.sets[n].rules[m]) = EntryOf(t, t.sets[n].rules[k])
<1>1. CompiledSet(t, n).rules = CompiledSet(u, n).rules
  OBVIOUS
<1>2. \A w : CompiledSet(w, n).rules
               = {<<Number(EnabledIn(w, n), j), EntryOf(w, w.sets[n].rules[j])>> : j \in EnabledIn(w, n)}
  BY DEF CompiledSet
<1>3. <<Number(EnabledIn(t, n), k), EntryOf(t, t.sets[n].rules[k])>> \in CompiledSet(u, n).rules
  BY <1>1, <1>2
<1> QED BY <1>2, <1>3

\* So of rules that are alike in both the first ones are.
LEMMA FirstAlike ==
  ASSUME NEW t \in Trees, NEW u \in Trees, NEW n \in Present(t), n \in Present(u),
         CompiledSet(t, n) = CompiledSet(u, n),
         NEW P \in SUBSET EnabledIn(t, n), NEW Q \in SUBSET EnabledIn(u, n),
         \A k \in EnabledIn(t, n), m \in EnabledIn(u, n) :
           EntryOf(t, t.sets[n].rules[k]) = EntryOf(u, u.sets[n].rules[m]) => (k \in P <=> m \in Q)
  PROVE  /\ P = {} <=> Q = {}
         /\ P # {} => /\ Least(P) \in P /\ Least(Q) \in Q
                      /\ EntryOf(t, t.sets[n].rules[Least(P)]) = EntryOf(u, u.sets[n].rules[Least(Q)])
<1> DEFINE E == EnabledIn(t, n)
           F == EnabledIn(u, n)
           Alike(k, m) == /\ Number(F, m) = Number(E, k)
                          /\ EntryOf(u, u.sets[n].rules[m]) = EntryOf(t, t.sets[n].rules[k])
<1>1. PICK a \in Nat : E \in SUBSET (1..a)
  BY RulesType DEF EnabledIn
<1>2. PICK b \in Nat : F \in SUBSET (1..b)
  BY RulesType DEF EnabledIn
<1>3. \A k \in P : \E m \in Q : Alike(k, m)
  BY RuleHasLike
<1>4. \A m \in Q : \E k \in P : Alike(k, m)
  BY RuleHasLike
<1>5. ASSUME P # {}
      PROVE  /\ Least(P) \in P /\ Least(Q) \in Q
             /\ EntryOf(t, t.sets[n].rules[Least(P)]) = EntryOf(u, u.sets[n].rules[Least(Q)])
  <2> DEFINE i == Least(P)
             j == Least(Q)
  <2>1. P \subseteq Nat /\ Q \subseteq Nat /\ Q # {}
    BY <1>1, <1>2, <1>3, <1>5
  <2>2. i \in P /\ (\A k \in P : i <= k) /\ j \in Q /\ (\A m \in Q : j <= m)
    BY <1>5, <2>1, LeastProperties
  <2> HIDE DEF i, j, Alike
  <2>3. PICK m \in Q : Alike(i, m)
    BY <1>3, <2>2
  <2>4. PICK k \in P : Alike(k, j)
    BY <1>4, <2>2
  <2>5. m = j
    <3> SUFFICES ASSUME j < m PROVE FALSE
      BY <2>1, <2>2
    <3>1. Number(F, j) \in Nat /\ Number(F, m) \in Nat /\ Number(F, j) < Number(F, m)
      BY <1>2, <2>2, NumberGrows
    <3>2. Number(E, k) < Number(E, i)
      BY <2>3, <2>4, <3>1 DEF Alike
    <3>3. i = k \/ i < k
      BY <2>1, <2>2
    <3>4. i < k => Number(E, i) \in Nat /\ Number(E, k) \in Nat /\ Number(E, i) < Number(E, k)
      BY <1>1, <2>2, NumberGrows
    <3>5. Number(E, i) \in Nat /\ Number(E, k) \in Nat
      BY <2>3, <2>4, <3>1 DEF Alike
    <3> QED BY <3>2, <3>3, <3>4, <3>5
  <2> QED BY <2>2, <2>3, <2>5 DEF Alike, i, j
<1> QED BY <1>3, <1>4, <1>5

-----------------------------------------------------------------------------
(* What the drivers may skip *)

\* Two trees without errors that a change of no section and of no member of a
\* Zone lies between; the sides of a RuleSet never change.
Alike(t, u) ==
  /\ t \in Trees /\ u \in Trees /\ Valid(t) /\ Valid(u)
  /\ t.interfaces = u.interfaces /\ RouteSpecsOf(t) = RouteSpecsOf(u)
  /\ Present(t) = Present(u)
  /\ \A n \in Present(t) : /\ CompiledSet(t, n) = CompiledSet(u, n)
                           /\ t.sets[n].from = u.sets[n].from /\ t.sets[n].to = u.sets[n].to
  /\ \A ref \in Interfaces \cup ZoneNames : Side(t, ref) = Side(u, ref)
  /\ \A i, j : IntraZone(t, i, j) <=> IntraZone(u, i, j)

\* The order that SetToSeq chooses is one.
LEMMA OrderExists ==
  ASSUME NEW S, IsFiniteSet(S)
  PROVE  SetToSeq(S) \in SetToSeqs(S)
<1> DEFINE D == 1..Cardinality(S)
<1>1. PICK f \in Bijection(D, S) : TRUE
  BY FS_CardinalityType DEF ExistsBijection
<1>2. f \in SetToSeqs(S)
  BY <1>1 DEF SetToSeqs, Bijection, Injection, IsInjective
<1> QED BY <1>2, Enumerates

\* Routes with the same specs, whatever their names, lead to the same places.
LEMMA RouteAlike ==
  ASSUME NEW t, NEW u, Alike(t, u), NEW dst \in Ip
  PROVE  Route(t, dst) = Route(u, dst)
<1> DEFINE ls == SetToSeq(ActiveLinks(t))
           d == Direct(ls, dst)
           F == Fitting(t, dst, d)
           G == Fitting(u, dst, d)
<1>1. /\ t \in Trees /\ u \in Trees /\ RoutesValid(t) /\ RoutesValid(u)
      /\ t.interfaces = u.interfaces /\ RouteSpecsOf(t) = RouteSpecsOf(u)
  BY DEF Alike, Valid
<1>2. ActiveLinks(t) = ActiveLinks(u)
  BY <1>1 DEF ActiveLinks, Links
<1>3. /\ SetToSeq(Routes(t)) \in SetToSeqs(Routes(t)) /\ SetToSeq(Routes(u)) \in SetToSeqs(Routes(u))
  BY <1>1, LinksFinite, OrderExists
<1>4. /\ Route(t, dst) = RouteOver(t, ls, SetToSeq(Routes(t)), dst)
      /\ Route(u, dst) = RouteOver(u, ls, SetToSeq(Routes(u)), dst)
  BY <1>2 DEF Route
<1> HIDE DEF ls
<1>5. /\ F = {} => Route(t, dst) = d.iface
      /\ F # {} => \E k \in F : /\ Route(t, dst) = t.routes[k].iface
                                /\ \A j \in F : ~Beats(t.routes[j], t.routes[k])
  <2> HIDE DEF d
  <2> QED BY <1>1, <1>3, <1>4, WalkEnds DEF d
<1>6. /\ G = {} => Route(u, dst) = d.iface
      /\ G # {} => \E k \in G : /\ Route(u, dst) = u.routes[k].iface
                                /\ \A j \in G : ~Beats(u.routes[j], u.routes[k])
  <2> HIDE DEF d
  <2> QED BY <1>1, <1>3, <1>4, WalkEnds DEF d
<1> HIDE DEF d
<1>7. \A k \in F : \E j \in G : u.routes[j] = t.routes[k]
  BY <1>1 DEF Fitting, RouteSpecsOf
<1>8. \A k \in G : \E j \in F : t.routes[j] = u.routes[k]
  BY <1>1 DEF Fitting, RouteSpecsOf
<1>9. CASE F = {}
  BY <1>5, <1>6, <1>8, <1>9
<1>10. CASE F # {}
  <2> HIDE DEF F, G
  <2>1. PICK k \in F : /\ Route(t, dst) = t.routes[k].iface
                       /\ \A j \in F : ~Beats(t.routes[j], t.routes[k])
    BY <1>5, <1>10
  <2>2. PICK m \in G : /\ Route(u, dst) = u.routes[m].iface
                       /\ \A j \in G : ~Beats(u.routes[j], u.routes[m])
    BY <1>6, <1>7, <1>10
  <2>3. PICK l \in G : u.routes[l] = t.routes[k]
    BY <1>7
  <2>4. ~Beats(u.routes[m], u.routes[l])
    BY <1>8, <2>1, <2>3
  <2>5. l = m
    BY <1>1, <2>2, <2>3, <2>4, NoTies DEF G, Fitting
  <2> QED BY <2>1, <2>2, <2>3, <2>5
<1> QED BY <1>9, <1>10

\* The same RuleSet governs.
LEMMA GoverningAlike ==
  ASSUME NEW t, NEW u, Alike(t, u), NEW in, NEW out
  PROVE  Governing(t, in, out) = Governing(u, in, out)
<1>1. \A n : Governs(t, n, in, out) <=> Governs(u, n, in, out)
  BY SidesType DEF Alike, Governs
<1> DEFINE pick(S) == IF S = {} THEN None ELSE Least(S)
<1>2. /\ Governing(t, in, out) = pick({n \in SetNames : Governs(t, n, in, out)})
      /\ Governing(u, in, out) = pick({n \in SetNames : Governs(u, n, in, out)})
  BY DEF Governing
<1>3. {n \in SetNames : Governs(t, n, in, out)} = {n \in SetNames : Governs(u, n, in, out)}
  BY <1>1
<1> HIDE DEF pick
<1> QED BY <1>2, <1>3

\* Rules with the same entry are both candidates, or neither is.
LEMMA CandidatesAlike ==
  ASSUME NEW t, NEW u, Alike(t, u), NEW f \in Flows, NEW n \in Present(t),
         NEW k \in EnabledIn(t, n), NEW m \in EnabledIn(u, n),
         EntryOf(t, t.sets[n].rules[k]) = EntryOf(u, u.sets[n].rules[m])
  PROVE  <<n, k>> \in Candidates(t, f) <=> <<n, m>> \in Candidates(u, f)
<1> DEFINE r == t.sets[n].rules[k]
           q == u.sets[n].rules[m]
<1>1. n \in Present(u) /\ t \in Trees /\ u \in Trees
  BY DEF Alike
<1>2. /\ r \in Policy /\ q \in Policy /\ r.enabled /\ q.enabled
      /\ k \in DOMAIN t.sets[n].rules /\ m \in DOMAIN u.sets[n].rules
      /\ EntryOf(t, r) = EntryOf(u, q)
  BY <1>1, RulesType DEF EnabledIn
<1>3. /\ IsDnat(r) <=> IsDnat(q)
      /\ Matches(t, r, f) <=> Matches(u, q, f)
      /\ IsDnat(r) => t.addresses[r.nat.to].spec = u.addresses[q.nat.to].spec
  <2> HIDE DEF r, q
  <2> QED BY <1>2, RulesAlike
<1>4. Incoming(t, <<n, k>>) = Incoming(u, <<n, m>>)
  BY <1>1, SidesType DEF Alike, Incoming
<1>5. /\ <<n, k>> \in Positions(t) /\ RuleAt(t, <<n, k>>) = r
      /\ <<n, m>> \in Positions(u) /\ RuleAt(u, <<n, m>>) = q
  BY <1>1, <1>2 DEF Positions, RuleAt
<1> HIDE DEF r, q
<1> QED BY <1>3, <1>4, <1>5 DEF Candidates

\* A flow has a candidate in both, in the same RuleSet and with the same entry, or in none.
LEMMA CandidateHasLike ==
  ASSUME NEW t, NEW u, Alike(t, u), NEW f \in Flows, NEW d \in Candidates(t, f)
  PROVE  \E e \in Candidates(u, f) :
           /\ d[1] = e[1] /\ d[1] \in Present(t)
           /\ d[2] \in EnabledIn(t, d[1]) /\ e[2] \in EnabledIn(u, d[1])
           /\ EntryOf(t, RuleAt(t, d)) = EntryOf(u, RuleAt(u, e))
<1>1. /\ d = <<d[1], d[2]>> /\ d[1] \in Present(t) /\ d[2] \in DOMAIN t.sets[d[1]].rules
      /\ Matches(t, RuleAt(t, d), f) /\ RuleAt(t, d) = t.sets[d[1]].rules[d[2]]
  BY CandidateProperties DEF Alike, RuleAt
<1>2. d[2] \in EnabledIn(t, d[1]) /\ CompiledSet(t, d[1]) = CompiledSet(u, d[1])
  BY <1>1 DEF Matches, EnabledIn, Alike
<1>3. PICK m \in EnabledIn(u, d[1]) :
        EntryOf(u, u.sets[d[1]].rules[m]) = EntryOf(t, t.sets[d[1]].rules[d[2]])
  BY <1>2, RuleHasLike
<1> DEFINE e == <<d[1], m>>
<1>4. e \in Candidates(u, f)
  BY <1>1, <1>2, <1>3, CandidatesAlike
<1>5. e[1] = d[1] /\ e[2] = m /\ RuleAt(u, e) = u.sets[d[1]].rules[m]
  BY DEF RuleAt
<1> HIDE DEF e
<1> QED BY <1>1, <1>2, <1>3, <1>4, <1>5

\* It is judged in the same way.
LEMMA TranslatedAlike ==
  ASSUME NEW t, NEW u, Alike(t, u), NEW f \in Flows,
         NEW d \in Candidates(t, f), NEW e \in Candidates(u, f), d[1] = e[1],
         d[1] \in Present(t), d[2] \in EnabledIn(t, d[1]), e[2] \in EnabledIn(u, d[1]),
         EntryOf(t, RuleAt(t, d)) = EntryOf(u, RuleAt(u, e))
  PROVE  /\ Translated(t, f, d).action = Translated(u, f, e).action
         /\ Translated(t, f, d).out = Translated(u, f, e).out
<1> DEFINE n == d[1]
           p == t.sets[n].rules
           q == u.sets[n].rules
           P == {k \in DOMAIN p : Matches(t, p[k], f)}
           Q == {k \in DOMAIN q : Matches(u, q[k], f)}
           out == Route(t, FirstIP(t.addresses[RuleAt(t, d).nat.to].spec))
<1>1. /\ t \in Trees /\ u \in Trees /\ n \in Present(u) /\ CompiledSet(t, n) = CompiledSet(u, n)
  BY DEF Alike
<1>2. /\ RuleAt(t, d) \in Policy /\ RuleAt(u, e) \in Policy
      /\ RuleAt(t, d).enabled /\ RuleAt(u, e).enabled
      /\ IsDnat(RuleAt(t, d)) /\ FirstIP(t.addresses[RuleAt(t, d).nat.to].spec) # None
      /\ Matches(t, RuleAt(t, d), f) /\ RuleAt(t, d) = p[d[2]] /\ d[2] \in DOMAIN p
  BY <1>1, CandidateProperties DEF Candidates, Matches, RuleAt
<1>3. /\ t.addresses[RuleAt(t, d).nat.to].spec = u.addresses[RuleAt(u, e).nat.to].spec
      /\ RuleAt(t, d).name = RuleAt(u, e).name
  <2> HIDE DEF n, p, q, P, Q, out
  <2> QED BY <1>2, RulesAlike
<1>4. FirstIP(t.addresses[RuleAt(t, d).nat.to].spec) \in Ip
  <2>1. t.addresses[RuleAt(t, d).nat.to].spec \in AddressForms
    BY <1>1, <1>2, DnatTarget DEF Trees, AddressSpec
  <2> QED BY <1>2, <2>1, FirstIPType DEF FirstIP
<1>5. out = Route(u, FirstIP(u.addresses[RuleAt(u, e).nat.to].spec))
  BY <1>3, <1>4, RouteAlike
<1> HIDE DEF out
<1>6. Governing(t, f.in, out) = Governing(u, f.in, out)
  BY GoverningAlike
<1>7. P # {} /\ P \in SUBSET EnabledIn(t, n) /\ Q \in SUBSET EnabledIn(u, n)
  BY <1>2 DEF EnabledIn, Matches
<1>8. ASSUME NEW k \in EnabledIn(t, n), NEW m \in EnabledIn(u, n), EntryOf(t, p[k]) = EntryOf(u, q[m])
      PROVE  /\ p[k].name = q[m].name /\ p[k].action = q[m].action
             /\ k \in P <=> m \in Q
  <2>1. /\ p[k] \in Policy /\ q[m] \in Policy /\ p[k].enabled /\ q[m].enabled
        /\ k \in DOMAIN p /\ m \in DOMAIN q
    BY <1>1, RulesType DEF EnabledIn
  <2> HIDE DEF p, q
  <2>2. /\ p[k].name = q[m].name /\ p[k].action = q[m].action
        /\ Matches(t, p[k], f) <=> Matches(u, q[m], f)
    BY <1>8, <2>1, RulesAlike
  <2> QED BY <2>1, <2>2
<1>9. /\ Least(P) \in P /\ Least(Q) \in Q
      /\ EntryOf(t, p[Least(P)]) = EntryOf(u, q[Least(Q)])
  <2>1. \A k \in EnabledIn(t, n), m \in EnabledIn(u, n) :
          EntryOf(t, t.sets[n].rules[k]) = EntryOf(u, u.sets[n].rules[m]) => (k \in P <=> m \in Q)
    BY <1>8
  <2> HIDE DEF P, Q, n
  <2> QED BY <1>1, <1>7, <2>1, FirstAlike DEF n
<1>10. p[Least(P)].name = q[Least(Q)].name /\ p[Least(P)].action = q[Least(Q)].action
  <2> HIDE DEF P, Q, p, q
  <2> QED BY <1>7, <1>8, <1>9
<1> DEFINE i == Least(P)
           j == Least(Q)
<1>11. /\ Translated(t, f, d)
            = IF Governing(t, f.in, out) # n
                THEN Verdict("drop", "dnat-route-mismatch", out, n, None)
              ELSE IF p[i].name = RuleAt(t, d).name THEN Verdict("accept", "policy", out, n, i)
              ELSE Verdict("drop", IF p[i].action = "drop" THEN "policy" ELSE "dnat-shadowed", out, n, i)
       /\ Translated(u, f, e)
            = IF Governing(u, f.in, out) # n
                THEN Verdict("drop", "dnat-route-mismatch", out, n, None)
              ELSE IF q[j].name = RuleAt(u, e).name THEN Verdict("accept", "policy", out, n, j)
              ELSE Verdict("drop", IF q[j].action = "drop" THEN "policy" ELSE "dnat-shadowed", out, n, j)
  BY <1>5 DEF Translated, out
<1> HIDE DEF i, j, p, q, n
<1> QED BY <1>3, <1>6, <1>10, <1>11 DEF Verdict, i, j

\* And so is a flow that no rule translates.
LEMMA ForwardedAlike ==
  ASSUME NEW t, NEW u, Alike(t, u), NEW f \in Flows
  PROVE  /\ Forwarded(t, f).action = Forwarded(u, f).action
         /\ Forwarded(t, f).out = Forwarded(u, f).out
<1> DEFINE out == Route(t, f.dst)
           n == Governing(t, f.in, out)
           p == t.sets[n].rules
           q == u.sets[n].rules
           P == {k \in DOMAIN p : ~IsDnat(p[k]) /\ Matches(t, p[k], f)}
           Q == {k \in DOMAIN q : ~IsDnat(q[k]) /\ Matches(u, q[k], f)}
<1>1. t \in Trees /\ u \in Trees
  BY DEF Alike
<1>2. out = Route(u, f.dst) /\ n = Governing(u, f.in, out)
  BY FlowType, RouteAlike, GoverningAlike
<1>3. IntraZone(t, f.in, out) <=> IntraZone(u, f.in, out)
  BY DEF Alike
<1>4. /\ Forwarded(t, f)
           = IF out \in {None, f.in} THEN Verdict("drop", "no-ruleset", out, None, None)
             ELSE IF n = None
               THEN IF IntraZone(t, f.in, out) THEN Verdict("accept", "intra-zone", out, None, None)
                    ELSE Verdict("drop", "no-ruleset", out, None, None)
             ELSE IF P = {} THEN Verdict("drop", "default-deny", out, n, None)
             ELSE Verdict(p[Least(P)].action, "policy", out, n, Least(P))
      /\ Forwarded(u, f)
           = IF out \in {None, f.in} THEN Verdict("drop", "no-ruleset", out, None, None)
             ELSE IF n = None
               THEN IF IntraZone(u, f.in, out) THEN Verdict("accept", "intra-zone", out, None, None)
                    ELSE Verdict("drop", "no-ruleset", out, None, None)
             ELSE IF Q = {} THEN Verdict("drop", "default-deny", out, n, None)
             ELSE Verdict(q[Least(Q)].action, "policy", out, n, Least(Q))
  BY <1>2 DEF Forwarded
<1> HIDE DEF out
<1>5. ASSUME n # None
      PROVE  /\ P = {} <=> Q = {}
             /\ P # {} => p[Least(P)].action = q[Least(Q)].action
  <2>1. n \in Present(t) /\ n \in Present(u) /\ CompiledSet(t, n) = CompiledSet(u, n)
    <3> HIDE DEF n
    <3>1. n \in SetNames /\ Governs(t, n, f.in, out)
      BY <1>1, <1>5, GoverningProperties DEF n
    <3> QED BY <3>1 DEF Governs, Alike
  <2> HIDE DEF n
  <2>2. P \in SUBSET EnabledIn(t, n) /\ Q \in SUBSET EnabledIn(u, n)
    BY DEF EnabledIn, Matches
  <2>3. ASSUME NEW k \in EnabledIn(t, n), NEW m \in EnabledIn(u, n), EntryOf(t, p[k]) = EntryOf(u, q[m])
        PROVE  p[k].action = q[m].action /\ (k \in P <=> m \in Q)
    <3>1. /\ p[k] \in Policy /\ q[m] \in Policy /\ p[k].enabled /\ q[m].enabled
          /\ k \in DOMAIN p /\ m \in DOMAIN q
      BY <1>1, <2>1, RulesType DEF EnabledIn
    <3> HIDE DEF p, q
    <3>2. /\ p[k].action = q[m].action /\ (IsDnat(p[k]) <=> IsDnat(q[m]))
          /\ Matches(t, p[k], f) <=> Matches(u, q[m], f)
      BY <2>3, <3>1, RulesAlike
    <3> QED BY <3>1, <3>2
  <2>4. \A k \in EnabledIn(t, n), m \in EnabledIn(u, n) :
          EntryOf(t, t.sets[n].rules[k]) = EntryOf(u, u.sets[n].rules[m]) => (k \in P <=> m \in Q)
    BY <2>3
  <2> HIDE DEF P, Q
  <2>5. /\ P = {} <=> Q = {}
        /\ P # {} => /\ Least(P) \in P /\ Least(Q) \in Q
                     /\ EntryOf(t, p[Least(P)]) = EntryOf(u, q[Least(Q)])
    BY <1>1, <2>1, <2>2, <2>4, FirstAlike
  <2> HIDE DEF p, q
  <2> QED BY <2>2, <2>3, <2>5
<1> HIDE DEF n, p, q, P, Q
<1> QED BY <1>3, <1>4, <1>5 DEF Verdict

\* So every flow is.
LEMMA VerdictsAlike ==
  ASSUME NEW t, NEW u, Alike(t, u), NEW f \in Flows
  PROVE  /\ Classify(t, f).action = Classify(u, f).action
         /\ Classify(t, f).out = Classify(u, f).out
<1>1. Alike(u, t)
  BY DEF Alike
<1>2. t \in Trees /\ DnatsValid(t) /\ u \in Trees /\ DnatsValid(u)
  BY DEF Alike, Valid
<1>3. CASE Candidates(t, f) = {}
  <2>1. Candidates(u, f) = {}
    BY <1>1, <1>3, CandidateHasLike
  <2> QED BY <1>3, <2>1, ForwardedAlike DEF Classify
<1>4. CASE Candidates(t, f) # {}
  <2>1. PICK d \in Candidates(t, f) : TRUE
    BY <1>4
  <2>2. PICK e \in Candidates(u, f) :
          /\ d[1] = e[1] /\ d[1] \in Present(t)
          /\ d[2] \in EnabledIn(t, d[1]) /\ e[2] \in EnabledIn(u, d[1])
          /\ EntryOf(t, RuleAt(t, d)) = EntryOf(u, RuleAt(u, e))
    BY CandidateHasLike
  <2>3. First(Candidates(t, f)) = d /\ First(Candidates(u, f)) = e
    BY <1>2, FirstIsOnly
  <2> QED BY <1>4, <2>2, <2>3, TranslatedAlike DEF Classify
<1> QED BY <1>3, <1>4

\* An Address is among those it stands for.
LEMMA StandsForItself ==
  ASSUME NEW refs \in SUBSET AddressNames, NEW a \in refs
  PROVE  a \in ExpandAddresses(refs)
<1>1. a \in Expansion[a] /\ a \in DOMAIN Expansion
  BY DEF Expansion, AddressRefNames
<1> QED BY <1>1 DEF ExpandAddresses

\* The firewall answers the same packets.
LEMMA AnswersAlike ==
  ASSUME NEW t, NEW s \in Locals, NEW u, NEW v \in Locals, Sections(t, s) = Sections(u, v)
  PROVE  Allowed(t, s) = Allowed(u, v)
<1>1. /\ t.interfaces = u.interfaces /\ SpecValues(t, s.trusted) = SpecValues(u, v.trusted)
      /\ s.access = v.access /\ s.dhcp = v.dhcp /\ s.dns = v.dns /\ s.ntpOn = v.ntpOn
      /\ DnsOn(t, s) = DnsOn(u, v) /\ NtpOn(t, s) = NtpOn(u, v)
  BY SectionsTell
<1>2. \A i : /\ (s.dns # None /\ \E ref \in s.dns : i \in Side(t, ref))
                  <=> (v.dns # None /\ \E ref \in v.dns : i \in Side(u, ref))
             /\ (s.ntpOn /\ \E ref \in s.ntp : i \in Side(t, ref))
                  <=> (v.ntpOn /\ \E ref \in v.ntp : i \in Side(u, ref))
  <2>1. \A i, w, x : /\ i \in DnsOn(w, x) <=> (x.dns # None /\ \E ref \in x.dns : i \in Side(w, ref))
                     /\ i \in NtpOn(w, x) <=> (x.ntpOn /\ \E ref \in x.ntp : i \in Side(w, ref))
    BY DEF DnsOn, NtpOn, Served
  <2> QED BY <1>1, <2>1
<1>3. s.trusted = {} <=> v.trusted = {}
  <2> DEFINE X == ExpandAddresses(s.trusted)
             Y == ExpandAddresses(v.trusted)
  <2>1. s.trusted \in SUBSET AddressNames /\ v.trusted \in SUBSET AddressNames
    BY DEF Locals
  <2>2. (s.trusted = {} <=> X = {}) /\ (v.trusted = {} <=> Y = {})
    <3>1. \A x \in SUBSET AddressNames : x # {} => ExpandAddresses(x) # {}
      BY StandsForItself
    <3>2. ExpandAddresses({}) = {}
      BY DEF ExpandAddresses
    <3> QED BY <2>1, <3>1, <3>2
  <2>3. {t.addresses[a].spec : a \in X} = {u.addresses[a].spec : a \in Y}
    <3>1. SpecValues(t, s.trusted).specs = SpecValues(u, v.trusted).specs
      BY <1>1
    <3> QED BY <3>1 DEF SpecValues
  <2> HIDE DEF X, Y
  <2>4. X = {} <=> Y = {}
    BY <2>3
  <2> QED BY <2>2, <2>4
<1>4. \A ip : InAddresses(t, s.trusted, ip) <=> InAddresses(u, v.trusted, ip)
  BY <1>1, AddressesAlike
<1>5. \A i, svc, ip : LocalAllowed(t, s, i, svc, ip) <=> LocalAllowed(u, v, i, svc, ip)
  BY <1>1, <1>2, <1>3, <1>4 DEF LocalAllowed
<1> QED BY <1>5 DEF Allowed

\* An edit changes the sides of no RuleSet.
LEMMA SidesStay ==
  ASSUME tree \in Trees, [Next]_tree, NEW n \in Present(tree), n \in Present(tree')
  PROVE  tree.sets[n].from = tree'.sets[n].from /\ tree.sets[n].to = tree'.sets[n].to
<1>1. n \in SetNames /\ tree.sets[n] # None /\ tree.sets[n] \in RuleSetSpec
  BY RulesType DEF Present
<1>2. \A t : Save(t) => tree' = t \/ tree' = tree
  BY DEF Save
<1>3. CASE Objects
  <2>1. tree'.sets = tree.sets
    BY <1>2, <1>3 DEF Objects, PutInterface, PutZone, DeleteZone, PutAddress, PutRoute, DeleteRoute, Trees
  <2> QED BY <2>1
<1>4. ASSUME NEW k \in SetNames, NEW rules, SaveRules(k, rules)
      PROVE  tree.sets[n].from = tree'.sets[n].from /\ tree.sets[n].to = tree'.sets[n].to
  <2>1. \/ tree' = tree
        \/ tree' = [tree EXCEPT !.sets[k].rules = rules]
    BY <1>4, <1>2 DEF SaveRules
  <2>2. CASE tree' = [tree EXCEPT !.sets[k].rules = rules]
    BY <1>1, <2>2 DEF Trees, RuleSetSpec
  <2> QED BY <2>1, <2>2
<1>5. CASE RuleSets
  <2> PICK k \in SetNames :
        \/ DeleteRuleSet(k)
        \/ \E p \in Pairs : NewRuleSet(k, p)
        \/ \E r \in Rules : NewRule(k, r)
    BY <1>5 DEF RuleSets
  <2>1. CASE DeleteRuleSet(k)
    <3>1. tree' = tree \/ tree' = [tree EXCEPT !.sets[k] = None]
      BY <1>2, <2>1 DEF DeleteRuleSet
    <3>2. CASE tree' = [tree EXCEPT !.sets[k] = None]
      <4>1. k # n
        BY <1>1, <3>2 DEF Present, Trees
      <4> QED BY <1>1, <3>2, <4>1 DEF Trees
    <3> QED BY <3>1, <3>2
  <2>2. CASE \E p \in Pairs : NewRuleSet(k, p)
    <3>1. k # n
      BY <1>1, <2>2 DEF NewRuleSet
    <3>2. tree'.sets[n] = tree.sets[n]
      BY <1>1, <1>2, <2>2, <3>1 DEF NewRuleSet, Trees
    <3> QED BY <3>2
  <2>3. CASE \E r \in Rules : NewRule(k, r)
    BY <1>4, <2>3 DEF NewRule
  <2> QED BY <2>1, <2>2, <2>3
<1>6. CASE Policies
  <2> PICK k \in Present(tree) : \E i \in DOMAIN tree.sets[k].rules :
        \/ RemoveRule(k, i)
        \/ ToggleRule(k, i)
        \/ \E r \in Rules : EditRule(k, i, r)
        \/ \E j \in DOMAIN tree.sets[k].rules : MoveRule(k, i, j)
    BY <1>6 DEF Policies
  <2>1. k \in SetNames
    BY DEF Present
  <2>2. \E rules : SaveRules(k, rules)
    BY DEF RemoveRule, ToggleRule, EditRule, MoveRule
  <2> QED BY <1>4, <2>1, <2>2
<1> QED BY <1>3, <1>5, <1>6 DEF Next

-----------------------------------------------------------------------------
(* What is compiled *)

\* Edits of services leave them well formed, and the tree without errors.
LEMMA CompilerStep ==
  ASSUME Sound, local \in Locals, [CompilerNext]_vars
  PROVE  Sound' /\ (local \in Locals)' /\ [Next]_tree
<1>1. CASE UNCHANGED vars
  BY <1>1, SoundStays DEF vars
<1>2. CASE EditTree
  BY <1>2, SoundStays DEF EditTree
<1>3. CASE UNCHANGED tree /\ local' \in Locals
  BY <1>3, SoundStays
<1>4. CASE ServeDns
  <2>1. UNCHANGED tree /\ local' \in Locals
    BY <1>4 DEF ServeDns, PutServices, Locals
  <2> QED BY <1>3, <2>1
<1>5. CASE ServeNtp
  <2>1. UNCHANGED tree /\ local' \in Locals
    BY <1>5 DEF ServeNtp, PutServices, Locals
  <2> QED BY <1>3, <2>1
<1>6. CASE ServeDhcp
  <2>1. UNCHANGED tree /\ local' \in Locals
    BY <1>6 DEF ServeDhcp, PutServices, Locals
  <2> QED BY <1>3, <2>1
<1>7. CASE AllowAccess
  <2>1. UNCHANGED tree /\ local' \in Locals
    BY <1>7 DEF AllowAccess, PutServices, Locals
  <2> QED BY <1>3, <2>1
<1>8. CASE TrustHosts
  <2>1. UNCHANGED tree /\ local' \in Locals
    BY <1>8 DEF TrustHosts, PutServices, Locals
  <2> QED BY <1>3, <2>1
<1> QED BY <1>1, <1>2, <1>4, <1>5, <1>6, <1>7, <1>8 DEF CompilerNext

\* A service is opened where it is served.
LEMMA OpenedIsServed ==
  ASSUME NEW t, NEW s \in Locals
  PROVE  \A i \in Interfaces : \A svc \in Known :
           svc \in LocalIn(t, s)[i] <=>
             \E src \in Ip : LocalAllowed(t, [s EXCEPT !.trusted = {}], i, svc, src)
<1> DEFINE v == [s EXCEPT !.trusted = {}]
<1>1. /\ v.trusted = {} /\ v.access = s.access /\ v.dhcp = s.dhcp
      /\ v.dns = s.dns /\ v.ntp = s.ntp /\ v.ntpOn = s.ntpOn
      /\ s.access \in [Interfaces -> SUBSET Access]
  BY DEF Locals
<1>2. \A i : /\ i \in DnsOn(t, s) <=> (v.dns # None /\ \E ref \in v.dns : i \in Side(t, ref))
             /\ i \in NtpOn(t, s) <=> (v.ntpOn /\ \E ref \in v.ntp : i \in Side(t, ref))
  BY <1>1 DEF DnsOn, NtpOn, Served
<1> HIDE DEF v
<1>3. 0 \in Ip
  <2>1. 2^Width \in Nat /\ 2^Width >= 1
    BY PowersOfTwo, WidthAssumption, SMT DEF Block
  <2> QED BY <2>1 DEF Ip, Top
<1>4. ASSUME NEW i \in Interfaces, NEW svc \in Known, NEW src \in Ip
      PROVE  svc \in LocalIn(t, s)[i] <=> LocalAllowed(t, v, i, svc, src)
  <2>1. svc \in LocalIn(t, s)[i] <=>
          \/ svc \in s.access[i]
          \/ svc = "https" /\ t.interfaces[i].https
          \/ svc = "dhcp" /\ i \in s.dhcp
          \/ svc = "dns" /\ i \in DnsOn(t, s)
          \/ svc = "ntp" /\ i \in NtpOn(t, s)
    BY DEF LocalIn
  <2> QED BY <1>1, <1>2, <2>1 DEF LocalAllowed
<1> QED BY <1>3, <1>4 DEF v

\* The route that is used is active: a better one to the same prefix would lead to
\* the same destination, and be used.
LEMMA UsedIsActive ==
  ASSUME NEW t \in Trees, Valid(t), NEW dst \in Ip
  PROVE  LET leading == {k \in Routes(t) : Leads(t.routes[k], dst)}
             bits(k) == t.routes[k].bits
             longest == {k \in leading : \A j \in leading : bits(j) <= bits(k)}
         IN  /\ longest # {}
             /\ \A l \in ActiveLinks(t) : Leads(l, dst) => \A k \in longest : l.bits < bits(k)
             => \E k \in longest \cap ActiveRoutes(t) : t.routes[k].iface = Route(t, dst)
<1> DEFINE leading == {k \in Routes(t) : Leads(t.routes[k], dst)}
           longest == {k \in leading : \A j \in leading : t.routes[j].bits <= t.routes[k].bits}
           ls == SetToSeq(ActiveLinks(t))
           d == Direct(ls, dst)
           F == Fitting(t, dst, d)
<1> SUFFICES ASSUME longest # {},
                    \A l \in ActiveLinks(t) : Leads(l, dst) => \A k \in longest : l.bits < t.routes[k].bits
             PROVE  \E k \in longest \cap ActiveRoutes(t) : t.routes[k].iface = Route(t, dst)
  OBVIOUS
<1>1. SubnetsDisjoint(t) /\ \A k \in Routes(t) : t.routes[k] \in RouteSpec
  BY DEF Valid, Routes, Trees
<1>2. \A k \in Routes(t) : t.routes[k].bits \in Nat
  BY <1>1 DEF RouteSpec
<1>3. ls \in SetToSeqs(ActiveLinks(t)) /\ SetToSeq(Routes(t)) \in SetToSeqs(Routes(t))
  BY LinksFinite, OrderExists
<1>4. \A k \in longest : d.bits \in Int /\ d.bits < t.routes[k].bits
  <2>1. CASE \A l \in ActiveLinks(t) : ~Leads(l, dst)
    <3>1. d.bits = -1
      BY <1>1, <1>3, <2>1, DirectIs
    <3> HIDE DEF d
    <3> QED BY <1>2, <3>1
  <2>2. CASE \E l \in ActiveLinks(t) : Leads(l, dst)
    <3>1. PICK l \in ActiveLinks(t) : Leads(l, dst) /\ d = l
      BY <1>1, <1>3, <2>2, DirectIs
    <3> HIDE DEF d
    <3> QED BY <3>1, LinksFinite
  <2> QED BY <2>1, <2>2
<1>5. \A k \in longest : k \in F
  BY <1>4 DEF Fitting
<1>6. PICK k \in F : /\ Route(t, dst) = t.routes[k].iface
                     /\ \A j \in F : ~Beats(t.routes[j], t.routes[k])
  <2>1. F # {}
    BY <1>5
  <2>2. Route(t, dst) = RouteOver(t, ls, SetToSeq(Routes(t)), dst)
    BY DEF Route
  <2> HIDE DEF d, ls
  <2> QED BY <1>3, <2>1, <2>2, WalkEnds DEF d
<1> HIDE DEF d
<1>7. k \in leading /\ d.bits < t.routes[k].bits
  <2>1. PICK m \in longest : TRUE
    OBVIOUS
  <2> QED BY <1>2, <1>4, <2>1 DEF Fitting
<1>8. k \in longest
  <2>1. PICK m \in longest : TRUE
    OBVIOUS
  <2>2. ~(t.routes[m].bits > t.routes[k].bits)
    BY <1>5, <1>6, <2>1 DEF Beats
  <2> QED BY <1>2, <1>7, <2>1, <2>2
<1>9. k \in ActiveRoutes(t)
  <2> SUFFICES ASSUME NEW j \in Routes(t),
                      <<t.routes[j].ip, t.routes[j].bits>> = <<t.routes[k].ip, t.routes[k].bits>>,
                      Better(Preference(t.routes[j]), Preference(t.routes[k]))
               PROVE  FALSE
    BY <1>7 DEF ActiveRoutes
  <2>1. t.routes[j].ip = t.routes[k].ip /\ t.routes[j].bits = t.routes[k].bits
    OBVIOUS
  <2>2. j \in F
    BY <1>7, <2>1 DEF Fitting, Leads
  <2> QED BY <1>6, <2>1, <2>2 DEF Beats
<1> QED BY <1>6, <1>8, <1>9

\* It is so from the start.
LEMMA CompilerStart ==
  ASSUME CompilerInit
  PROVE  Sound /\ local \in Locals
BY FirewallAssumption, CompilerAssumption DEF CompilerInit, Init, Sound, TypeOK, Locals

\* The tree and the services are well typed in every state.
THEOREM CompilerTypeCorrect == CompilerSpec => []CompilerTypeOK
<1>1. Sound => TypeOK
  BY DEF Sound
<1> QED BY <1>1, CompilerStart, CompilerStep, PTL DEF CompilerSpec, CompilerTypeOK

\* What compile opens is what may be reached, the route in use is shown as active,
\* and an edit that changes no section and no member of a Zone changes no verdict:
\* for any objects, services and flows.
THEOREM CompiledAlwaysUsed == CompilerSpec => CompiledIsUsed
<1> DEFINE I == Sound /\ local \in Locals
<1>1. CompilerInit => I
  BY CompilerStart
<1>2. I /\ [CompilerNext]_vars => I'
  BY CompilerStep
<1>3. I => LocalInIsServed
  BY OpenedIsServed DEF LocalInIsServed
<1>4. I => UsedRouteIsActive
  <2> SUFFICES ASSUME I PROVE UsedRouteIsActive
    OBVIOUS
  <2>1. tree \in Trees /\ Valid(tree) /\ \A f \in Flows : f.dst \in Ip
    BY FlowType DEF Sound, TypeOK
  <2> QED BY <2>1, UsedIsActive DEF UsedRouteIsActive
<1>5. ASSUME I, I', [CompilerNext]_vars
      PROVE  SameVerdicts
  <2> SUFFICES ASSUME Same, SameZones
               PROVE  /\ Allowed(tree, local) = Allowed(tree', local')
                      /\ \A f \in Flows : /\ Classify(tree, f).action = Classify(tree', f).action
                                          /\ Classify(tree, f).out = Classify(tree', f).out
    BY DEF SameVerdicts
  <2>1. Sections(tree, local) = Sections(tree', local') /\ local \in Locals /\ local' \in Locals
    BY <1>5 DEF Same
  <2>2. Allowed(tree, local) = Allowed(tree', local')
    BY <2>1, AnswersAlike
  <2>3. Alike(tree, tree')
    <3>1. tree \in Trees /\ tree' \in Trees /\ Valid(tree) /\ Valid(tree')
      BY <1>5 DEF Sound, TypeOK
    <3>2. /\ tree.interfaces = tree'.interfaces /\ RouteSpecsOf(tree) = RouteSpecsOf(tree')
          /\ IntraZones(tree) = IntraZones(tree')
          /\ Present(tree) = Present(tree')
          /\ \A n \in Present(tree) : CompiledSet(tree, n) = CompiledSet(tree', n)
      BY <2>1, SectionsTell, RuleSetsAlike
    <3>3. /\ \A ref \in Interfaces \cup ZoneNames : Side(tree, ref) = Side(tree', ref)
          /\ \A i, j : IntraZone(tree, i, j) <=> IntraZone(tree', i, j)
      BY <3>1, <3>2, ZonesAlike DEF SameZones
    <3>4. \A n \in Present(tree) : /\ tree.sets[n].from = tree'.sets[n].from
                                   /\ tree.sets[n].to = tree'.sets[n].to
      BY <1>5, <3>1, <3>2, CompilerStep, SidesStay
    <3> QED BY <3>1, <3>2, <3>3, <3>4 DEF Alike
  <2>4. \A f \in Flows : /\ Classify(tree, f).action = Classify(tree', f).action
                         /\ Classify(tree, f).out = Classify(tree', f).out
    BY <2>3, VerdictsAlike
  <2> QED BY <2>2, <2>4
<1> QED BY <1>1, <1>2, <1>3, <1>4, <1>5, PTL DEF CompilerSpec, CompiledIsUsed
=============================================================================
