---------------------------- MODULE Addresses_proofs ----------------------------
(***************************************************************************)
(* Proofs about addresses: the networks that the Validator lets in (Network), *)
(* and its lists of intervals against the addresses the classifier matches    *)
(* (AddressLists), for addresses of any width and any number of objects.      *)
(***************************************************************************)
EXTENDS Network, AddressLists, IntervalSets_proofs

-----------------------------------------------------------------------------
(* Subnets *)

\* A subnet matches the addresses with its prefix.
LEMMA InPrefixMasked ==
  ASSUME NEW p \in Address, NEW ip \in Ip
  PROVE  InPrefix(p, ip) <=> Masked(ip, p.bits) = Masked(p.ip, p.bits)
BY DEF InPrefix, addrContains, Subnet

\* What is between two addresses of a subnet is in it.
LEMMA SubnetIsConvex ==
  ASSUME NEW p \in Address, NEW x \in Ip, NEW y \in Ip, InPrefix(p, x), InPrefix(p, y)
  PROVE  \A ip \in x..y : ip \in Ip /\ InPrefix(p, ip)
<1>1. p.bits \in 0..Width /\ p.ip \in Ip
  BY DEF Address
<1>2. \A ip \in x..y : ip \in Ip /\ ip \in Nat /\ x <= ip /\ ip <= y
  BY IpType
<1>3. Masked(x, p.bits) = Masked(y, p.bits)
  BY InPrefixMasked
<1>4. \A ip \in x..y : Masked(ip, p.bits) = Masked(x, p.bits)
  BY <1>1, <1>2, <1>3, IpType, BlockIsConvex
<1> QED BY <1>2, <1>4, InPrefixMasked

\* Two subnets with an address in common overlap for the Validator, which
\* compares their intervals.
LEMMA SharedOverlaps ==
  ASSUME NEW p \in Address, NEW q \in Address, NEW ip \in Ip, InPrefix(p, ip), InPrefix(q, ip)
  PROVE  OverlapsPrefix(p, q)
<1>1. /\ p.bits \in 0..Width /\ q.bits \in 0..Width
      /\ p.ip \in Ip /\ q.ip \in Ip /\ ip \in Nat
  BY IpType DEF Address
<1> DEFINE iv(a) == Interval(Masked(a.ip, a.bits), Masked(a.ip, a.bits) + HostBits(a.bits))
<1>2. Span(Subnet(p.ip, p.bits)) = {iv(p)} /\ Span(Subnet(q.ip, q.bits)) = {iv(q)}
  BY DEF Span, Subnet
<1>3. /\ iv(p).lo <= ip /\ ip <= iv(p).hi /\ iv(p).lo \in Nat /\ iv(p).hi \in Int
      /\ iv(q).lo <= ip /\ ip <= iv(q).hi /\ iv(q).lo \in Nat /\ iv(q).hi \in Int
  <2>1. Masked(ip, p.bits) = Masked(p.ip, p.bits) /\ Masked(ip, q.bits) = Masked(q.ip, q.bits)
    BY InPrefixMasked
  <2>2. /\ Masked(ip, p.bits) \in Nat /\ Masked(ip, p.bits) <= ip
        /\ ip <= Masked(ip, p.bits) + HostBits(p.bits)
    BY <1>1, InBlock
  <2>3. /\ Masked(ip, q.bits) \in Nat /\ Masked(ip, q.bits) <= ip
        /\ ip <= Masked(ip, q.bits) + HostBits(q.bits)
    BY <1>1, InBlock
  <2>4. HostBits(p.bits) \in Int /\ HostBits(q.bits) \in Int
    BY <1>1, BlockSize
  <2> QED BY <2>1, <2>2, <2>3, <2>4 DEF Interval
<1> HIDE DEF iv
<1>4. iv(p).lo <= iv(q).hi /\ iv(q).lo <= iv(p).hi
  BY <1>1, <1>3
<1> QED BY <1>2, <1>4 DEF OverlapsPrefix, Overlaps

-----------------------------------------------------------------------------
(* What the rules say of a tree *)

Networks == [ifaces : [Interface -> IfaceSpecs \cup {Unset}],
          servers : [DhcpServer -> ServerSpecs \cup {Unset}]]

RuleNames == {"DM-02", "DM-03", "DM-04", "R-020.4", "DM-22", "DM-24", "DM-25",
              "DM-26", "DM-27", "DM-28", "DM-29", "R-017.3"}

\* A rule that holds is no error, and one that does not is.
LEMMA RuleHolds ==
  ASSUME NEW name, NEW holds \in BOOLEAN
  PROVE  (name \in Rule(name, holds) <=> ~holds) /\ Rule(name, holds) \subseteq {name}
BY DEF Rule

\* The objects that are there are objects that may be saved.
LEMMA IfaceTypes ==
  ASSUME NetworkAssumption, NEW t \in Networks, NEW i \in Ifaces(t)
  PROVE  /\ i \in Interface /\ t.ifaces[i] \in IfaceSpecs
         /\ t.ifaces[i].addresses \subseteq Address
         /\ t.ifaces[i].type \in {"physical", "vlan"}
BY DEF NetworkAssumption, Networks, Ifaces

\* The fields of a server of a tree.
LEMMA ServerTypes ==
  ASSUME NetworkAssumption, NEW t \in Networks, NEW d \in Servers(t)
  PROVE  /\ d \in DhcpServer /\ t.servers[d] \in ServerSpecs
         /\ t.servers[d].rangeStart \in Ip /\ t.servers[d].rangeEnd \in Ip
         /\ t.servers[d].gateway \in Ip \cup {Unset}
         /\ \A r \in t.servers[d].reservations : r.ip \in Ip
BY DEF NetworkAssumption, Networks, Servers

\* Rules of Interfaces, in a tree that breaks none.
LEMMA InterfaceRules ==
  ASSUME NEW t, Errors(t) = {}
  PROVE  /\ \A i \in Vlans(t) : t.ifaces[i].parent \in Ifaces(t) \ Vlans(t)
         /\ \A i, j \in Vlans(t) : i # j =>
              <<t.ifaces[i].parent, t.ifaces[i].vlanId>> # <<t.ifaces[j].parent, t.ifaces[j].vlanId>>
         /\ \A i, j \in Physical(t) : i # j => t.ifaces[i].device # t.ifaces[j].device
         /\ \A o, q \in Owned(t) : o # q => ~OverlapsPrefix(o[2], q[2])
<1>1. VlanErrors(t) = {} /\ AddressErrors(t) = {}
  BY DEF Errors, InterfaceErrors
<1> QED BY <1>1 DEF VlanErrors, AddressErrors, Rule

\* The rules of dhcp about one server alone, its leases, and pairs of servers.
AloneErrors(t) ==
  Rule("DM-02", Attached(t) = Servers(t))
    \cup Rule("DM-24", \A d \in Attached(t) : t.ifaces[t.servers[d].interface].role # "external")
    \cup Rule("DM-25", Ranged(t) = Attached(t))
AllLeaseErrors(t) ==
  UNION {UNION {LeaseErrors(t.servers[d], p) : p \in RangePrefix(t, t.servers[d])} : d \in Ranged(t)}
PairOf(t, x) == PairErrors(t.servers[x[1]], t.servers[x[2]])

\* The errors of servers: those of one alone, of its leases, and of pairs.
LEMMA DhcpParts ==
  ASSUME NEW t
  PROVE  DhcpErrors(t) =
           AloneErrors(t) \cup AllLeaseErrors(t)
             \cup (UNION {PairOf(t, x) \ {"DM-28"} : x \in PairsOf(Attached(t))})
             \cup (UNION {PairOf(t, x) : x \in PairsOf(Ranged(t))})
BY DEF DhcpErrors, AloneErrors, AllLeaseErrors, PairOf

\* Rules of servers, in a tree that breaks none.
LEMMA ServerRules ==
  ASSUME NEW t, Errors(t) = {}
  PROVE  /\ Attached(t) = Servers(t) /\ Ranged(t) = Servers(t)
         /\ \A d \in Servers(t) : \A p \in RangePrefix(t, t.servers[d]) : LeaseErrors(t.servers[d], p) = {}
         /\ \A d, e \in Servers(t) : d # e => t.servers[d].interface # t.servers[e].interface
<1>1. DhcpErrors(t) = {}
  BY DEF Errors
<1>2. Attached(t) = Servers(t) /\ Ranged(t) = Attached(t)
  BY <1>1, DhcpParts DEF AloneErrors, Rule
<1>3. \A d \in Ranged(t) : \A p \in RangePrefix(t, t.servers[d]) : LeaseErrors(t.servers[d], p) = {}
  <2>1. AllLeaseErrors(t) = {}
    BY <1>1, DhcpParts
  <2>2. ASSUME NEW d \in Ranged(t), NEW p \in RangePrefix(t, t.servers[d]), NEW e \in LeaseErrors(t.servers[d], p)
        PROVE  FALSE
    <3>1. e \in UNION {LeaseErrors(t.servers[d], q) : q \in RangePrefix(t, t.servers[d])}
      BY <2>2
    <3> QED BY <2>1, <3>1 DEF AllLeaseErrors
  <2> QED BY <2>2
<1>4. ASSUME NEW d \in Ranged(t), NEW e \in Ranged(t), d # e
      PROVE  t.servers[d].interface # t.servers[e].interface
  <2>1. <<d, e>> \in PairsOf(Ranged(t))
    BY <1>4 DEF PairsOf
  <2>2. PairOf(t, <<d, e>>) = {}
    BY <1>1, <2>1, DhcpParts
  <2> QED BY <2>2 DEF PairOf, PairErrors, Rule
<1> QED BY <1>2, <1>3, <1>4

\* Errors are named as rules are.
LEMMA ErrorNames == \A t : Errors(t) \subseteq RuleNames
<1> SUFFICES ASSUME NEW t PROVE Errors(t) \subseteq RuleNames
  OBVIOUS
<1>1. InterfaceErrors(t) \subseteq RuleNames
  BY DEF InterfaceErrors, VlanErrors, AddressErrors, Rule, RuleNames
<1>2. \A s, p : LeaseErrors(s, p) \subseteq RuleNames
  BY DEF LeaseErrors, Rule, RuleNames
<1>3. \A s, u : PairErrors(s, u) \subseteq RuleNames
  BY DEF PairErrors, Rule, RuleNames
<1>4. DhcpErrors(t) \subseteq RuleNames
  <2>1. AloneErrors(t) \subseteq RuleNames
    BY DEF AloneErrors, Rule, RuleNames
  <2>2. AllLeaseErrors(t) \subseteq RuleNames
    BY <1>2 DEF AllLeaseErrors
  <2>3. \A x : PairOf(t, x) \subseteq RuleNames
    BY <1>3 DEF PairOf
  <2> QED BY <2>1, <2>2, <2>3, DhcpParts
<1> QED BY <1>1, <1>4 DEF Errors

-----------------------------------------------------------------------------
(* What follows from the rules *)

\* What a server gives out, or names as a gateway, is in one subnet of its
\* Interface, and is not the address the Interface has there.
LEMMA ServedSubnet ==
  ASSUME NetworkAssumption, NEW t \in Networks, Errors(t) = {}, NEW d \in Servers(t)
  PROVE  LET s == t.servers[d] IN
         /\ s.interface \in Ifaces(t)
         /\ \E p \in t.ifaces[s.interface].addresses :
              /\ \A ip \in Leased(s) : ip \in Ip /\ InPrefix(p, ip) /\ ip # p.ip
              /\ s.gateway # Unset => InPrefix(p, s.gateway) /\ s.gateway \notin Leased(s)
<1> DEFINE s == t.servers[d]
           i == s.interface
<1>1. d \in Attached(t) /\ d \in Ranged(t)
  BY ServerRules
<1>2. i \in Ifaces(t)
  BY <1>1 DEF Attached
<1>3. PICK p \in RangePrefix(t, s) : TRUE
  BY <1>1 DEF Ranged
<1>4. /\ s.rangeStart <= s.rangeEnd /\ s.rangeStart \in Ip /\ s.rangeEnd \in Ip
      /\ p \in t.ifaces[i].addresses /\ InPrefix(p, s.rangeStart) /\ InPrefix(p, s.rangeEnd)
  <2>1. s.rangeStart \in Ip /\ s.rangeEnd \in Ip
    BY ServerTypes
  <2>2. ~(s.rangeEnd < s.rangeStart)
    BY <1>3 DEF RangePrefix
  <2>3. p \in InAny(s.rangeStart, t.ifaces[i].addresses) /\ InPrefix(p, s.rangeEnd)
    BY <1>3, <2>2 DEF RangePrefix
  <2>4. s.rangeStart \in Nat /\ s.rangeEnd \in Nat
    <3> HIDE DEF s
    <3> QED BY <2>1, IpType
  <2> QED BY <2>1, <2>2, <2>3, <2>4 DEF InAny
<1>5. p \in Address /\ p.ip \in Ip
  <2>1. p \in Address
    BY <1>2, <1>4, IfaceTypes
  <2> QED BY <2>1 DEF Address
<1>6. \A ip \in s.rangeStart .. s.rangeEnd : ip \in Ip /\ InPrefix(p, ip)
  BY <1>4, <1>5, SubnetIsConvex
<1>7. LeaseErrors(s, p) = {}
  BY <1>3, ServerRules
<1>8. /\ ~Within(s, p.ip)
      /\ s.gateway # Unset => ~(InPrefix(p, s.gateway) /\ Within(s, s.gateway))
      /\ s.gateway # Unset => InPrefix(p, s.gateway)
      /\ \A r \in s.reservations : InPrefix(p, r.ip) /\ r.ip \notin {p.ip, GatewayOf(s, p)}
  BY <1>7 DEF LeaseErrors, Rule
<1>9. \A r \in s.reservations : r.ip \in Ip
  BY ServerTypes
<1>10. \A ip \in s.rangeStart .. s.rangeEnd : Within(s, ip)
  BY <1>4, IpType DEF Within
<1>11. \A ip \in Leased(s) : ip \in Ip /\ InPrefix(p, ip) /\ ip # p.ip
  BY <1>6, <1>8, <1>9, <1>10 DEF Leased
<1>12. s.gateway # Unset => InPrefix(p, s.gateway) /\ s.gateway \notin Leased(s)
  BY <1>8, <1>10 DEF Leased, GatewayOf
<1> QED BY <1>2, <1>4, <1>11, <1>12

\* Addresses in subnets of two Interfaces, or in two subnets, are not the same.
LEMMA SubnetsDisjoint ==
  ASSUME NetworkAssumption, NEW t \in Networks, Errors(t) = {},
         NEW i \in Ifaces(t), NEW j \in Ifaces(t),
         NEW p \in t.ifaces[i].addresses, NEW q \in t.ifaces[j].addresses, <<i, p>> # <<j, q>>,
         NEW ip \in Ip
  PROVE  ~(InPrefix(p, ip) /\ InPrefix(q, ip))
<1>1. <<i, p>> \in Owned(t) /\ <<j, q>> \in Owned(t)
  BY DEF Owned
<1>2. ~OverlapsPrefix(p, q)
  BY <1>1, InterfaceRules
<1>3. p \in Address /\ q \in Address
  BY IfaceTypes
<1> QED BY <1>2, <1>3, SharedOverlaps

-----------------------------------------------------------------------------
(* A tree that breaks no rule is sound *)

NoErrors == Errors(net) = {}
TreeTyped == net \in Networks

\* No address has two owners.
LEMMA NoErrorsOneOwner ==
  ASSUME NetworkAssumption, TreeTyped, NoErrors
  PROVE  OneOwner
<1> USE DEF TreeTyped, NoErrors
<1> SUFFICES ASSUME NEW d \in Servers(net)
             PROVE  LET s == net.servers[d] IN
                    /\ \A e \in Servers(net) \ {d} : Leased(s) \cap Leased(net.servers[e]) = {}
                    /\ \A o \in Owned(net) : o[2].ip \notin Leased(s)
                    /\ \A e \in Servers(net) : net.servers[e].gateway \notin Leased(s)
  BY DEF OneOwner
<1> DEFINE s == net.servers[d]
<1>1. s.interface \in Ifaces(net)
  BY ServedSubnet
<1>2. PICK p \in net.ifaces[s.interface].addresses :
        /\ \A ip \in Leased(s) : ip \in Ip /\ InPrefix(p, ip) /\ ip # p.ip
        /\ s.gateway # Unset => InPrefix(p, s.gateway) /\ s.gateway \notin Leased(s)
  BY ServedSubnet
<1>3. ASSUME NEW e \in Servers(net) \ {d}
      PROVE  /\ Leased(s) \cap Leased(net.servers[e]) = {}
             /\ net.servers[e].gateway \notin Leased(s)
  <2> DEFINE u == net.servers[e]
  <2>1. u.interface \in Ifaces(net) /\ u.interface # s.interface
    BY ServedSubnet, ServerRules
  <2>2. PICK q \in net.ifaces[u.interface].addresses :
          /\ \A ip \in Leased(u) : ip \in Ip /\ InPrefix(q, ip)
          /\ u.gateway # Unset => InPrefix(q, u.gateway)
    BY ServedSubnet
  <2>3. \A ip \in Ip : ~(InPrefix(p, ip) /\ InPrefix(q, ip))
    <3>1. <<s.interface, p>> # <<u.interface, q>>
      BY <2>1
    <3> HIDE DEF s, u
    <3> QED BY <1>1, <2>1, <3>1, SubnetsDisjoint
  <2>4. u.gateway \in Ip \cup {Unset} /\ Unset \notin Ip
    BY ServerTypes DEF NetworkAssumption
  <2> HIDE DEF s, u
  <2>5. Leased(s) \cap Leased(u) = {}
    BY <1>2, <2>2, <2>3
  <2>6. u.gateway \notin Leased(s)
    BY <1>2, <2>2, <2>3, <2>4
  <2> QED BY <2>5, <2>6 DEF s, u
<1>4. ASSUME NEW o \in Owned(net) PROVE o[2].ip \notin Leased(s)
  <2>0. PICK i \in Ifaces(net) : \E q \in net.ifaces[i].addresses : o = <<i, q>>
    BY DEF Owned
  <2>1. PICK q \in net.ifaces[i].addresses : o = <<i, q>>
    BY <2>0
  <2>2. q \in Address
    BY IfaceTypes
  <2>3. q.ip \in Ip /\ InPrefix(q, q.ip)
    <3>1. q.ip \in Ip
      BY <2>2 DEF Address
    <3> QED BY <2>2, <3>1, InPrefixMasked
  <2>4. CASE <<i, q>> = <<s.interface, p>>
    BY <1>2, <2>1, <2>4
  <2>5. CASE <<i, q>> # <<s.interface, p>>
    <3>1. ~(InPrefix(p, q.ip) /\ InPrefix(q, q.ip))
      <4> HIDE DEF s
      <4> QED BY <1>1, <2>3, <2>5, SubnetsDisjoint
    <3> QED BY <1>2, <2>1, <2>3, <3>1
  <2> QED BY <2>4, <2>5
<1>5. s.gateway \notin Leased(s)
  <2>1. Unset \notin Ip
    BY DEF NetworkAssumption
  <2> QED BY <1>2, <2>1
<1> QED BY <1>3, <1>4, <1>5

\* A server serves hosts that reach the gateway it gives them.
LEMMA NoErrorsServed ==
  ASSUME NetworkAssumption, TreeTyped, NoErrors
  PROVE  ServedOnLink
<1> SUFFICES ASSUME NEW d \in Servers(net)
             PROVE  LET s == net.servers[d] IN
                    /\ s.interface \in Ifaces(net)
                    /\ \E p \in net.ifaces[s.interface].addresses :
                         \A ip \in Leased(s) \cup ({s.gateway} \ {Unset}) : InPrefix(p, ip)
  BY DEF ServedOnLink
<1> QED BY ServedSubnet DEF TreeTyped, NoErrors

\* Each Interface is a link of its own.
LEMMA NoErrorsOneLink ==
  ASSUME NetworkAssumption, TreeTyped, NoErrors
  PROVE  OneLinkEach
<1>1. ASSUME NEW i \in Ifaces(net)
      PROVE  \/ i \in Physical(net) /\ Link(i) = {<<net.ifaces[i].device>>}
             \/ /\ i \in Vlans(net) /\ net.ifaces[i].parent \in Physical(net)
                /\ Link(i) = {<<net.ifaces[net.ifaces[i].parent].device, net.ifaces[i].vlanId>>}
  <2>1. CASE net.ifaces[i].type = "vlan"
    <3>1. i \in Vlans(net)
      BY <2>1 DEF Vlans
    <3>2. net.ifaces[i].parent \in Ifaces(net) \ Vlans(net)
      BY <3>1, InterfaceRules DEF NoErrors
    <3>3. net.ifaces[i].parent \in Physical(net)
      BY <3>2 DEF Physical
    <3> QED BY <2>1, <3>1, <3>3 DEF Link
  <2>2. CASE net.ifaces[i].type = "physical"
    <3>1. i \in Physical(net)
      BY <2>2 DEF Physical, Vlans
    <3> QED BY <2>2, <3>1 DEF Link
  <2>3. net.ifaces[i].type \in {"physical", "vlan"}
    BY IfaceTypes DEF TreeTyped
  <2> QED BY <2>1, <2>2, <2>3
<1>2. ASSUME NEW i \in Ifaces(net), NEW j \in Ifaces(net), i # j
      PROVE  Link(i) \cap Link(j) = {}
  <2> DEFINE s == net.ifaces[i]
             u == net.ifaces[j]
  <2>1. CASE i \in Physical(net) /\ j \in Physical(net)
    <3>1. s.device # u.device
      BY <1>2, <2>1, InterfaceRules DEF NoErrors
    <3>2. Link(i) = {<<s.device>>} /\ Link(j) = {<<u.device>>}
      BY <1>1, <2>1 DEF Physical
    <3> QED BY <3>1, <3>2
  <2>2. CASE i \in Vlans(net) /\ j \in Vlans(net)
    <3>1. <<s.parent, s.vlanId>> # <<u.parent, u.vlanId>>
      BY <1>2, <2>2, InterfaceRules DEF NoErrors
    <3>2. /\ s.parent \in Physical(net) /\ Link(i) = {<<net.ifaces[s.parent].device, s.vlanId>>}
          /\ u.parent \in Physical(net) /\ Link(j) = {<<net.ifaces[u.parent].device, u.vlanId>>}
      BY <1>1, <2>2 DEF Physical
    <3>3. s.parent # u.parent => net.ifaces[s.parent].device # net.ifaces[u.parent].device
      BY <3>2, InterfaceRules DEF NoErrors
    <3> QED BY <3>1, <3>2, <3>3
  <2>3. CASE i \in Physical(net) /\ j \in Vlans(net)
    <3>1. Link(i) = {<<s.device>>} /\ Link(j) = {<<net.ifaces[u.parent].device, u.vlanId>>}
      BY <1>1, <2>3 DEF Physical
    <3> QED BY <3>1
  <2>4. CASE i \in Vlans(net) /\ j \in Physical(net)
    <3>1. Link(j) = {<<u.device>>} /\ Link(i) = {<<net.ifaces[s.parent].device, s.vlanId>>}
      BY <1>1, <2>4 DEF Physical
    <3> QED BY <3>1
  <2> QED BY <1>1, <2>1, <2>2, <2>3, <2>4
<1>3. \A i \in Ifaces(net) : Link(i) # {}
  BY <1>1
<1> QED BY <1>2, <1>3 DEF OneLinkEach

\* Two ranges overlap only where subnets do, or where one Interface is served
\* twice, in any tree.
LEMMA RangesApart ==
  ASSUME NetworkAssumption, NEW t \in Networks, "DM-28" \in Errors(t)
  PROVE  Errors(t) \cap {"DM-04", "R-017.3"} # {}
<1>1. \A s, p : "DM-28" \notin LeaseErrors(s, p)
  BY DEF LeaseErrors, Rule
<1>2. "DM-28" \in DhcpErrors(t)
  BY DEF Errors, InterfaceErrors, VlanErrors, AddressErrors, Rule
<1>3. PICK d \in Ranged(t), e \in Ranged(t) :
        d # e /\ PairErrors(t.servers[d], t.servers[e]) \subseteq DhcpErrors(t)
          /\ "DM-28" \in PairErrors(t.servers[d], t.servers[e])
  <2>1. "DM-28" \notin AloneErrors(t) /\ "DM-28" \notin AllLeaseErrors(t)
    BY <1>1 DEF AloneErrors, AllLeaseErrors, Rule
  <2>2. PICK x \in PairsOf(Ranged(t)) : "DM-28" \in PairOf(t, x) /\ PairOf(t, x) \subseteq DhcpErrors(t)
    BY <1>2, <2>1, DhcpParts
  <2> QED BY <2>2 DEF PairsOf, PairOf
<1> DEFINE s == t.servers[d]
           u == t.servers[e]
<1>4. CASE s.interface = u.interface
  <2>1. "R-017.3" \in PairErrors(s, u)
    BY <1>4 DEF PairErrors, Rule
  <2> QED BY <1>3, <2>1 DEF Errors
<1>5. CASE s.interface # u.interface
  <2>1. d \in Servers(t) /\ e \in Servers(t) /\ s.interface \in Ifaces(t) /\ u.interface \in Ifaces(t)
    BY DEF Ranged, Attached
  <2>2. PICK p \in RangePrefix(t, s) : TRUE
    BY DEF Ranged
  <2>3. PICK q \in RangePrefix(t, u) : TRUE
    BY DEF Ranged
  <2>4. /\ p \in t.ifaces[s.interface].addresses /\ q \in t.ifaces[u.interface].addresses
        /\ ~(s.rangeEnd < s.rangeStart) /\ InPrefix(p, s.rangeStart) /\ InPrefix(p, s.rangeEnd)
        /\ ~(u.rangeEnd < u.rangeStart) /\ InPrefix(q, u.rangeStart) /\ InPrefix(q, u.rangeEnd)
    BY <2>2, <2>3 DEF RangePrefix, InAny
  <2>5. ~(u.rangeEnd < s.rangeStart) /\ ~(s.rangeEnd < u.rangeStart)
    BY <1>3 DEF PairErrors, Rule
  <2>6. /\ s.rangeStart \in Ip /\ s.rangeEnd \in Ip /\ u.rangeStart \in Ip /\ u.rangeEnd \in Ip
        /\ p \in Address /\ q \in Address
    BY <2>1, <2>4, ServerTypes, IfaceTypes
  <2>7. PICK ip \in Ip : ip \in s.rangeStart .. s.rangeEnd /\ ip \in u.rangeStart .. u.rangeEnd
    <3> DEFINE a == s.rangeStart
               b == s.rangeEnd
               c == u.rangeStart
               f == u.rangeEnd
    <3>1. a \in Ip /\ b \in Ip /\ c \in Ip /\ f \in Ip /\ ~(b < a) /\ ~(f < c) /\ ~(f < a) /\ ~(b < c)
      BY <2>4, <2>5, <2>6
    <3> HIDE DEF a, b, c, f
    <3>2. a \in Nat /\ b \in Nat /\ c \in Nat /\ f \in Nat
      BY <3>1, IpType
    <3>3. (a \in a..b /\ a \in c..f) \/ (c \in a..b /\ c \in c..f)
      BY <3>1, <3>2
    <3>4. \E ip \in Ip : ip \in a..b /\ ip \in c..f
      BY <3>1, <3>3
    <3> QED BY <3>4 DEF a, b, c, f
  <2>8. InPrefix(p, ip) /\ InPrefix(q, ip)
    BY <2>4, <2>6, <2>7, SubnetIsConvex
  <2>9. OverlapsPrefix(p, q)
    BY <2>6, <2>8, SharedOverlaps
  <2>10. <<s.interface, p>> \in Owned(t) /\ <<u.interface, q>> \in Owned(t)
    BY <2>1, <2>4 DEF Owned
  <2>11. <<s.interface, p>> # <<u.interface, q>>
    BY <1>5
  <2>12. "DM-04" \in AddressErrors(t)
    <3>1. ~(\A o, r \in Owned(t) : o # r => ~OverlapsPrefix(o[2], r[2]))
      <4> HIDE DEF s, u
      <4> QED BY <2>9, <2>10, <2>11
    <3> QED BY <3>1 DEF AddressErrors, Rule
  <2> QED BY <2>12 DEF Errors, InterfaceErrors
<1> QED BY <1>4, <1>5

-----------------------------------------------------------------------------
(* Every change *)

\* The tree that is committed has no errors; one that was refused has left what
\* it broke.
NetworkIInv == NetworkTypeOK /\ NoErrors /\ ImpliedByThree

\* The type invariant, with the tree apart.
LEMMA TypeParts == NetworkTypeOK <=> TreeTyped /\ broken \subseteq RuleNames
BY DEF NetworkTypeOK, TreeTyped, Networks, RuleNames

\* To begin with there is nothing, and nothing is wrong with that.
LEMMA InitNetworkIInv ==
  ASSUME NetworkAssumption, NetworkInit
  PROVE  NetworkIInv
<1>1. TreeTyped /\ broken = {}
  BY DEF NetworkInit, TreeTyped, Networks
<1>2. Ifaces(net) = {} /\ Servers(net) = {}
  BY DEF NetworkInit, Ifaces, Servers
<1>3. Vlans(net) = {} /\ Physical(net) = {} /\ Owned(net) = {} /\ Attached(net) = {} /\ Ranged(net) = {}
  BY <1>2 DEF Vlans, Physical, Owned, Attached, Ranged
<1>4. InterfaceErrors(net) = {}
  BY <1>2, <1>3 DEF InterfaceErrors, VlanErrors, AddressErrors, Rule
<1>5. DhcpErrors(net) = {}
  <2>1. AloneErrors(net) = {}
    BY <1>2, <1>3 DEF AloneErrors, Rule
  <2>2. AllLeaseErrors(net) = {} /\ PairsOf(Attached(net)) = {} /\ PairsOf(Ranged(net)) = {}
    BY <1>3 DEF AllLeaseErrors, PairsOf
  <2> QED BY <2>1, <2>2, DhcpParts
<1> QED BY <1>1, <1>4, <1>5, TypeParts DEF NetworkIInv, NoErrors, Errors, ImpliedByThree

\* A tree is saved when the Validator finds nothing in it.
LEMMA SaveIInv ==
  ASSUME NetworkAssumption, NetworkIInv, NEW t \in Networks, Mutate(t)
  PROVE  NetworkIInv'
<1>1. broken' = Errors(t) /\ net' = IF Errors(t) = {} THEN t ELSE net
  BY DEF Mutate
<1>2. TreeTyped' /\ NoErrors'
  BY <1>1, TypeParts DEF NetworkIInv, TreeTyped, NoErrors
<1>3. broken' \subseteq RuleNames
  BY <1>1, ErrorNames
<1>4. ImpliedByThree'
  BY <1>1, RangesApart DEF ImpliedByThree
<1>5. NetworkTypeOK'
  BY <1>2, <1>3 DEF NetworkTypeOK, TreeTyped, Networks, RuleNames
<1> QED BY <1>2, <1>4, <1>5 DEF NetworkIInv

\* Each change saves a tree of objects that may be saved.
LEMMA StepNetworkIInv ==
  ASSUME NetworkAssumption, NetworkIInv, [NetworkNext]_networkVars
  PROVE  NetworkIInv'
<1>1. net \in Networks
  BY TypeParts DEF NetworkIInv, TreeTyped
<1>2. ASSUME NEW i \in Interface, DeleteIface(i) PROVE NetworkIInv'
  <2>1. [net EXCEPT !.ifaces[i] = Unset] \in Networks
    BY <1>1 DEF Networks
  <2> QED BY <1>2, <2>1, SaveIInv DEF DeleteIface
<1>3. ASSUME NEW i \in Interface, NEW s \in IfaceSpecs, PutIface(i, s) PROVE NetworkIInv'
  <2>1. [net EXCEPT !.ifaces[i] = s] \in Networks
    BY <1>1 DEF Networks
  <2> QED BY <1>3, <2>1, SaveIInv DEF PutIface
<1>4. ASSUME NEW d \in DhcpServer, DeleteServer(d) PROVE NetworkIInv'
  <2>1. [net EXCEPT !.servers[d] = Unset] \in Networks
    BY <1>1 DEF Networks
  <2> QED BY <1>4, <2>1, SaveIInv DEF DeleteServer
<1>5. ASSUME NEW d \in DhcpServer, NEW s \in ServerSpecs, PutServer(d, s) PROVE NetworkIInv'
  <2>1. [net EXCEPT !.servers[d] = s] \in Networks
    BY <1>1 DEF Networks
  <2> QED BY <1>5, <2>1, SaveIInv DEF PutServer
<1>6. CASE UNCHANGED networkVars
  BY <1>6 DEF networkVars, NetworkIInv, NetworkTypeOK, NoErrors, ImpliedByThree
<1> QED BY <1>2, <1>3, <1>4, <1>5, <1>6 DEF NetworkNext

\* The committed tree is free of errors in every state.
THEOREM NetworkInvariant == ASSUME NetworkAssumption PROVE NetworkSpec => []NetworkIInv
<1>1. NetworkInit => NetworkIInv
  BY InitNetworkIInv
<1>2. NetworkIInv /\ [NetworkNext]_networkVars => NetworkIInv'
  BY StepNetworkIInv
<1> QED BY <1>1, <1>2, PTL DEF NetworkSpec

\* Type correctness (Network.NetworkTypeOK).
THEOREM NetworkTypeCorrect == ASSUME NetworkAssumption PROVE NetworkSpec => []NetworkTypeOK
<1>1. NetworkIInv => NetworkTypeOK
  BY DEF NetworkIInv
<1> QED BY <1>1, NetworkInvariant, PTL

\* No address has two owners, each server serves hosts that reach their gateway,
\* each Interface is a link of its own, and overlapping ranges are never the
\* only thing that is wrong: the rules of validator.go interfaces and dhcp are
\* enough for that, in networks of any size.
THEOREM NetworkAlwaysSound == ASSUME NetworkAssumption PROVE NetworkSpec => []NetworkSound
<1>1. NetworkIInv => NetworkSound
  BY TypeParts, NoErrorsOneOwner, NoErrorsServed, NoErrorsOneLink DEF NetworkIInv, NetworkSound
<1> QED BY <1>1, NetworkInvariant, PTL

-----------------------------------------------------------------------------
(* Lists of Addresses *)

\* The intervals of a list of Addresses are finitely many, and hold the
\* addresses that the classifier matches (sets.go addrSet, classify.go
\* addrContains).
LEMMA ListedSpans ==
  ASSUME NEW refs, refs \subseteq AddressForms
  PROVE  /\ Spans(refs) \subseteq Intervals /\ IsFiniteSet(Spans(refs))
         /\ Points(Spans(refs)) = Matched(refs)
<1>1. \A v \in Spans(refs) : v \in Intervals /\ v.lo .. v.hi \subseteq Ip /\ v.hi \in Ip
  BY SpanIntervals DEF Spans
<1>2. IsFiniteSet(Spans(refs))
  <2>1. Top \in Nat
    <3>1. 2^Width \in Nat \ {0}
      BY PowersOfTwo, WidthAssumption, SMT DEF Block
    <3> QED BY <3>1 DEF Top
  <2>2. \A v \in Spans(refs) : v.hi <= Top
    BY <1>1 DEF Ip
  <2> QED BY <1>1, <2>1, <2>2, BoundedIntervals
<1>3. ASSUME NEW ip \in Matched(refs)
      PROVE  ip \in Points(Spans(refs))
  <2>1. PICK a \in refs : ip \in Ip /\ addrContains(a, ip)
    BY <1>3 DEF Matched
  <2>2. PICK v \in Span(a) : v.lo <= ip /\ ip <= v.hi
    BY <2>1, SpanContains
  <2>3. v \in Spans(refs)
    BY <2>1, <2>2 DEF Spans
  <2>4. ip \in v.lo .. v.hi
    BY <1>1, <2>1, <2>2, <2>3, IpType DEF Intervals
  <2> QED BY <2>3, <2>4 DEF Points
<1>4. ASSUME NEW ip \in Points(Spans(refs))
      PROVE  ip \in Matched(refs)
  <2>1. PICK a \in refs : \E v \in Span(a) : ip \in v.lo .. v.hi
    BY <1>4 DEF Points, Spans
  <2>2. PICK v \in Span(a) : ip \in v.lo .. v.hi
    BY <2>1
  <2>3. v \in Spans(refs)
    BY <2>1, <2>2 DEF Spans
  <2>4. ip \in Ip /\ v.lo <= ip /\ ip <= v.hi
    BY <1>1, <2>2, <2>3 DEF Intervals
  <2>5. addrContains(a, ip)
    BY <2>2, <2>4, SpanOnlyContains
  <2> QED BY <2>4, <2>5 DEF Matched
<1> QED BY <1>1, <1>2, <1>3, <1>4

\* Two lists overlap when some address is matched by both, and only then
\* (sets.go ipSet.overlaps).
LEMMA OverlapIsCommonAddress ==
  ASSUME NEW refs, refs \subseteq AddressForms, NEW more, more \subseteq AddressForms
  PROVE  Overlaps(Spans(refs), Spans(more)) <=> Matched(refs) \cap Matched(more) # {}
<1> DEFINE s == Spans(refs)
           o == Spans(more)
<1>1. s \subseteq Intervals /\ o \subseteq Intervals
  BY ListedSpans
<1>2. Points(s) = Matched(refs) /\ Points(o) = Matched(more)
  BY ListedSpans
<1> HIDE DEF s, o
<1>3. ASSUME Overlaps(s, o)
      PROVE  \E ip : ip \in Points(s) /\ ip \in Points(o)
  <2>1. PICK v \in s, w \in o : v.lo <= w.hi /\ w.lo <= v.hi
    BY <1>3 DEF Overlaps
  <2>2. /\ v.lo \in Nat /\ v.hi \in Nat /\ v.lo <= v.hi
        /\ w.lo \in Nat /\ w.hi \in Nat /\ w.lo <= w.hi
    BY <1>1 DEF Intervals
  <2>3. PICK ip \in Nat : ip \in v.lo .. v.hi /\ ip \in w.lo .. w.hi
    <3>1. CASE v.lo <= w.lo
      BY <2>1, <2>2, <3>1
    <3>2. CASE w.lo <= v.lo
      BY <2>1, <2>2, <3>2
    <3> QED BY <2>2, <3>1, <3>2
  <2> QED BY <2>3 DEF Points
<1>4. ASSUME NEW ip, ip \in Points(s), ip \in Points(o)
      PROVE  Overlaps(s, o)
  <2>1. PICK v \in s : ip \in v.lo .. v.hi
    BY <1>4 DEF Points
  <2>2. PICK w \in o : ip \in w.lo .. w.hi
    BY <1>4 DEF Points
  <2>3. /\ v.lo \in Int /\ v.hi \in Int /\ w.lo \in Int /\ w.hi \in Int
    BY <1>1 DEF Intervals
  <2>4. ip \in Int /\ v.lo <= ip /\ ip <= v.hi /\ w.lo <= ip /\ ip <= w.hi
    BY <2>1, <2>2, <2>3
  <2> QED BY <2>3, <2>4, CommonPoint
<1> QED BY <1>2, <1>3, <1>4 DEF s, o

\* The lists that rules are compared by are lists of Addresses.
Listed == left \subseteq Forms /\ right \subseteq Forms

\* They always are.
LEMMA ListedAlways == ASSUME ListsAssumption PROVE ListsSpec => []Listed
<1>1. ListsInit => Listed
  BY DEF ListsInit, Listed
<1>2. Listed /\ [ListsNext]_listsVars => Listed'
  <2> SUFFICES ASSUME Listed, [ListsNext]_listsVars PROVE Listed'
    OBVIOUS
  <2>1. CASE UNCHANGED listsVars
    BY <2>1 DEF Listed, listsVars
  <2>2. CASE NextPair
    BY <2>2 DEF NextPair, Listed
  <2>3. ASSUME NEW a \in Forms, AddLeft(a) PROVE Listed'
    BY <2>3 DEF AddLeft, Listed
  <2>4. ASSUME NEW a \in Forms, AddRight(a) PROVE Listed'
    BY <2>4 DEF AddRight, Listed
  <2> QED BY <2>1, <2>2, <2>3, <2>4 DEF ListsNext
<1> QED BY <1>1, <1>2, PTL DEF ListsSpec

\* Whatever two lists of Addresses the Validator compares, of any length and
\* addresses of any width: its intervals hold the addresses the classifier
\* matches, and overlaps, covers and size say of the lists what is true of
\* these addresses (sets.go, classify.go addrContains).
THEOREM ListsAlwaysExact == ASSUME ListsAssumption PROVE ListsSpec => []ListsExact
<1>1. Listed => ListsExact
  <2> SUFFICES ASSUME Listed PROVE ListsExact
    OBVIOUS
  <2>1. left \subseteq AddressForms /\ right \subseteq AddressForms
    BY ListsAssumption DEF Listed
  <2>2. SpansMatch
    BY <2>1, ListedSpans DEF SpansMatch
  <2>3. OverlapsExact
    BY <2>1, OverlapIsCommonAddress DEF OverlapsExact
  <2>4. CoversExact
    BY <2>1, ListedSpans, CoversIsInclusion DEF CoversExact
  <2>5. SizeExact
    BY <2>1, ListedSpans, SizeIsCardinality DEF SizeExact
  <2> QED BY <2>2, <2>3, <2>4, <2>5 DEF ListsExact
<1> QED BY <1>1, ListedAlways, PTL
=============================================================================
