-------------------------------- MODULE Firewall --------------------------------
(***************************************************************************)
(* What the Validator lets into the firewall part of a configuration        *)
(* (internal/validator: zones, rulesets, sets, routes) and what the data     *)
(* plane then does with a new flow (internal/events/classify.go).  Objects   *)
(* are edited one at a time, as the pages of the Web UI do; an edit that     *)
(* would leave an error is refused.                                          *)
(***************************************************************************)
EXTENDS IntervalSets, FiniteSets

CONSTANTS Interfaces, ZoneNames, RouteNames, AddressNames,
          SetNames,         \* the names of RuleSets, numbers in file order
          Groups,           \* AddressGroup name -> members, possibly nested
          Services,         \* Service name -> its protocol entries
          None,             \* an object that does not exist, an omitted field
          HTTPSPort,        \* System.admin.httpsPort
          PortTop,          \* 65535
          MaxDNATEntries,   \* ADR-0006
          MaxPolicies,      \* MaxPoliciesPerRuleSet (DM-36)
          InterfaceSpecs, ZoneSpecs, AddressSpecs, RouteSpecs,
                            \* what an admin gives each object: name -> specs
          Rules,            \* and what rules
          Pairs,            \* the <<from, to>> an admin tries
          Factory,          \* the configuration to begin with
          Flows,            \* new flows: [in, src, dst, proto, port]
          MaxObjects        \* bound on the StaticRoutes, RuleSets and rules

AnyObject == {"any"}
PortProtocols == {"tcp", "udp", "sctp"}
Protocols == PortProtocols \cup {"icmp"}
NoNat == [type |-> "none"]

(***************************************************************************)
(* Lookups in a tree t: zones, interfaces, addresses, routes and sets are   *)
(* functions from names to specs or None.                                   *)
(***************************************************************************)
Side(t, ref) ==
  IF ref \in Interfaces THEN {ref}
  ELSE IF t.zones[ref] # None THEN t.zones[ref].interfaces ELSE {}

Exists(t, ref) == ref \in Interfaces \/ t.zones[ref] # None

ZonesOf(t, i) == {z \in ZoneNames : t.zones[z] # None /\ i \in t.zones[z].interfaces}
ZoneOf(t, i) == IF ZonesOf(t, i) = {} THEN None ELSE CHOOSE z \in ZonesOf(t, i) : TRUE

\* The Addresses an Address or a group leads to: nested groups are followed,
\* cycles cut.
AddressRefNames == AddressNames \cup DOMAIN Groups

Followed(refs) == \A g \in refs \cap DOMAIN Groups : Groups[g] \cap AddressRefNames \subseteq refs

Expansion ==
  [ref \in AddressRefNames |->
     {a \in AddressNames : \A S \in SUBSET AddressRefNames : ref \in S /\ Followed(S) => a \in S}]

ExpandAddresses(refs) == UNION {Expansion[ref] : ref \in refs \cap DOMAIN Expansion}

IsDnat(r) == r.nat.type = "dnat"
Present(t) == {n \in SetNames : t.sets[n] # None}
Positions(t) == UNION {{n} \X DOMAIN t.sets[n].rules : n \in Present(t)}
RuleAt(t, d) == t.sets[d[1]].rules[d[2]]

(***************************************************************************)
(* addrSet and svcSet: the intervals of a list of objects, per protocol for *)
(* services.  A protocol entry without ports takes the full range.          *)
(***************************************************************************)
AddrSet(t, refs) ==
  [any |-> refs = AnyObject,
   ivs |-> UNION {Span(t.addresses[a].spec) : a \in ExpandAddresses(refs)}]

AddrOverlaps(a, b) ==
  \/ a.any /\ b.any
  \/ a.any /\ b.ivs # {}
  \/ b.any /\ a.ivs # {}
  \/ Overlaps(a.ivs, b.ivs)

AddrCovers(a, b) == a.any \/ (~b.any /\ Covers(a.ivs, b.ivs))

PortSpan(e) == IF e.port = None THEN Interval(0, PortTop) ELSE e.port
Entries(refs) == UNION {Services[s] : s \in refs \cap DOMAIN Services}

SvcSet(refs) ==
  [any |-> refs = AnyObject,
   ports |-> [p \in Protocols |-> {PortSpan(e) : e \in {x \in Entries(refs) : x.proto = p}}]]

SvcOverlaps(a, b) ==
  a.any \/ b.any \/ \E p \in Protocols : Overlaps(a.ports[p], b.ports[p])

SvcCovers(a, b) ==
  a.any \/ (~b.any /\ \A p \in Protocols : Covers(a.ports[p], b.ports[p]))

\* Mutant: only the first port of a range is compared.
Mutant_SvcHas(a, proto, port) == a.any \/ \E v \in a.ports[proto] : v.lo = port

SvcHas(a, proto, port) ==
  a.any \/ Overlaps(a.ports[proto], {Interval(port, port)})

PortCount(a) ==
  IF a.any THEN PortTop
  ELSE LET n == FoldLeft(LAMBDA sum, p : sum + Size(a.ports[p]), 0, SetToSeq(PortProtocols))
       IN  IF n = 0 THEN 1 ELSE n

-----------------------------------------------------------------------------
(***************************************************************************)
(* The checks of the Validator that give errors.                            *)
(***************************************************************************)

\* zones (DM-37): a member of one Zone only.
ZonesDisjoint(t) == \A i \in Interfaces : \A y, z \in ZonesOf(t, i) : y = z

\* interfaces (R-020.4, DM-04): the address of a host, not of its network;
\* subnets do not overlap.
Links(t) ==
  UNION {{[iface |-> i, ip |-> p.ip, bits |-> p.bits] : p \in t.interfaces[i].own} :
         i \in Interfaces}

HostAddresses(t) == \A l \in Links(t) : l.bits < Width - 1 => Masked(l.ip, l.bits) # l.ip

SubnetsDisjoint(t) ==
  \A l, m \in Links(t) :
    l # m => ~Overlaps(Span(Subnet(l.ip, l.bits)), Span(Subnet(m.ip, m.bits)))

\* addresses (DM-14).
RangesOrdered(t) ==
  \A a \in AddressNames :
    t.addresses[a].spec.form = "range" => t.addresses[a].spec.start <= t.addresses[a].spec.end

\* routes (DM-22, DM-23): the gateway on link, no tie.
Preference(r) ==
  <<IF r.distance = 0 THEN 10 ELSE r.distance, IF r.priority = 0 THEN 1 ELSE r.priority>>

\* Mutant: the destination is compared as it is written.
Mutant_RouteKey(r) == <<r.ip, r.bits, Preference(r)>>

RouteKey(r) == <<Masked(r.ip, r.bits), r.bits, Preference(r)>>

Routes(t) == {k \in RouteNames : t.routes[k] # None}

RoutesValid(t) ==
  \A k \in Routes(t) :
    /\ \E p \in t.interfaces[t.routes[k].iface].own :
         addrContains(Subnet(p.ip, p.bits), t.routes[k].gateway)
    /\ \A j \in Routes(t) : RouteKey(t.routes[j]) = RouteKey(t.routes[k]) => j = k

\* Mutant: only the side traffic enters from is looked at.
Mutant_ZoneMembers(t, s) ==
  s.from \in Interfaces => (ZoneOf(t, s.from) = None \/ ZoneOf(t, s.from) = ZoneOf(t, s.to))

\* zoneMembers (DM-38): a member of a Zone is used directly only with another
\* member of the same Zone.
ZoneMembers(t, s) ==
  LET zf == IF s.from \in Interfaces THEN ZoneOf(t, s.from) ELSE None
      zt == IF s.to \in Interfaces THEN ZoneOf(t, s.to) ELSE None
  IN  zf = zt \/ (zf = None /\ zt = None)

\* DM-06, DM-07, DM-38: what a RuleSet is between.
SidesValid(t) ==
  \A n \in Present(t) :
    LET s == t.sets[n] IN
    /\ s.from # s.to /\ Exists(t, s.from) /\ Exists(t, s.to)
    /\ \A k \in Present(t) : t.sets[k].from = s.from /\ t.sets[k].to = s.to => k = n
    /\ ZoneMembers(t, s)

\* addressRefs (DM-12): an Address bound to an Interface, on its side only.
Bound(t, refs, side) ==
  \A a \in ExpandAddresses(refs) : t.addresses[a].bound \in side \cup {None}

NoMAC(t, refs) == \A a \in ExpandAddresses(refs) : t.addresses[a].spec.form # "mac"

\* nat (DM-13, DM-40).
SingleHostOrRange(a) == a.form = "range" \/ (a.form = "subnet" /\ a.bits = Width)

TranslatedService(r) ==
  /\ r.service # AnyObject
  /\ \E e \in Entries({r.nat.svc}) :
       /\ Entries({r.nat.svc}) = {e}
       /\ e.proto \in PortProtocols /\ e.port # None /\ e.port.lo = e.port.hi
       /\ (Entries(r.service) # {} => \E x \in Entries(r.service) : x.proto = e.proto)

NatValid(t, r, to) ==
  LET target == t.addresses[r.nat.to] IN
  /\ r.nat.type # "none" /\ r.nat.to # None => target.spec.form \in {"subnet", "range"}
  /\ IsDnat(r) =>
       /\ r.destination # AnyObject
       /\ SingleHostOrRange(target.spec)
       /\ target.bound \in Side(t, to) \cup {None}
       /\ r.nat.svc # None => TranslatedService(r)

RuleValid(t, s, r) ==
  /\ Bound(t, r.source, Side(t, s.from))
  /\ NoMAC(t, r.destination)
  /\ ~IsDnat(r) => Bound(t, r.destination, Side(t, s.to))
  /\ NatValid(t, r, s.to)

RulesValid(t) ==
  \A n \in Present(t) :
    LET s == t.sets[n] IN
    /\ \A i \in DOMAIN s.rules : RuleValid(t, s, s.rules[i])
    /\ \A i, j \in DOMAIN s.rules : s.rules[i].name = s.rules[j].name => i = j
    /\ Cardinality({i \in DOMAIN s.rules : s.rules[i].enabled}) <= MaxPolicies

(***************************************************************************)
(* The enabled dnat rules, against the limit of the table, each other       *)
(* (dnatOverlaps, DM-41) and the management port (managementPort, DM-35).   *)
(***************************************************************************)
Dnats(t) == {d \in Positions(t) : RuleAt(t, d).enabled /\ IsDnat(RuleAt(t, d))}

Incoming(t, d) == Side(t, t.sets[d[1]].from)
Dst(t, d) == AddrSet(t, RuleAt(t, d).destination)
Svc(t, d) == SvcSet(RuleAt(t, d).service)

DnatEntries(t, d) ==
  LET n == Size(Dst(t, d).ivs) IN (IF n = 0 THEN 1 ELSE n) * PortCount(Svc(t, d))

\* Mutant: dnat rules are compared within one RuleSet.
Mutant_DnatOverlap(t, d, e) ==
  d[1] = e[1] /\ AddrOverlaps(Dst(t, d), Dst(t, e)) /\ SvcOverlaps(Svc(t, d), Svc(t, e))

DnatOverlap(t, d, e) ==
  /\ Incoming(t, d) \cap Incoming(t, e) # {}
  /\ AddrOverlaps(Dst(t, d), Dst(t, e))
  /\ SvcOverlaps(Svc(t, d), Svc(t, e))

OwnIps(t, i) == {Interval(p.ip, p.ip) : p \in t.interfaces[i].own}

HitsManagementPort(t, d) ==
  /\ SvcHas(Svc(t, d), "tcp", HTTPSPort)
  /\ \E i \in Incoming(t, d) :
       /\ t.interfaces[i].https
       /\ Dst(t, d).any \/ Overlaps(Dst(t, d).ivs, OwnIps(t, i))

DnatsValid(t) ==
  /\ FoldLeft(LAMBDA n, d : n + DnatEntries(t, d), 0, SetToSeq(Dnats(t))) <= MaxDNATEntries
  /\ \A d \in Dnats(t) : ~HitsManagementPort(t, d)
  /\ \A d, e \in Dnats(t) : d # e => ~DnatOverlap(t, d, e)

Valid(t) ==
  /\ ZonesDisjoint(t)
  /\ HostAddresses(t)
  /\ SubnetsDisjoint(t)
  /\ RangesOrdered(t)
  /\ RoutesValid(t)
  /\ SidesValid(t)
  /\ RulesValid(t)
  /\ DnatsValid(t)

\* Mutant: disabled rules shadow too.
Mutant_Shadowed(t, d) ==
  \E j \in 1..(d[2] - 1) :
    LET e == t.sets[d[1]].rules[j] IN
    /\ AddrCovers(AddrSet(t, e.source), AddrSet(t, RuleAt(t, d).source))
    /\ AddrCovers(AddrSet(t, e.destination), Dst(t, d))
    /\ SvcCovers(SvcSet(e.service), Svc(t, d))

\* shadowed (DM-41), a warning: an earlier rule matches all of a dnat rule.
Shadowed(t, d) ==
  \E j \in 1..(d[2] - 1) :
    LET e == t.sets[d[1]].rules[j] IN
    /\ e.enabled
    /\ AddrCovers(AddrSet(t, e.source), AddrSet(t, RuleAt(t, d).source))
    /\ AddrCovers(AddrSet(t, e.destination), Dst(t, d))
    /\ SvcCovers(SvcSet(e.service), Svc(t, d))

-----------------------------------------------------------------------------
(***************************************************************************)
(* The classifier (classify.go).                                            *)
(***************************************************************************)
InAddresses(t, refs, ip) ==
  refs = AnyObject \/ \E a \in ExpandAddresses(refs) : addrContains(t.addresses[a].spec, ip)

InServices(refs, proto, port) ==
  refs = AnyObject \/ \E e \in Entries(refs) :
    e.proto = proto /\ (e.port = None \/ (e.port.lo <= port /\ port <= e.port.hi))

Matches(t, r, f) ==
  /\ r.enabled
  /\ InAddresses(t, r.source, f.src)
  /\ InAddresses(t, r.destination, f.dst)
  /\ InServices(r.service, f.proto, f.port)

(***************************************************************************)
(* Route: the longest prefix among the connected subnets and the static     *)
(* routes, then the better preference.  Both lists are walked in a given    *)
(* order, which is that of the files, and the best so far is replaced only  *)
(* by a better one: the first of the best stays.                            *)
(***************************************************************************)
Leads(p, dst) == addrContains(Subnet(p.ip, p.bits), dst)

Direct(links, dst) ==
  LET S == {i \in DOMAIN links : Leads(links[i], dst)}
      first == CHOOSE i \in S : \A j \in S :
                 \/ links[i].bits > links[j].bits
                 \/ links[i].bits = links[j].bits /\ i <= j
  IN  IF S = {} THEN [iface |-> None, bits |-> -1] ELSE links[first]

Better(p, q) == p[1] < q[1] \/ (p[1] = q[1] /\ p[2] < q[2])

Beats(r, q) ==
  r.bits > q.bits \/ (r.bits = q.bits /\ Better(Preference(r), Preference(q)))

\* A subnet has the preference 0, which no route betters.
RouteOver(t, links, names, dst) ==
  LET direct == Direct(links, dst)
      route == [i \in DOMAIN names |-> t.routes[names[i]]]
      S == {i \in DOMAIN names : Leads(route[i], dst) /\ route[i].bits > direct.bits}
      first == CHOOSE i \in S : \A j \in S :
                 Beats(route[i], route[j]) \/ (~Beats(route[j], route[i]) /\ i <= j)
  IN  IF S = {} THEN direct.iface ELSE route[first].iface

ActiveLinks(t) == {l \in Links(t) : t.interfaces[l.iface].enabled}

Route(t, dst) == RouteOver(t, SetToSeq(ActiveLinks(t)), SetToSeq(Routes(t)), dst)

Governs(t, n, in, out) ==
  n \in Present(t) /\ in \in Side(t, t.sets[n].from) /\ out \in Side(t, t.sets[n].to)

Least(S) == CHOOSE n \in S : \A m \in S : n <= m

Governing(t, in, out) ==
  LET S == {n \in SetNames : Governs(t, n, in, out)} IN IF S = {} THEN None ELSE Least(S)

FirstIP(a) ==
  IF a.form = "subnet" THEN a.ip ELSE IF a.form = "range" THEN a.start ELSE None

Candidates(t, f) ==
  { d \in Positions(t) :
      /\ f.in \in Incoming(t, d)
      /\ IsDnat(RuleAt(t, d))
      /\ Matches(t, RuleAt(t, d), f)
      /\ FirstIP(t.addresses[RuleAt(t, d).nat.to].spec) # None }

First(S) == CHOOSE d \in S : \A e \in S : d[1] < e[1] \/ (d[1] = e[1] /\ d[2] <= e[2])

Verdict(action, reason, out, set, policy) ==
  [action |-> action, reason |-> reason, out |-> out, set |-> set, policy |-> policy]

\* Mutant: a dnat rule is taken before the other rules, whatever its position.
Mutant_Translated(t, f, d) ==
  LET out == Route(t, FirstIP(t.addresses[RuleAt(t, d).nat.to].spec)) IN
  IF Governing(t, f.in, out) # d[1]
    THEN Verdict("drop", "dnat-route-mismatch", out, d[1], None)
    ELSE Verdict("accept", "policy", out, d[1], d[2])

\* Step 1: DNAT, decided on the original destination and service.
Translated(t, f, d) ==
  LET out == Route(t, FirstIP(t.addresses[RuleAt(t, d).nat.to].spec))
      rules == t.sets[d[1]].rules
      i == Least({k \in DOMAIN rules : Matches(t, rules[k], f)})
  IN  IF Governing(t, f.in, out) # d[1]
        THEN Verdict("drop", "dnat-route-mismatch", out, d[1], None)
      ELSE IF rules[i].name = RuleAt(t, d).name
        THEN Verdict("accept", "policy", out, d[1], i)
      ELSE Verdict("drop", IF rules[i].action = "drop" THEN "policy" ELSE "dnat-shadowed",
                   out, d[1], i)

IntraZone(t, in, out) ==
  /\ ZoneOf(t, in) # None
  /\ ZoneOf(t, in) = ZoneOf(t, out)
  /\ t.zones[ZoneOf(t, in)].intra = "allow"

\* Step 2: the RuleSet of the pair, the first match that is not a dnat rule.
Forwarded(t, f) ==
  LET out == Route(t, f.dst)
      n == Governing(t, f.in, out)
      hits == {k \in DOMAIN t.sets[n].rules :
                 ~IsDnat(t.sets[n].rules[k]) /\ Matches(t, t.sets[n].rules[k], f)}
  IN  IF out \in {None, f.in} THEN Verdict("drop", "no-ruleset", out, None, None)
      ELSE IF n = None
        THEN IF IntraZone(t, f.in, out)
               THEN Verdict("accept", "intra-zone", out, None, None)
               ELSE Verdict("drop", "no-ruleset", out, None, None)
      ELSE IF hits = {} THEN Verdict("drop", "default-deny", out, n, None)
      ELSE Verdict(t.sets[n].rules[Least(hits)].action, "policy", out, n, Least(hits))

Classify(t, f) ==
  LET dnats == Candidates(t, f) IN
  IF dnats # {} THEN Translated(t, f, First(dnats)) ELSE Forwarded(t, f)

-----------------------------------------------------------------------------
(***************************************************************************)
(* Edits.                                                                   *)
(***************************************************************************)
VARIABLE tree

\* What the schema of a RuleSet lets pass: lists are not empty, a dnat rule has
\* a target, only dnat translates the service, a rule that drops has no nat.
\* References lead to objects of the right kind (ref, DM-02): of the requests
\* that refer to nothing, only those to Zones are modelled.
AddressRefs == {AnyObject} \cup ((SUBSET AddressRefNames) \ {{}})
ServiceRefs == {AnyObject} \cup ((SUBSET DOMAIN Services) \ {{}})

ServiceEntry ==
  [proto : PortProtocols,
   port : {v \in [lo : 1..PortTop, hi : 1..PortTop] : v.lo <= v.hi}]
    \cup [proto : Protocols \ PortProtocols, port : {None}]

NatSpec ==
  {NoNat} \cup [type : {"snat"}, to : AddressNames \cup {None}, svc : {None}]
    \cup [type : {"dnat"}, to : AddressNames, svc : DOMAIN Services \cup {None}]

Policy ==
  { r \in [name : STRING, enabled : BOOLEAN, source : AddressRefs,
           destination : AddressRefs, service : ServiceRefs,
           action : {"accept", "drop"}, nat : NatSpec] :
      r.action = "drop" => r.nat = NoNat }

RuleSetSpec ==
  [from : Interfaces \cup ZoneNames, to : Interfaces \cup ZoneNames, rules : Seq(Policy)]

ZoneSpec == [interfaces : SUBSET Interfaces, intra : {"allow", "deny"}]
Prefix == [ip : Ip, bits : 0..Width]
InterfaceSpec == [own : SUBSET Prefix, enabled : BOOLEAN, https : BOOLEAN]
AddressSpec == [spec : AddressForms, bound : Interfaces \cup {None}]
RouteSpec ==
  [ip : Ip, bits : 0..Width, iface : Interfaces, gateway : Ip, distance : Nat, priority : Nat]

Trees ==
  [zones : [ZoneNames -> ZoneSpec \cup {None}],
   interfaces : [Interfaces -> InterfaceSpec],
   addresses : [AddressNames -> AddressSpec],
   routes : [RouteNames -> RouteSpec \cup {None}],
   sets : [SetNames -> RuleSetSpec \cup {None}]]

ASSUME FirewallAssumption ==
  /\ SetNames \subseteq Nat
  /\ Interfaces \cap ZoneNames = {}                  \* one namespace (DM-01)
  /\ IsFiniteSet(Interfaces) /\ IsFiniteSet(RouteNames)
  /\ Pairs \subseteq (Interfaces \cup ZoneNames) \X (Interfaces \cup ZoneNames)
  /\ PortTop \in Nat
  /\ Services \in [DOMAIN Services -> SUBSET ServiceEntry]
  /\ Flows \subseteq [in : Interfaces, src : Ip, dst : Ip, proto : Protocols, port : 0..PortTop]
  /\ Rules \subseteq Policy
  /\ InterfaceSpecs \in [Interfaces -> SUBSET InterfaceSpec]
  /\ ZoneSpecs \in [ZoneNames -> SUBSET ZoneSpec]
  /\ AddressSpecs \in [AddressNames -> SUBSET AddressSpec]
  /\ RouteSpecs \in [RouteNames -> SUBSET RouteSpec]
  /\ None \notin Interfaces \cup ZoneNames /\ None \notin SetNames /\ None \notin Ip
  /\ Factory \in Trees /\ Valid(Factory)

TypeOK == tree \in Trees

Init == tree = Factory

\* An edit with an error is answered 422 and not committed.
Save(t) == IF Valid(t) THEN tree' = t ELSE UNCHANGED tree

Room == Cardinality(Routes(tree)) + Cardinality(Present(tree))
          + Cardinality(Positions(tree)) < MaxObjects

PutInterface(i, spec) == Save([tree EXCEPT !.interfaces[i] = spec])
PutZone(z, spec) == Save([tree EXCEPT !.zones[z] = spec])

\* Mutant: an empty object stays.
Mutant_DeleteZone(z) ==
  tree.zones[z] # None /\ Save([tree EXCEPT !.zones[z] = [interfaces |-> {}, intra |-> None]])

DeleteZone(z) == tree.zones[z] # None /\ Save([tree EXCEPT !.zones[z] = None])

PutAddress(a, spec) == Save([tree EXCEPT !.addresses[a] = spec])

PutRoute(k, spec) ==
  /\ tree.routes[k] # None \/ Room
  /\ Save([tree EXCEPT !.routes[k] = spec])

DeleteRoute(k) == tree.routes[k] # None /\ Save([tree EXCEPT !.routes[k] = None])

\* From and to are immutable once the RuleSet exists.
NewRuleSet(n, p) ==
  /\ tree.sets[n] = None /\ Room
  /\ Save([tree EXCEPT !.sets[n] = [from |-> p[1], to |-> p[2], rules |-> <<>>]])

DeleteRuleSet(n) == tree.sets[n] # None /\ Save([tree EXCEPT !.sets[n] = None])

SaveRules(n, rules) == Save([tree EXCEPT !.sets[n].rules = rules])

NewRule(n, r) ==
  /\ n \in Present(tree) /\ Room
  /\ SaveRules(n, Append(tree.sets[n].rules, r))

EditRule(n, i, r) == SaveRules(n, [tree.sets[n].rules EXCEPT ![i] = r])

\* move: cut out and put in again at the new place.
MoveRule(n, i, j) ==
  /\ i # j
  /\ SaveRules(n, InsertAt(RemoveAt(tree.sets[n].rules, i), j, tree.sets[n].rules[i]))

RemoveRule(n, i) == SaveRules(n, RemoveAt(tree.sets[n].rules, i))

ToggleRule(n, i) == SaveRules(n, [tree.sets[n].rules EXCEPT ![i].enabled = ~@])

Objects ==
  \/ \E i \in Interfaces : \E s \in InterfaceSpecs[i] : PutInterface(i, s)
  \/ \E z \in ZoneNames : DeleteZone(z) \/ \E s \in ZoneSpecs[z] : PutZone(z, s)
  \/ \E a \in AddressNames : \E s \in AddressSpecs[a] : PutAddress(a, s)
  \/ \E k \in RouteNames : DeleteRoute(k) \/ \E s \in RouteSpecs[k] : PutRoute(k, s)

RuleSets ==
  \E n \in SetNames :
    \/ DeleteRuleSet(n)
    \/ \E p \in Pairs : NewRuleSet(n, p)
    \/ \E r \in Rules : NewRule(n, r)

Policies ==
  \E n \in Present(tree) : \E i \in DOMAIN tree.sets[n].rules :
    \/ RemoveRule(n, i)
    \/ ToggleRule(n, i)
    \/ \E r \in Rules : EditRule(n, i, r)
    \/ \E j \in DOMAIN tree.sets[n].rules : MoveRule(n, i, j)

Next == Objects \/ RuleSets \/ Policies

Spec == Init /\ [][Next]_tree

-----------------------------------------------------------------------------

\* At most one RuleSet applies to a pair of Interfaces (governing,
\* classify.go:119, takes the first), and none to traffic that leaves where it
\* came from: DM-06, DM-07, DM-37 and DM-38 together have to give this.
OneRuleSetGoverns ==
  \A in, out \in Interfaces, n, k \in SetNames :
    Governs(tree, n, in, out) /\ Governs(tree, k, in, out) => n = k /\ in # out

\* The translation of a packet is never ambiguous (dnatOverlaps,
\* rulesets.go:308): whatever was edited, at most one dnat rule of all the
\* RuleSets a flow can enter matches it.
OneTranslation ==
  \A f \in Flows : \A d, e \in Candidates(tree, f) : d = e

\* A dnat rule with the warning that it is shadowed never translates anything
\* (shadowed, rulesets.go:268): the Validator decides it on intervals, the
\* classifier address by address.
ShadowedNeverTranslates ==
  \A d \in Dnats(tree) : Shadowed(tree, d) =>
    \A f \in Flows : LET v == Classify(tree, f) IN
      ~(v.action = "accept" /\ v.set = d[1] /\ v.policy = d[2])

\* No dnat rule takes the HTTPS connections that enter through an Interface to
\* its own address while management is allowed on it (managementPort,
\* rulesets.go:285), also when the address, the service or the Interface was
\* edited after the rule.
ManagementPortLocal ==
  \A f \in Flows :
    /\ tree.interfaces[f.in].https
    /\ f.dst \in {p.ip : p \in tree.interfaces[f.in].own}
    /\ f.proto = "tcp" /\ f.port = HTTPSPort
    => Candidates(tree, f) = {}

\* Where a packet leaves depends on no order of files (Route, classify.go:88):
\* the rules on subnets and on ties of routes leave only one best route.
RouteUnambiguous ==
  \A dst \in {f.dst : f \in Flows} : LET out == Route(tree, dst) IN
    \A links \in SetToSeqs(ActiveLinks(tree)), names \in SetToSeqs(Routes(tree)) :
      RouteOver(tree, links, names, dst) = out

\* What an accepted flow must have passed.
Passed(t, f, v) ==
  /\ v.out # f.in
  /\ IF v.set = None
       THEN /\ \A n \in SetNames : ~Governs(t, n, f.in, v.out)
            /\ \E z \in ZoneNames : /\ t.zones[z] # None
                                    /\ {f.in, v.out} \subseteq t.zones[z].interfaces
                                    /\ t.zones[z].intra = "allow"
       ELSE /\ Governs(t, v.set, f.in, v.out)
            /\ LET rules == t.sets[v.set].rules IN
               /\ Matches(t, rules[v.policy], f)
               /\ rules[v.policy].action = "accept"
               /\ \A k \in 1..(v.policy - 1) : ~Matches(t, rules[k], f)

\* Nothing passes by accident (Classify, classify.go:156): an accepted flow
\* entered and leaves through different Interfaces; either they share a Zone
\* that allows it and no RuleSet governs them, or the first rule of their
\* RuleSet that matches it, dnat or not, accepts.
AcceptedByFirstMatch ==
  \A f \in Flows : LET v == Classify(tree, f) IN
    v.action = "accept" => Passed(tree, f, v)
=============================================================================
