-------------------------------- MODULE Compiler --------------------------------
(***************************************************************************)
(* compile (internal/reconciler/compile.go): the tree is split into one     *)
(* section per driver, and a driver whose section did not change is         *)
(* skipped.  The sections must therefore tell apart any two configurations  *)
(* the data plane treats differently; that is checked over the edits of     *)
(* Firewall and those of the services the appliance offers itself.          *)
(*                                                                         *)
(* A hash is the value it stands for.  Fields no flow depends on (logging,  *)
(* sessions, threat feeds, the body of a DHCP server) are left out.         *)
(***************************************************************************)
EXTENDS Firewall

CONSTANTS Access,       \* what allowAccess may open, "https" aside
          ServedSets,   \* the serveToInterfaces an admin gives DNS and NTP
          MaxServed     \* bound on the services in use, with the objects of MaxObjects

\* The services of System, and of Interfaces and DhcpServers.
VARIABLE local
vars == <<tree, local>>

Locals ==
  [access : [Interfaces -> SUBSET Access], dhcp : SUBSET Interfaces,
   dns : ServedSets \cup {None}, ntp : ServedSets, ntpOn : BOOLEAN, trusted : SUBSET AddressNames]

ASSUME CompilerAssumption ==
  /\ ServedSets \subseteq SUBSET (Interfaces \cup ZoneNames) /\ {} \in ServedSets
  /\ Access \subseteq {"ping", "ssh", "dns", "dhcp", "ntp"}

-----------------------------------------------------------------------------
(* compile *)

Served(t, refs) == UNION {Side(t, ref) : ref \in refs}
DnsOn(t, s) == IF s.dns = None THEN {} ELSE Served(t, s.dns)
NtpOn(t, s) == IF s.ntpOn THEN Served(t, s.ntp) ELSE {}

\* What each Interface accepts for the firewall itself: allowAccess and the
\* ports of what it serves there (DM-05, DM-34).
LocalIn(t, s) ==
  [i \in Interfaces |->
     s.access[i] \cup (IF t.interfaces[i].https THEN {"https"} ELSE {})
       \cup {svc \in {"dhcp", "dns", "ntp"} :
               \/ svc = "dhcp" /\ i \in s.dhcp
               \/ svc = "dns" /\ i \in DnsOn(t, s)
               \/ svc = "ntp" /\ i \in NtpOn(t, s)}]

SpecValues(t, refs) ==
  [any |-> refs = AnyObject, specs |-> {t.addresses[a].spec : a \in ExpandAddresses(refs)}]
ServiceValues(refs) ==
  [any |-> refs = AnyObject, entries |-> {Services[svc] : svc \in refs \cap DOMAIN Services}]

\* Mutant: the names of the target and of its service are kept.
Mutant_Resolved(t, nat) == nat

\* The target of a dnat rule is resolved; the nat of an snat rule is taken as
\* it is.
Resolved(t, nat) ==
  IF nat.type # "dnat" THEN nat
  ELSE [type |-> "dnat", to |-> t.addresses[nat.to].spec, svc |-> ServiceValues({nat.svc})]

EntryOf(t, r) ==
  [name |-> r.name, action |-> r.action, nat |-> Resolved(t, r.nat),
   source |-> SpecValues(t, r.source), destination |-> SpecValues(t, r.destination),
   service |-> ServiceValues(r.service)]

\* The enabled rules of a RuleSet, and the number of one of them among them.
EnabledIn(t, n) == {k \in DOMAIN t.sets[n].rules : t.sets[n].rules[k].enabled}
Number(places, k) == Cardinality({j \in places : j <= k})

CompiledSet(t, n) ==
  LET s == t.sets[n] IN
  [name |-> n,
   pairs |-> {p \in Side(t, s.from) \X Side(t, s.to) : p[1] # p[2]},
   rules |-> {<<Number(EnabledIn(t, n), k), EntryOf(t, s.rules[k])>> : k \in EnabledIn(t, n)}]

\* The specs of the routes, without the names that order them.
RouteSpecsOf(t) == {t.routes[k] : k \in Routes(t)}

InterfaceAddresses(t) == [i \in Interfaces |-> t.interfaces[i].own]

IntraZones(t) ==
  [z \in {y \in ZoneNames : t.zones[y] # None} |-> t.zones[z].intra]

Sections(t, s) ==
  [network   |-> [links |-> t.interfaces, access |-> s.access, routes |-> RouteSpecsOf(t)],
   dataplane |-> [sets |-> {CompiledSet(t, n) : n \in Present(t)}, localIn |-> LocalIn(t, s),
                  intra |-> IntraZones(t), trusted |-> SpecValues(t, s.trusted),
                  own |-> InterfaceAddresses(t)],
   dhcp      |-> s.dhcp,
   dns       |-> [dns |-> s.dns, ntp |-> s.ntp, ntpOn |-> s.ntpOn,
                  dnsAt |-> DnsOn(t, s), ntpAt |-> NtpOn(t, s), own |-> InterfaceAddresses(t)]]

-----------------------------------------------------------------------------
(* What a driver is to bring about *)

\* localAllowed: a packet for the firewall itself, which entered through i.
LocalAllowed(t, s, i, svc, src) ==
  \/ svc \in s.access[i]
  \/ /\ svc = "https" /\ t.interfaces[i].https
     /\ s.trusted = {} \/ InAddresses(t, s.trusted, src)
  \/ svc = "dhcp" /\ i \in s.dhcp
  \/ svc = "dns" /\ s.dns # None /\ \E ref \in s.dns : i \in Side(t, ref)
  \/ svc = "ntp" /\ s.ntpOn /\ \E ref \in s.ntp : i \in Side(t, ref)

\* The address the source of an accepted flow is translated to: that of the
\* snat rule, or one of the Interface it leaves through.
SourceNat(t, f) ==
  LET v == Classify(t, f) IN
  IF v.action # "accept" \/ v.policy = None THEN {}
  ELSE LET nat == t.sets[v.set].rules[v.policy].nat IN
       IF nat.type # "snat" THEN {}
       ELSE IF nat.to # None THEN {FirstIP(t.addresses[nat.to].spec)}
       ELSE {p.ip : p \in t.interfaces[v.out].own}

\* ActiveRoutes: of the routes with one destination, as it is written, the one
\* with the best preference.
ActiveRoutes(t) ==
  {k \in Routes(t) : \A j \in Routes(t) :
     LET r == t.routes[k] q == t.routes[j] IN
     <<q.ip, q.bits>> = <<r.ip, r.bits>> => ~Better(Preference(q), Preference(r))}

-----------------------------------------------------------------------------
(* Edits of the services; what they refer to must exist and must stay. *)

RefsExist(t, s) ==
  {ref \in s.ntp \cup (IF s.dns = None THEN {} ELSE s.dns) : ~Exists(t, ref)} = {}

CompilerInit ==
  /\ Init
  /\ local = [access |-> [i \in Interfaces |-> {}], dhcp |-> {}, dns |-> None,
              ntp |-> {}, ntpOn |-> FALSE, trusted |-> {}]

InUse(s) ==
  Cardinality({i \in Interfaces : s.access[i] # {}}) + Cardinality(s.dhcp)
    + Cardinality(s.trusted) + (IF s.dns = None THEN 0 ELSE 1)
    + (IF s.ntpOn \/ s.ntp # {} THEN 1 ELSE 0)

\* Bound: services are in use beside few routes, RuleSets and rules.
Fits(t, s) ==
  InUse(s) = 0 \/
    InUse(s) + Cardinality(Routes(t)) + Cardinality(Present(t)) + Cardinality(Positions(t)) <= MaxServed

EditTree == Next /\ RefsExist(tree', local) /\ Fits(tree', local) /\ UNCHANGED local

PutServices(s) == RefsExist(tree, s) /\ Fits(tree, s) /\ local' = s /\ UNCHANGED tree

ServeDns == \E refs \in ServedSets \cup {None} : PutServices([local EXCEPT !.dns = refs])
ServeNtp ==
  \E refs \in ServedSets, on \in BOOLEAN :
    PutServices([local EXCEPT !.ntp = refs, !.ntpOn = on])
ServeDhcp == \E i \in Interfaces :
  \/ PutServices([local EXCEPT !.dhcp = @ \cup {i}])
  \/ PutServices([local EXCEPT !.dhcp = @ \ {i}])
AllowAccess == \E i \in Interfaces, a \in SUBSET Access : PutServices([local EXCEPT !.access[i] = a])
TrustHosts == \E hosts \in SUBSET AddressNames : PutServices([local EXCEPT !.trusted = hosts])

CompilerNext == EditTree \/ ServeDns \/ ServeNtp \/ ServeDhcp \/ AllowAccess \/ TrustHosts

CompilerSpec == CompilerInit /\ [][CompilerNext]_vars

-----------------------------------------------------------------------------
(* Properties *)

\* The tree and the services keep to their types.
CompilerTypeOK == TypeOK /\ local \in Locals

Same == Sections(tree, local) = Sections(tree', local')
SameZones == \A z \in ZoneNames : tree.zones[z] # None /\ tree'.zones[z] # None =>
                                    tree.zones[z].interfaces = tree'.zones[z].interfaces

Known == {"https"} \cup Access
Allowed(t, s) ==
  [i \in Interfaces |-> {x \in Known \X Ip : LocalAllowed(t, s, i, x[1], x[2])}]

\* An edit that leaves every section as it was, and the members of every Zone,
\* changes the verdict of no flow and no answer of the firewall itself: what the
\* drivers skip (reconciler.go apply) could be skipped.
SameVerdicts ==
  vars # vars' /\ SameZones /\ Same =>
    /\ Allowed(tree, local) = Allowed(tree', local')
    /\ \A f \in Flows : LET v == Classify(tree, f) w == Classify(tree', f) IN
         <<v.action, v.out>> = <<w.action, w.out>>

\* What the compiler opens on an Interface is what a packet from a trusted host
\* may reach there, however the Zones behind serveToInterfaces are edited
\* (compile.go LocalIn, simulator.go localAllowed).
LocalInIsServed ==
  \A i \in Interfaces : \A svc \in Known :
    svc \in LocalIn(tree, local)[i] <=>
      \E src \in Ip : LocalAllowed(tree, [local EXCEPT !.trusted = {}], i, svc, src)

\* The static route a flow takes is shown as active (observer.go ActiveRoutes,
\* classify.go Route).
UsedRouteIsActive ==
  \A dst \in {f.dst : f \in Flows} :
    LET out == Route(tree, dst)
        leading == {k \in Routes(tree) : Leads(tree.routes[k], dst)}
        bits(k) == tree.routes[k].bits
        longest == {k \in leading : \A j \in leading : bits(j) <= bits(k)}
    IN  /\ longest # {}
        /\ \A l \in ActiveLinks(tree) : Leads(l, dst) => \A k \in longest : l.bits < bits(k)
        => \E k \in longest \cap ActiveRoutes(tree) : tree.routes[k].iface = out

\* What compile opens on an Interface is what a trusted host may reach there, the
\* route a flow takes is shown as active, and an edit that changes no section and
\* no Zone's members changes the verdict of no flow (compile.go, observer.go
\* ActiveRoutes, reconciler.go apply).
CompiledIsUsed ==
  /\ [](LocalInIsServed /\ UsedRouteIsActive)
  /\ [][SameVerdicts]_vars

\* compile.go:15: it "hashes each, so the Reconciler can skip drivers a commit
\* does not affect".
SectionsCoverVerdicts ==
  [][Same => \A f \in Flows : Classify(tree, f).action = Classify(tree', f).action]_vars

\* The same, for the translation of sources.
SectionsCoverNat ==
  [][Same /\ SameZones => \A f \in Flows : SourceNat(tree, f) = SourceNat(tree', f)]_vars

\* staticroute.schema.json: "Among routes to the same destination the active
\* one has the lowest distance, then the lowest priority".
OneActiveRoute ==
  \A j, k \in ActiveRoutes(tree) :
    LET r == tree.routes[j] q == tree.routes[k] IN
    Masked(r.ip, r.bits) = Masked(q.ip, q.bits) /\ r.bits = q.bits => j = k
=============================================================================
