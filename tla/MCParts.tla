--------------------------------- MODULE MCParts ---------------------------------
(***************************************************************************)
(* The parts of the program whose modules share no variable with one another: *)
(* what a change must pass before it takes effect (names and references,       *)
(* Interfaces and servers), how a tree is read and shared, and the             *)
(* services beside the Config Manager (audit log, sessions), with browser tabs.  *)
(* A behaviour exercises one of them, chosen at its start, while the others     *)
(* stay as they are; each has an instance of its own size.                      *)
(***************************************************************************)
EXTENDS Network, AddressLists, Accounts, AuditLog, Auth, Uuids, WebUI, ObjectTree, References

VARIABLE part        \* the one that is exercised

(* Groups of every shape over three names, cycles and dangling members       *)
(* included; and every palette of three colours, one of them shipped.        *)
MCNames == {1, 2, 3}
MCMembers == {<<>>, <<1>>, <<3, 1>>, <<2, 3>>}
MCRuleSources == {<<1, 3>>, <<3>>}
MCColorNames == {1, 2, 3}
MCShippedHex == <<"h1">>
MCShipped == <<[hex |-> "h1", predefined |-> TRUE], None, None>>

GroupHeads ==
  [addresses : {{}, {1}, {2, 3}}, groups : [AddressNames -> Members \cup {None}], rules : {<<1, 3>>},
   colors : {MCShipped}, color : {None}]

ColorHeads ==
  [addresses : {{1}}, groups : [AddressNames -> {None}], rules : {<<3>>},
   colors : [ColorNames -> ColorSpecs \cup {None}], color : ColorNames \cup {None}]

MCHeads == GroupHeads \cup ColorHeads

Grouping ==
  \/ \E n \in AddressNames : PutAddress(n) \/ DeleteAddress(n) \/ DeleteGroup(n)
                               \/ \E l \in Members : PutGroup(n, l)
  \/ \E l \in RuleSources : PutRules(l)

Painting ==
  \/ \E c \in ColorNames \cup {None} : PaintRules(c)
  \/ \E c \in ColorNames : DeleteColor(c) \/ \E s \in ColorSpecs : PutColor(c, s)

-----------------------------------------------------------------------------
(* Two Interfaces with their servers over eight addresses; and four             *)
(* Interfaces of two devices without addresses.                                *)
Cidr(ip, bits) == [ip |-> ip, bits |-> bits]
Phys(device, role, addresses, gateway) ==
  [type |-> "physical", device |-> device, role |-> role, addresses |-> addresses, gateway |-> gateway]
Vlan(parent, id) ==
  [type |-> "vlan", parent |-> parent, vlanId |-> id, role |-> "internal", addresses |-> {}, gateway |-> Unset]

\* Subnets of four addresses, both, one over both, a network address.
Subnets == {{}, {Cidr(1, 2)}, {Cidr(6, 2)}, {Cidr(1, 2), Cidr(6, 2)}, {Cidr(1, 1)}, {Cidr(4, 2)}}
Cabled ==
  {Phys("d1", "internal", a, Unset) : a \in Subnets}
    \cup {Phys("d2", r, a, g) : r \in {"internal", "external"}, g \in {Unset, 3},
                                a \in {{Cidr(1, 2)}, {Cidr(6, 2)}}}

Serve(i, r, g, v) ==
  [interface |-> i, rangeStart |-> r[1], rangeEnd |-> r[2], gateway |-> g, reservations |-> v]
Reserve(mac, ip) == [mac |-> mac, ip |-> ip]

\* Ranges in one subnet and over both; one the wrong way round, one address
\* reserved for a host twice.
Dhcp ==
  {Serve(i, r, g, v) :
     i \in {"a", "b"}, r \in {<<2, 3>>, <<3, 5>>}, g \in {Unset, 3},
     v \in {{}, {Reserve("m", 3), Reserve("n", 2)}, {Reserve("m", 4), Reserve("n", 5)}}}
    \cup {Serve("a", <<3, 2>>, Unset, {}), Serve("b", <<4, 5>>, Unset, {Reserve("m", 4), Reserve("m", 5)})}

PortNames == {"a", "b", "c", "d"}
Ports == {Phys(d, "internal", {}, Unset) : d \in {"d1", "d2"}} \cup {Vlan(p, id) : p \in PortNames, id \in {1, 2}}

MCIfaceSpecs == Cabled \cup Ports

Leases ==
  \/ \E i \in {"a", "b"} : DeleteIface(i) \/ \E s \in Cabled : PutIface(i, s)
  \/ \E d \in DhcpServer : DeleteServer(d) \/ \E s \in ServerSpecs : PutServer(d, s)

Cabling == \E i \in PortNames : DeleteIface(i) \/ \E s \in Ports : PutIface(i, s)

-----------------------------------------------------------------------------
(* Two documents of two kinds, in an order that is not that of their names;    *)
(* and lists of Addresses around the first and the last one there is.          *)
MCKindOrder == <<"Zone", "Address">>

Ends == {0, 6, 15}
EdgeForms ==
  [form : {"subnet"}, ip : Ends, bits : 0..4] \cup [form : {"range"}, start : Ends, end : Ends]
    \cup {FQDN, MAC}

-----------------------------------------------------------------------------
(* Two Users and two requests for the configuration that overlap; two RuleSets *)
(* with up to three rules, and smaller ones that are also written as text and   *)
(* imported.                                                                   *)
VARIABLES texts, textUuids, textIds, textOver

OfYaml == INSTANCE Uuids WITH
  trees <- texts, generated <- textUuids, issued <- textIds, overwrote <- textOver, RuleNames <- {"a", "b"}, MaxRules <- 2, MaxTrees <- 4

-----------------------------------------------------------------------------
(* Two handlers that record, with failed appends, power cuts and restarts      *)
(* (AuditLog); two Users of whom one may be demoted or deleted while requests    *)
(* are under way, with tokens that never expire, as no time passes; and one User *)
(* who logs in from one address, twice at a time, while settings change.        *)
Lax == [threshold |-> 2, lockout |-> 2, timeout |-> 2]
Strict == [threshold |-> 1, lockout |-> 2, timeout |-> 1]
MCPolicies == {Lax, Strict}
MCFirstUsers == [n \in Names |-> [role |-> "admin", password |-> "p"]]

\* The second User is an administrator, only reads, or is gone.
MCUsers == {[MCFirstUsers EXCEPT !["n2"] = u] : u \in {MCFirstUsers["n2"], [role |-> "read-only", password |-> "p"], Absent}}

Sessions ==
  /\ AuthNext
  /\ policy' = policy /\ users' \in MCUsers
  /\ login'["a2"] = Idle
  /\ login'["a1"] # Idle => login'["a1"].password = "p" /\ login'["a1"].users # NoUsers
  /\ \A s \in sessions' : s.left = s.timeout

Lockout ==
  /\ AuthNext
  /\ write'["h2"] = Idle /\ users'["n2"] = users["n2"] /\ Len(configs') <= 3
  /\ \A a \in Attempts : login'[a] # Idle => login'[a].user = "n1"
  /\ Cardinality(sessions') <= 1

-----------------------------------------------------------------------------
(* Two tabs that edit one file, over three revisions.                          *)
MCFirstFiles == [f \in Files |-> "v1"]

-----------------------------------------------------------------------------
ASSUME PartsAssumption ==
  /\ ReferencesAssumption
  /\ NetworkAssumption /\ AccountsAssumption /\ AuditAssumption /\ AuthAssumption
  /\ ObjectTreeAssumption /\ ListsAssumption
  /\ UuidsAssumption /\ OfYaml!UuidsAssumption

AnyUsers == CHOOSE t \in [Users -> UserSpecs] : AdminIn(t)
AnyRuleSets == [x |-> [uuid |-> 1, id |-> 1, rules |-> <<[name |-> "a", uuid |-> 2, id |-> 2]>>], y |-> <<>>]

yaml == <<texts, textUuids, textIds, textOver>>
partVars == <<tree, networkVars, treeVars, listsVars,
              accountsVars, uuidsVars, yaml, auditVars, authVars, tabsVars>>

PartsInit ==
  /\ part \in {"groups", "colors", "leases", "links", "tree", "lists", "accounts", "uuids",
               "yaml", "audit", "sessions", "lockout", "tabs"}
  /\ CASE part = "groups" -> tree \in GroupHeads
       [] part = "colors" -> tree \in ColorHeads
       [] OTHER           -> tree = (CHOOSE t \in ColorHeads : TRUE)
  /\ NetworkInit
  /\ (IF part = "tree" THEN TRUE ELSE docs = <<>>) /\ TreeInit
  /\ ListsInit
  /\ (IF part = "accounts" THEN TRUE ELSE commits = <<AnyUsers>>) /\ AccountsInit
  /\ (IF part = "uuids" THEN TRUE ELSE trees = <<AnyRuleSets>>) /\ UuidsInit
  /\ (IF part = "yaml" THEN TRUE ELSE texts = <<AnyRuleSets>>) /\ OfYaml!UuidsInit
  /\ AuditInit
  /\ AuthInit
  /\ TabsInit

PartsNext ==
  /\ UNCHANGED part
  /\ CASE part = "groups" -> Grouping [] part = "colors" -> Painting [] OTHER -> UNCHANGED tree
  /\ CASE part = "leases" -> Leases [] part = "links" -> Cabling [] OTHER -> UNCHANGED networkVars
  /\ IF part = "tree" THEN TreeNext ELSE UNCHANGED treeVars
  /\ IF part = "lists" THEN ListsNext ELSE UNCHANGED listsVars
  /\ IF part = "accounts" THEN AccountsNext ELSE UNCHANGED accountsVars
  /\ IF part = "uuids" THEN FormNext ELSE UNCHANGED uuidsVars
  /\ IF part = "yaml" THEN OfYaml!UuidsNext ELSE UNCHANGED yaml
  /\ IF part = "audit" THEN AuditNext ELSE UNCHANGED auditVars
  /\ CASE part = "sessions" -> Sessions [] part = "lockout" -> Lockout [] OTHER -> UNCHANGED authVars
  /\ IF part = "tabs" THEN TabsNext ELSE UNCHANGED tabsVars

PartsSpec == PartsInit /\ [][PartsNext]_<<part, partVars>>

-----------------------------------------------------------------------------
(* The properties of the parts, as they are stated there: those of the network, *)
(* the trees, the lists, the accounts, the uuids, the log, the sessions and the *)
(* tabs are the modules' own.  In other parts the variables of a part do not change.     *)

\* Every part keeps to its types.
PartsTypeOK ==
  CASE part = "groups" \/ part = "colors" -> ReferencesTypeOK
    [] part = "leases" \/ part = "links" -> NetworkTypeOK
    [] part = "tree" -> TreeTypeOK
    [] part = "lists" -> TRUE
    [] part = "accounts" -> AccountsTypeOK
    [] part = "uuids" -> UuidsTypeOK
    [] part = "yaml" -> OfYaml!UuidsTypeOK
    [] part = "audit" -> AuditTypeOK
    [] part = "sessions" \/ part = "lockout" -> AuthTypeOK
    [] part = "tabs" -> TabsTypeOK

\* The search for cycles of groups reports one exactly when there is one, and a
\* group stands for the Addresses reached through its members (validator.go groups,
\* tree.go ExpandAddresses).
SearchesExact == part = "groups" => CycleReported /\ ExpandIsReach
=============================================================================
