-------------------------------- MODULE Network --------------------------------
(***************************************************************************)
(* Interfaces and DHCP servers (internal/validator: interfaces, dhcp): what  *)
(* the addresses of a network may be, while its objects are edited one at a  *)
(* time.  HEAD has no errors to begin with, so the API refuses every change  *)
(* that has one (api/config.go newErrors).                                   *)
(*                                                                         *)
(* A rule is named as the code names it.  IPv6, which is stored and not      *)
(* applied, and the lease time are left out; a server that is not enabled is *)
(* checked like one that is.  Interfaces and servers are kept in no order:   *)
(* each pair is checked whichever comes first.                               *)
(***************************************************************************)
EXTENDS IntervalSets

CONSTANTS Interface,   \* names of Interfaces
          DhcpServer,      \* names of DhcpServers
          IfaceSpecs, ServerSpecs,   \* what may be saved
          Unset        \* no such object, no gateway

(* An Interface is physical, with a device, or a vlan, with a parent and an   *)
(* id; addresses is empty unless its mode is static.                          *)
(*   [type, device, role, addresses, gateway]                                 *)
(*   [type, parent, vlanId, role, addresses, gateway]                         *)
(* A DhcpServer is [interface, rangeStart, rangeEnd, gateway, reservations].  *)

Address == [ip : Ip, bits : 0..Width]

NetworkAssumption ==
  /\ Unset \notin Ip
  /\ \A s \in IfaceSpecs :
        /\ s.type \in {"physical", "vlan"}
        /\ s.type = "vlan" => s.parent \in Interface
        /\ s.role \in {"internal", "external", "dmz", "transit"}
        /\ s.addresses \subseteq Address /\ s.gateway \in Ip \cup {Unset}
        /\ s.addresses = {} => s.gateway = Unset     \* the schema: static only
  /\ \A d \in ServerSpecs :
        /\ d.interface \in Interface /\ {d.rangeStart, d.rangeEnd} \subseteq Ip
        /\ d.gateway \in Ip \cup {Unset}
        /\ \A r \in d.reservations : r.ip \in Ip

VARIABLES net,      \* HEAD: [ifaces, servers]
          broken    \* the rules that the last change broke; {} when it was made

networkVars == <<net, broken>>

-----------------------------------------------------------------------------
(* Subnets *)

InPrefix(p, ip) == addrContains(Subnet(p.ip, p.bits), ip)
OverlapsPrefix(p, q) == Overlaps(Span(Subnet(p.ip, p.bits)), Span(Subnet(q.ip, q.bits)))

\* A network address, where a subnet has one (R-020.4).
NetworkAddress(p) == Masked(p.ip, p.bits) = p.ip /\ p.bits < Width - 1

InAny(ip, ps) == {p \in ps : InPrefix(p, ip)}

-----------------------------------------------------------------------------
(* The Validator: the rules that a tree breaks *)

Ifaces(t) == {i \in Interface : t.ifaces[i] # Unset}
Servers(t) == {d \in DhcpServer : t.servers[d] # Unset}
Vlans(t) == {i \in Ifaces(t) : t.ifaces[i].type = "vlan"}
Physical(t) == Ifaces(t) \ Vlans(t)

Owned(t) == UNION {{i} \X t.ifaces[i].addresses : i \in Ifaces(t)}

Rule(name, holds) == IF holds THEN {} ELSE {name}

VlanErrors(t) ==
  LET ids(i) == <<t.ifaces[i].parent, t.ifaces[i].vlanId>> IN
  Rule("DM-02", \A i \in Vlans(t) : t.ifaces[i].parent \in Ifaces(t))
    \cup Rule("DM-03",
           /\ \A i \in Vlans(t) : t.ifaces[i].parent \notin Vlans(t)
           /\ \A i, j \in Vlans(t) : i # j => ids(i) # ids(j)
           /\ \A i, j \in Physical(t) : i # j => t.ifaces[i].device # t.ifaces[j].device)

AddressErrors(t) ==
  Rule("R-020.4", \A o \in Owned(t) : ~NetworkAddress(o[2]))
    \cup Rule("DM-04", \A o, q \in Owned(t) : o # q => ~OverlapsPrefix(o[2], q[2]))
    \cup Rule("DM-22", \A i \in Ifaces(t) : LET s == t.ifaces[i] IN
           s.gateway # Unset => InAny(s.gateway, s.addresses) # {})

InterfaceErrors(t) == VlanErrors(t) \cup AddressErrors(t)

(***************************************************************************)
(* dhcp.  A server whose Interface is missing, or whose range is not in one  *)
(* subnet of it, is not looked at any further.                               *)
(***************************************************************************)
\* The subnet of the Interface that the range lies in; {} when there is none.
\* inAny takes the first: with DM-04 there is one.
RangePrefix(t, s) ==
  IF s.rangeEnd < s.rangeStart THEN {}
  ELSE {p \in InAny(s.rangeStart, t.ifaces[s.interface].addresses) : InPrefix(p, s.rangeEnd)}

Attached(t) == {d \in Servers(t) : t.servers[d].interface \in Ifaces(t)}
Ranged(t) == {d \in Attached(t) : RangePrefix(t, t.servers[d]) # {}}

Within(s, ip) == s.rangeStart <= ip /\ ip <= s.rangeEnd

\* The gateway handed out: the Interface's address unless one in the subnet is given.
GatewayOf(s, p) == IF s.gateway # Unset /\ InPrefix(p, s.gateway) THEN s.gateway ELSE p.ip

\* Mutant: a gateway of one's own may be leased.
Mutant_LeaseErrors(s, p) ==
  Rule("DM-26", ~Within(s, p.ip))
    \cup Rule("DM-27", s.gateway # Unset => InPrefix(p, s.gateway))
    \cup Rule("DM-29", \A r \in s.reservations :
           /\ InPrefix(p, r.ip) /\ r.ip \notin {p.ip, GatewayOf(s, p)}
           /\ \A q \in s.reservations \ {r} : q.mac # r.mac /\ q.ip # r.ip)

LeaseErrors(s, p) ==
  Rule("DM-26", ~Within(s, p.ip)
                  /\ (s.gateway # Unset => ~(InPrefix(p, s.gateway) /\ Within(s, s.gateway))))
    \cup Rule("DM-27", s.gateway # Unset => InPrefix(p, s.gateway))
    \cup Rule("DM-29", \A r \in s.reservations :
           /\ InPrefix(p, r.ip) /\ r.ip \notin {p.ip, GatewayOf(s, p)}
           /\ \A q \in s.reservations \ {r} : q.mac # r.mac /\ q.ip # r.ip)

PairErrors(s, u) ==
  Rule("R-017.3", s.interface # u.interface)
    \cup Rule("DM-28", u.rangeEnd < s.rangeStart \/ s.rangeEnd < u.rangeStart)

PairsOf(ds) == {x \in ds \X ds : x[1] # x[2]}

\* Of two servers that are not both Ranged only the Interfaces are compared.
DhcpErrors(t) ==
  LET s(d) == t.servers[d]
      pair(x) == PairErrors(s(x[1]), s(x[2]))
  IN  Rule("DM-02", Attached(t) = Servers(t))
        \cup Rule("DM-24", \A d \in Attached(t) : t.ifaces[s(d).interface].role # "external")
        \cup Rule("DM-25", Ranged(t) = Attached(t))
        \cup (UNION {UNION {LeaseErrors(s(d), p) : p \in RangePrefix(t, s(d))} : d \in Ranged(t)})
        \cup (UNION {pair(x) \ {"DM-28"} : x \in PairsOf(Attached(t))})
        \cup (UNION {pair(x) : x \in PairsOf(Ranged(t))})

Errors(t) == InterfaceErrors(t) \cup DhcpErrors(t)

-----------------------------------------------------------------------------
(* The API: mutation *)

Mutate(t) ==
  /\ broken' = Errors(t)
  /\ net' = IF broken' = {} THEN t ELSE net

PutIface(i, s) == Mutate([net EXCEPT !.ifaces[i] = s])
DeleteIface(i) == i \in Ifaces(net) /\ Mutate([net EXCEPT !.ifaces[i] = Unset])
PutServer(d, s) == Mutate([net EXCEPT !.servers[d] = s])
DeleteServer(d) == d \in Servers(net) /\ Mutate([net EXCEPT !.servers[d] = Unset])

NetworkInit ==
  /\ net = [ifaces |-> [i \in Interface |-> Unset], servers |-> [d \in DhcpServer |-> Unset]]
  /\ broken = {}

NetworkNext ==
  \/ \E i \in Interface : DeleteIface(i) \/ \E s \in IfaceSpecs : PutIface(i, s)
  \/ \E d \in DhcpServer : DeleteServer(d) \/ \E s \in ServerSpecs : PutServer(d, s)

NetworkSpec == NetworkInit /\ [][NetworkNext]_networkVars

-----------------------------------------------------------------------------
(* Properties *)

NetworkTypeOK ==
  /\ net \in [ifaces : [Interface -> IfaceSpecs \cup {Unset}],
               servers : [DhcpServer -> ServerSpecs \cup {Unset}]]
  /\ broken \subseteq {"DM-02", "DM-03", "DM-04", "R-020.4", "DM-22", "DM-24", "DM-25",
                       "DM-26", "DM-27", "DM-28", "DM-29", "R-017.3"}

\* What a host can be given by a server.
Leased(s) == (s.rangeStart .. s.rangeEnd) \cup {r.ip : r \in s.reservations}

(***************************************************************************)
(* No address has two owners, whatever was edited in which order: none is    *)
(* leased by two servers, and none that an Interface has, or a server names  *)
(* as a gateway, is leased by any server.  No check compares the leases of a *)
(* server with the reservations of another one, or with the addresses of     *)
(* the other Interfaces.                                                     *)
(***************************************************************************)
OneOwner ==
  \A d \in Servers(net) : LET s == net.servers[d] IN
    /\ \A e \in Servers(net) \ {d} : Leased(s) \cap Leased(net.servers[e]) = {}
    /\ \A o \in Owned(net) : o[2].ip \notin Leased(s)
    /\ \A e \in Servers(net) : net.servers[e].gateway \notin Leased(s)

\* A server serves, from one subnet of its Interface, hosts that can reach the
\* gateway it gives them, also when the Interface was edited or deleted after
\* the server was made.
ServedOnLink ==
  \A d \in Servers(net) : LET s == net.servers[d] IN
    /\ s.interface \in Ifaces(net)
    /\ \E p \in net.ifaces[s.interface].addresses :
         \A ip \in Leased(s) \cup ({s.gateway} \ {Unset}) : InPrefix(p, ip)

(***************************************************************************)
(* Each Interface is a link of its own: it resolves to a device, and two      *)
(* never resolve to the same device and VLAN id, also when the parent of a    *)
(* VLAN was edited or deleted after it.                                       *)
(***************************************************************************)
Link(i) ==
  LET s == net.ifaces[i]
      up == net.ifaces[s.parent]
  IN  IF s.type = "physical" THEN {<<s.device>>}
      ELSE IF s.parent \in Physical(net) THEN {<<up.device, s.vlanId>>}
      ELSE {}

OneLinkEach ==
  /\ \A i \in Ifaces(net) : Link(i) # {}
  /\ \A i, j \in Ifaces(net) : i # j => Link(i) \cap Link(j) = {}

\* README.md:170, validator_test.go:105: "DM-28 is implied by DM-04 + DM-25": no
\* change breaks the rule against overlapping ranges and neither of those.
ImpliedByTwo == "DM-28" \in broken => broken \cap {"DM-04", "DM-25"} # {}

\* With one server for each Interface (R-017.3) it is: two ranges overlap only
\* where subnets do, or where one Interface is served twice.
ImpliedByThree == "DM-28" \in broken => broken \cap {"DM-04", "R-017.3"} # {}

(***************************************************************************)
(* What holds of the network, whatever was edited in which order             *)
(* (validator.go interfaces, dhcp).                                           *)
(***************************************************************************)
NetworkSound == OneOwner /\ ServedOnLink /\ OneLinkEach /\ ImpliedByThree
=============================================================================
