------------------------------- MODULE MCFirewall -------------------------------
(***************************************************************************)
(* A small appliance for TLC: four bits of address, three subnets.          *)
(*                                                                          *)
(*   wan   0..3  (the firewall is 1)      lan1  4..7 (5)    lan2  8..11 (9) *)
(*   12..15 is somewhere else: reached by static routes                     *)
(***************************************************************************)
EXTENDS Compiler

Physical(ip, https) ==
  [own |-> {[ip |-> ip, bits |-> 2]}, enabled |-> TRUE, https |-> https]

Nat2(to, svc) == [type |-> "dnat", to |-> to, svc |-> svc]
SourceNatTo(to) == [type |-> "snat", to |-> to, svc |-> None]
Rule(name, src, dst, svc, action, nat) ==
  [name |-> name, enabled |-> TRUE, source |-> src, destination |-> dst,
   service |-> svc, action |-> action, nat |-> nat]
Entry(proto, port) == [proto |-> proto, port |-> port]
Static(ip, bits, iface, gateway, distance) ==
  [ip |-> ip, bits |-> bits, iface |-> iface, gateway |-> gateway,
   distance |-> distance, priority |-> 0]
Address(spec, bound) == [spec |-> spec, bound |-> bound]

MCInterfaces == {"wan", "lan1", "lan2"}
MCZoneNames == {"inside"}
MCRouteNames == {"route1", "route2"}
MCAddressNames == {"public", "other", "web", "host"}
MCGroups == [publics |-> {"public", "others"}, others |-> {"other"}]
MCServices ==
  [https |-> {Entry("tcp", Interval(2, 2))},
   webs |-> {Entry("tcp", Interval(1, 2)), Entry("icmp", None)},
   alt |-> {Entry("tcp", Interval(3, 3))}]

MCInterfaceSpecs ==
  [wan |-> {Physical(1, TRUE), Physical(1, FALSE), Physical(2, TRUE)},
   lan1 |-> {Physical(5, FALSE),
             Physical(3, FALSE),      \* in the subnet of wan
             Physical(4, FALSE)},     \* the network itself
   lan2 |-> {Physical(9, FALSE), [Physical(9, FALSE) EXCEPT !.enabled = FALSE]}]
MCZoneSpecs == [inside |-> {[interfaces |-> {"lan1", "lan2"}, intra |-> "allow"],
                            [interfaces |-> {"lan1"}, intra |-> "allow"]}]
MCAddressSpecs ==
  [public |-> {Address(AddressRange(1, 2), None)},
   other |-> {Address(Subnet(2, 4), None)},
   web |-> {Address(Subnet(6, 4), "lan1")},
   host |-> {Address(Subnet(10, 4), None), Address(Subnet(6, 4), None)}]
MCRouteSpecs ==
  [route1 |-> {Static(12, 2, "wan", 3, 0)},
   route2 |-> {Static(13, 2, "lan2", 11, 10), Static(13, 2, "lan2", 11, 5), Static(8, 1, "wan", 3, 0)}]
MCRules ==
  { Rule("block", {"web"}, AnyObject, AnyObject, "drop", NoNat),
    Rule("all", AnyObject, AnyObject, AnyObject, "accept", SourceNatTo("host")),
    Rule("publish", AnyObject, {"public"}, {"https"}, "accept", Nat2("web", "alt")),
    Rule("publishAll", AnyObject, {"publics"}, {"webs"}, "accept", Nat2("host", None)) }
MCPairs ==
  { <<"wan", "inside">>, <<"wan", "lan1">>, <<"wan", "lan2">> }
MCServedSets == {{}, {"inside"}}

MCFactory ==
  [zones |-> [z \in ZoneNames |-> None],
   interfaces |-> [wan |-> Physical(1, FALSE), lan1 |-> Physical(5, FALSE),
                   lan2 |-> Physical(9, FALSE)],
   addresses |-> [public |-> Address(AddressRange(1, 2), None), other |-> Address(Subnet(2, 4), None),
                  web |-> Address(Subnet(6, 4), "lan1"), host |-> Address(Subnet(10, 4), None)],
   routes |-> [k \in RouteNames |-> None],
   sets |-> [n \in SetNames |-> None]]

Flow(in, src, dst, proto, port) ==
  [in |-> in, src |-> src, dst |-> dst, proto |-> proto, port |-> port]

MCFlows ==
  { Flow("wan", 13, dst, "tcp", port) : dst \in {1, 2, 6, 9, 13}, port \in {1, 2} }
    \cup { Flow("wan", 13, dst, "icmp", 0) : dst \in {1, 9} }
    \cup { Flow("lan1", 6, dst, "tcp", 2) : dst \in {1, 9, 13} }
    \cup { Flow("lan2", 10, dst, "tcp", 2) : dst \in {1, 6, 13} }
=============================================================================
