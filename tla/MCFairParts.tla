------------------------------- MODULE MCFairParts -------------------------------
(***************************************************************************)
(* The parts of the program that keep to themselves and have something to     *)
(* reach: tabs of the web UI, the lockout of logins, the flows of the          *)
(* simulated Data Plane, and the archived XDP firewall.  A behaviour exercises  *)
(* one of them, chosen at its start, and is fair to that one.                  *)
(***************************************************************************)
EXTENDS MCWebUI, EventCollector, XdpFirewall

CONSTANT Absent

VARIABLE part        \* the one that is exercised

-----------------------------------------------------------------------------
(* Two tabs, one of which only looks: it is behind by two commits at times, and *)
(* so are the answers that are on their way to it.                              *)
OneEdits == TabsNext /\ dialog'[t2] = Closed

-----------------------------------------------------------------------------
(* One User who logs in from one address, twice at a time, while an           *)
(* administrator changes the settings.                                        *)
VARIABLES configs, fails, login, sessions, write, missed, promised, overlapped

Lax == [threshold |-> 2, lockout |-> 2, timeout |-> 2]
Strict == [threshold |-> 1, lockout |-> 2, timeout |-> 1]

OfLockout == INSTANCE Auth WITH
  LoginPolicies <- {Lax, Strict}, FirstPolicy <- Lax, DefaultPolicy <- Lax, MaxConfigs <- 3, Sources <- {"s"}, Attempts <- {"a1", "a2"},
  Writers <- {"h"}, Names <- {"n"}, Passwords <- {"p", "q"}, MaxSessions <- 1,
  FirstUsers <- [n \in {"n"} |-> [role |-> "admin", password |-> "p"]]

-----------------------------------------------------------------------------
(* Of the Data Plane: up to four flows without a client, and the first two     *)
(* with a client that streams their events.                                    *)
Collect == Simulate /\ UNCHANGED <<subs, streams>>

Stream ==
  /\ Simulate \/ \E s \in Subscribers : Subscribe(s) \/ Relay(s) \/ Unsubscribe(s)
  /\ flows' <= 2

-----------------------------------------------------------------------------
(* A map of two slots, lists that shrink, grow and exceed it, every form of a  *)
(* CIDR, and packets on both sides of it.  Two versions of the file come with   *)
(* times in any order; three, none of them empty, a time after the other.        *)
TwoVersions == XdpNext /\ writes' <= 2 /\ mtime' <= 2
ThreeVersions == XdpNext /\ mtime' = writes' /\ rulesFile' # <<>>

Every == [kind |-> "empty"]
Host(b) == [kind |-> "address", ip |-> b]
Net(b, n) == [kind |-> "prefix", ip |-> b, len |-> n]

Rule(prio, src, dst, port, proto, action) ==
  [priority |-> prio, src |-> src, dst |-> dst, port |-> port, proto |-> proto, action |-> action]

PassNet    == Rule(1, Net(<<2, 1>>, 3), Every, 1, "tcp", "pass")
DropHost   == Rule(0, Host(<<2, 1>>), Every, 0, "any", "DROP")
PassAll    == Rule(2, Every, Net(<<1, 3>>, 1), 0, "UDP", "PASS")
DropSame   == Rule(2, Every, Every, 0, "UDP", "REJECT")
DropStrange == Rule(1, [kind |-> "other"], Every, 0, "ICMP", "PASS")

MCRuleFiles == {Broken, NoFile, <<>>, <<PassNet>>, <<PassNet, DropStrange>>, <<PassAll, DropHost, DropSame>>}

MCToUpper(s) == CASE s = "tcp" -> "TCP" [] s = "pass" -> "PASS" [] OTHER -> s

Packet(src, proto, dport, whole) ==
  [ipv4 |-> TRUE, src |-> src, dst |-> <<1, 2>>, proto |-> proto, dport |-> dport, whole |-> whole]

Arriving == {Packet(<<2, 0>>, 6, <<0, 1>>, TRUE), Packet(<<2, 1>>, 6, <<1, 0>>, TRUE),
             Packet(<<2, 2>>, 17, <<0, 1>>, FALSE), Packet(<<3, 3>>, 1, <<0, 0>>, FALSE),
             [Packet(<<2, 1>>, 6, <<0, 1>>, TRUE) EXCEPT !.ipv4 = FALSE]}

-----------------------------------------------------------------------------
ASSUME FairPartsAssumption ==
  /\ OfLockout!AuthAssumption /\ XdpAssumption
  /\ CollectorAssumption

auth == <<configs, fails, login, sessions, write, missed, promised, overlapped>>
fairVars == <<part, tabsVars, auth, collectorVars, xdpVars>>

FairPartsInit ==
  /\ part \in {"web", "lockout", "collector", "stream", "times", "versions"}
  /\ TabsInit
  /\ OfLockout!AuthInit
  /\ CollectorInit
  /\ XdpInit

FairPartsNext ==
  /\ UNCHANGED part
  /\ IF part = "web" THEN OneEdits ELSE UNCHANGED tabsVars
  /\ IF part = "lockout" THEN OfLockout!AuthNext ELSE UNCHANGED auth
  /\ CASE part = "collector" -> Collect [] part = "stream" -> Stream
       [] OTHER -> UNCHANGED collectorVars
  /\ CASE part = "times" -> TwoVersions [] part = "versions" -> ThreeVersions
       [] OTHER -> UNCHANGED xdpVars

\* The fairness of each part's FairSpec, while it is exercised.
PartsFairness ==
  /\ WF_tabsVars(part = "web" /\ Reconcile)
  /\ \A t \in Tabs : /\ WF_tabsVars(part = "web" /\ Server(t)) /\ WF_tabsVars(part = "web" /\ Browser(t))
                     /\ WF_tabsVars(part = "web" /\ Poll(t)) /\ WF_tabsVars(part = "web" /\ Arrive(t))
  /\ WF_auth(part = "lockout" /\ OfLockout!Tick)
  /\ \A a \in {"a1", "a2"} : WF_auth(part = "lockout" /\ OfLockout!Compare(a))
  /\ WF_collectorVars(part = "collector" /\ Simulate)
  /\ WF_xdpVars(part \in {"times", "versions"} /\ PollRules)

FairPartsSpec == FairPartsInit /\ [][FairPartsNext]_fairVars /\ PartsFairness

-----------------------------------------------------------------------------
(* The properties of the parts are those of their modules.  In other parts the  *)
(* variables of a part do not change.                                          *)

\* A lockout ends under any load of further attempts (auth.go Login), every flow
\* that was remembered ends (simulator.go endFlows), and the last version of the
\* rules is written to the map in the end, when it parses and is newer than every
\* one before it (main.go 100-125).
WhatIsDueComes ==
  OfLockout!LockoutEnds /\ (part = "collector" => OpenFlowsEnd) /\ FreshIsInstalled
=============================================================================
