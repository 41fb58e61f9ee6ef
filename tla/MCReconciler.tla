------------------------------ MODULE MCReconciler ------------------------------
(***************************************************************************)
(* Configurations for TLC: two valid ones that differ in two drivers, one   *)
(* with a validation error and one git can read but the daemon cannot.      *)
(***************************************************************************)
EXTENDS Reconciler, TLC

CONSTANTS good1, good2, bad, torn, h1, h2, c1, c2

MCConfigs == {good1, good2, bad, torn}
MCSection ==
  [g \in Configs |-> [d \in Drivers |->
     IF g = good2 /\ d \in {"network", "dhcp"} THEN h2 ELSE h1]]
MCClients == {c1, c2}
Symmetry == Permutations(MCClients)
=============================================================================
