----------------------------- MODULE MCConfigStore -----------------------------
(***************************************************************************)
(* A small configuration for TLC: an Address, a RuleSet that refers to it,  *)
(* a User, and the System singleton.                                        *)
(***************************************************************************)
EXTENDS ConfigStore, TLC

CONSTANTS addr, rules, user, system, v1, v2, c1, c2

MCFiles == {addr, rules, user, system}
MCContents == {v1, v2}
MCClients == {c1, c2}

Conf(a, r, u) ==
  [f \in MCFiles |-> CASE f = addr -> a [] f = rules -> r [] f = user -> u [] f = system -> v1]

MCFactory == Conf(v1, Absent, v1)

\* dangling-ref, the required admin User, and the required System object.
MCErrorsOf(t) ==
  (IF t[rules] # Absent /\ t[addr] = Absent THEN {"dangling-ref"} ELSE {})
    \cup (IF t[user] = Absent THEN {"no-admin"} ELSE {})
    \cup (IF t[system] = Absent THEN {"no-system"} ELSE {})

MCBodies == {<<addr, v1>>, <<addr, v2>>, <<rules, v1>>, <<user, v2>>, <<system, v1>>}
\* Fewer, for the runs with failures.
MCFewBodies == {<<addr, v2>>, <<rules, v1>>}
MCImports == {Conf(v2, v1, Absent)}

Symmetry == Permutations(MCClients)
=============================================================================
