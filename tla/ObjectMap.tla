-------------------------------- MODULE ObjectMap --------------------------------
(* What a tree of configuration objects promises (internal/model: Tree): of    *)
(* each kind it holds at most one object of a name, the one put last, and what  *)
(* is put or deleted changes no other object.                                 *)
CONSTANTS Kinds, Names, Values, Absent

VARIABLES objects,    \* kind -> name -> Absent or a value
          asked       \* the last put or deletion

vars == <<objects, asked>>

\* What is asked for: the object to put, or Absent for its deletion.
Requests == [kind : Kinds, name : Names, value : Values \cup {Absent}]

Init ==
  /\ objects = [k \in Kinds |-> [n \in Names |-> Absent]]
  /\ asked = [kind |-> Absent, name |-> Absent, value |-> Absent]

Next ==
  /\ asked' \in Requests
  /\ objects' = [objects EXCEPT ![asked'.kind][asked'.name] = asked'.value]

Spec == Init /\ [][Next]_vars
=============================================================================
