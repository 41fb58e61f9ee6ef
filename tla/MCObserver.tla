------------------------------- MODULE MCObserver -------------------------------
(* The configurations of MCReconciler. *)
EXTENDS Observer, MCReconciler
=============================================================================
