-------------------------------- MODULE Observer --------------------------------
(***************************************************************************)
(* The health summary (internal/observer: Health) over the Status of the      *)
(* Reconciler.  It takes no step of its own: it is what a client would be     *)
(* told at any moment of the Reconciler's runs.  Subsystems that are not      *)
(* built yet do not count, the API always runs, and lost events are a detail. *)
(***************************************************************************)
EXTENDS Reconciler

\* Status: a service that was stopped, or a driver with nothing applied.
DriverStatus(d) == IF d \in stopped \/ applied[d] = NoHash THEN "stopped" ELSE "running"

\* A running driver whose next apply will fail is degraded.
DriverHealth(d) ==
  IF d \notin stopped /\ d \in fail THEN "degraded" ELSE DriverStatus(d)

\* Mutant: only a Reconciler that has no commit to go back to is degraded.
Mutant_ReconcilerHealth == IF st.state = "degraded" THEN "degraded" ELSE "running"

ReconcilerHealth == IF st.state \in {"failed", "degraded"} THEN "degraded" ELSE "running"

Health ==
  IF ReconcilerHealth = "running" /\ \A d \in Drivers : DriverHealth(d) = "running"
    THEN "running" ELSE "degraded"

-----------------------------------------------------------------------------
(* Properties *)

\* "running" is said only of an appliance whose four drivers hold the sections
\* of one valid commit, between reconciliations and in the middle of one, after
\* a fallback and after a restart (R-032).  When the loop sleeps and nothing is on
\* its way to wake it, that commit is HEAD: not the last known good one, and no
\* HEAD that cannot be read, whatever was answered before.
HealthyMeansRunning ==
  Health = "running" =>
    /\ st.applied # 0 /\ Good(st.applied) /\ applied = Section[commits[st.applied]]
    /\ Quiet => st.applied = HEAD

\* A HEAD that is good is applied, and shown as healthy unless a service was
\* stopped.
HeadServed == Good(HEAD) => st.applied = HEAD /\ (stopped = {} => Health = "running")

\* Again and again, as long as no fault is set, a good HEAD is served, whatever
\* failed before (Run, SetFault).  The triggers alone see to that unless git
\* failed to read HEAD; then it takes the periodic resync.
HealthReturns ==
  /\ []<>(fail # {} \/ "HEAD" \in unread \/ HeadServed)
  /\ WF_vars(Resync) => []<>(fail # {} \/ HeadServed)
=============================================================================
