----------------------------- MODULE MCServing -----------------------------
(***************************************************************************)
(* The scheduler and the telemetry classes in one run.  They share no      *)
(* state: a behaviour is about the scheduler or about telemetry, and the   *)
(* other stays as it was constructed.                                      *)
(***************************************************************************)
EXTENDS MCScheduler, MCTelemetry

SchedulerUnused == submitted = << >>
TelemetryUnused == TraceUnused /\ MetricsUnused

ServingInit == SchedulerInit /\ TelemetryInit

ServingNext ==
  \/ TelemetryUnused /\ SchedulerNext /\ UNCHANGED <<vars, metricsVars>>
  \/ SchedulerUnused /\ TelemetryNext /\ UNCHANGED schedulerVars

(* A worker without requests and a thread outside merge() have no step to  *)
(* take, so fairness asks nothing of the class that is not used.           *)
ServingSpec ==
  /\ ServingInit /\ [][ServingNext]_<<schedulerVars, vars, metricsVars>>
  /\ SchedulerFairness /\ M!Fairness
=============================================================================
