---------------------------- MODULE MCTelemetry ----------------------------
(***************************************************************************)
(* The classes of src/telemetry.cpp side by side.  They share no state, so *)
(* nothing is lost by looking at behaviours that use one of them: the      *)
(* other stays as it was constructed.                                      *)
(***************************************************************************)
EXTENDS Trace

CONSTANTS Objects, Values, Infinity, MaxCalls, Free, t1, t2
VARIABLES data, mu, call, observed, calls

M == INSTANCE Metrics

ASSUME ValuesAssumption == M!ValuesAssumption

(* Name "a" belongs to thread t1, name "b" is used by both.                *)
SomeShared == [t \in {t1, t2} |-> IF t = t1 THEN {"a", "b"} ELSE {"b"}]

TelemetryInit == Init /\ M!Init
TraceUnused   == events = << >> /\ opened = 0 /\ now = 0
MetricsUnused == calls = 0
metricsVars   == <<data, mu, call, observed, calls>>
TelemetryNext ==
  \/ MetricsUnused /\ Next /\ UNCHANGED metricsVars
  \/ TraceUnused /\ M!Next /\ UNCHANGED vars

(* Metrics::observe and Metrics::merge: a summary is the summary of what   *)
(* its object took in, however the calls interleave.                       *)
SummaryExact == M!SummaryExact

(* Every Metrics::merge returns, also when two threads merge two objects   *)
(* into each other.                                                        *)
MergeReturns == M!MergeReturns
=============================================================================
