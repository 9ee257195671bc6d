------------------------------ MODULE Metrics ------------------------------
(***************************************************************************)
(* Metrics (src/telemetry.cpp): summaries of observations per name, filled *)
(* by several threads and merged into one another.  Names do not interact, *)
(* so one name is modelled.  observe() holds mu_ for all it does and is    *)
(* one step.  merge() copies the other object under the other's mutex,     *)
(* lets go of it, and adds the copy under its own: its lock operations are *)
(* steps, because two threads may merge in opposite directions.            *)
(*                                                                         *)
(* Observations are positive, as latencies and byte counts are: max starts *)
(* at 0.                                                                   *)
(***************************************************************************)
EXTENDS Integers, FiniteSets, FiniteSetsExt

CONSTANTS Objects,   \* Metrics objects
          Threads,
          Values,    \* what is observed
          Infinity,  \* the initial MetricSummary::min, 1e30
          MaxCalls,  \* bound: calls of observe() and merge()
          Free       \* holder of a mutex nobody holds

(* Assumption about the constants: what can be observed are doubles.       *)
ValuesAssumption ==
  /\ IsFiniteSet(Values) /\ Values \subseteq Nat \ {0} /\ Infinity \in Nat
  /\ \A v \in Values : v < Infinity
  /\ Free \notin Threads

VARIABLES data,      \* data[m]: the MetricSummary of object m
          mu,        \* mu[m]: the thread that holds m's mutex, or Free
          call,      \* call[t]: the merge() t is in
          observed,  \* history: observed[m][v], how often m took in v
          calls      \* number of calls so far

vars == <<data, mu, call, observed, calls>>

Empty == [count |-> 0, sum |-> 0, min |-> Infinity, max |-> 0]
None  == [v \in Values |-> 0]
NoCall == [pc |-> "none", into |-> Free, from |-> Free, snapshot |-> Empty, values |-> None]

Init ==
  /\ data     = [m \in Objects |-> Empty]
  /\ mu       = [m \in Objects |-> Free]
  /\ call     = [t \in Threads |-> NoCall]
  /\ observed = [m \in Objects |-> None]
  /\ calls    = 0

-----------------------------------------------------------------------------
(* Faulty: min and max of the incoming summary are dropped.                *)
AddedCountOnly(s, incoming) ==
  [s EXCEPT !.count = @ + incoming.count, !.sum = @ + incoming.sum]

(* What merge() does to one summary; observe(v) does the same with the     *)
(* summary of v alone.                                                     *)
Added(s, incoming) ==
  [count |-> s.count + incoming.count, sum |-> s.sum + incoming.sum,
   min |-> Min({s.min, incoming.min}), max |-> Max({s.max, incoming.max})]

observe(t, m, v) ==
  /\ call[t].pc = "none" /\ mu[m] = Free /\ calls < MaxCalls
  /\ data' = [data EXCEPT ![m] = [count |-> @.count + 1, sum |-> @.sum + v,
                                  min |-> Min({@.min, v}), max |-> Max({@.max, v})]]
  /\ observed' = [observed EXCEPT ![m][v] = @ + 1]
  /\ calls' = calls + 1
  /\ UNCHANGED <<mu, call>>

(* merge() of an object with itself returns at once.                       *)
MergeBegin(t, m, other) ==
  /\ call[t].pc = "none" /\ m # other /\ calls < MaxCalls
  /\ calls' = calls + 1
  /\ call' = [call EXCEPT ![t] = [NoCall EXCEPT !.pc = "lock", !.into = m, !.from = other]]
  /\ UNCHANGED <<data, mu, observed>>

(* lock_guard(other.mu_), and the copy.                                    *)
MergeLockOther(t) ==
  /\ call[t].pc = "lock" /\ mu[call[t].from] = Free
  /\ mu'   = [mu EXCEPT ![call[t].from] = t]
  /\ call' = [call EXCEPT ![t].pc = "copied", ![t].snapshot = data[call[t].from],
                          ![t].values = observed[call[t].from]]
  /\ UNCHANGED <<data, observed, calls>>

(* Faulty: the other's mutex is not released before mu_ is taken.          *)
MergeUnlockOtherLate(t) ==
  /\ call[t].pc = "copied" /\ mu[call[t].into] = Free
  /\ call' = [call EXCEPT ![t].pc = "add"]
  /\ UNCHANGED <<data, mu, observed, calls>>

(* The end of the block that holds other.mu_.                              *)
MergeUnlockOther(t) ==
  /\ call[t].pc = "copied"
  /\ mu'   = [mu EXCEPT ![call[t].from] = Free]
  /\ call' = [call EXCEPT ![t].pc = "add"]
  /\ UNCHANGED <<data, observed, calls>>

(* lock_guard(mu_), the loop, and the return.  A summary without           *)
(* observations is skipped.                                                *)
MergeAdd(t) ==
  LET m == call[t].into
  IN  /\ call[t].pc = "add" /\ mu[m] = Free
      /\ data' = [data EXCEPT ![m] = IF call[t].snapshot.count = 0 THEN @
                                     ELSE Added(@, call[t].snapshot)]
      /\ observed' = [observed EXCEPT ![m] = [v \in Values |-> @[v] + call[t].values[v]]]
      /\ call' = [call EXCEPT ![t] = NoCall]
      /\ UNCHANGED <<mu, calls>>

MergeStep(t) == MergeLockOther(t) \/ MergeUnlockOther(t) \/ MergeAdd(t)

Next ==
  \E t \in Threads :
    \/ \E m \in Objects, v \in Values : observe(t, m, v)
    \/ \E m, other \in Objects : MergeBegin(t, m, other)
    \/ MergeStep(t)

(* A thread inside merge() goes on once the mutex it waits for stays free; *)
(* a mutex is held for one call only, and calls are finitely many.         *)
Fairness == \A t \in Threads : WF_vars(MergeStep(t))

Spec == Init /\ [][Next]_vars

-----------------------------------------------------------------------------
(* However observe() and merge() interleave, a summary is the summary of   *)
(* the observations its object took in, directly and by merges: none is    *)
(* lost, none counted twice, and count, sum, min and max belong together.  *)
SummaryExact ==
  \A m \in Objects :
    LET seen == {v \in Values : observed[m][v] > 0}
    IN  data[m] = [count |-> MapThenSumSet(LAMBDA v : observed[m][v], Values),
                   sum   |-> MapThenSumSet(LAMBDA v : v * observed[m][v], Values),
                   min   |-> Min(seen \cup {Infinity}),
                   max   |-> Max(seen \cup {0})]

(* Every merge() returns, so that a thread is outside merge() again and    *)
(* again: threads that merge two objects into each other at the same time  *)
(* do not wait for one another.                                            *)
MergeReturns == \A t \in Threads : []<>(call[t].pc = "none")
=============================================================================
