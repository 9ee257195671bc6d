----------------------------- MODULE Scheduler -----------------------------
(***************************************************************************)
(* gpuforge::runtime::Scheduler (src/scheduler.cpp): continuous batching   *)
(* of generation requests.  Every member function holds mu_ throughout, so *)
(* each is one step.  The workers that loop over next(), run the batch and *)
(* report each of its requests with complete() are callers of the class;   *)
(* they are modelled from the tests, one complete() per request, in any    *)
(* order, interleaved with submit(), cancel() and the other workers.       *)
(*                                                                         *)
(* Callers give every request an id of its own: complete() and cancel()    *)
(* find requests by id only.                                               *)
(***************************************************************************)
EXTENDS Integers, Sequences, FiniteSets, FiniteSetsExt, SequencesExt, Selection

CONSTANTS RequestIds,  \* ids callers use, each for one request
          MaxBatch,    \* max_batch_, at least 1 by the constructor
          Workers,     \* threads that execute batches
          Jobs,        \* what a caller submits: prompt, total, generated
          Tokens       \* token counts a worker reports for one request

ASSUME MaxBatchAssumption == MaxBatch \in Nat \ {0}
ASSUME JobsAssumption == Jobs \subseteq [prompt : Nat, total : Nat, generated : Nat]
ASSUME TokensAssumption == Tokens \subseteq Nat \ {0}

VARIABLES queue,      \* queue_
          active,     \* active_
          batch,      \* batch[w]: what next() last returned to w
          todo,       \* todo[w]: its requests w has not completed yet
          submitted,  \* history: ids in the order of the submit() calls
          cancelled,  \* history: ids passed to cancel() after their submit()
          finished,   \* history: ids erased by complete()
          prefilled   \* history: ids whose Prefill batch some worker ran

schedulerVars == <<queue, active, batch, todo, submitted, cancelled, finished, prefilled>>

EmptyBatch == [ids |-> << >>, phase |-> "Decode", tokens |-> 0]

Ids(requests) == [i \in DOMAIN requests |-> requests[i].id]

SchedulerInit ==
  /\ queue     = << >>
  /\ active    = << >>
  /\ batch     = [w \in Workers |-> EmptyBatch]
  /\ todo      = [w \in Workers |-> {}]
  /\ submitted = << >>
  /\ cancelled = {}
  /\ finished  = {}
  /\ prefilled = {}

-----------------------------------------------------------------------------
(* submit() overwrites whatever phase the caller passed.                   *)
NewRequest(id, job) == [id |-> id, prompt |-> job.prompt, total |-> job.total,
                        generated |-> job.generated, phase |-> "Prefill"]

Submit(id, job) ==
  /\ id \notin ToSet(submitted)
  /\ queue'     = Append(queue, NewRequest(id, job))
  /\ submitted' = Append(submitted, id)
  /\ UNCHANGED <<active, batch, todo, cancelled, finished, prefilled>>

Without(requests, id) == Kept(requests, {i \in DOMAIN requests : requests[i].id # id})

(* Faulty: a request that is already in a batch is not looked for.         *)
CancelQueueOnly(id) ==
  /\ id \in ToSet(submitted)
  /\ queue'     = Without(queue, id)
  /\ cancelled' = IF id \in finished THEN cancelled ELSE cancelled \cup {id}
  /\ UNCHANGED <<active, batch, todo, submitted, finished, prefilled>>

Cancel(id) ==
  /\ id \in ToSet(submitted)
  /\ queue'     = Without(queue, id)
  /\ active'    = Without(active, id)
  /\ cancelled' = IF id \in finished THEN cancelled ELSE cancelled \cup {id}
  /\ UNCHANGED <<batch, todo, submitted, finished, prefilled>>

(* The while loop of next(): how many waiting requests it admits.          *)
AdmitCount == Min({MaxBatch - Len(active), Len(queue)})

BatchTokens(requests, phase) ==
  IF phase = "Prefill"
  THEN FoldSeq(LAMBDA r, sum : sum + r.prompt, 0, requests)
  ELSE Len(requests)

(* The batch next() builds from active_: the phase of its front decides.   *)
BatchOf(requests) ==
  IF requests = << >> THEN EmptyBatch
  ELSE LET phase  == Head(requests).phase
           chosen == Kept(requests, {i \in DOMAIN requests : requests[i].phase = phase})
       IN  [ids |-> Ids(chosen), phase |-> phase, tokens |-> BatchTokens(chosen, phase)]

(* A worker calls next() once it has completed its previous batch.         *)
NextBatch(w) ==
  /\ todo[w] = {}
  /\ active' = active \o SubSeq(queue, 1, AdmitCount)
  /\ queue'  = SubSeq(queue, AdmitCount + 1, Len(queue))
  /\ batch'  = [batch EXCEPT ![w] = BatchOf(active')]
  /\ todo'   = [todo EXCEPT ![w] = ToSet(batch'[w].ids)]
  /\ UNCHANGED <<submitted, cancelled, finished, prefilled>>

(* Faulty: tokens are not added up, the last report wins.                  *)
AdvancedNoSum(r, tokens) ==
  [r EXCEPT !.generated = tokens,
            !.phase = IF tokens + r.prompt >= r.total THEN "Finished" ELSE "Decode"]

(* What complete() does to the request it is called for.                   *)
Advanced(r, tokens) ==
  LET generated == r.generated + tokens
  IN  [r EXCEPT !.generated = generated,
                !.phase = IF generated + r.prompt >= r.total THEN "Finished" ELSE "Decode"]

Unfinished(requests) == Kept(requests, {i \in DOMAIN requests : requests[i].phase # "Finished"})

(* Faulty: complete() advances every active request.                       *)
CompleteAll(w, id, tokens) ==
  LET advanced == [i \in DOMAIN active |-> Advanced(active[i], tokens)]
  IN  /\ id \in todo[w]
      /\ active'    = Unfinished(advanced)
      /\ finished'  = finished \cup (ToSet(Ids(active)) \ ToSet(Ids(active')))
      /\ prefilled' = IF batch[w].phase = "Prefill" THEN prefilled \cup {id} ELSE prefilled
      /\ todo'      = [todo EXCEPT ![w] = @ \ {id}]
      /\ UNCHANGED <<queue, batch, submitted, cancelled>>

(* A worker reports one request of its batch; a request that was cancelled *)
(* or that another worker finished meanwhile is no longer in active_.      *)
Complete(w, id, tokens) ==
  LET advanced == [i \in DOMAIN active |->
                     IF active[i].id = id THEN Advanced(active[i], tokens) ELSE active[i]]
  IN  /\ id \in todo[w]
      /\ active'    = Unfinished(advanced)
      /\ finished'  = finished \cup (ToSet(Ids(active)) \ ToSet(Ids(active')))
      /\ prefilled' = IF batch[w].phase = "Prefill" THEN prefilled \cup {id} ELSE prefilled
      /\ todo'      = [todo EXCEPT ![w] = @ \ {id}]
      /\ UNCHANGED <<queue, batch, submitted, cancelled>>

WorkerStep(w) ==
  \/ NextBatch(w)
  \/ \E id \in RequestIds, tokens \in Tokens : Complete(w, id, tokens)

SchedulerNext ==
  \/ \E id \in RequestIds, job \in Jobs : Submit(id, job)
  \/ \E id \in RequestIds : Cancel(id)
  \/ \E w \in Workers : WorkerStep(w)

SchedulerSpec == SchedulerInit /\ [][SchedulerNext]_schedulerVars

(* Workers keep running: each one, as long as it can, asks for its next    *)
(* batch or reports a request.  Nothing obliges callers to submit or       *)
(* cancel.                                                                 *)
SchedulerFairness == \A w \in Workers : WF_schedulerVars(WorkerStep(w))


-----------------------------------------------------------------------------
(* The calls of submit() whose request has not left.                       *)
Waiting == {i \in DOMAIN submitted : submitted[i] \notin cancelled \cup finished}

(* Requests are served in the order of submit(): active_ followed by       *)
(* queue_ is the submission order without the requests that left.          *)
FifoOrder == Ids(active) \o Ids(queue) = Kept(submitted, Waiting)

(* A request decodes only after a worker ran its prompt in a Prefill       *)
(* batch, even when workers hold overlapping batches.                      *)
DecodeAfterPrefill ==
  \A r \in ToSet(active) : r.phase = "Decode" => r.id \in prefilled

(* Every submitted request is finished or cancelled in the end: a Prefill  *)
(* request behind decoding ones is not starved by later arrivals.  Since   *)
(* submitted, finished and cancelled only grow, this is the same as        *)
(* "submitted leads to finished or cancelled".                             *)
EveryRequestLeaves ==
  \A id \in RequestIds :
    []<>(id \in ToSet(submitted) => id \in finished \cup cancelled)

(* scheduler_phase_test: a request submitted with tokens already generated *)
(* is not prefilled again ("prefill.ids.size() == 1" after submitting one  *)
(* new request and one with two generated tokens).                         *)
StartedNotPrefilled ==
  \A w \in Workers, r \in ToSet(active) :
    batch[w].phase = "Prefill" /\ r.id \in todo[w] /\ r.phase = "Prefill" => r.generated = 0
=============================================================================
