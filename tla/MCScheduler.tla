---------------------------- MODULE MCScheduler ----------------------------
EXTENDS Scheduler

(* A new request that decodes twice, and one that was started elsewhere    *)
(* and is finished by its first completion.                                *)
SmallJobs == {[prompt |-> 1, total |-> 3, generated |-> 0],
              [prompt |-> 2, total |-> 4, generated |-> 1]}

(* The two requests of scheduler_phase_test.                               *)
TestJobs == {[prompt |-> 3, total |-> 6, generated |-> 0],
             [prompt |-> 2, total |-> 6, generated |-> 2]}
=============================================================================
