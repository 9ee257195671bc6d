------------------------------ MODULE SpanPool ------------------------------
(***************************************************************************)
(* What Kama_memoryPool::PageCache promises to the central cache and to    *)
(* large allocations: the spans handed out are runs of pages that nobody   *)
(* else holds, until they are given back.                                  *)
(* Nothing is said about free lists, splitting, merging or the system.     *)
(***************************************************************************)
EXTENDS Integers

CONSTANT Page   \* page numbers (page addresses divided by the page size)

VARIABLE live   \* live[b]: length of the span in use at b, 0 if none

Run(b, n) == b .. b + n - 1

InUse == UNION {Run(b, live[b]) : b \in Page}

Init == live = [b \in Page |-> 0]

AllocateSpan(b, n) ==
  /\ Run(b, n) \subseteq Page
  /\ Run(b, n) \cap InUse = {}
  /\ live' = [live EXCEPT ![b] = n]

DeallocateSpan(b) ==
  /\ live[b] > 0
  /\ live' = [live EXCEPT ![b] = 0]

Next ==
  \E b \in Page :
    \/ DeallocateSpan(b)
    \/ \E n \in Page : AllocateSpan(b, n)

Spec == Init /\ [][Next]_live
=============================================================================
