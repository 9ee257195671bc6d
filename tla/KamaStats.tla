----------------------------- MODULE KamaStats -----------------------------
(***************************************************************************)
(* Kama_memoryPool::MemoryPool (vendor_memorypool/v3/src/MemoryPool.cpp)   *)
(* built with statistics: allocate and deallocate count what they did in   *)
(* relaxed atomic counters, after the fact and one counter at a time, and  *)
(* stats() loads the counters one by one while other threads go on; the    *)
(* loads are relaxed as well and may take effect in either order.          *)
(* The caches below are modelled in KamaPool; here a block is a token with *)
(* a size class.  The refill and flush counters follow the same pattern    *)
(* and are left out.                                                       *)
(***************************************************************************)
EXTENDS Integers, FiniteSets, FiniteSetsExt

CONSTANTS Threads,    \* threads that allocate and free
          MaxAllocs   \* bound: successful allocations

VARIABLES allocCount, freeCount, smallAllocCount, largeAllocCount,
          sizedFreeCount, unsizedFreeCount,  \* the g_ counters
          live,      \* number of blocks callers hold
          pc,        \* pc[t]: the counter t adds to next, "none" outside
          report     \* stats() in progress: what it has loaded

counters == <<allocCount, freeCount, smallAllocCount, largeAllocCount, sizedFreeCount,
              unsizedFreeCount>>
vars == <<counters, live, pc, report>>

NotLoaded == -1
NoReport  == [alloc |-> NotLoaded, free |-> NotLoaded]

Init ==
  /\ allocCount = 0 /\ freeCount = 0 /\ smallAllocCount = 0 /\ largeAllocCount = 0
  /\ sizedFreeCount = 0 /\ unsizedFreeCount = 0
  /\ live = 0
  /\ pc = [t \in Threads |-> "none"]
  /\ report = NoReport

-----------------------------------------------------------------------------
At(t, from, to) == pc[t] = from /\ pc' = [pc EXCEPT ![t] = to]

(* ThreadCache::allocate returned a block; a failure is not counted.       *)
Allocate(t) ==
  /\ At(t, "none", "alloc")
  /\ allocCount + Cardinality({u \in Threads : pc[u] = "alloc"}) < MaxAllocs
  /\ live' = live + 1
  /\ UNCHANGED <<counters, report>>

(* recordAllocation                                                        *)
RecordAllocation(t) ==
  /\ \/ At(t, "alloc", "small") \/ At(t, "alloc", "large")
  /\ allocCount' = allocCount + 1
  /\ UNCHANGED <<freeCount, smallAllocCount, largeAllocCount, sizedFreeCount, unsizedFreeCount,
                 live, report>>

RecordSize(t) ==
  /\ \/ At(t, "small", "none") \/ At(t, "large", "none")
  /\ smallAllocCount' = smallAllocCount + (IF pc[t] = "small" THEN 1 ELSE 0)
  /\ largeAllocCount' = largeAllocCount + (IF pc[t] = "large" THEN 1 ELSE 0)
  /\ UNCHANGED <<allocCount, freeCount, sizedFreeCount, unsizedFreeCount, live, report>>

(* ThreadCache::deallocate accepted the block.                             *)
Deallocate(t) ==
  /\ At(t, "none", "free")
  /\ live > 0
  /\ live' = live - 1
  /\ UNCHANGED <<counters, report>>

(* recordFree                                                              *)
RecordFree(t) ==
  /\ \/ At(t, "free", "sized") \/ At(t, "free", "unsized")
  /\ freeCount' = freeCount + 1
  /\ UNCHANGED <<allocCount, smallAllocCount, largeAllocCount, sizedFreeCount, unsizedFreeCount,
                 live, report>>

RecordSized(t) ==
  /\ \/ At(t, "sized", "none") \/ At(t, "unsized", "none")
  /\ sizedFreeCount' = sizedFreeCount + (IF pc[t] = "sized" THEN 1 ELSE 0)
  /\ unsizedFreeCount' = unsizedFreeCount + (IF pc[t] = "unsized" THEN 1 ELSE 0)
  /\ UNCHANGED <<allocCount, freeCount, smallAllocCount, largeAllocCount, live, report>>

(* stats() loads allocCount and freeCount, then the others.                *)
LoadAlloc ==
  /\ report.alloc = NotLoaded
  /\ report' = [report EXCEPT !.alloc = allocCount]
  /\ UNCHANGED <<counters, live, pc>>

LoadFree ==
  /\ report.free = NotLoaded
  /\ report' = [report EXCEPT !.free = freeCount]
  /\ UNCHANGED <<counters, live, pc>>

(* Faulty: the difference is not guarded; it is unsigned and wraps.        *)
LiveAllocsWrap(alloc, free) == (alloc - free) % (2 ^ 16)

(* MemoryPoolStats::liveAllocs                                             *)
LiveAllocs(alloc, free) == IF alloc > free THEN alloc - free ELSE 0

Loaded == report.alloc # NotLoaded /\ report.free # NotLoaded

StatsReturn ==
  /\ Loaded
  /\ report' = NoReport
  /\ UNCHANGED <<counters, live, pc>>

Next ==
  \/ \E t \in Threads : \/ Allocate(t) \/ RecordAllocation(t) \/ RecordSize(t)
                        \/ Deallocate(t) \/ RecordFree(t) \/ RecordSized(t)
  \/ LoadAlloc \/ LoadFree \/ StatsReturn

Spec == Init /\ [][Next]_vars

-----------------------------------------------------------------------------
(* At rest the counters add up: what stats() reports as live is what       *)
(* callers hold, and each total is the sum of its parts (what the unit     *)
(* tests of the pool assert between their steps).                          *)
ExactAtRest ==
  (\A t \in Threads : pc[t] = "none") =>
    /\ LiveAllocs(allocCount, freeCount) = live
    /\ allocCount = smallAllocCount + largeAllocCount
    /\ freeCount = sizedFreeCount + unsizedFreeCount

(* While other threads run, stats() may be off, but a report never shows   *)
(* more live blocks than were ever allocated: freeCount may have been      *)
(* loaded when it was already above the allocCount loaded with it, and the *)
(* difference must not wrap then.                                          *)
LiveWithinAllocs == Loaded => LiveAllocs(report.alloc, report.free) <= allocCount
=============================================================================
