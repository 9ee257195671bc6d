----------------------------- MODULE MemoryPool -----------------------------
(***************************************************************************)
(* gpuforge::MemoryPool on the Kama pool it takes its blocks from: the     *)
(* account of PoolAdapter and the counters of KamaStats, driven by threads *)
(* that call the adapter or the Kama pool directly.                        *)
(*                                                                         *)
(* An adapter call holds mu_ until it returns, that is until the Kama pool *)
(* has counted it.  The account is updated in the first step of the call:  *)
(* nobody can look at it before mu_ is free again.                         *)
(***************************************************************************)
EXTENDS PoolAdapter

CONSTANTS Threads, MaxAllocs,
          Nobody     \* holder of mu_ while no adapter call runs

VARIABLES allocCount, freeCount, smallAllocCount, largeAllocCount,
          sizedFreeCount, unsizedFreeCount, pc, report,
          mu         \* the thread inside an adapter call

(* The blocks KamaStats counts are the addresses in use.                   *)
Kama == INSTANCE KamaStats WITH live <- Cardinality(kama)

statsVars == <<allocCount, freeCount, smallAllocCount, largeAllocCount, sizedFreeCount,
               unsizedFreeCount, pc, report>>
poolVars  == <<vars, statsVars, mu>>

PoolInit == Init /\ Kama!Init /\ mu = Nobody

(* allocate() and release(); one that is refused calls nothing.            *)
AdapterCall(t) ==
  /\ mu = Nobody
  /\ \/ \E n \in Sizes : (allocate(n) \/ allocate_throws(n)) /\ Kama!Allocate(t)
     \/ \E p \in Addresses : release(p) /\ Kama!Deallocate(t)
  /\ mu' = t

DirectCall(t) ==
  /\ \E p \in Addresses : \/ OtherAllocate(p) /\ Kama!Allocate(t)
                          \/ OtherFree(p) /\ Kama!Deallocate(t)
  /\ UNCHANGED mu

(* recordAllocation and recordFree; the adapter call returns after them.   *)
Count(t) ==
  /\ UNCHANGED vars
  /\ \/ Kama!RecordAllocation(t) \/ Kama!RecordSize(t)
     \/ Kama!RecordFree(t) \/ Kama!RecordSized(t)
  /\ mu' = IF mu = t /\ pc'[t] = "none" THEN Nobody ELSE mu

Stats ==
  /\ UNCHANGED <<vars, mu>>
  /\ Kama!LoadAlloc \/ Kama!LoadFree \/ Kama!StatsReturn

PoolNext ==
  \/ \E t \in Threads : AdapterCall(t) \/ DirectCall(t) \/ Count(t)
  \/ Stats

PoolSpec == PoolInit /\ [][PoolNext]_poolVars

-----------------------------------------------------------------------------
(* stats() between calls agrees with the adapter: the live blocks of the   *)
(* Kama counters are the entries of allocations_, what direct users hold   *)
(* and what was leaked, and each total is the sum of its parts.  A         *)
(* snapshot taken while other threads run never shows more live blocks     *)
(* than were ever allocated.                                               *)
StatsSound ==
  /\ Kama!ExactAtRest
  /\ (\A t \in Threads : pc[t] = "none") =>
       allocCount - freeCount =
         Cardinality(DOMAIN allocations) + Cardinality(taken) + Cardinality(leaked)
  /\ Kama!LiveWithinAllocs
=============================================================================
