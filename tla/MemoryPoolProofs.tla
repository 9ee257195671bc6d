-------------------------- MODULE MemoryPoolProofs --------------------------
(***************************************************************************)
(* Proofs about gpuforge::MemoryPool and the statistics of the Kama pool   *)
(* below it, for any capacity, any width of size_t, any sizes, addresses   *)
(* and number of threads; and about the size-class table and its maps, for *)
(* any alignment, largest size and number of classes.                      *)
(***************************************************************************)
EXTENDS MCMemoryPool, SelectionProofs

(* The inductive invariant of the adapter.  Finiteness has to be part of   *)
(* it: nothing bounds the addresses the Kama pool may hand out.            *)
AdapterTypes ==
  /\ kama \subseteq Addresses
  /\ taken \subseteq kama
  /\ leaked \subseteq kama
  /\ DOMAIN allocations \subseteq kama
  /\ allocations \in [DOMAIN allocations -> Nat]
  /\ IsFiniteSet(kama)
  /\ used_bytes \in 0 .. Capacity

AdapterInv ==
  /\ AdapterTypes
  /\ BlocksHeldOnce
  /\ IsFiniteSet(BytesOut)
  /\ used_bytes = Cardinality(BytesOut)

LEMMA MinOfTwo ==
  ASSUME NEW a \in Nat, NEW b \in 0 .. a
  PROVE  Min({a, b}) = b
<1>1. \A x \in {a, b} : b <= x
  OBVIOUS
<1>2. \E x \in {a, b} : \A y \in {a, b} : x <= y
  BY <1>1
<1>3. Min({a, b}) \in {a, b} /\ \A y \in {a, b} : Min({a, b}) <= y
  BY <1>2 DEF Min
<1> QED BY <1>1, <1>3

(* The bytes of one block: as many as its size, and in no other block.     *)
LEMMA BlockBytes ==
  ASSUME NEW p, NEW n \in Nat
  PROVE  IsFiniteSet({p} \X (1 .. n)) /\ Cardinality({p} \X (1 .. n)) = n
<1>1. IsFiniteSet(1 .. n) /\ Cardinality(1 .. n) = n
  BY FS_Interval
<1>2. IsFiniteSet({p}) /\ Cardinality({p}) = 1
  BY FS_Singleton
<1>3. IsFiniteSet({p} \X (1 .. n)) /\ Cardinality({p} \X (1 .. n)) = 1 * n
  BY ZenonT(30), <1>1, <1>2, FS_Product
<1> QED BY <1>3

(* Counting a set and one that is disjoint from it, or part of it.         *)
LEMMA CountUnion ==
  ASSUME NEW S, NEW T, IsFiniteSet(S), IsFiniteSet(T), S \cap T = {}
  PROVE  IsFiniteSet(S \cup T) /\ Cardinality(S \cup T) = Cardinality(S) + Cardinality(T)
<1>1. IsFiniteSet(S \cup T)
      /\ Cardinality(S \cup T) = Cardinality(S) + Cardinality(T) - Cardinality(S \cap T)
  BY FS_Union
<1>2. Cardinality(S \cap T) = 0
  BY FS_EmptySet
<1>3. Cardinality(S) \in Nat /\ Cardinality(T) \in Nat
  BY FS_CardinalityType
<1> QED BY <1>1, <1>2, <1>3

LEMMA CountDifference ==
  ASSUME NEW S, NEW T, IsFiniteSet(S), T \subseteq S
  PROVE  /\ IsFiniteSet(S \ T) /\ Cardinality(S \ T) = Cardinality(S) - Cardinality(T)
         /\ Cardinality(S) \in Nat /\ Cardinality(T) \in Nat
<1>1. S \cap T = T /\ IsFiniteSet(T)
  BY FS_Subset
<1> QED BY <1>1, FS_Difference, FS_CardinalityType

LEMMA AllocateKeeps ==
  ASSUME AdapterInv, NEW n \in Sizes, allocate(n)
  PROVE  AdapterInv'
<1>1. PICK p \in Addresses \ kama :
        /\ kama' = kama \cup {p}
        /\ allocations' = [q \in DOMAIN allocations \cup {p} |-> IF q = p THEN n ELSE allocations[q]]
  BY DEF allocate
<1>2. n \in Nat /\ Capacity \in Nat /\ used_bytes \in 0 .. Capacity
  BY CapacityAssumption DEF AdapterInv, AdapterTypes
<1>3. n <= Capacity - used_bytes
  BY <1>2, MinOfTwo DEF allocate, Fits, available
<1>4. used_bytes' = used_bytes + n
  <2>1. used_bytes + n \in 0 .. 2 ^ Width - 1
    BY <1>2, <1>3, CapacityAssumption
  <2>2. 2 ^ Width \in Nat
    BY CapacityAssumption
  <2> QED BY <2>1, <2>2 DEF allocate
<1>5. used_bytes' \in 0 .. Capacity
  BY <1>2, <1>3, <1>4
<1>6. DOMAIN allocations' = DOMAIN allocations \cup {p}
      /\ p \notin DOMAIN allocations /\ p \notin taken /\ p \notin leaked
  BY <1>1 DEF AdapterInv, AdapterTypes
<1>7. IsFiniteSet(kama') /\ taken' = taken /\ leaked' = leaked
  BY <1>1, FS_AddElement DEF AdapterInv, AdapterTypes, allocate
<1>8. allocations' \in [DOMAIN allocations' -> Nat]
  BY <1>1, <1>2 DEF AdapterInv, AdapterTypes
<1>9. AdapterTypes'
  BY <1>1, <1>5, <1>6, <1>7, <1>8 DEF AdapterInv, AdapterTypes
<1>10. BlocksHeldOnce'
  BY <1>1, <1>6, <1>7 DEF AdapterInv, BlocksHeldOnce
<1>11. BytesOut' = BytesOut \cup ({p} \X (1 .. n))
  <2>1. allocations'[p] = n /\ \A q \in DOMAIN allocations : allocations'[q] = allocations[q]
    BY <1>1, <1>6
  <2>2. \A x : x \in BytesOut' <=> \E q \in DOMAIN allocations' : x \in {q} \X (1 .. allocations'[q])
    BY DEF BytesOut
  <2>3. \A x : x \in BytesOut <=> \E q \in DOMAIN allocations : x \in {q} \X (1 .. allocations[q])
    BY DEF BytesOut
  <2> QED BY <1>6, <2>1, <2>2, <2>3
<1>12. BytesOut \cap ({p} \X (1 .. n)) = {}
  BY <1>6 DEF BytesOut
<1>13. IsFiniteSet(BytesOut') /\ Cardinality(BytesOut') = Cardinality(BytesOut) + n
  <2> DEFINE B == {p} \X (1 .. n)
  <2>1. IsFiniteSet(B) /\ Cardinality(B) = n
    BY <1>2, BlockBytes
  <2>2. BytesOut' = BytesOut \cup B /\ BytesOut \cap B = {} /\ IsFiniteSet(BytesOut)
    BY <1>11, <1>12 DEF AdapterInv
  <2> HIDE DEF B
  <2>3. IsFiniteSet(BytesOut \cup B)
        /\ Cardinality(BytesOut \cup B) = Cardinality(BytesOut) + Cardinality(B)
    BY <2>1, <2>2, CountUnion
  <2> QED BY <2>1, <2>2, <2>3
<1> QED BY <1>4, <1>9, <1>10, <1>13 DEF AdapterInv

(* A block that allocate leaks joins those nobody can release.             *)
LEMMA AllocateThrowsKeeps ==
  ASSUME AdapterInv, NEW n \in Sizes, allocate_throws(n)
  PROVE  AdapterInv'
<1>1. PICK p \in Addresses \ kama : kama' = kama \cup {p} /\ leaked' = leaked \cup {p}
  BY DEF allocate_throws
<1>2. allocations' = allocations /\ used_bytes' = used_bytes /\ taken' = taken
  BY DEF allocate_throws
<1>3. BytesOut' = BytesOut
  BY <1>2 DEF BytesOut
<1>4. IsFiniteSet(kama')
  BY <1>1, FS_AddElement DEF AdapterInv, AdapterTypes
<1>5. AdapterTypes'
  BY <1>1, <1>2, <1>4 DEF AdapterInv, AdapterTypes
<1>6. BlocksHeldOnce'
  BY <1>1, <1>2 DEF AdapterInv, AdapterTypes, BlocksHeldOnce
<1> QED BY <1>2, <1>3, <1>5, <1>6 DEF AdapterInv

LEMMA ReleaseKeeps ==
  ASSUME AdapterInv, NEW p \in Addresses, release(p)
  PROVE  AdapterInv'
<1> DEFINE n == allocations[p]
<1>1. /\ p \in DOMAIN allocations /\ kama' = kama \ {p} /\ taken' = taken /\ leaked' = leaked
      /\ allocations' = [q \in DOMAIN allocations \ {p} |-> allocations[q]]
      /\ used_bytes' = used_bytes - n
  BY DEF release
<1>2. n \in Nat /\ Capacity \in Nat /\ used_bytes \in 0 .. Capacity
  BY <1>1, CapacityAssumption DEF AdapterInv, AdapterTypes
<1>3. DOMAIN allocations' = DOMAIN allocations \ {p}
  BY <1>1
<1>4. BytesOut' = BytesOut \ ({p} \X (1 .. n))
  <2>1. \A x : x \in BytesOut' <=> \E q \in DOMAIN allocations' : x \in {q} \X (1 .. allocations'[q])
    BY DEF BytesOut
  <2>2. \A x : x \in BytesOut <=> \E q \in DOMAIN allocations : x \in {q} \X (1 .. allocations[q])
    BY DEF BytesOut
  <2>3. \A q \in DOMAIN allocations' : allocations'[q] = allocations[q] /\ q # p
    BY <1>1, <1>3
  <2> QED BY <1>1, <1>3, <2>1, <2>2, <2>3
<1>5. {p} \X (1 .. n) \subseteq BytesOut
  BY <1>1 DEF BytesOut
<1>6. IsFiniteSet(BytesOut') /\ Cardinality(BytesOut') = Cardinality(BytesOut) - n
  <2> DEFINE B == {p} \X (1 .. n)
  <2>1. Cardinality(B) = n
    BY <1>2, BlockBytes
  <2>2. BytesOut' = BytesOut \ B /\ B \subseteq BytesOut /\ IsFiniteSet(BytesOut)
    BY <1>4, <1>5 DEF AdapterInv
  <2> HIDE DEF B
  <2>3. IsFiniteSet(BytesOut \ B)
        /\ Cardinality(BytesOut \ B) = Cardinality(BytesOut) - Cardinality(B)
    BY <2>2, CountDifference
  <2> QED BY <2>1, <2>2, <2>3
<1>7. Cardinality(BytesOut') \in Nat
  BY <1>6, FS_CardinalityType
<1>8. used_bytes' \in 0 .. Capacity /\ used_bytes' = Cardinality(BytesOut')
  BY <1>1, <1>2, <1>6, <1>7 DEF AdapterInv
<1>9. IsFiniteSet(kama')
  BY <1>1, FS_RemoveElement DEF AdapterInv, AdapterTypes
<1>10. AdapterTypes'
  BY <1>1, <1>3, <1>8, <1>9 DEF AdapterInv, AdapterTypes, BlocksHeldOnce
<1>11. BlocksHeldOnce'
  BY <1>1, <1>3 DEF AdapterInv, BlocksHeldOnce
<1> QED BY <1>6, <1>8, <1>10, <1>11 DEF AdapterInv

LEMMA AdapterInvInductive == AdapterInv /\ [Next]_vars => AdapterInv'
<1> SUFFICES ASSUME AdapterInv, [Next]_vars PROVE AdapterInv'
  OBVIOUS
<1>1. ASSUME NEW n \in Sizes, allocate(n) \/ allocate_throws(n) PROVE AdapterInv'
  BY <1>1, AllocateKeeps, AllocateThrowsKeeps
<1>2. ASSUME NEW p \in Addresses, release(p) PROVE AdapterInv'
  BY <1>2, ReleaseKeeps
<1>3. ASSUME NEW p \in Addresses, OtherAllocate(p) PROVE AdapterInv'
  <2>1. kama' = kama \cup {p} /\ taken' = taken \cup {p} /\ p \notin kama
        /\ allocations' = allocations /\ used_bytes' = used_bytes /\ leaked' = leaked
    BY <1>3 DEF OtherAllocate
  <2>2. BytesOut' = BytesOut
    BY <2>1 DEF BytesOut
  <2>3. IsFiniteSet(kama')
    BY <2>1, FS_AddElement DEF AdapterInv, AdapterTypes
  <2>4. AdapterTypes'
    BY <2>1, <2>3 DEF AdapterInv, AdapterTypes
  <2>5. BlocksHeldOnce'
    BY <2>1 DEF AdapterInv, AdapterTypes, BlocksHeldOnce
  <2> QED BY <2>1, <2>2, <2>4, <2>5 DEF AdapterInv
<1>4. ASSUME NEW p \in Addresses, OtherFree(p) PROVE AdapterInv'
  <2>1. kama' = kama \ {p} /\ taken' = taken \ {p} /\ p \in taken
        /\ allocations' = allocations /\ used_bytes' = used_bytes /\ leaked' = leaked
    BY <1>4 DEF OtherFree
  <2>2. BytesOut' = BytesOut
    BY <2>1 DEF BytesOut
  <2>3. IsFiniteSet(kama')
    BY <2>1, FS_RemoveElement DEF AdapterInv, AdapterTypes
  <2>4. AdapterTypes'
    BY <2>1, <2>3 DEF AdapterInv, AdapterTypes, BlocksHeldOnce
  <2>5. BlocksHeldOnce'
    BY <2>1 DEF AdapterInv, AdapterTypes, BlocksHeldOnce
  <2> QED BY <2>1, <2>2, <2>4, <2>5 DEF AdapterInv
<1>5. CASE UNCHANGED vars
  BY <1>5 DEF vars, AdapterInv, AdapterTypes, BlocksHeldOnce, BytesOut
<1> QED BY <1>1, <1>2, <1>3, <1>4, <1>5 DEF Next

LEMMA AdapterInvInit == Init => AdapterInv
<1> SUFFICES ASSUME Init PROVE AdapterInv
  OBVIOUS
<1>1. DOMAIN allocations = {} /\ kama = {} /\ taken = {} /\ leaked = {} /\ used_bytes = 0
  BY DEF Init
<1>2. BytesOut = {}
  BY <1>1 DEF BytesOut
<1>3. allocations \in [DOMAIN allocations -> Nat]
  BY DEF Init
<1> QED BY <1>1, <1>2, <1>3, FS_EmptySet, CapacityAssumption
        DEF AdapterInv, AdapterTypes, BlocksHeldOnce

(* used() is exact and within the capacity, and no block has two holders,  *)
(* or none unless allocate leaked it, in the adapter alone ...             *)
THEOREM AdapterCorrect == Spec => [](UsedExact /\ BlocksHeldOnce)
<1>1. AdapterInv => UsedExact /\ BlocksHeldOnce
  BY CapacityAssumption DEF AdapterInv, AdapterTypes, UsedExact
<1> QED BY <1>1, AdapterInvInit, AdapterInvInductive, PTL DEF Spec

-----------------------------------------------------------------------------
(* The adapter on the counting Kama pool.                                  *)

LEMMA PoolStepIsAdapterStep == [PoolNext]_poolVars => [Next]_vars
BY DEF PoolNext, poolVars, AdapterCall, DirectCall, Count, Stats, Next, vars

(* ... and above the Kama pool, whatever calls other threads are in.       *)
THEOREM PoolUsedExact == PoolSpec => []UsedExact
<1>1. PoolSpec => Spec
  BY PoolStepIsAdapterStep, PTL DEF PoolSpec, PoolInit, Spec
<1> QED BY <1>1, AdapterCorrect, PTL

THEOREM PoolBlocksHeldOnce == PoolSpec => []BlocksHeldOnce
<1>1. PoolSpec => Spec
  BY PoolStepIsAdapterStep, PTL DEF PoolSpec, PoolInit, Spec
<1> QED BY <1>1, AdapterCorrect, PTL

(* Threads whose next statement is one of X.                               *)
Doing(X) == {t \in Threads : pc[t] \in X}

Steps == {"none", "alloc", "small", "large", "free", "sized", "unsized"}

(* A block is counted some time after it was handed out, and as freed some *)
(* time after it was taken back: the counters lag behind by the threads    *)
(* that are in between.                                                    *)
StatsInv ==
  /\ pc \in [Threads -> Steps]
  /\ {allocCount, freeCount, smallAllocCount, largeAllocCount, sizedFreeCount,
      unsizedFreeCount} \subseteq Nat
  /\ report \in [alloc : Nat \cup {-1}, free : Nat \cup {-1}]
  /\ report.alloc <= allocCount
  /\ IsFiniteSet(Doing(Steps \ {"none"}))
  /\ IsFiniteSet(kama)
  /\ Cardinality(kama) + freeCount + Cardinality(Doing({"free"}))
       = allocCount + Cardinality(Doing({"alloc"}))
  /\ allocCount = smallAllocCount + largeAllocCount + Cardinality(Doing({"small", "large"}))
  /\ freeCount = sizedFreeCount + unsizedFreeCount + Cardinality(Doing({"sized", "unsized"}))

(* A thread moves on: it joins and leaves the sets it should.              *)
LEMMA PcMove ==
  ASSUME pc \in [Threads -> Steps], NEW t \in Threads, NEW to \in Steps,
         pc' = [pc EXCEPT ![t] = to], NEW X, IsFiniteSet(Doing(X))
  PROVE  /\ IsFiniteSet(Doing(X)')
         /\ Cardinality(Doing(X)) \in Nat /\ Cardinality(Doing(X)') \in Nat
         /\ Cardinality(Doing(X)') = Cardinality(Doing(X)) + (IF to \in X THEN 1 ELSE 0)
                                                         - (IF pc[t] \in X THEN 1 ELSE 0)
<1> DEFINE S == Doing(X)
<1>1. Cardinality(S) \in Nat
  BY FS_CardinalityType
<1>2. t \in S <=> pc[t] \in X
  BY DEF Doing
<1>3. CASE to \in X
  <2>1. S' = S \cup {t}
    BY <1>3 DEF Doing
  <2> HIDE DEF S
  <2>2. IsFiniteSet(S \cup {t})
        /\ Cardinality(S \cup {t}) = IF t \in S THEN Cardinality(S) ELSE Cardinality(S) + 1
    BY FS_AddElement DEF S
  <2> QED BY <1>1, <1>2, <1>3, <2>1, <2>2 DEF S
<1>4. CASE to \notin X
  <2>1. S' = S \ {t}
    BY <1>4 DEF Doing
  <2> HIDE DEF S
  <2>2. IsFiniteSet(S \ {t})
        /\ Cardinality(S \ {t}) = IF t \in S THEN Cardinality(S) - 1 ELSE Cardinality(S)
    BY FS_RemoveElement DEF S
  <2>3. Cardinality(S \ {t}) \in Nat
    BY <2>2, FS_CardinalityType
  <2> QED BY <1>1, <1>2, <1>4, <2>1, <2>2, <2>3 DEF S
<1> QED BY <1>3, <1>4

(* The sets of threads the counters lag by, before and after such a move.  *)
LEMMA LagMoves ==
  ASSUME StatsInv, NEW t \in Threads, NEW to \in Steps, pc' = [pc EXCEPT ![t] = to]
  PROVE  \A X \in {{"alloc"}, {"free"}, {"small", "large"}, {"sized", "unsized"}, Steps \ {"none"}} :
           /\ IsFiniteSet(Doing(X)')
           /\ Cardinality(Doing(X)) \in Nat /\ Cardinality(Doing(X)') \in Nat
           /\ Cardinality(Doing(X)') = Cardinality(Doing(X)) + (IF to \in X THEN 1 ELSE 0)
                                                           - (IF pc[t] \in X THEN 1 ELSE 0)
<1> TAKE X \in {{"alloc"}, {"free"}, {"small", "large"}, {"sized", "unsized"}, Steps \ {"none"}}
<1>1. X \subseteq Steps \ {"none"}
  BY DEF Steps
<1>2. Doing(X) \subseteq Doing(Steps \ {"none"})
  BY <1>1 DEF Doing
<1>3. IsFiniteSet(Doing(X))
  BY <1>2, FS_Subset DEF StatsInv
<1>4. pc \in [Threads -> Steps]
  BY DEF StatsInv
<1> QED BY <1>3, <1>4, PcMove

(* The counters with the numbers of threads they lag by, as one formula    *)
(* about numbers.                                                          *)
Lag(X) == Cardinality(Doing(X))

CountersInv ==
  /\ Cardinality(kama) + freeCount + Lag({"free"}) = allocCount + Lag({"alloc"})
  /\ allocCount = smallAllocCount + largeAllocCount + Lag({"small", "large"})
  /\ freeCount = sizedFreeCount + unsizedFreeCount + Lag({"sized", "unsized"})

LEMMA MoveKeeps ==
  ASSUME StatsInv, IsFiniteSet(kama'), NEW t \in Threads,
         NEW from \in Steps, NEW to \in Steps, Kama!At(t, from, to),
         CountersInv',
         {allocCount, freeCount, smallAllocCount, largeAllocCount, sizedFreeCount,
          unsizedFreeCount}' \subseteq Nat,
         allocCount <= allocCount', report' = report
  PROVE  StatsInv'
<1>1. pc' = [pc EXCEPT ![t] = to] /\ pc' \in [Threads -> Steps]
  BY DEF Kama!At, StatsInv
<1>2. IsFiniteSet(Doing(Steps \ {"none"})')
  BY <1>1, LagMoves
<1>3. report'.alloc <= allocCount'
  BY DEF StatsInv
<1> QED BY <1>1, <1>2, <1>3 DEF StatsInv, CountersInv, Lag

LEMMA LagAfter ==
  ASSUME StatsInv, NEW t \in Threads, NEW from \in Steps, NEW to \in Steps, Kama!At(t, from, to)
  PROVE  \A X \in {{"alloc"}, {"free"}, {"small", "large"}, {"sized", "unsized"}} :
           /\ Lag(X) \in Nat /\ Lag(X)' \in Nat
           /\ Lag(X)' = Lag(X) + (IF to \in X THEN 1 ELSE 0) - (IF from \in X THEN 1 ELSE 0)
<1>1. pc' = [pc EXCEPT ![t] = to] /\ pc[t] = from
  BY DEF Kama!At
<1> QED BY <1>1, LagMoves DEF Lag

LEMMA StatsInvInductive ==
  StatsInv /\ AdapterInv /\ AdapterInv' /\ [PoolNext]_poolVars => StatsInv'
<1> SUFFICES ASSUME StatsInv, AdapterInv, AdapterInv', [PoolNext]_poolVars PROVE StatsInv'
  OBVIOUS
<1>0. IsFiniteSet(kama') /\ Cardinality(kama) \in Nat /\ Cardinality(kama') \in Nat
  BY FS_CardinalityType DEF AdapterInv, AdapterTypes
<1>n. /\ allocCount \in Nat /\ freeCount \in Nat /\ smallAllocCount \in Nat
      /\ largeAllocCount \in Nat /\ sizedFreeCount \in Nat /\ unsizedFreeCount \in Nat
      /\ CountersInv
  BY DEF StatsInv, CountersInv, Lag
<1>1. ASSUME NEW t \in Threads, Kama!Allocate(t) PROVE StatsInv'
  <2>1. Kama!At(t, "none", "alloc") /\ Cardinality(kama)' = Cardinality(kama) + 1
        /\ UNCHANGED <<allocCount, freeCount, smallAllocCount, largeAllocCount, sizedFreeCount,
                       unsizedFreeCount, report>>
    BY <1>1 DEF Kama!Allocate, Kama!counters
  <2>2. CountersInv'
    BY <1>0, <1>n, <2>1, LagAfter DEF CountersInv, Steps
  <2> QED BY <1>0, <1>n, <2>1, <2>2, MoveKeeps DEF Steps
<1>2. ASSUME NEW t \in Threads, Kama!Deallocate(t) PROVE StatsInv'
  <2>1. Kama!At(t, "none", "free") /\ Cardinality(kama)' = Cardinality(kama) - 1
        /\ UNCHANGED <<allocCount, freeCount, smallAllocCount, largeAllocCount, sizedFreeCount,
                       unsizedFreeCount, report>>
    BY <1>2 DEF Kama!Deallocate, Kama!counters
  <2>2. CountersInv'
    BY <1>0, <1>n, <2>1, LagAfter DEF CountersInv, Steps
  <2> QED BY <1>0, <1>n, <2>1, <2>2, MoveKeeps DEF Steps
<1>3. ASSUME NEW t \in Threads, Kama!RecordAllocation(t) PROVE StatsInv'
  <2>1. /\ allocCount' = allocCount + 1 /\ Cardinality(kama)' = Cardinality(kama)
        /\ UNCHANGED <<freeCount, smallAllocCount, largeAllocCount, sizedFreeCount,
                       unsizedFreeCount, report>>
    BY <1>3 DEF Kama!RecordAllocation
  <2>2. ASSUME NEW to \in {"small", "large"}, Kama!At(t, "alloc", to) PROVE StatsInv'
    <3>1. CountersInv'
      BY <1>0, <1>n, <2>1, <2>2, LagAfter DEF CountersInv, Steps
    <3> QED BY <1>0, <1>n, <2>1, <2>2, <3>1, MoveKeeps DEF Steps
  <2> QED BY <1>3, <2>2 DEF Kama!RecordAllocation
<1>4. ASSUME NEW t \in Threads, Kama!RecordSize(t) PROVE StatsInv'
  <2>1. /\ smallAllocCount' = smallAllocCount + (IF pc[t] = "small" THEN 1 ELSE 0)
        /\ largeAllocCount' = largeAllocCount + (IF pc[t] = "large" THEN 1 ELSE 0)
        /\ Cardinality(kama)' = Cardinality(kama)
        /\ UNCHANGED <<allocCount, freeCount, sizedFreeCount, unsizedFreeCount, report>>
    BY <1>4 DEF Kama!RecordSize
  <2>2. ASSUME NEW from \in {"small", "large"}, Kama!At(t, from, "none") PROVE StatsInv'
    <3>0. pc[t] = from
      BY <2>2 DEF Kama!At
    <3>1. CountersInv'
      BY <1>0, <1>n, <2>1, <2>2, <3>0, LagAfter DEF CountersInv, Steps
    <3> QED BY <1>0, <1>n, <2>1, <2>2, <3>1, MoveKeeps DEF Steps
  <2> QED BY <1>4, <2>2 DEF Kama!RecordSize
<1>5. ASSUME NEW t \in Threads, Kama!RecordFree(t) PROVE StatsInv'
  <2>1. /\ freeCount' = freeCount + 1 /\ Cardinality(kama)' = Cardinality(kama)
        /\ UNCHANGED <<allocCount, smallAllocCount, largeAllocCount, sizedFreeCount,
                       unsizedFreeCount, report>>
    BY <1>5 DEF Kama!RecordFree
  <2>2. ASSUME NEW to \in {"sized", "unsized"}, Kama!At(t, "free", to) PROVE StatsInv'
    <3>1. CountersInv'
      BY <1>0, <1>n, <2>1, <2>2, LagAfter DEF CountersInv, Steps
    <3> QED BY <1>0, <1>n, <2>1, <2>2, <3>1, MoveKeeps DEF Steps
  <2> QED BY <1>5, <2>2 DEF Kama!RecordFree
<1>6. ASSUME NEW t \in Threads, Kama!RecordSized(t) PROVE StatsInv'
  <2>1. /\ sizedFreeCount' = sizedFreeCount + (IF pc[t] = "sized" THEN 1 ELSE 0)
        /\ unsizedFreeCount' = unsizedFreeCount + (IF pc[t] = "unsized" THEN 1 ELSE 0)
        /\ Cardinality(kama)' = Cardinality(kama)
        /\ UNCHANGED <<allocCount, freeCount, smallAllocCount, largeAllocCount, report>>
    BY <1>6 DEF Kama!RecordSized
  <2>2. ASSUME NEW from \in {"sized", "unsized"}, Kama!At(t, from, "none") PROVE StatsInv'
    <3>0. pc[t] = from
      BY <2>2 DEF Kama!At
    <3>1. CountersInv'
      BY <1>0, <1>n, <2>1, <2>2, <3>0, LagAfter DEF CountersInv, Steps
    <3> QED BY <1>0, <1>n, <2>1, <2>2, <3>1, MoveKeeps DEF Steps
  <2> QED BY <1>6, <2>2 DEF Kama!RecordSized
<1>7. ASSUME UNCHANGED <<vars, allocCount, freeCount, smallAllocCount, largeAllocCount,
                         sizedFreeCount, unsizedFreeCount, pc>>,
             report' \in [alloc : Nat \cup {-1}, free : Nat \cup {-1}],
             report'.alloc <= allocCount
      PROVE  StatsInv'
  BY <1>7 DEF StatsInv, Doing, vars
<1>8. ASSUME Stats PROVE StatsInv'
  <2>1. report \in [alloc : Nat \cup {-1}, free : Nat \cup {-1}] /\ report.alloc <= allocCount
    BY DEF StatsInv
  <2>2. CASE Kama!LoadAlloc
    BY <1>7, <1>8, <1>n, <2>1, <2>2 DEF Stats, Kama!LoadAlloc, Kama!counters
  <2>3. CASE Kama!LoadFree
    BY <1>7, <1>8, <1>n, <2>1, <2>3 DEF Stats, Kama!LoadFree, Kama!counters
  <2>4. CASE Kama!StatsReturn
    BY <1>7, <1>8, <1>n, <2>1, <2>4
    DEF Stats, Kama!StatsReturn, Kama!counters, Kama!NoReport, Kama!NotLoaded
  <2> QED BY <1>8, <2>2, <2>3, <2>4 DEF Stats
<1>9. CASE UNCHANGED poolVars
  BY <1>7, <1>9 DEF poolVars, statsVars, StatsInv
<1> QED BY <1>1, <1>2, <1>3, <1>4, <1>5, <1>6, <1>8, <1>9
        DEF PoolNext, AdapterCall, DirectCall, Count

LEMMA StatsInvInit == PoolInit => StatsInv
<1> SUFFICES ASSUME PoolInit PROVE StatsInv
  OBVIOUS
<1>1. /\ allocCount = 0 /\ freeCount = 0 /\ smallAllocCount = 0 /\ largeAllocCount = 0
      /\ sizedFreeCount = 0 /\ unsizedFreeCount = 0
      /\ pc = [t \in Threads |-> "none"] /\ kama = {}
      /\ report = [alloc |-> -1, free |-> -1]
  BY DEF PoolInit, Kama!Init, Kama!NoReport, Kama!NotLoaded, Init
<1>2. \A X : "none" \notin X => Doing(X) = {}
  BY <1>1 DEF Doing
<1>3. /\ Doing({"free"}) = {} /\ Doing({"alloc"}) = {} /\ Doing({"small", "large"}) = {}
      /\ Doing({"sized", "unsized"}) = {} /\ Doing(Steps \ {"none"}) = {}
  BY <1>2
<1>4. pc \in [Threads -> Steps]
  BY <1>1 DEF Steps
<1> QED BY <1>1, <1>3, <1>4, FS_EmptySet DEF StatsInv

LEMMA StatsInvSound == StatsInv /\ AdapterInv => StatsSound
<1> SUFFICES ASSUME StatsInv, AdapterInv PROVE StatsSound
  OBVIOUS
<1>n. /\ allocCount \in Nat /\ freeCount \in Nat /\ smallAllocCount \in Nat
      /\ largeAllocCount \in Nat /\ sizedFreeCount \in Nat /\ unsizedFreeCount \in Nat
      /\ Cardinality(kama) \in Nat
  BY FS_CardinalityType DEF StatsInv
<1>1. Cardinality(kama) =
        Cardinality(DOMAIN allocations) + Cardinality(taken) + Cardinality(leaked)
  <2> DEFINE S == DOMAIN allocations \cup taken
  <2>1. /\ kama = S \cup leaked /\ S \cap leaked = {}
        /\ DOMAIN allocations \cap taken = {}
    BY DEF AdapterInv, BlocksHeldOnce
  <2>2. IsFiniteSet(DOMAIN allocations) /\ IsFiniteSet(taken) /\ IsFiniteSet(leaked)
    BY FS_Subset DEF AdapterInv, AdapterTypes
  <2>3. IsFiniteSet(S) /\ Cardinality(S) = Cardinality(DOMAIN allocations) + Cardinality(taken)
    BY <2>1, <2>2, CountUnion
  <2> HIDE DEF S
  <2>4. Cardinality(S \cup leaked) = Cardinality(S) + Cardinality(leaked)
    BY <2>1, <2>2, <2>3, CountUnion
  <2> QED BY <2>1, <2>3, <2>4
<1>2. ASSUME \A t \in Threads : pc[t] = "none"
      PROVE  /\ Cardinality(kama) + freeCount = allocCount
             /\ allocCount = smallAllocCount + largeAllocCount
             /\ freeCount = sizedFreeCount + unsizedFreeCount
  <2>1. \A X : "none" \notin X => Doing(X) = {}
    BY <1>2 DEF Doing
  <2>2. /\ Doing({"free"}) = {} /\ Doing({"alloc"}) = {} /\ Doing({"small", "large"}) = {}
        /\ Doing({"sized", "unsized"}) = {}
    BY <2>1
  <2>3. /\ Lag({"free"}) = 0 /\ Lag({"alloc"}) = 0 /\ Lag({"small", "large"}) = 0
        /\ Lag({"sized", "unsized"}) = 0
    BY <2>2, FS_EmptySet DEF Lag
  <2>4. CountersInv
    BY DEF StatsInv, CountersInv, Lag
  <2> QED BY <1>n, <2>3, <2>4 DEF CountersInv
<1>3. Kama!ExactAtRest
  BY <1>n, <1>2 DEF Kama!ExactAtRest, Kama!LiveAllocs
<1>4. (\A t \in Threads : pc[t] = "none") =>
        allocCount - freeCount =
          Cardinality(DOMAIN allocations) + Cardinality(taken) + Cardinality(leaked)
  BY <1>n, <1>1, <1>2
<1>5. Kama!LiveWithinAllocs
  <2>1. Kama!Loaded => report.alloc \in Nat /\ report.free \in Nat /\ report.alloc <= allocCount
    BY DEF StatsInv, Kama!Loaded, Kama!NotLoaded
  <2> QED BY <1>n, <2>1 DEF Kama!LiveWithinAllocs, Kama!LiveAllocs
<1> QED BY <1>3, <1>4, <1>5 DEF StatsSound

(* stats() at rest is the truth about the blocks that are out, and no      *)
(* interleaving of its loads with the counting threads makes it report     *)
(* more live blocks than there were allocations.                           *)
THEOREM StatsCorrect == PoolSpec => []StatsSound
<1>1. PoolSpec => []AdapterInv
  BY PoolStepIsAdapterStep, AdapterInvInit, AdapterInvInductive, PTL DEF PoolSpec, PoolInit
<1> QED BY <1>1, StatsInvInit, StatsInvInductive, StatsInvSound, PTL DEF PoolSpec

-----------------------------------------------------------------------------
(* The size classes.                                                       *)

(* The table: multiples of the alignment, from the alignment upwards.      *)
TableInv ==
  /\ sizes \in Seq(Nat) /\ size \in Nat
  /\ \E c \in Nat : c >= 1 /\ align = c * ALIGNMENT
  /\ \A i \in 1 .. Len(sizes) : \E c \in Nat : sizes[i] = c * ALIGNMENT
  /\ \A i, j \in 1 .. Len(sizes) : i < j => sizes[i] < sizes[j]
  /\ sizes = << >> => size = 0 /\ align = ALIGNMENT
  /\ sizes # << >> => sizes[1] = ALIGNMENT /\ size = sizes[Len(sizes)]

(* Class i is the smallest that holds b bytes.                             *)
Minimal(s, i, b) ==
  /\ i \in 0 .. Len(s) - 1 /\ s[i + 1] >= b
  /\ \A k \in 1 .. i : s[k] < b

(* The maps: the class carried along is the smallest for the last entry.   *)
MapsInv ==
  /\ loop \in {"table", "small", "index"}
  /\ loop = "table" => entry = -1
  /\ loop = "small" => entry \in -1 .. SmallLimit
  /\ loop = "index" => entry \in -1 .. MAX_BYTES \div ALIGNMENT
  /\ entry = -1 => index = 0
  /\ loop # "table" => sizes # << >> /\ sizes[Len(sizes)] = MAX_BYTES
  /\ loop = "small" /\ entry >= 0 => Minimal(sizes, index, Table!SmallBytes(entry))
  /\ loop = "index" /\ entry >= 0 => Minimal(sizes, index, Table!UnitBytes(entry))

SizesInv == TableInv /\ MapsInv

LEMMA SizeConstants ==
  /\ ALIGNMENT \in Nat /\ ALIGNMENT >= 1 /\ MAX_BYTES \in Nat
  /\ SmallLimit \in Nat /\ SmallLimit <= MAX_BYTES
  /\ MAX_BYTES \div ALIGNMENT \in Nat /\ (MAX_BYTES \div ALIGNMENT) * ALIGNMENT <= MAX_BYTES
<1>1. /\ ALIGNMENT \in Nat \ {0} /\ MAX_BYTES \in Nat
      /\ SmallLimit \in Nat /\ SmallLimit <= MAX_BYTES
  BY SizesAssumption DEF Table!SizesAssumption
<1>2. \A i \in Nat, d \in Nat \ {0} : i \div d \in Nat /\ i % d \in Nat /\ i = (i \div d) * d + (i % d)
  BY Z3
<1> DEFINE q == MAX_BYTES \div ALIGNMENT
<1>3. q \in Nat /\ MAX_BYTES % ALIGNMENT \in Nat /\ MAX_BYTES = q * ALIGNMENT + (MAX_BYTES % ALIGNMENT)
  BY <1>1, <1>2
<1> HIDE DEF q
<1>4. q * ALIGNMENT \in Nat
  BY <1>1, <1>3
<1> QED BY <1>1, <1>3, <1>4 DEF q

LEMMA Products ==
  ASSUME NEW c \in Nat, NEW e \in Nat, NEW a \in Nat, a >= 1
  PROVE  /\ c * a \in Nat /\ (c <= e => c * a <= e * a)
         /\ (c + 1) * a = c * a + a
         /\ c * a < e * a => c * a + a <= e * a
<1>1. c * a \in Nat /\ e * a \in Nat /\ (c + 1) * a = c * a + a
  OBVIOUS
<1>2. ASSUME NEW x \in Nat, NEW y \in Nat, x <= y PROVE x * a <= y * a
  <2>1. PICK d \in Nat : y = x + d
    <3>1. y - x \in Nat /\ y = x + (y - x)
      BY <1>2
    <3> QED BY <3>1
  <2>2. y * a = x * a + d * a /\ x * a \in Nat /\ d * a \in Nat
    BY <2>1
  <2> QED BY <2>2
<1>3. c * a < e * a => c < e
  <2>1. e <= c => e * a <= c * a
    BY <1>2
  <2> QED BY <1>1, <2>1
<1>4. c < e => (c + 1) * a <= e * a
  <2>1. c < e => c + 1 <= e /\ c + 1 \in Nat
    OBVIOUS
  <2> QED BY <1>2, <2>1
<1> QED BY <1>1, <1>2, <1>3, <1>4

LEMMA UnitFacts ==
  ASSUME NEW e \in Nat
  PROVE  /\ Table!UnitBytes(e) \in Nat
         /\ Table!UnitBytes(e) <= Table!UnitBytes(e + 1)
         /\ e <= MAX_BYTES \div ALIGNMENT /\ ALIGNMENT <= MAX_BYTES =>
              Table!UnitBytes(e) <= MAX_BYTES
         /\ \A c \in Nat : c * ALIGNMENT < Table!UnitBytes(e) =>
              c * ALIGNMENT + ALIGNMENT <= Table!UnitBytes(e)
<1> DEFINE u == IF e = 0 THEN 1 ELSE e
<1>1. u \in Nat /\ u >= 1 /\ u <= e + 1 /\ e + 1 \in Nat /\ e + 1 # 0 /\ (e # 0 => u = e)
  OBVIOUS
<1>2. Table!UnitBytes(e) = u * ALIGNMENT
  BY SizeConstants DEF Table!UnitBytes
<1>3. Table!UnitBytes(e + 1) = (e + 1) * ALIGNMENT
  BY <1>1 DEF Table!UnitBytes
<1> HIDE DEF u
<1>4. u * ALIGNMENT \in Nat /\ u * ALIGNMENT <= (e + 1) * ALIGNMENT
  BY <1>1, SizeConstants, Products
<1>5. ASSUME e <= MAX_BYTES \div ALIGNMENT, ALIGNMENT <= MAX_BYTES
      PROVE  u * ALIGNMENT <= MAX_BYTES
  <2>1. CASE e = 0
    BY <1>2, <1>5, <2>1 DEF Table!UnitBytes
  <2>2. CASE e # 0
    <3> DEFINE q == MAX_BYTES \div ALIGNMENT
    <3>1. q \in Nat /\ q * ALIGNMENT \in Nat /\ q * ALIGNMENT <= MAX_BYTES /\ e <= q
      BY <1>5, SizeConstants, Products
    <3> HIDE DEF q
    <3>2. e * ALIGNMENT <= q * ALIGNMENT
      BY <3>1, SizeConstants, Products
    <3>3. e * ALIGNMENT \in Nat /\ u = e
      BY <1>1, <2>2, SizeConstants, Products
    <3> QED BY <3>1, <3>2, <3>3, SizeConstants
  <2> QED BY <2>1, <2>2
<1>6. \A c \in Nat : c * ALIGNMENT < u * ALIGNMENT => c * ALIGNMENT + ALIGNMENT <= u * ALIGNMENT
  BY <1>1, SizeConstants, Products
<1> QED BY <1>2, <1>3, <1>4, <1>5, <1>6

(* The while loop of the maps finds the smallest class, if it starts at or *)
(* below it and the last class is large enough.                            *)
LEMMA AdvanceFinds ==
  ASSUME sizes \in Seq(Nat), sizes # << >>, NEW b \in Nat, b <= sizes[Len(sizes)],
         index \in 0 .. Len(sizes) - 1, \A k \in 1 .. index : sizes[k] < b
  PROVE  Minimal(sizes, Table!Advanced(b), b)
<1> DEFINE N == Len(sizes)
           S == {i \in index .. N - 1 : i + 1 >= N \/ sizes[i + 1] >= b}
<1>1. N \in Nat /\ N >= 1 /\ index \in Nat /\ index <= N - 1 /\ \A i \in 1 .. N : sizes[i] \in Nat
  OBVIOUS
<1>2. Table!Advanced(b) = Table!Min(S)
  BY DEF Table!Advanced, Table!getSize
<1>3. S \subseteq Nat /\ N - 1 \in S
  BY <1>1
<1>4. \E x \in S : \A y \in S : x =< y
  <2> HIDE DEF S
  <2> QED BY <1>3, LeastOf
<1> DEFINE x == Table!Min(S)
<1>5. x \in S /\ \A y \in S : x <= y
  <2> HIDE DEF S
  <2> QED BY <1>4 DEF Table!Min
<1> HIDE DEF x, N
<1>6. x \in Nat /\ index <= x /\ x <= N - 1 /\ (x + 1 >= N \/ sizes[x + 1] >= b)
  BY <1>1, <1>5
<1>7. sizes[x + 1] >= b
  <2>1. x + 1 >= N => x + 1 = N
    BY <1>1, <1>6
  <2> QED BY <1>6, <2>1 DEF N
<1>8. ASSUME NEW k \in 1 .. x PROVE sizes[k] < b
  <2>1. CASE k <= index
    BY <2>1
  <2>2. CASE k > index
    <3>1. k - 1 \in index .. N - 1 /\ ~(x <= k - 1) /\ (k - 1) + 1 = k /\ k \in 1 .. N
      BY <1>1, <1>6, <2>2
    <3>2. k - 1 \notin S
      BY <1>5, <3>1
    <3>3. ~(sizes[k] >= b)
      BY <3>1, <3>2
    <3> QED BY <1>1, <3>1, <3>3
  <2> QED BY <1>1, <2>1, <2>2
<1> QED BY <1>1, <1>2, <1>6, <1>7, <1>8 DEF Minimal, x, N

LEMMA SizesStart == Table!Init => SizesInv
<1> SUFFICES ASSUME Table!Init PROVE SizesInv
  OBVIOUS
<1>1. /\ loop = "table" /\ sizes = << >> /\ size = 0 /\ align = ALIGNMENT
      /\ entry = -1 /\ index = 0
  BY DEF Table!Init
<1>2. ALIGNMENT = 1 * ALIGNMENT /\ 1 \in Nat /\ 1 >= 1
  BY SizeConstants
<1>3. sizes \in Seq(Nat) /\ Len(sizes) = 0 /\ \A i \in 1 .. Len(sizes) : FALSE
  BY <1>1
<1>4. TableInv
  BY <1>1, <1>2, <1>3 DEF TableInv
<1>5. MapsInv
  BY <1>1 DEF MapsInv
<1> QED BY <1>4, <1>5 DEF SizesInv

LEMMA SumOfProducts ==
  ASSUME NEW c \in Nat, NEW d \in Nat, NEW a \in Nat
  PROVE  c * a + d * a = (c + d) * a /\ c + d \in Nat
OBVIOUS

LEMMA TableEntryKeeps == ASSUME SizesInv, Table!TableEntry PROVE SizesInv'
<1> DEFINE N == Len(sizes)
           t == size + align
<1>1. /\ loop = "table" /\ loop' = "table" /\ sizes' = Append(sizes, t) /\ size' = t
      /\ align' = align \/ align' = align * 2
      /\ entry' = entry /\ index' = index
  BY DEF Table!TableEntry
<1>2. TableInv /\ entry = -1 /\ index = 0
  BY <1>1 DEF SizesInv, MapsInv
<1>3. PICK c \in Nat : c >= 1 /\ align = c * ALIGNMENT
  BY <1>2 DEF TableInv
<1>4. /\ sizes \in Seq(Nat) /\ N \in Nat /\ size \in Nat /\ align \in Nat /\ align >= 1
      /\ \A i \in 1 .. N : sizes[i] \in Nat
  <2>1. c * ALIGNMENT \in Nat /\ 1 * ALIGNMENT <= c * ALIGNMENT /\ 1 * ALIGNMENT = ALIGNMENT
    BY <1>3, SizeConstants, Products
  <2> QED BY <1>2, <1>3, <2>1, SizeConstants DEF TableInv
<1>5. PICK d \in Nat : size = d * ALIGNMENT
  <2>1. CASE sizes = << >>
    <3>1. size = 0 * ALIGNMENT
      BY <1>2, <2>1, SizeConstants DEF TableInv
    <3> QED BY <3>1
  <2>2. CASE sizes # << >>
    <3>1. N \in 1 .. N /\ size = sizes[N]
      BY <1>2, <1>4, <2>2 DEF TableInv
    <3>2. \A i \in 1 .. N : \E e \in Nat : sizes[i] = e * ALIGNMENT
      BY <1>2 DEF TableInv
    <3> HIDE DEF N
    <3> QED BY <3>1, <3>2
  <2> QED BY <2>1, <2>2
<1>6. t = (d + c) * ALIGNMENT /\ d + c \in Nat /\ t \in Nat /\ size < t
  <2>1. d * ALIGNMENT + c * ALIGNMENT = (d + c) * ALIGNMENT /\ d + c \in Nat
    BY SumOfProducts, SizeConstants
  <2> QED BY <1>3, <1>4, <1>5, <2>1
<1>7. \E e \in Nat : e >= 1 /\ align' = e * ALIGNMENT
  <2>1. CASE align' = align
    BY <1>3, <2>1
  <2>2. CASE align' = align * 2
    <3>1. c * ALIGNMENT + c * ALIGNMENT = (c + c) * ALIGNMENT /\ c + c \in Nat
      BY SumOfProducts, SizeConstants
    <3>2. align * 2 = align + align /\ c + c >= 1
      BY <1>3, <1>4
    <3> QED BY <1>3, <2>2, <3>1, <3>2
  <2> QED BY <1>1, <2>1, <2>2
<1> HIDE DEF t
<1>8. /\ sizes' \in Seq(Nat) /\ Len(sizes') = N + 1 /\ sizes' # << >>
      /\ \A i \in 1 .. N : sizes'[i] = sizes[i]
      /\ sizes'[N + 1] = t
  BY <1>1, <1>4, <1>6
<1>9. \A i \in 1 .. N : sizes[i] < t
  <2> TAKE i \in 1 .. N
  <2>1. sizes # << >> /\ size = sizes[N] /\ \A j, k \in 1 .. N : j < k => sizes[j] < sizes[k]
    BY <1>2, <1>4 DEF TableInv
  <2>2. i = N \/ i < N
    BY <1>4
  <2>3. sizes[i] <= size
    BY <1>4, <2>1, <2>2
  <2> QED BY <1>4, <1>6, <2>3
<1>10. \A i \in 1 .. N + 1 : \E e \in Nat : sizes'[i] = e * ALIGNMENT
  <2> TAKE i \in 1 .. N + 1
  <2>1. CASE i = N + 1
    BY <1>6, <1>8, <2>1
  <2>2. CASE i # N + 1
    <3>1. i \in 1 .. N
      BY <1>4, <2>2
    <3> QED BY <1>2, <1>8, <3>1 DEF TableInv
  <2> QED BY <2>1, <2>2
<1>11. \A i, j \in 1 .. N + 1 : i < j => sizes'[i] < sizes'[j]
  <2> TAKE i, j \in 1 .. N + 1
  <2> HAVE i < j
  <2>1. i \in 1 .. N /\ (j = N + 1 \/ j \in 1 .. N)
    BY <1>4
  <2>2. CASE j = N + 1
    BY <1>8, <1>9, <2>1, <2>2
  <2>3. CASE j \in 1 .. N
    <3>1. sizes[i] < sizes[j]
      BY <1>2, <2>1, <2>3 DEF TableInv
    <3> QED BY <1>8, <2>1, <2>3, <3>1
  <2> QED BY <2>1, <2>2, <2>3
<1>12. sizes'[1] = ALIGNMENT
  <2>1. CASE sizes = << >>
    <3>1. t = ALIGNMENT /\ N + 1 = 1
      BY <1>2, <2>1, SizeConstants DEF TableInv, t
    <3> QED BY <1>8, <3>1
  <2>2. CASE sizes # << >>
    <3>1. 1 \in 1 .. N /\ sizes[1] = ALIGNMENT
      BY <1>2, <1>4, <2>2 DEF TableInv
    <3> QED BY <1>8, <3>1
  <2> QED BY <2>1, <2>2
<1> HIDE DEF N
<1>13. TableInv'
  BY <1>1, <1>6, <1>7, <1>8, <1>10, <1>11, <1>12 DEF TableInv
<1>14. MapsInv'
  BY <1>1, <1>2 DEF MapsInv
<1> QED BY <1>13, <1>14 DEF SizesInv

LEMMA TableDoneKeeps == ASSUME SizesInv, Table!TableDone PROVE SizesInv'
<1>1. /\ loop = "table" /\ loop' = "small" /\ sizes' = sizes /\ size' = size /\ align' = align
      /\ entry' = entry /\ index' = index /\ Table!StaticAsserts
  BY DEF Table!TableDone
<1>2. TableInv /\ entry = -1 /\ index = 0 /\ sizes \in Seq(Nat)
  BY <1>1 DEF SizesInv, MapsInv, TableInv
<1>3. sizes # << >> /\ sizes[(Len(sizes) - 1) + 1] = MAX_BYTES
  BY <1>1 DEF Table!StaticAsserts, Table!getSize
<1>4. (Len(sizes) - 1) + 1 = Len(sizes)
  BY <1>2
<1>5. sizes[Len(sizes)] = MAX_BYTES
  BY <1>3, <1>4
<1>6. entry' \in -1 .. SmallLimit /\ ~(entry' >= 0)
  BY <1>1, <1>2, SizeConstants
<1>7. TableInv'
  BY <1>1, <1>2 DEF TableInv
<1>8. MapsInv'
  BY <1>1, <1>2, <1>3, <1>5, <1>6 DEF MapsInv
<1> QED BY <1>7, <1>8 DEF SizesInv

(* The table once it is complete.                                          *)
LEMMA TableFacts ==
  ASSUME SizesInv, loop # "table"
  PROVE  /\ sizes \in Seq(Nat) /\ sizes # << >> /\ Len(sizes) \in Nat /\ Len(sizes) >= 1
         /\ \A i \in 1 .. Len(sizes) : sizes[i] \in Nat
         /\ \A i \in 1 .. Len(sizes) : \E c \in Nat : sizes[i] = c * ALIGNMENT
         /\ \A i, j \in 1 .. Len(sizes) : i < j => sizes[i] < sizes[j]
         /\ sizes[1] = ALIGNMENT /\ sizes[Len(sizes)] = MAX_BYTES /\ ALIGNMENT <= MAX_BYTES
<1>1. /\ sizes \in Seq(Nat) /\ sizes # << >> /\ sizes[1] = ALIGNMENT /\ sizes[Len(sizes)] = MAX_BYTES
      /\ \A i, j \in 1 .. Len(sizes) : i < j => sizes[i] < sizes[j]
      /\ \A i \in 1 .. Len(sizes) : \E c \in Nat : sizes[i] = c * ALIGNMENT
  BY DEF SizesInv, TableInv, MapsInv
<1>2. Len(sizes) \in Nat /\ Len(sizes) >= 1
  BY <1>1
<1>3. ALIGNMENT <= MAX_BYTES
  <2> DEFINE N == Len(sizes)
  <2>0. N \in Nat /\ N >= 1 /\ \A i, j \in 1 .. N : i < j => sizes[i] < sizes[j]
    BY <1>1, <1>2
  <2> HIDE DEF N
  <2>1. CASE N = 1
    BY <1>1, <2>1, SizeConstants DEF N
  <2>2. CASE N # 1
    <3>1. 1 \in 1 .. N /\ N \in 1 .. N /\ 1 < N
      BY <2>0, <2>2
    <3>2. sizes[1] < sizes[N]
      BY <2>0, <3>1
    <3>3. ALIGNMENT < MAX_BYTES
      BY <1>1, <3>2 DEF N
    <3> QED BY <3>3, SizeConstants
  <2> QED BY <2>1, <2>2
<1>4. \A i \in 1 .. Len(sizes) : sizes[i] \in Nat
  BY <1>1
<1> QED BY <1>1, <1>2, <1>3, <1>4

(* A step of a map loop, from the request it answered to a larger one.     *)
LEMMA Advances ==
  ASSUME SizesInv, loop # "table", NEW b \in Nat, b <= MAX_BYTES,
         index = 0 \/ \E a \in Nat : a <= b /\ Minimal(sizes, index, a)
  PROVE  Minimal(sizes, Table!Advanced(b), b)
<1>1. sizes \in Seq(Nat) /\ sizes # << >> /\ b <= sizes[Len(sizes)] /\ Len(sizes) \in Nat /\ Len(sizes) >= 1
      /\ \A i \in 1 .. Len(sizes) : sizes[i] \in Nat
  BY TableFacts
<1>2. CASE index = 0
  <2>1. index \in 0 .. Len(sizes) - 1 /\ \A k \in 1 .. index : sizes[k] < b
    BY <1>1, <1>2
  <2> QED BY <1>1, <2>1, AdvanceFinds
<1>3. CASE \E a \in Nat : a <= b /\ Minimal(sizes, index, a)
  <2>1. PICK a \in Nat : a <= b /\ Minimal(sizes, index, a)
    BY <1>3
  <2>2. index \in 0 .. Len(sizes) - 1 /\ \A k \in 1 .. index : sizes[k] < a
    BY <2>1 DEF Minimal
  <2>3. \A k \in 1 .. index : sizes[k] < b
    <3> TAKE k \in 1 .. index
    <3>1. k \in 1 .. Len(sizes) /\ sizes[k] < a
      BY <1>1, <2>2
    <3> QED BY <1>1, <2>1, <3>1
  <2> QED BY <1>1, <2>2, <2>3, AdvanceFinds
<1> QED BY <1>2, <1>3

(* A request of one aligned block is answered by class 0.                  *)
LEMMA FirstClass ==
  ASSUME SizesInv, loop # "table", Minimal(sizes, index, ALIGNMENT)
  PROVE  index = 0
<1>1. index \in 0 .. Len(sizes) - 1 /\ \A k \in 1 .. index : sizes[k] < ALIGNMENT
  BY DEF Minimal
<1>2. sizes[1] = ALIGNMENT /\ ~(ALIGNMENT < ALIGNMENT)
  BY TableFacts, SizeConstants
<1>3. 1 \notin 1 .. index
  BY <1>1, <1>2
<1> QED BY <1>1, <1>3

LEMMA SmallEntryKeeps == ASSUME SizesInv, Table!SmallEntry PROVE SizesInv'
<1> DEFINE b == Table!SmallBytes(entry + 1)
<1>1. /\ loop = "small" /\ loop' = "small" /\ sizes' = sizes /\ size' = size /\ align' = align
      /\ entry < SmallLimit /\ entry' = entry + 1 /\ index' = Table!Advanced(b)
  BY DEF Table!SmallEntry
<1>2. TableInv /\ entry \in -1 .. SmallLimit /\ sizes # << >> /\ sizes[Len(sizes)] = MAX_BYTES
      /\ (entry = -1 => index = 0) /\ (entry >= 0 => Minimal(sizes, index, Table!SmallBytes(entry)))
  BY <1>1 DEF SizesInv, MapsInv
<1>3. entry' \in 0 .. SmallLimit /\ entry' \in -1 .. SmallLimit /\ entry' # -1 /\ entry' >= 0
  BY <1>1, <1>2, SizeConstants
<1>4. b = IF entry + 1 = 0 THEN ALIGNMENT ELSE entry + 1
  BY DEF Table!SmallBytes
<1>5. b \in Nat /\ b <= MAX_BYTES
  BY <1>1, <1>2, <1>4, TableFacts, SizeConstants
<1>6. index = 0 \/ \E a \in Nat : a <= b /\ Minimal(sizes, index, a)
  <2>1. CASE entry = -1
    BY <1>2, <2>1
  <2>2. CASE entry = 0
    <3>1. Minimal(sizes, index, ALIGNMENT)
      BY <1>2, <2>2 DEF Table!SmallBytes
    <3> QED BY <1>1, <3>1, FirstClass
  <2>3. CASE entry > 0
    <3>1. Table!SmallBytes(entry) = entry /\ entry \in Nat /\ entry <= b /\ entry >= 0
      BY <1>2, <1>4, <2>3 DEF Table!SmallBytes
    <3> QED BY <1>2, <3>1
  <2>4. entry = -1 \/ entry = 0 \/ entry > 0
    BY <1>2, SizeConstants
  <2> QED BY <2>1, <2>2, <2>3, <2>4
<1> HIDE DEF b
<1>7. Minimal(sizes, index', b)
  BY <1>1, <1>5, <1>6, Advances
<1>8. TableInv'
  BY <1>1, <1>2 DEF TableInv
<1>9. b = Table!SmallBytes(entry')
  BY <1>1 DEF b
<1>10. MapsInv'
  <2>1. Minimal(sizes', index', Table!SmallBytes(entry'))
    BY <1>1, <1>7, <1>9
  <2>2. Minimal(sizes, index, Table!SmallBytes(entry))'
    BY <2>1 DEF Minimal, Table!SmallBytes
  <2> QED BY <1>1, <1>2, <1>3, <2>2 DEF MapsInv
<1> QED BY <1>8, <1>10 DEF SizesInv

LEMMA SmallDoneKeeps == ASSUME SizesInv, Table!SmallDone PROVE SizesInv'
<1>1. /\ loop = "small" /\ loop' = "index" /\ sizes' = sizes /\ size' = size /\ align' = align
      /\ entry' = -1 /\ index' = 0
  BY DEF Table!SmallDone
<1>2. TableInv /\ sizes # << >> /\ sizes[Len(sizes)] = MAX_BYTES
  BY <1>1 DEF SizesInv, MapsInv
<1>3. entry' \in -1 .. MAX_BYTES \div ALIGNMENT /\ ~(entry' >= 0)
  <2> DEFINE q == MAX_BYTES \div ALIGNMENT
  <2>1. q \in Nat
    BY SizeConstants
  <2> HIDE DEF q
  <2>2. -1 \in -1 .. q /\ ~(-1 >= 0)
    BY <2>1
  <2> QED BY <1>1, <2>2 DEF q
<1>4. TableInv'
  BY <1>1, <1>2 DEF TableInv
<1>5. MapsInv'
  BY <1>1, <1>2, <1>3 DEF MapsInv
<1> QED BY <1>4, <1>5 DEF SizesInv

LEMMA IndexEntryKeeps == ASSUME SizesInv, Table!IndexEntry PROVE SizesInv'
<1> DEFINE b == Table!UnitBytes(entry + 1)
           q == MAX_BYTES \div ALIGNMENT
<1>1. /\ loop = "index" /\ loop' = "index" /\ sizes' = sizes /\ size' = size /\ align' = align
      /\ entry < q /\ entry' = entry + 1 /\ index' = Table!Advanced(b)
  BY DEF Table!IndexEntry
<1>2. TableInv /\ entry \in -1 .. q /\ sizes # << >> /\ sizes[Len(sizes)] = MAX_BYTES
      /\ (entry = -1 => index = 0) /\ (entry >= 0 => Minimal(sizes, index, Table!UnitBytes(entry)))
  BY <1>1 DEF SizesInv, MapsInv
<1>q. q \in Nat
  BY SizeConstants
<1>3. \A e \in Nat : e <= q => Table!UnitBytes(e) \in Nat /\ Table!UnitBytes(e) <= MAX_BYTES
  BY <1>1, UnitFacts, TableFacts
<1>4. \A e \in Nat : Table!UnitBytes(e) \in Nat /\ Table!UnitBytes(e) <= Table!UnitBytes(e + 1)
  BY UnitFacts
<1> HIDE DEF q
<1>5. entry' \in 0 .. q /\ entry' \in -1 .. q /\ entry' # -1 /\ entry' >= 0 /\ entry + 1 \in Nat
      /\ entry + 1 <= q
  BY <1>1, <1>2, <1>q
<1>6. b \in Nat /\ b <= MAX_BYTES
  BY <1>3, <1>5
<1>7. index = 0 \/ \E a \in Nat : a <= b /\ Minimal(sizes, index, a)
  <2>1. CASE entry = -1
    BY <1>2, <2>1
  <2>2. CASE entry # -1
    <3>1. entry \in Nat /\ entry >= 0
      BY <1>2, <1>q, <2>2
    <3> QED BY <1>2, <1>4, <3>1
  <2> QED BY <2>1, <2>2
<1> HIDE DEF b
<1>8. Minimal(sizes, index', b)
  BY <1>1, <1>6, <1>7, Advances
<1>9. TableInv'
  BY <1>1, <1>2 DEF TableInv
<1>10. b = Table!UnitBytes(entry')
  BY <1>1 DEF b
<1>11. MapsInv'
  <2>1. Minimal(sizes', index', Table!UnitBytes(entry'))
    BY <1>1, <1>8, <1>10
  <2>2. Minimal(sizes, index, Table!UnitBytes(entry))'
    BY <2>1 DEF Minimal, Table!UnitBytes
  <2> QED BY <1>1, <1>2, <1>5, <2>2 DEF MapsInv, q
<1> QED BY <1>9, <1>11 DEF SizesInv

(* The binary search of v2, one iteration on the interval r = <<lo, hi>>,  *)
(* with f for what the rest of the search finds.                           *)
SearchStep(f, r, b) ==
  LET mid == (r[1] + r[2]) \div 2
  IN  IF r[1] >= r[2] THEN r[1]
      ELSE IF Table!getSize(mid) < b THEN f[<<mid + 1, r[2]>>] ELSE f[<<r[1], mid>>]

LEMMA Halving ==
  ASSUME NEW lo \in Nat, NEW hi \in Nat, lo < hi
  PROVE  (lo + hi) \div 2 \in Nat /\ lo <= (lo + hi) \div 2 /\ (lo + hi) \div 2 < hi
OBVIOUS

(* It ends where the smallest class is.                                    *)
LEMMA SearchFinds ==
  ASSUME sizes \in Seq(Nat), \A i, k \in 1 .. Len(sizes) : i < k => sizes[i] < sizes[k],
         NEW b \in Nat, NEW j, Minimal(sizes, j, b)
  PROVE  Table!getIndexV2(b) = j
<1> DEFINE N == Len(sizes)
           D == (0 .. N) \X (0 .. N)
           h == CHOOSE f : f = [r \in D |->
                  LET mid == (r[1] + r[2]) \div 2
                  IN  IF r[1] >= r[2] THEN r[1]
                      ELSE IF Table!getSize(mid) < b THEN f[<<mid + 1, r[2]>>]
                      ELSE f[<<r[1], mid>>]]
<1>1. /\ N \in Nat /\ j \in Nat /\ j \in 0 .. N - 1 /\ sizes[j + 1] >= b
      /\ \A k \in 1 .. j : sizes[k] < b
  BY DEF Minimal
<1>2. ASSUME NEW m \in Nat, m < N PROVE Table!getSize(m) < b <=> m < j
  <2>1. Table!getSize(m) = sizes[m + 1] /\ m + 1 \in 1 .. N /\ j + 1 \in 1 .. N
        /\ sizes[m + 1] \in Nat /\ sizes[j + 1] \in Nat
    BY <1>1, <1>2 DEF Table!getSize
  <2>2. CASE m < j
    <3>1. m + 1 \in 1 .. j
      BY <1>1, <2>2
    <3> QED BY <1>1, <2>1, <2>2, <3>1
  <2>3. CASE m = j
    BY <1>1, <2>1, <2>3
  <2>4. CASE m > j
    <3>1. j + 1 < m + 1
      BY <1>1, <2>4
    <3>2. sizes[j + 1] < sizes[m + 1]
      BY <2>1, <3>1
    <3> QED BY <1>1, <2>1, <2>4, <3>2
  <2>5. m < j \/ m = j \/ m > j
    BY <1>1
  <2> QED BY <2>2, <2>3, <2>4, <2>5
<1>3. \E f : f = [r \in D |-> SearchStep(f, r, b)]
  <2> DEFINE Clamp(r) == IF r[1] >= r[2] \/ j < r[1] THEN r[1] ELSE IF j > r[2] THEN r[2] ELSE j
             g == [r \in D |-> Clamp(r)]
  <2>1. ASSUME NEW r \in D PROVE Clamp(r) = SearchStep(g, r, b)
    <3> DEFINE lo == r[1]
               hi == r[2]
               mid == (lo + hi) \div 2
    <3>1. lo \in 0 .. N /\ hi \in 0 .. N /\ lo \in Nat /\ hi \in Nat
      BY <1>1
    <3>2. CASE lo >= hi
      BY <3>2 DEF SearchStep
    <3>3. CASE lo < hi
      <4>1. mid \in Nat /\ lo <= mid /\ mid < hi
        BY <3>1, <3>3, Halving
      <4>2. Table!getSize(mid) < b <=> mid < j
        <5>1. mid < N
          BY <1>1, <3>1, <4>1
        <5> HIDE DEF mid
        <5> QED BY <1>2, <4>1, <5>1
      <4>3. SearchStep(g, r, b) = IF mid < j THEN g[<<mid + 1, hi>>] ELSE g[<<lo, mid>>]
        <5>1. ~(lo >= hi)
          BY <3>1, <3>3
        <5> HIDE DEF g
        <5> QED BY <4>2, <5>1 DEF SearchStep
      <4> HIDE DEF mid
      <4>4. <<mid + 1, hi>> \in D /\ <<lo, mid>> \in D
        <5> HIDE DEF N, lo, hi
        <5>1. mid + 1 \in 0 .. N /\ mid \in 0 .. N
          BY <1>1, <3>1, <4>1
        <5> QED BY <3>1, <5>1
      <4>5. /\ g[<<mid + 1, hi>>] =
                 IF mid + 1 >= hi \/ j < mid + 1 THEN mid + 1 ELSE IF j > hi THEN hi ELSE j
            /\ g[<<lo, mid>>] = IF lo >= mid \/ j < lo THEN lo ELSE IF j > mid THEN mid ELSE j
        BY <4>4
      <4>6. Clamp(r) = IF lo >= hi \/ j < lo THEN lo ELSE IF j > hi THEN hi ELSE j
        OBVIOUS
      <4> HIDE DEF g, Clamp, lo, hi, D
      <4> QED BY <1>1, <3>1, <3>3, <4>1, <4>3, <4>5, <4>6
    <3>4. lo >= hi \/ lo < hi
      BY <3>1
    <3> QED BY <3>2, <3>3, <3>4
  <2> HIDE DEF Clamp
  <2>2. g = [r \in D |-> SearchStep(g, r, b)]
    <3>1. \A r \in D : Clamp(r) = SearchStep(g, r, b)
      BY <2>1
    <3> HIDE DEF D
    <3> DEFINE F == [r \in D |-> SearchStep(g, r, b)]
    <3>2. \A r \in D : F[r] = g[r]
      BY <3>1
    <3>3. F = g
      BY <3>2
    <3> QED BY <3>3
  <2> HIDE DEF g, D
  <2> QED BY <2>2
<1>4. h = [r \in D |-> SearchStep(h, r, b)]
  <2> HIDE DEF D
  <2> QED BY <1>3 DEF SearchStep
<1>5. Table!getIndexV2(b) = h[<<0, N>>]
  BY DEF Table!getIndexV2
<1> HIDE DEF h
<1> DEFINE Bad(d) == \E lo, hi \in 0 .. N : lo <= j /\ j <= hi /\ d = hi - lo /\ h[<<lo, hi>>] # j
           B == {d \in Nat : Bad(d)}
<1>6. B = {}
  <2> SUFFICES ASSUME B # {} PROVE FALSE
    OBVIOUS
  <2>1. PICK d \in B : \A e \in B : d <= e
    <3>1. B \subseteq Nat
      OBVIOUS
    <3> HIDE DEF B
    <3> QED BY <3>1, LeastOf
  <2>2. d \in Nat /\ Bad(d)
    OBVIOUS
  <2>3. \A e \in Nat : Bad(e) => d <= e
    BY <2>1
  <2> HIDE DEF B
  <2>4. PICK lo \in 0 .. N, hi \in 0 .. N : lo <= j /\ j <= hi /\ d = hi - lo /\ h[<<lo, hi>>] # j
    BY <2>2
  <2>5. lo \in Nat /\ hi \in Nat /\ <<lo, hi>> \in D
    BY <1>1, <2>4
  <2> DEFINE mid == (lo + hi) \div 2
  <2>6. h[<<lo, hi>>] = IF lo >= hi THEN lo
                        ELSE IF Table!getSize(mid) < b THEN h[<<mid + 1, hi>>] ELSE h[<<lo, mid>>]
    <3>1. h[<<lo, hi>>] = SearchStep(h, <<lo, hi>>, b)
      <4> HIDE DEF D
      <4> QED BY <1>4, <2>5
    <3> QED BY <3>1 DEF SearchStep
  <2>7. CASE lo >= hi
    BY <1>1, <2>4, <2>5, <2>6, <2>7
  <2>8. CASE lo < hi
    <3>1. mid \in Nat /\ lo <= mid /\ mid < hi
      BY <2>5, <2>8, Halving
    <3> HIDE DEF mid
    <3>2. Table!getSize(mid) < b <=> mid < j
      <4>1. mid < N
        BY <1>1, <2>4, <3>1
      <4> QED BY <1>2, <3>1, <4>1
    <3>3. ASSUME NEW l \in 0 .. N, NEW u \in 0 .. N, l <= j, j <= u, u - l < d
          PROVE  h[<<l, u>>] = j
      <4>1. u - l \in Nat /\ ~(d <= u - l)
        BY <1>1, <2>2, <3>3
      <4>2. ~Bad(u - l)
        BY <2>3, <4>1
      <4> QED BY <3>3, <4>2
    <3> HIDE DEF Bad
    <3>4. CASE mid < j
      <4>1. mid + 1 \in 0 .. N /\ mid + 1 <= j /\ hi - (mid + 1) < d
        BY <1>1, <2>4, <2>5, <3>1, <3>4
      <4>2. h[<<mid + 1, hi>>] = j
        BY <2>4, <3>3, <4>1
      <4>3. ~(lo >= hi)
        BY <2>5, <2>8
      <4> QED BY <2>4, <2>6, <3>2, <3>4, <4>2, <4>3
    <3>5. CASE ~(mid < j)
      <4>1. mid \in 0 .. N /\ j <= mid /\ mid - lo < d
        BY <1>1, <2>4, <2>5, <3>1, <3>5
      <4>2. h[<<lo, mid>>] = j
        BY <2>4, <3>3, <4>1
      <4>3. ~(lo >= hi)
        BY <2>5, <2>8
      <4> QED BY <2>4, <2>6, <3>2, <3>5, <4>2, <4>3
    <3> QED BY <3>4, <3>5
  <2>9. lo >= hi \/ lo < hi
    BY <2>5
  <2> QED BY <2>7, <2>8, <2>9
<1>7. ASSUME h[<<0, N>>] # j PROVE FALSE
  <2>1. 0 \in 0 .. N /\ N \in 0 .. N /\ 0 <= j /\ j <= N /\ N = N - 0 /\ N \in Nat
    BY <1>1
  <2>2. Bad(N)
    BY <1>7, <2>1
  <2> HIDE DEF Bad
  <2> QED BY <1>6, <2>1, <2>2
<1> QED BY <1>5, <1>7

LEMMA SizesStep == SizesInv /\ [Table!Next]_Table!vars => SizesInv'
<1> SUFFICES ASSUME SizesInv, [Table!Next]_Table!vars PROVE SizesInv'
  OBVIOUS
<1>1. CASE Table!TableEntry BY <1>1, TableEntryKeeps
<1>2. CASE Table!TableDone BY <1>2, TableDoneKeeps
<1>3. CASE Table!SmallEntry BY <1>3, SmallEntryKeeps
<1>4. CASE Table!SmallDone BY <1>4, SmallDoneKeeps
<1>5. CASE Table!IndexEntry BY <1>5, IndexEntryKeeps
<1>6. CASE UNCHANGED Table!vars
  <2>1. /\ loop' = loop /\ sizes' = sizes /\ size' = size /\ align' = align /\ entry' = entry
        /\ index' = index
    BY <1>6 DEF Table!vars
  <2>2. TableInv' /\ MapsInv'
    BY <2>1 DEF SizesInv, TableInv, MapsInv, Minimal, Table!SmallBytes, Table!UnitBytes
  <2> QED BY <2>2 DEF SizesInv
<1> QED BY <1>1, <1>2, <1>3, <1>4, <1>5, <1>6 DEF Table!Next

(* The requests an entry answers have the same smallest class as the entry *)
(* itself: there is no class between two multiples of the alignment.       *)
LEMMA RequestMinimal ==
  ASSUME SizesInv, NEW b \in Table!Requests
  PROVE  loop # "table" /\ b \in Nat /\ Minimal(sizes, index, b)
<1>1. CASE loop = "small" /\ entry >= 0
  <2>1. b = Table!SmallBytes(entry)
    BY <1>1 DEF Table!Requests
  <2>2. Minimal(sizes, index, Table!SmallBytes(entry)) /\ entry \in -1 .. SmallLimit
    BY <1>1 DEF SizesInv, MapsInv
  <2>3. Table!SmallBytes(entry) \in Nat
    BY <1>1, <2>2, SizeConstants DEF Table!SmallBytes
  <2> QED BY <1>1, <2>1, <2>2, <2>3
<1>2. CASE loop = "index" /\ entry >= 0
  <2> DEFINE U == Table!UnitBytes(entry)
             q == MAX_BYTES \div ALIGNMENT
  <2>1. b \in (U - ALIGNMENT + 1) .. U /\ b > SmallLimit
    BY <1>2 DEF Table!Requests
  <2>2. Minimal(sizes, index, U) /\ entry \in -1 .. q /\ q \in Nat
    BY <1>2, SizeConstants DEF SizesInv, MapsInv
  <2> HIDE DEF q
  <2>3. entry \in Nat
    BY <1>2, <2>2
  <2>4. U \in Nat /\ \A c \in Nat : c * ALIGNMENT < U => c * ALIGNMENT + ALIGNMENT <= U
    BY <2>3, UnitFacts
  <2> HIDE DEF U
  <2>5. b \in Nat /\ b <= U /\ U < b + ALIGNMENT
    BY <2>1, <2>4, SizeConstants
  <2>6. index \in 0 .. Len(sizes) - 1 /\ sizes[index + 1] >= U /\ \A k \in 1 .. index : sizes[k] < U
    BY <2>2 DEF Minimal
  <2>7. /\ Len(sizes) \in Nat /\ \A i \in 1 .. Len(sizes) : sizes[i] \in Nat
        /\ \A i \in 1 .. Len(sizes) : \E c \in Nat : sizes[i] = c * ALIGNMENT
    BY <1>2, TableFacts
  <2>8. sizes[index + 1] >= b
    <3>1. index + 1 \in 1 .. Len(sizes)
      BY <2>6, <2>7
    <3> QED BY <2>4, <2>5, <2>6, <2>7, <3>1
  <2>9. ASSUME NEW k \in 1 .. index PROVE sizes[k] < b
    <3>1. k \in 1 .. Len(sizes) /\ sizes[k] < U
      BY <2>6, <2>7
    <3>2. PICK c \in Nat : sizes[k] = c * ALIGNMENT
      BY <2>7, <3>1
    <3>3. sizes[k] + ALIGNMENT <= U /\ sizes[k] \in Nat
      BY <2>4, <2>7, <3>1, <3>2
    <3> QED BY <2>4, <2>5, <3>3, SizeConstants
  <2>10. Minimal(sizes, index, b)
    BY <2>6, <2>8, <2>9 DEF Minimal
  <2> QED BY <1>2, <2>5, <2>10
<1>3. (loop = "small" /\ entry >= 0) \/ (loop = "index" /\ entry >= 0)
  BY DEF Table!Requests
<1> QED BY <1>1, <1>2, <1>3

LEMMA SizesMinimal == SizesInv => IndexMinimal
<1> SUFFICES ASSUME SizesInv, NEW b \in Table!Requests
             PROVE  /\ index \in 0 .. Len(sizes) - 1
                    /\ Table!getSize(index) >= b
                    /\ \A i \in 0 .. index - 1 : Table!getSize(i) < b
                    /\ loop = "index" => Table!getIndexV2(b) = index
  BY DEF IndexMinimal, Table!IndexMinimal
<1>1. loop # "table" /\ b \in Nat /\ Minimal(sizes, index, b)
  BY RequestMinimal
<1>2. /\ index \in 0 .. Len(sizes) - 1 /\ sizes[index + 1] >= b
      /\ \A k \in 1 .. index : sizes[k] < b
  BY <1>1 DEF Minimal
<1>3. \A i \in 0 .. index - 1 : Table!getSize(i) < b
  <2> TAKE i \in 0 .. index - 1
  <2>1. i + 1 \in 1 .. index
    BY <1>2
  <2> QED BY <1>2, <2>1 DEF Table!getSize
<1>4. Table!getIndexV2(b) = index
  <2>1. sizes \in Seq(Nat) /\ \A i, k \in 1 .. Len(sizes) : i < k => sizes[i] < sizes[k]
    BY <1>1, TableFacts
  <2> QED BY <1>1, <2>1, SearchFinds
<1> QED BY <1>2, <1>3, <1>4 DEF Table!getSize

(* For every alignment, limit and table size that passes the static        *)
(* assertions, every entry of the small map and of the unit map is the     *)
(* smallest class that holds every request it answers, and v2's binary     *)
(* search over the table agrees (makeSizeClassTable, makeSmallIndexMap,    *)
(* makeIndexMap and getIndex, Common.h).                                   *)
THEOREM SmallestClass == Table!Spec => []IndexMinimal
<1>1. Table!Spec => []SizesInv
  BY SizesStart, SizesStep, PTL DEF Table!Spec
<1>2. []SizesInv => []IndexMinimal
  BY SizesMinimal, PTL
<1> QED BY <1>1, <1>2, PTL

-----------------------------------------------------------------------------
(* The policies.                                                           *)

Divides(a, x) == \E c \in Nat : x = c * a

(* A power of two, or a multiple of the largest one looked at.             *)
Largest == 1048576
TwoPower(x) == x \in Nat /\ x >= 1 /\ (x \in Table!PowersOfTwo \/ Divides(Largest, x))

Before(i) == IF i = 1 THEN 0 ELSE sizes[i - 1]

(* Every class is a multiple of the distance to the class before it, and   *)
(* these distances are powers of two; the next class will be one too.      *)
SpacingInv ==
  /\ TwoPower(align) /\ \E c \in 0 .. 7 : size = c * align
  /\ \A i \in 1 .. Len(sizes) :
       \E s \in Nat : TwoPower(s) /\ Divides(s, sizes[i]) /\ sizes[i] = Before(i) + s

LEMMA DividesMod ==
  ASSUME NEW a \in Nat, a >= 1, NEW x \in Nat
  PROVE  Divides(a, x) <=> x % a = 0
<1>1. \A i \in Nat, d \in Nat \ {0} :
        i \div d \in Nat /\ i % d \in 0 .. d - 1 /\ i = (i \div d) * d + (i % d)
  BY Z3
<1>2. PICK q \in Nat, r \in 0 .. a - 1 : q = x \div a /\ r = x % a /\ x = q * a + r
  BY <1>1
<1>3. r = 0 => Divides(a, x)
  <2>1. r = 0 => x = q * a /\ q \in Nat
    BY <1>1, <1>2
  <2> QED BY <2>1 DEF Divides
<1>4. ASSUME NEW c \in Nat, x = c * a PROVE r = 0
  <2>0. q \in Nat /\ r \in Nat /\ r < a
    BY <1>1, <1>2
  <2>1. c * a \in Nat /\ q * a \in Nat /\ q * a <= c * a /\ c * a < q * a + a
    BY <1>2, <1>4, <2>0
  <2>2. q * a < c * a => q * a + a <= c * a
    BY <2>0, Products
  <2>3. PICK y \in Nat, z \in Nat : y = q * a /\ z = c * a
    BY <2>1
  <2>4. x = y + r /\ x = z /\ y <= z /\ (y < z => y + a <= z)
    BY <1>2, <1>4, <2>1, <2>2, <2>3
  <2> QED BY <2>0, <2>3, <2>4
<1> QED BY <1>2, <1>3, <1>4 DEF Divides

LEMMA DividesTrans ==
  ASSUME NEW a \in Nat, NEW s \in Nat, NEW x \in Nat, Divides(a, s), Divides(s, x)
  PROVE  Divides(a, x)
<1>1. PICK c \in Nat, e \in Nat : s = c * a /\ x = e * s
  BY DEF Divides
<1>2. x = (e * c) * a /\ e * c \in Nat
  BY <1>1
<1> QED BY <1>2 DEF Divides

LEMMA PowersDivide ==
  ASSUME NEW a \in Table!PowersOfTwo, NEW b \in Table!PowersOfTwo
  PROVE  a \in Nat /\ a >= 1 /\ b \in Nat /\ b >= 1 /\ (Divides(a, b) \/ Divides(b, a))
<1>1. a \in Nat /\ a >= 1 /\ b \in Nat /\ b >= 1
  BY SMT DEF Table!PowersOfTwo
<1>2. b % a = 0 \/ a % b = 0
  BY SMTT(60) DEF Table!PowersOfTwo
<1> QED BY <1>1, <1>2, DividesMod

LEMMA LargestFacts ==
  /\ Largest \in Table!PowersOfTwo /\ Largest \in Nat
  /\ \A a \in Table!PowersOfTwo : Largest % a = 0
  /\ \A a \in Table!PowersOfTwo : a * 2 \in Table!PowersOfTwo \/ a * 2 = 2 * Largest
<1>1. Largest \in Table!PowersOfTwo /\ Largest \in Nat
  BY SMT DEF Table!PowersOfTwo, Largest
<1>2. \A a \in Table!PowersOfTwo : Largest % a = 0
  BY SMTT(60) DEF Table!PowersOfTwo, Largest
<1>3. \A a \in Table!PowersOfTwo : a * 2 \in Table!PowersOfTwo \/ a * 2 = 2 * Largest
  BY SMT DEF Table!PowersOfTwo, Largest
<1> QED BY <1>1, <1>2, <1>3

LEMMA TwoPowersDivide ==
  ASSUME NEW a \in Table!PowersOfTwo, NEW s, TwoPower(s)
  PROVE  Divides(a, s) \/ Divides(s, a)
<1>1. CASE s \in Table!PowersOfTwo
  BY <1>1, PowersDivide
<1>2. CASE Divides(Largest, s)
  <2>1. Largest \in Nat /\ a \in Nat /\ a >= 1 /\ s \in Nat
    BY LargestFacts, PowersDivide DEF TwoPower
  <2>2. Divides(a, Largest)
    BY <2>1, LargestFacts, DividesMod
  <2> QED BY <1>2, <2>1, <2>2, DividesTrans
<1>3. s \in Table!PowersOfTwo \/ Divides(Largest, s)
  BY DEF TwoPower
<1> QED BY <1>1, <1>2, <1>3

LEMMA TwoPowerDoubles == ASSUME NEW s, TwoPower(s) PROVE TwoPower(s * 2)
<1>0. s \in Nat /\ s >= 1
  BY DEF TwoPower
<1>1. CASE s \in Table!PowersOfTwo
  <2>1. s * 2 \in Table!PowersOfTwo \/ Divides(Largest, s * 2)
    BY <1>1, LargestFacts DEF Divides
  <2> QED BY <1>0, <2>1 DEF TwoPower
<1>2. CASE Divides(Largest, s)
  <2>1. PICK c \in Nat : s = c * Largest
    BY <1>2 DEF Divides
  <2>2. s * 2 = (2 * c) * Largest /\ 2 * c \in Nat
    BY <2>1, LargestFacts
  <2>3. Divides(Largest, s * 2)
    BY <2>2 DEF Divides
  <2> QED BY <1>0, <2>3 DEF TwoPower
<1>3. s \in Table!PowersOfTwo \/ Divides(Largest, s)
  BY DEF TwoPower
<1> QED BY <1>1, <1>2, <1>3

LEMMA SpacingStart == Table!Init => SpacingInv
<1> SUFFICES ASSUME Table!Init PROVE SpacingInv
  OBVIOUS
<1>1. sizes = << >> /\ size = 0 /\ align = ALIGNMENT
  BY DEF Table!Init
<1>2. TwoPower(ALIGNMENT)
  BY PowersAssumption, SizeConstants DEF Table!PowersAssumption, TwoPower
<1>3. size = 0 * align /\ 0 \in 0 .. 7
  BY <1>1, SizeConstants
<1> QED BY <1>1, <1>2, <1>3 DEF SpacingInv

LEMMA SpacingGrows == ASSUME SizesInv, SpacingInv, Table!TableEntry PROVE SpacingInv'
<1> DEFINE t == size + align
<1>1. /\ sizes' = Append(sizes, t) /\ size' = t
      /\ align' = IF t >= align * 8 THEN align * 2 ELSE align
  BY DEF Table!TableEntry, Table!DoubleSpacing
<1>2. /\ sizes \in Seq(Nat) /\ size \in Nat
      /\ sizes = << >> => size = 0
      /\ sizes # << >> => size = sizes[Len(sizes)]
  BY DEF SizesInv, TableInv
<1>3. align \in Nat /\ align >= 1 /\ TwoPower(align)
  BY DEF SpacingInv, TwoPower
<1>4. PICK c \in 0 .. 7 : size = c * align
  BY DEF SpacingInv
<1>5. t = (c + 1) * align /\ t \in Nat
  BY <1>2, <1>3, <1>4
<1>6. TwoPower(align') /\ \E e \in 0 .. 7 : size' = e * align'
  <2>1. CASE c = 7
    <3>1. t = 8 * align /\ align' = align * 2
      BY <1>1, <1>3, <1>5, <2>1
    <3>2. size' = 4 * align'
      BY <1>1, <1>3, <3>1
    <3> QED BY <1>3, <3>1, <3>2, TwoPowerDoubles
  <2>2. CASE c # 7
    <3>1. c + 1 \in 0 .. 7 /\ c + 1 < 8
      BY <2>2
    <3>2. t < align * 8
      BY <1>3, <1>5, <3>1
    <3>3. align' = align
      BY <1>1, <1>3, <1>5, <3>2
    <3> QED BY <1>1, <1>3, <1>5, <3>1, <3>3
  <2> QED BY <2>1, <2>2
<1>7. Divides(align, t)
  BY <1>5 DEF Divides
<1> HIDE DEF t
<1>8. PICK n \in Nat : n = Len(sizes)
  BY <1>2
<1>9. Len(sizes') = n + 1 /\ sizes'[n + 1] = t /\ \A i \in 1 .. n : sizes'[i] = sizes[i]
  BY <1>1, <1>2, <1>5, <1>8
<1>10. ASSUME NEW i \in 1 .. n + 1
       PROVE  \E s \in Nat : TwoPower(s) /\ Divides(s, sizes'[i]) /\ sizes'[i] = Before(i)' + s
  <2>1. CASE i = n + 1
    <3>1. Before(i)' = size
      <4>1. CASE n = 0
        <5>1. sizes # << >> => Len(sizes) # 0
          BY <1>2
        <5>2. sizes = << >>
          BY <1>8, <4>1, <5>1
        <5> QED BY <1>2, <2>1, <4>1, <5>2 DEF Before
      <4>2. CASE n # 0
        BY <1>2, <1>8, <1>9, <2>1, <4>2 DEF Before
      <4> QED BY <4>1, <4>2
    <3> QED BY <1>3, <1>7, <1>9, <2>1, <3>1 DEF t
  <2>2. CASE i \in 1 .. n
    <3>1. PICK s \in Nat : TwoPower(s) /\ Divides(s, sizes[i]) /\ sizes[i] = Before(i) + s
      BY <1>8, <2>2 DEF SpacingInv
    <3>2. Before(i)' = Before(i)
      BY <1>8, <1>9, <2>2 DEF Before
    <3> QED BY <1>9, <2>2, <3>1, <3>2
  <2>3. i = n + 1 \/ i \in 1 .. n
    OBVIOUS
  <2> QED BY <2>1, <2>2, <2>3
<1> QED BY <1>6, <1>9, <1>10 DEF SpacingInv

LEMMA SpacingStep == SizesInv /\ SpacingInv /\ [Table!Next]_Table!vars => SpacingInv'
<1> SUFFICES ASSUME SizesInv, SpacingInv, [Table!Next]_Table!vars PROVE SpacingInv'
  OBVIOUS
<1>1. CASE Table!TableEntry
  BY <1>1, SpacingGrows
<1>2. CASE ~Table!TableEntry
  <2>1. sizes' = sizes /\ size' = size /\ align' = align
    BY <1>2 DEF Table!Next, Table!vars, Table!TableDone, Table!SmallEntry, Table!SmallDone, Table!IndexEntry
  <2> QED BY <2>1 DEF SpacingInv, Before
<1> QED BY <1>1, <1>2

(* Classes keep alignments: a multiple of a power of two gets a class that *)
(* is one too.                                                             *)
LEMMA ClassesAligned == SizesInv /\ SpacingInv => Table!AlignmentKept
<1> SUFFICES ASSUME SizesInv, SpacingInv, loop = "index", entry > 0,
                    NEW a \in Table!PowersOfTwo, Table!UnitBytes(entry) % a = 0
             PROVE  Table!getSize(index) % a = 0
  BY DEF Table!AlignmentKept
<1>1. entry \in Nat /\ entry >= 1 /\ Minimal(sizes, index, Table!UnitBytes(entry))
  BY SizeConstants DEF SizesInv, MapsInv
<1>2. PICK u \in Nat : u = Table!UnitBytes(entry) /\ u >= 1
  <2>1. Table!UnitBytes(entry) = entry * ALIGNMENT
    BY <1>1 DEF Table!UnitBytes
  <2>2. entry * ALIGNMENT \in Nat /\ entry * ALIGNMENT >= 1
    BY <1>1, SizeConstants
  <2> QED BY <2>1, <2>2
<1>3. PICK i \in 1 .. Len(sizes) : i = index + 1 /\ sizes[i] >= u /\ \A k \in 1 .. i - 1 : sizes[k] < u
  <2>1. Len(sizes) \in Nat
    BY DEF SizesInv, TableInv
  <2>2. index \in 0 .. Len(sizes) - 1 /\ sizes[index + 1] >= u /\ \A k \in 1 .. index : sizes[k] < u
    BY <1>1, <1>2 DEF Minimal
  <2>3. index + 1 \in 1 .. Len(sizes) /\ (index + 1) - 1 = index
    BY <2>1, <2>2
  <2> QED BY <2>2, <2>3
<1>4. PICK s \in Nat : TwoPower(s) /\ Divides(s, sizes[i]) /\ sizes[i] = Before(i) + s
  BY <1>3 DEF SpacingInv
<1>5. sizes[i] \in Nat /\ Before(i) \in Nat /\ Before(i) < u
  <2>1. sizes \in Seq(Nat)
    BY DEF SizesInv, TableInv
  <2>2. CASE i = 1
    BY <1>2, <2>1, <2>2 DEF Before
  <2>3. CASE i # 1
    <3>1. i - 1 \in 1 .. i - 1 /\ i - 1 \in 1 .. Len(sizes)
      BY <1>3, <2>1, <2>3
    <3> QED BY <1>3, <2>1, <2>3, <3>1 DEF Before
  <2> QED BY <2>2, <2>3
<1>6. a \in Nat /\ a >= 1 /\ s \in Nat /\ s >= 1
  BY <1>4, PowersDivide DEF TwoPower
<1>7. Divides(a, u)
  BY <1>2, <1>6, DividesMod
<1>8. Divides(a, sizes[i])
  <2>1. CASE Divides(a, s)
    BY <1>4, <1>5, <1>6, <2>1, DividesTrans
  <2>2. CASE Divides(s, a)
    <3>1. PICK c \in Nat, e \in Nat : u = c * s /\ sizes[i] = e * s
      <4>1. Divides(s, u)
        BY <1>6, <1>7, <2>2, DividesTrans
      <4> QED BY <1>4, <4>1 DEF Divides
    <3>2. c * s < e * s => c * s + s <= e * s
      BY <1>6, Products
    <3>3. u = sizes[i]
      <4>1. c * s \in Nat /\ e * s \in Nat
        BY <1>6
      <4>2. ~(c * s < e * s)
        BY <1>4, <1>5, <1>6, <3>1, <3>2, <4>1
      <4> QED BY <1>3, <3>1, <4>1, <4>2
    <3> QED BY <1>7, <3>3
  <2> QED BY <1>4, <2>1, <2>2, TwoPowersDivide
<1> QED BY <1>3, <1>5, <1>6, <1>8, DividesMod DEF Table!getSize

-----------------------------------------------------------------------------
(* A span of a class holds a batch.                                        *)
LEMMA TableMin ==
  ASSUME NEW a \in Nat, NEW b \in Nat
  PROVE  Table!Min({a, b}) = IF a <= b THEN a ELSE b
<1> DEFINE m == IF a <= b THEN a ELSE b
<1>1. m \in {a, b} /\ \A y \in {a, b} : m <= y
  OBVIOUS
<1>2. \E x \in {a, b} : \A y \in {a, b} : x <= y
  BY <1>1
<1>3. Table!Min({a, b}) \in {a, b} /\ \A y \in {a, b} : Table!Min({a, b}) <= y
  BY <1>2 DEF Table!Min
<1> QED BY <1>1, <1>3

LEMMA TableMax ==
  ASSUME NEW a \in Nat, NEW b \in Nat
  PROVE  Table!Max({a, b}) = IF a >= b THEN a ELSE b
<1> DEFINE m == IF a >= b THEN a ELSE b
<1>1. m \in {a, b} /\ \A y \in {a, b} : m >= y
  OBVIOUS
<1>2. \E x \in {a, b} : \A y \in {a, b} : x >= y
  BY <1>1
<1>3. Table!Max({a, b}) \in {a, b} /\ \A y \in {a, b} : Table!Max({a, b}) >= y
  BY <1>2 DEF Table!Max
<1> QED BY <1>1, <1>3

LEMMA DivFacts ==
  ASSUME NEW x \in Nat, NEW d \in Nat, d >= 1
  PROVE  /\ x \div d \in Nat /\ x % d \in 0 .. d - 1 /\ x = (x \div d) * d + (x % d)
         /\ (x \div d) * d \in Nat /\ (x \div d) * d <= x /\ x < (x \div d) * d + d
         /\ \A k \in Nat : k * d <= x => k <= x \div d
<1>1. \A i \in Nat, e \in Nat \ {0} :
        i \div e \in Nat /\ i % e \in 0 .. e - 1 /\ i = (i \div e) * e + (i % e)
  BY Z3
<1>2. PICK q \in Nat, r \in 0 .. d - 1 : q = x \div d /\ r = x % d /\ x = q * d + r
  BY <1>1
<1>3. q * d \in Nat /\ q * d <= x /\ x < q * d + d
  BY <1>2
<1>4. ASSUME NEW k \in Nat, k * d <= x PROVE k <= q
  <2>1. q + 1 <= k => (q + 1) * d <= k * d
    BY Products
  <2>2. (q + 1) * d = q * d + d /\ k * d \in Nat
    BY Products
  <2> QED BY <1>2, <1>3, <1>4, <2>1, <2>2
<1> QED BY <1>2, <1>3, <1>4

(* How many blocks a batch has, and how many bytes.                        *)
BatchFits(s) == Table!getBatchNum(s) - 1 <= Table!maxCachedBlocks(s)

LEMMA BatchBounds ==
  ASSUME NEW s \in Nat, s >= 1
  PROVE  /\ Table!getBatchNum(s) \in Nat /\ Table!getBatchNum(s) >= 1
         /\ Table!getBatchNum(s) <=
              IF s <= 32 THEN 512 ELSE IF s <= 64 THEN 256 ELSE IF s <= 256 THEN 128
              ELSE IF s <= 1024 THEN 32 ELSE 16
         /\ Table!getBatchNum(s) = 1 \/ Table!getBatchNum(s) * s <= 65536
         /\ BatchFits(s)
<1> DEFINE m == Table!Max({s, ALIGNMENT})
           d == 65536 \div m
           k == Table!Max({1, d})
           cap == IF s <= 32 THEN 512 ELSE IF s <= 64 THEN 256 ELSE IF s <= 256 THEN 128
                  ELSE IF s <= 1024 THEN 32 ELSE 16
           low == Table!Min({k, cap})
           e == 262144 \div m
<1>1. m \in Nat /\ m >= 1 /\ s <= m
  BY SMT, SizeConstants, TableMax
<1> HIDE DEF m
<1>2. d \in Nat /\ d * m \in Nat /\ d * m <= 65536 /\ e \in Nat /\ d <= e
  <2>1. d \in Nat /\ d * m \in Nat /\ d * m <= 65536
    BY SMT, <1>1, DivFacts
  <2>2. e \in Nat /\ \A j \in Nat : j * m <= 262144 => j <= e
    BY SMT, <1>1, DivFacts
  <2> HIDE DEF d, e
  <2> QED BY SMT, <2>1, <2>2
<1> HIDE DEF d, e
<1>3. k \in Nat /\ k >= 1 /\ (k = 1 \/ k = d)
  BY SMT, <1>2, TableMax
<1> HIDE DEF k
<1>4. /\ cap \in Nat /\ cap >= 1
      /\ cap = IF s <= 32 THEN 512 ELSE IF s <= 64 THEN 256 ELSE IF s <= 256 THEN 128
               ELSE IF s <= 1024 THEN 32 ELSE 16
  BY SMT
<1>5. Table!getBatchNum(s) = Table!Max({1, low})
  BY SMT DEF Table!getBatchNum, k, d, m
<1> HIDE DEF cap
<1>6. low \in Nat /\ low >= 1 /\ low <= k /\ low <= cap
  BY SMT, <1>3, <1>4, TableMin
<1> HIDE DEF low
<1>7. Table!getBatchNum(s) = low
  BY SMT, <1>5, <1>6, TableMax
<1>8. low = 1 \/ low * s <= 65536
  <2>1. CASE k = 1
    BY SMT, <1>6, <2>1
  <2>2. CASE k = d
    <3>1. low * s <= low * m /\ low * m <= d * m /\ low * s \in Nat /\ low * m \in Nat
      <4>1. low * m <= d * m
        BY SMT, <1>1, <1>2, <1>6, <2>2, Products
      <4>2. s * low <= m * low /\ s * low = low * s /\ m * low = low * m
        BY SMT, <1>1, <1>6, Products
      <4> QED BY SMT, <1>1, <1>6, <4>1, <4>2
    <3> QED BY SMT, <1>2, <3>1
  <2> QED BY SMT, <1>3, <2>1, <2>2
<1>9. low - 1 <= Table!maxCachedBlocks(s)
  <2>1. CASE s <= 4096
    <3>1. Table!maxCachedBlocks(s) = IF s <= 32 THEN 4096 ELSE IF s <= 64 THEN 2048
            ELSE IF s <= 256 THEN 1024 ELSE IF s <= 1024 THEN 256 ELSE 512
      BY SMT, <2>1 DEF Table!maxCachedBlocks
    <3> QED BY SMT, <1>4, <1>6, <2>1, <3>1
  <2>2. CASE s > 4096
    <3>1. Table!maxCachedBlocks(s) = Table!Min({Table!Max({1, e}), 128})
      BY SMT, <2>2 DEF Table!maxCachedBlocks, e, m
    <3>2. PICK w \in Nat : w = Table!Max({1, e}) /\ w >= e /\ w >= 1
      BY SMT, <1>2, TableMax
    <3>3. Table!maxCachedBlocks(s) = IF w <= 128 THEN w ELSE 128
      BY SMT, <3>1, <3>2, TableMin
    <3>4. low <= 16
      BY SMT, <1>4, <1>6, <2>2
    <3>5. low <= w
      BY SMT, <1>2, <1>3, <1>6, <3>2
    <3> QED BY SMT, <1>6, <3>3, <3>4, <3>5
  <2> QED BY SMT, <2>1, <2>2
<1>10. BatchFits(s)
  BY SMT, <1>7, <1>9 DEF BatchFits
<1> QED BY SMT, <1>4, <1>6, <1>7, <1>8, <1>10

(* A target is a whole number of pages.                                    *)
WholePages(x) == \E n \in Nat : n >= 1 /\ x = n * PageSize

LEMMA TargetPages ==
  ASSUME NEW c \in {32768, 131072, 524288, 2097152}
  PROVE  /\ PageSize \in Nat /\ PageSize >= 1
         /\ WholePages(Table!Max({PageSize, c}))
<1>1. PageSize \in Table!PowersOfTwo
  BY SMT, PowersAssumption DEF Table!PowersAssumption
<1>2. PageSize \in Nat /\ PageSize >= 1
  BY SMT, <1>1 DEF Table!PowersOfTwo
<1>3. Table!Max({PageSize, c}) = IF PageSize >= c THEN PageSize ELSE c
  BY SMT, <1>2, TableMax
<1>4. PageSize >= c \/ Divides(PageSize, c)
  <2>1. PageSize >= c \/ c % PageSize = 0
    BY <1>1, SMTT(60) DEF Table!PowersOfTwo
  <2> QED BY SMT, <1>2, <2>1, DividesMod
<1>5. CASE PageSize >= c
  <2>1. Table!Max({PageSize, c}) = 1 * PageSize
    BY SMT, <1>2, <1>3, <1>5
  <2> QED BY SMT, <1>2, <2>1 DEF WholePages
<1>6. CASE Divides(PageSize, c) /\ ~(PageSize >= c)
  <2>1. PICK n \in Nat : c = n * PageSize
    BY SMT, <1>6 DEF Divides
  <2>2. n >= 1
    BY SMT, <1>2, <2>1
  <2> QED BY SMT, <1>2, <1>3, <1>6, <2>1, <2>2 DEF WholePages
<1> QED BY SMT, <1>4, <1>5, <1>6

LEMMA SpanHoldsBatch ==
  ASSUME NEW s \in Nat, s >= 1
  PROVE  /\ (Table!spanPages(s) * PageSize) \div s >= 1
         /\ (Table!spanPages(s) * PageSize) \div s >= Table!getBatchNum(s)
<1> DEFINE c == IF s <= 256 THEN 32768 ELSE IF s <= 1024 THEN 131072
                ELSE IF s <= 4096 THEN 524288 ELSE 2097152
           target == Table!Max({PageSize, c})
           bytes == IF s > target THEN ((s + PageSize - 1) \div PageSize) * PageSize ELSE target
           b == Table!getBatchNum(s)
<1>1. /\ c \in {32768, 131072, 524288, 2097152}
      /\ c = IF s <= 256 THEN 32768 ELSE IF s <= 1024 THEN 131072 ELSE IF s <= 4096 THEN 524288
             ELSE 2097152
  BY SMT
<1>2. Table!spanPages(s) = Table!Max({1, bytes \div PageSize})
  BY SMT DEF Table!spanPages
<1> HIDE DEF c
<1>3. PageSize \in Nat /\ PageSize >= 1 /\ WholePages(target)
  BY SMT, <1>1, TargetPages
<1>4. target \in Nat /\ target >= c
  BY SMT, <1>1, <1>3, TableMax
<1> HIDE DEF target
<1>5. b \in Nat /\ b >= 1 /\ (b = 1 \/ b * s <= 65536)
        /\ b <= IF s <= 32 THEN 512 ELSE IF s <= 64 THEN 256 ELSE IF s <= 256 THEN 128
                ELSE IF s <= 1024 THEN 32 ELSE 16
  BY SMT, BatchBounds
<1> HIDE DEF b
<1>6. b * s \in Nat /\ (b * s <= target \/ b = 1)
  <2>0. b * s \in Nat
    BY SMT, <1>5
  <2>1. CASE s <= 32
    <3>1. b * s <= 512 * s
      BY SMT, <1>5, <2>1, Products
    <3> QED BY SMT, <1>1, <1>4, <2>0, <2>1, <3>1
  <2>2. CASE s > 32 /\ s <= 64
    <3>1. b * s <= 256 * s
      BY SMT, <1>5, <2>2, Products
    <3> QED BY SMT, <1>1, <1>4, <2>0, <2>2, <3>1
  <2>3. CASE s > 64 /\ s <= 256
    <3>1. b * s <= 128 * s
      BY SMT, <1>5, <2>3, Products
    <3> QED BY SMT, <1>1, <1>4, <2>0, <2>3, <3>1
  <2>4. CASE s > 256
    BY SMT, <1>1, <1>4, <1>5, <2>0, <2>4
  <2> QED BY SMT, <2>1, <2>2, <2>3, <2>4
<1>7. PICK n \in Nat : n >= 1 /\ bytes = n * PageSize /\ b * s <= n * PageSize /\ s <= n * PageSize
  <2>1. CASE s > target
    <3> DEFINE n == (s + PageSize - 1) \div PageSize
    <3>1. s + PageSize - 1 \in Nat
      BY SMT, <1>3
    <3>2. n \in Nat /\ n * PageSize \in Nat /\ s + PageSize - 1 < n * PageSize + PageSize
      <4>1. PICK x \in Nat : x = s + PageSize - 1
        BY SMT, <3>1
      <4>2. x \div PageSize \in Nat /\ (x \div PageSize) * PageSize \in Nat
              /\ x < (x \div PageSize) * PageSize + PageSize
        BY SMT, <1>3, DivFacts
      <4> QED BY SMT, <4>1, <4>2
    <3>3. bytes = n * PageSize
      BY SMT, <2>1
    <3> HIDE DEF n
    <3>4. s <= n * PageSize
      BY SMT, <1>3, <3>2
    <3>5. n >= 1
      BY SMT, <1>3, <3>2, <3>4
    <3>6. b * s <= n * PageSize
      <4>1. CASE b = 1
        BY SMT, <3>4, <4>1
      <4>2. CASE b * s <= target
        <5>1. target <= n * PageSize
          BY SMT, <1>4, <2>1, <3>2, <3>4
        <5> QED BY SMT, <1>4, <1>6, <3>2, <4>2, <5>1
      <4> QED BY SMT, <1>6, <4>1, <4>2
    <3> QED BY SMT, <3>2, <3>3, <3>4, <3>5, <3>6
  <2>2. CASE ~(s > target)
    <3>1. PICK n \in Nat : n >= 1 /\ target = n * PageSize
      BY SMT, <1>3 DEF WholePages
    <3>2. bytes = n * PageSize /\ s <= n * PageSize
      BY SMT, <1>4, <2>2, <3>1
    <3>3. b * s <= n * PageSize
      <4>1. b = 1 => b * s = s
        BY SMT
      <4> QED BY SMT, <1>6, <3>1, <3>2, <4>1
    <3> QED BY SMT, <3>1, <3>2, <3>3
  <2> QED BY SMT, <2>1, <2>2
<1> HIDE DEF bytes
<1>8. bytes \div PageSize = n
  <2>1. n * PageSize \in Nat
    BY SMT, <1>3
  <2> DEFINE q == bytes \div PageSize
  <2>2. /\ q \in Nat /\ q * PageSize \in Nat /\ q * PageSize <= n * PageSize
        /\ \A k \in Nat : k * PageSize <= n * PageSize => k <= q
    BY SMT, <1>3, <1>7, <2>1, DivFacts
  <2> HIDE DEF q
  <2>3. n <= q
    BY SMT, <2>1, <2>2
  <2>4. n + 1 <= q => (n + 1) * PageSize <= q * PageSize
    BY SMT, <1>3, <2>2, Products
  <2>5. (n + 1) * PageSize = n * PageSize + PageSize
    BY SMT, <1>3, Products
  <2>6. q = n
    BY SMT, <1>3, <2>1, <2>2, <2>3, <2>4, <2>5
  <2> QED BY SMT, <2>6 DEF q
<1>9. Table!spanPages(s) = n
  BY SMT, <1>2, <1>7, <1>8, TableMax
<1>10. n * PageSize \in Nat
  BY SMT, <1>3
<1>11. \A k \in Nat : k * s <= n * PageSize => k <= (n * PageSize) \div s
  BY SMT, <1>10, DivFacts
<1>12. (n * PageSize) \div s \in Nat
  BY SMT, <1>10, DivFacts
<1>13. 1 * s = s
  BY SMT
<1>14. 1 <= (n * PageSize) \div s /\ b <= (n * PageSize) \div s
  BY SMT, <1>5, <1>7, <1>11, <1>13
<1> QED BY SMT, <1>5, <1>9, <1>12, <1>14 DEF b

LEMMA BatchFitsCache == \A s \in Nat : s >= 1 => BatchFits(s)
<1> SUFFICES ASSUME NEW s \in Nat, s >= 1 PROVE BatchFits(s)
  BY SMT
<1> QED BY SMT, BatchBounds

LEMMA SpansServe == SizesInv => Table!SpanServesBatch
<1> SUFFICES ASSUME SizesInv, sizes # << >>, NEW s, s = sizes[Len(sizes)]
             PROVE  /\ (Table!spanPages(s) * PageSize) \div s >= 1
                    /\ (Table!spanPages(s) * PageSize) \div s >= Table!getBatchNum(s)
                    /\ Table!getBatchNum(s) - 1 <= Table!maxCachedBlocks(s)
  BY DEF Table!SpanServesBatch
<1>1. s \in Nat /\ s >= 1
  <2>1. /\ sizes \in Seq(Nat) /\ sizes[1] = ALIGNMENT
        /\ \A i, j \in 1 .. Len(sizes) : i < j => sizes[i] < sizes[j]
    BY DEF SizesInv, TableInv
  <2>2. Len(sizes) \in Nat /\ Len(sizes) >= 1
    BY <2>1
  <2>3. Len(sizes) = 1 \/ sizes[1] < sizes[Len(sizes)]
    <3>1. PICK n \in Nat : n = Len(sizes)
      BY <2>2
    <3>2. 1 \in 1 .. n /\ n \in 1 .. n
      BY <2>2, <3>1
    <3> QED BY <2>1, <2>2, <3>1, <3>2
  <2>4. s \in Nat
    BY <2>1, <2>2
  <2>5. s = ALIGNMENT \/ ALIGNMENT < s
    BY <2>1, <2>3
  <2> QED BY <2>4, <2>5, SizeConstants
<1>2. Table!getBatchNum(s) - 1 <= Table!maxCachedBlocks(s)
  <2>1. BatchFits(s)
    BY <1>1, BatchFitsCache
  <2> QED BY <2>1 DEF BatchFits
<1> QED BY <1>1, <1>2, SpanHoldsBatch

(* The policies of the caches fit the table: multiples of an alignment get *)
(* classes that are multiples too (allocateAligned), a span holds a batch  *)
(* (createSpan, getBatchNum), a refill fits the cache (maxCachedBlocks).   *)
THEOREM PoliciesSuit == Table!Spec => []PoliciesFit
<1>1. Table!Spec => [](SizesInv /\ SpacingInv)
  BY SizesStart, SizesStep, SpacingStart, SpacingStep, PTL DEF Table!Spec
<1>2. SizesInv /\ SpacingInv => PoliciesFit
  BY ClassesAligned, SpansServe DEF PoliciesFit, Table!PoliciesFit
<1> QED BY <1>1, <1>2, PTL
=============================================================================
