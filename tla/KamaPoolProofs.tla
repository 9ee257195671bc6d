--------------------------- MODULE KamaPoolProofs ---------------------------
(***************************************************************************)
(* Proofs about the small-object path of the Kama pool, for any number of  *)
(* threads, size classes, spans and blocks, any batch size and limit:      *)
(* blocks are conserved, the lists and their counters are exact, and no    *)
(* span is left behind when all threads are gone.                          *)
(***************************************************************************)
EXTENDS KamaPool, SelectionProofs

USE NoThreadAssumption, NumClassesAssumption, BlockCountAssumption, BatchNumAssumption,
    MaxCachedAssumption

-----------------------------------------------------------------------------
(* A partition of the blocks that exist, E, into those free in their span, *)
(* F, those callers hold, U, the free lists L and the chains M.            *)

Partition(F, U, L, M, E) ==
  /\ F \subseteq Block /\ U \subseteq Block /\ E \subseteq Block
  /\ F \cap U = {}
  /\ \A t \in Threads : M[t] \subseteq Block /\ M[t] \cap F = {} /\ M[t] \cap U = {}
  /\ \A t \in Threads, c \in Class :
       L[t][c] \subseteq Block /\ L[t][c] \cap F = {} /\ L[t][c] \cap U = {}
  /\ \A t, u \in Threads : t # u => M[t] \cap M[u] = {}
  /\ \A t, u \in Threads : \A c \in Class : L[t][c] \cap M[u] = {}
  /\ \A t, u \in Threads : \A c, d \in Class : (t # u \/ c # d) => L[t][c] \cap L[u][d] = {}
  /\ \A b \in Block : b \in E <=> \/ b \in F \/ b \in U
                                  \/ \E t \in Threads : b \in M[t]
                                  \/ \E t \in Threads, c \in Class : b \in L[t][c]

(* One thread t moves blocks between its list of class c, its chain, the   *)
(* spans and the callers: O is what these four held before, N afterwards.  *)
(* What was in neither place must not have existed.                        *)
Moves(t, c, F, U, L, M, E, F2, U2, L2, M2, E2) ==
  LET A == L2[t][c]
      B == M2[t]
      O == F \cup U \cup L[t][c] \cup M[t]
      N == F2 \cup U2 \cup A \cup B
  IN  /\ N \subseteq Block
      /\ F2 \cap U2 = {} /\ F2 \cap A = {} /\ F2 \cap B = {}
      /\ U2 \cap A = {} /\ U2 \cap B = {} /\ A \cap B = {}
      /\ \A b \in N : b \in O \/ b \notin E
      /\ E2 = (E \ O) \cup N
      /\ \A u \in Threads, d \in Class : (u # t \/ d # c) => L2[u][d] = L[u][d]
      /\ \A u \in Threads : u # t => M2[u] = M[u]

LEMMA Redistribute ==
  ASSUME NEW F, NEW U, NEW E, NEW F2, NEW U2, NEW E2, NEW L, NEW L2, NEW M, NEW M2,
         NEW t \in Threads, NEW c \in Class,
         Partition(F, U, L, M, E), Moves(t, c, F, U, L, M, E, F2, U2, L2, M2, E2)
  PROVE  Partition(F2, U2, L2, M2, E2)
<1> DEFINE A == L2[t][c]
           B == M2[t]
           O == F \cup U \cup L[t][c] \cup M[t]
           N == F2 \cup U2 \cup A \cup B
<1>m. /\ N \subseteq Block
      /\ F2 \cap U2 = {} /\ F2 \cap A = {} /\ F2 \cap B = {}
      /\ U2 \cap A = {} /\ U2 \cap B = {} /\ A \cap B = {}
      /\ \A b \in N : b \in O \/ b \notin E
      /\ E2 = (E \ O) \cup N
      /\ \A u \in Threads, d \in Class : (u # t \/ d # c) => L2[u][d] = L[u][d]
      /\ \A u \in Threads : u # t => M2[u] = M[u]
  BY DEF Moves
<1>0. /\ F \subseteq Block /\ U \subseteq Block /\ E \subseteq Block
      /\ \A u \in Threads : M[u] \subseteq Block /\ M[u] \cap F = {} /\ M[u] \cap U = {}
      /\ \A u \in Threads, d \in Class :
           L[u][d] \subseteq Block /\ L[u][d] \cap F = {} /\ L[u][d] \cap U = {}
      /\ \A u, v \in Threads : u # v => M[u] \cap M[v] = {}
      /\ \A u, v \in Threads : \A d \in Class : L[u][d] \cap M[v] = {}
      /\ \A u, v \in Threads : \A d, e \in Class : (u # v \/ d # e) => L[u][d] \cap L[v][e] = {}
      /\ \A b \in Block : b \in E <=> \/ b \in F \/ b \in U
                                      \/ \E u \in Threads : b \in M[u]
                                      \/ \E u \in Threads, d \in Class : b \in L[u][d]
  BY DEF Partition
<1>1. \A u \in Threads : u # t => M[u] \subseteq E /\ M[u] \cap O = {} /\ M[u] \cap N = {}
  <2> SUFFICES ASSUME NEW u \in Threads, u # t, NEW b \in M[u]
               PROVE  b \in E /\ b \notin O /\ b \notin N
    OBVIOUS
  <2>1. b \in E
    BY <1>m, <1>0
  <2>2. b \notin O
    BY <1>m, <1>0
  <2> QED BY <1>m, <2>1, <2>2
<1>2. \A u \in Threads, d \in Class :
        (u # t \/ d # c) => L[u][d] \subseteq E /\ L[u][d] \cap O = {} /\ L[u][d] \cap N = {}
  <2> SUFFICES ASSUME NEW u \in Threads, NEW d \in Class, u # t \/ d # c, NEW b \in L[u][d]
               PROVE  b \in E /\ b \notin O /\ b \notin N
    OBVIOUS
  <2>1. b \in E
    BY <1>m, <1>0
  <2>2. b \notin O
    BY <1>m, <1>0
  <2> QED BY <1>m, <2>1, <2>2
<1>3. F2 \subseteq Block /\ U2 \subseteq Block /\ E2 \subseteq Block
  BY <1>m, <1>0
<1>4. \A u \in Threads : M2[u] \subseteq Block /\ M2[u] \cap F2 = {} /\ M2[u] \cap U2 = {}
  BY <1>m, <1>0, <1>1
<1>5. \A u \in Threads, d \in Class :
        L2[u][d] \subseteq Block /\ L2[u][d] \cap F2 = {} /\ L2[u][d] \cap U2 = {}
  BY <1>m, <1>0, <1>2
<1>6. \A u, v \in Threads : u # v => M2[u] \cap M2[v] = {}
  BY <1>m, <1>0, <1>1
<1>7. \A u, v \in Threads : \A d \in Class : L2[u][d] \cap M2[v] = {}
  BY <1>m, <1>0, <1>1, <1>2
<1>8. \A u, v \in Threads : \A d, e \in Class : (u # v \/ d # e) => L2[u][d] \cap L2[v][e] = {}
  BY <1>m, <1>0, <1>2
<1>9. ASSUME NEW b \in Block
      PROVE  b \in E2 <=> \/ b \in F2 \/ b \in U2
                          \/ \E u \in Threads : b \in M2[u]
                          \/ \E u \in Threads, d \in Class : b \in L2[u][d]
  <2>1. CASE b \in N
    BY <1>m, <2>1
  <2>2. CASE b \notin N /\ b \in E2
    <3>1. b \in E /\ b \notin O
      BY <1>m, <2>2
    <3>2. CASE \E u \in Threads : b \in M[u]
      BY <1>m, <2>2, <3>1, <3>2
    <3>3. CASE \E u \in Threads, d \in Class : b \in L[u][d]
      BY <1>m, <2>2, <3>1, <3>3
    <3> QED BY <1>m, <1>0, <2>2, <3>1, <3>2, <3>3
  <2>3. CASE b \notin N /\ b \notin E2
    <3>1. b \notin E \/ b \in O
      BY <1>m, <2>3
    <3>2. \A u \in Threads : b \notin M2[u]
      BY <1>m, <1>1, <2>3, <3>1
    <3>3. \A u \in Threads, d \in Class : b \notin L2[u][d]
      BY <1>m, <1>2, <2>3, <3>1
    <3> QED BY <1>m, <2>3, <3>2, <3>3
  <2> QED BY <1>m, <2>1, <2>2, <2>3
<1>10. F2 \cap U2 = {}
  BY <1>m
<1> HIDE DEF A, B, O, N
<1> QED BY <1>3, <1>4, <1>5, <1>6, <1>7, <1>8, <1>9, <1>10 DEF Partition

-----------------------------------------------------------------------------
(* The inductive invariant.                                                *)

Pc == {"ready", "gone", "fetch_lock", "fetch", "return_lock", "return", "flush_lock", "flush",
       "exit"}
CallType == [pc : Pc, class : Nat, chain : Seq(Block)]

(* What a call in state k may look like.                                   *)
CallShape(k) ==
  /\ k.pc = "ready" => k = Ready
  /\ k.pc = "gone" => k = Gone
  /\ k.pc \in {"fetch_lock", "exit"} => k.chain = << >>
  /\ k.pc \in {"fetch_lock", "fetch", "return_lock", "return", "flush_lock", "flush"} => k.class \in Class
  /\ k.pc = "exit" => k.class \in 1 .. NumClasses + 1

(* The thread's lists that are empty then: the one that is being refilled, *)
(* and at exit those that were flushed.                                    *)
Emptied(k) ==
  {c \in Class : \/ k.pc \in {"fetch_lock", "fetch"} /\ c = k.class
                 \/ k.pc = "exit" /\ c < k.class
                 \/ k.pc \in {"flush_lock", "flush"} /\ c <= k.class
                 \/ k.pc = "gone"}

FreeBlocks == {b \in Block : b[2] \in ToSet(spanList[b[1]])}
Cut == {b \in Block : sizeClass[b[1]] \in Class \/ (sizeClass[b[1]] = Large /\ b[2] = 1)}
ListSets  == [t \in Threads |-> [c \in Class |-> ToSet(freeList[t][c])]]
ChainSets == [t \in Threads |-> ToSet(call[t].chain)]

Placed == Partition(FreeBlocks, inUse, ListSets, ChainSets, Cut)

ThreadInv ==
  /\ freeList \in [Threads -> [Class -> Seq(Block)]]
  /\ freeListSize \in [Threads -> [Class -> Nat]]
  /\ call \in [Threads -> CallType]
  /\ inUse \subseteq Block
  /\ \A t \in Threads :
       /\ CallShape(call[t])
       /\ \A c \in Emptied(call[t]) : freeList[t][c] = << >>
       /\ IsInjective(call[t].chain)
       /\ \A b \in ToSet(call[t].chain) : sizeClass[b[1]] = call[t].class
  /\ \A t \in Threads, c \in Class :
       /\ freeListSize[t][c] = Len(freeList[t][c])
       /\ IsInjective(freeList[t][c])
       /\ \A b \in ToSet(freeList[t][c]) : sizeClass[b[1]] = c

SpanInv ==
  /\ sizeClass \in [Spans -> 0 .. NumClasses + 1]
  /\ spanList \in [Spans -> Seq(1 .. BlockCount)]
  /\ freeCount \in [Spans -> Nat]
  /\ partial \in [Class -> Seq(Spans)]
  /\ \A s \in Spans : /\ IsInjective(spanList[s]) /\ freeCount[s] = Len(spanList[s])
                      /\ freeCount[s] < BlockCount
                      /\ sizeClass[s] \notin Class => spanList[s] = << >>
  /\ \A c \in Class : IsInjective(partial[c])
  /\ \A c \in Class : ToSet(partial[c]) = {s \in Spans : sizeClass[s] = c /\ freeCount[s] > 0}

PoolInv == ThreadInv /\ SpanInv /\ Placed

(* A step of thread t that leaves other threads and its lists of other     *)
(* classes alone: list l and call k are the new ones.  O is what t's list, *)
(* t's chain, the spans and the callers held before, N afterwards.         *)
Before(t, c) == FreeBlocks \cup inUse \cup ToSet(freeList[t][c]) \cup ToSet(call[t].chain)
After(l, k)  == FreeBlocks' \cup inUse' \cup ToSet(l) \cup ToSet(k.chain)

OwnStep(t, c, l, k) ==
  LET O == Before(t, c)
      N == After(l, k)
  IN  /\ freeList' = [freeList EXCEPT ![t][c] = l]
      /\ freeListSize' = [freeListSize EXCEPT ![t][c] = Len(l)]
      /\ call' = [call EXCEPT ![t] = k]
      /\ IsInjective(l) /\ IsInjective(k.chain) /\ CallShape(k)
      /\ \A d \in Emptied(k) : IF d = c THEN l = << >> ELSE freeList[t][d] = << >>
      /\ inUse' \subseteq Block
      /\ FreeBlocks' \cap inUse' = {} /\ FreeBlocks' \cap ToSet(l) = {}
      /\ FreeBlocks' \cap ToSet(k.chain) = {} /\ inUse' \cap ToSet(l) = {}
      /\ inUse' \cap ToSet(k.chain) = {} /\ ToSet(l) \cap ToSet(k.chain) = {}
      /\ \A b \in N : b \in O \/ b \notin Cut
      /\ Cut' = (Cut \ O) \cup N
      /\ \A b \in Cut \ O : sizeClass'[b[1]] = sizeClass[b[1]]
      /\ \A b \in ToSet(l) : sizeClass'[b[1]] = c
      /\ \A b \in ToSet(k.chain) : sizeClass'[b[1]] = k.class

LEMMA ThreadStep ==
  ASSUME PoolInv, NEW t \in Threads, NEW c \in Class, NEW l \in Seq(Block), NEW k \in CallType,
         OwnStep(t, c, l, k)
  PROVE  ThreadInv' /\ Placed'
<1> DEFINE O == Before(t, c)
           N == After(l, k)
<1>h. /\ freeList' = [freeList EXCEPT ![t][c] = l]
      /\ freeListSize' = [freeListSize EXCEPT ![t][c] = Len(l)]
      /\ call' = [call EXCEPT ![t] = k]
      /\ IsInjective(l) /\ IsInjective(k.chain) /\ CallShape(k)
      /\ \A d \in Emptied(k) : IF d = c THEN l = << >> ELSE freeList[t][d] = << >>
      /\ inUse' \subseteq Block
      /\ FreeBlocks' \cap inUse' = {} /\ FreeBlocks' \cap ToSet(l) = {}
      /\ FreeBlocks' \cap ToSet(k.chain) = {} /\ inUse' \cap ToSet(l) = {}
      /\ inUse' \cap ToSet(k.chain) = {} /\ ToSet(l) \cap ToSet(k.chain) = {}
      /\ \A b \in N : b \in O \/ b \notin Cut
      /\ Cut' = (Cut \ O) \cup N
      /\ \A b \in Cut \ O : sizeClass'[b[1]] = sizeClass[b[1]]
      /\ \A b \in ToSet(l) : sizeClass'[b[1]] = c
      /\ \A b \in ToSet(k.chain) : sizeClass'[b[1]] = k.class
  BY DEF OwnStep
<1>0. /\ freeList \in [Threads -> [Class -> Seq(Block)]]
      /\ freeListSize \in [Threads -> [Class -> Nat]]
      /\ call \in [Threads -> CallType]
  BY DEF PoolInv, ThreadInv
<1>1. /\ freeList' \in [Threads -> [Class -> Seq(Block)]] /\ freeList'[t][c] = l
      /\ \A u \in Threads, d \in Class : (u # t \/ d # c) => freeList'[u][d] = freeList[u][d]
  BY <1>h, <1>0
<1>2. /\ freeListSize' \in [Threads -> [Class -> Nat]] /\ freeListSize'[t][c] = Len(l)
      /\ \A u \in Threads, d \in Class : (u # t \/ d # c) => freeListSize'[u][d] = freeListSize[u][d]
  BY <1>h, <1>0
<1>3. /\ call' \in [Threads -> CallType] /\ call'[t] = k
      /\ \A u \in Threads : u # t => call'[u] = call[u]
  BY <1>h, <1>0
<1>4. k.chain \in Seq(Block)
  BY DEF CallType
<1>5. Placed'
  <2>1. Partition(FreeBlocks, inUse, ListSets, ChainSets, Cut)
    BY DEF PoolInv, Placed
  <2>2. /\ ListSets[t][c] = ToSet(freeList[t][c]) /\ ChainSets[t] = ToSet(call[t].chain)
        /\ ListSets'[t][c] = ToSet(l) /\ ChainSets'[t] = ToSet(k.chain)
    BY <1>h, <1>1, <1>3 DEF ListSets, ChainSets
  <2>3. \A u \in Threads, d \in Class : (u # t \/ d # c) => ListSets'[u][d] = ListSets[u][d]
    BY <1>h, <1>1 DEF ListSets
  <2>4. \A u \in Threads : u # t => ChainSets'[u] = ChainSets[u]
    BY <1>h, <1>3 DEF ChainSets
  <2>5. N \subseteq Block
    BY <1>h, <1>4, SetOf DEF FreeBlocks, After
  <2>6. Partition(FreeBlocks', inUse', ListSets', ChainSets', Cut')
    <3> DEFINE F2 == FreeBlocks'  U2 == inUse'  L2 == ListSets'  M2 == ChainSets'  E2 == Cut'
    <3>1. Moves(t, c, FreeBlocks, inUse, ListSets, ChainSets, Cut, F2, U2, L2, M2, E2)
      BY <1>h, <2>2, <2>3, <2>4, <2>5 DEF Moves, Before, After
    <3> HIDE DEF F2, U2, L2, M2, E2
    <3>2. Partition(F2, U2, L2, M2, E2)
      BY <1>h, <2>1, <3>1, Redistribute
    <3> QED BY <1>h, <3>2 DEF F2, U2, L2, M2, E2
  <2> QED BY <1>h, <2>6 DEF Placed
<1>6. /\ \A u \in Threads, d \in Class : (u # t \/ d # c) =>
             \A b \in ToSet(freeList[u][d]) : b \in Cut \ O
      /\ \A u \in Threads : u # t => \A b \in ToSet(call[u].chain) : b \in Cut \ O
  <2>1. Partition(FreeBlocks, inUse, ListSets, ChainSets, Cut)
    BY DEF PoolInv, Placed
  <2>2. /\ \A u \in Threads, d \in Class : ListSets[u][d] = ToSet(freeList[u][d])
        /\ \A u \in Threads : ChainSets[u] = ToSet(call[u].chain)
    BY DEF ListSets, ChainSets
  <2>3. \A u \in Threads, d \in Class : ListSets[u][d] \subseteq Cut
    BY <1>h, <2>1 DEF Partition
  <2>4. \A u \in Threads : ChainSets[u] \subseteq Cut
    BY <1>h, <2>1 DEF Partition
  <2>5. O = FreeBlocks \cup inUse \cup ListSets[t][c] \cup ChainSets[t]
    BY <2>2 DEF Before
  <2>6. \A u \in Threads, d \in Class : (u # t \/ d # c) => ListSets[u][d] \cap O = {}
    BY <1>h, <2>1, <2>5 DEF Partition
  <2>7. \A u \in Threads : u # t => ChainSets[u] \cap O = {}
    BY <1>h, <2>1, <2>5 DEF Partition
  <2> QED BY SMTT(30), <1>h, <2>2, <2>3, <2>4, <2>6, <2>7
<1>7. ASSUME NEW u \in Threads
      PROVE  /\ CallShape(call[u])'
             /\ \A d \in Emptied(call[u])' : freeList'[u][d] = << >>
             /\ IsInjective(call[u].chain)'
             /\ \A b \in ToSet(call'[u].chain) : sizeClass'[b[1]] = call'[u].class
  <2>1. CASE u = t
    <3>1. Emptied(call'[u]) \subseteq Class
      BY DEF Emptied
    <3> QED BY <1>h, <1>1, <1>3, <2>1, <3>1
  <2>2. CASE u # t
    <3>1. /\ CallShape(call[u]) /\ IsInjective(call[u].chain)
          /\ \A d \in Emptied(call[u]) : freeList[u][d] = << >>
          /\ \A b \in ToSet(call[u].chain) : sizeClass[b[1]] = call[u].class
      BY DEF PoolInv, ThreadInv
    <3>2. call'[u] = call[u]
      BY <1>h, <1>3, <2>2
    <3>3. Emptied(call'[u]) \subseteq Class
      BY DEF Emptied
    <3>4. \A b \in ToSet(call'[u].chain) : sizeClass'[b[1]] = call'[u].class
      BY <1>h, <1>6, <2>2, <3>1, <3>2
    <3> QED BY <1>h, <1>1, <2>2, <3>1, <3>2, <3>3, <3>4
  <2> QED BY <1>h, <2>1, <2>2
<1>8. ASSUME NEW u \in Threads, NEW d \in Class
      PROVE  /\ freeListSize'[u][d] = Len(freeList'[u][d])
             /\ IsInjective(freeList'[u][d])
             /\ \A b \in ToSet(freeList'[u][d]) : sizeClass'[b[1]] = d
  <2>1. CASE u = t /\ d = c
    BY <1>h, <1>1, <1>2, <2>1
  <2>2. CASE u # t \/ d # c
    <3>1. /\ freeListSize[u][d] = Len(freeList[u][d]) /\ IsInjective(freeList[u][d])
          /\ \A b \in ToSet(freeList[u][d]) : sizeClass[b[1]] = d
      BY DEF PoolInv, ThreadInv
    <3>2. freeList'[u][d] = freeList[u][d] /\ freeListSize'[u][d] = freeListSize[u][d]
      BY <1>h, <1>1, <1>2, <2>2
    <3> QED BY <1>h, <1>6, <2>2, <3>1, <3>2
  <2> QED BY <1>h, <2>1, <2>2
<1> QED BY <1>h, <1>1, <1>2, <1>3, <1>5, <1>7, <1>8 DEF ThreadInv

(* What the invariant says about one thread and one class.                 *)
LEMMA Own ==
  ASSUME PoolInv, NEW t \in Threads, NEW c \in Class
  PROVE  /\ freeList[t][c] \in Seq(Block) /\ IsInjective(freeList[t][c])
         /\ freeListSize[t][c] = Len(freeList[t][c])
         /\ \A b \in ToSet(freeList[t][c]) : sizeClass[b[1]] = c
         /\ call[t] \in CallType /\ call[t].chain \in Seq(Block) /\ IsInjective(call[t].chain)
         /\ CallShape(call[t]) /\ \A d \in Emptied(call[t]) : freeList[t][d] = << >>
         /\ \A b \in ToSet(call[t].chain) : sizeClass[b[1]] = call[t].class
         /\ inUse \subseteq Block /\ inUse \subseteq Cut /\ FreeBlocks \subseteq Cut
         /\ ToSet(freeList[t][c]) \subseteq Cut /\ ToSet(call[t].chain) \subseteq Cut
         /\ FreeBlocks \cap inUse = {} /\ FreeBlocks \cap ToSet(freeList[t][c]) = {}
         /\ FreeBlocks \cap ToSet(call[t].chain) = {} /\ inUse \cap ToSet(freeList[t][c]) = {}
         /\ inUse \cap ToSet(call[t].chain) = {}
         /\ ToSet(freeList[t][c]) \cap ToSet(call[t].chain) = {}
<1>1. /\ freeList[t][c] \in Seq(Block) /\ IsInjective(freeList[t][c])
      /\ freeListSize[t][c] = Len(freeList[t][c])
      /\ \A b \in ToSet(freeList[t][c]) : sizeClass[b[1]] = c
      /\ call[t] \in CallType /\ IsInjective(call[t].chain)
      /\ CallShape(call[t]) /\ \A d \in Emptied(call[t]) : freeList[t][d] = << >>
      /\ \A b \in ToSet(call[t].chain) : sizeClass[b[1]] = call[t].class
      /\ inUse \subseteq Block
  BY DEF PoolInv, ThreadInv
<1>2. call[t].chain \in Seq(Block)
  BY <1>1 DEF CallType
<1>3. ListSets[t][c] = ToSet(freeList[t][c]) /\ ChainSets[t] = ToSet(call[t].chain)
  BY DEF ListSets, ChainSets
<1>4. Partition(FreeBlocks, inUse, ListSets, ChainSets, Cut)
  BY DEF PoolInv, Placed
<1>5. /\ inUse \subseteq Cut /\ FreeBlocks \subseteq Cut
      /\ ListSets[t][c] \subseteq Cut /\ ChainSets[t] \subseteq Cut
      /\ FreeBlocks \cap inUse = {} /\ FreeBlocks \cap ListSets[t][c] = {}
      /\ FreeBlocks \cap ChainSets[t] = {} /\ inUse \cap ListSets[t][c] = {}
      /\ inUse \cap ChainSets[t] = {} /\ ListSets[t][c] \cap ChainSets[t] = {}
  BY <1>4 DEF Partition
<1> QED BY <1>1, <1>2, <1>3, <1>5

(* Steps that leave the central cache alone.                               *)
LEMMA CentralSame ==
  ASSUME PoolInv, UNCHANGED centralVars
  PROVE  SpanInv' /\ FreeBlocks' = FreeBlocks /\ Cut' = Cut /\ sizeClass' = sizeClass
BY DEF PoolInv, SpanInv, centralVars, FreeBlocks, Cut

LEMMA SameList ==
  ASSUME PoolInv, NEW t \in Threads, NEW c \in Class, UNCHANGED threadVars
  PROVE  /\ freeList' = [freeList EXCEPT ![t][c] = freeList[t][c]]
         /\ freeListSize' = [freeListSize EXCEPT ![t][c] = Len(freeList[t][c])]
BY DEF PoolInv, ThreadInv, threadVars

LEMMA SameCall ==
  ASSUME PoolInv, NEW t \in Threads, UNCHANGED call
  PROVE  call' = [call EXCEPT ![t] = call[t]]
BY DEF PoolInv, ThreadInv

(* Steps of a call that move no block.                                     *)
LEMMA CallStep ==
  ASSUME PoolInv, NEW t \in Threads, NEW k \in CallType, call' = [call EXCEPT ![t] = k],
         UNCHANGED <<threadVars, centralVars, inUse>>,
         k.chain = call[t].chain, CallShape(k),
         k.chain # << >> => k.class = call[t].class,
         \A d \in Emptied(k) : freeList[t][d] = << >>
  PROVE  PoolInv'
<1> DEFINE c == 1
           l == freeList[t][c]
           O == FreeBlocks \cup inUse \cup ToSet(l) \cup ToSet(call[t].chain)
<1>1. c \in Class
  BY DEF Class
<1> HIDE DEF c
<1>2. SpanInv' /\ FreeBlocks' = FreeBlocks /\ Cut' = Cut /\ sizeClass' = sizeClass /\ inUse' = inUse
  BY CentralSame
<1>3. /\ freeList' = [freeList EXCEPT ![t][c] = l]
      /\ freeListSize' = [freeListSize EXCEPT ![t][c] = Len(l)]
  BY <1>1, SameList
<1>4. /\ l \in Seq(Block) /\ IsInjective(l) /\ IsInjective(k.chain)
      /\ \A b \in ToSet(l) : sizeClass[b[1]] = c
      /\ \A b \in ToSet(call[t].chain) : sizeClass[b[1]] = call[t].class
      /\ inUse \subseteq Block /\ inUse \subseteq Cut /\ FreeBlocks \subseteq Cut
      /\ ToSet(l) \subseteq Cut /\ ToSet(k.chain) \subseteq Cut
      /\ FreeBlocks \cap inUse = {} /\ FreeBlocks \cap ToSet(l) = {}
      /\ FreeBlocks \cap ToSet(k.chain) = {} /\ inUse \cap ToSet(l) = {}
      /\ inUse \cap ToSet(k.chain) = {} /\ ToSet(l) \cap ToSet(k.chain) = {}
      /\ call[t].chain \in Seq(Block)
  BY <1>1, Own
<1>5. \A b \in ToSet(k.chain) : sizeClass[b[1]] = k.class
  BY <1>4, SetOf
<1>6. Cut = (Cut \ O) \cup O /\ O = Before(t, c) /\ O = After(l, k)
  BY <1>2, <1>4 DEF Before, After
<1>7. \A d \in Emptied(k) : IF d = c THEN l = << >> ELSE freeList[t][d] = << >>
  OBVIOUS
<1> HIDE DEF l, O
<1>8. OwnStep(t, c, l, k)
  BY <1>2, <1>3, <1>4, <1>5, <1>6, <1>7 DEF OwnStep
<1>9. ThreadInv' /\ Placed'
  BY <1>1, <1>4, <1>8, ThreadStep
<1> QED BY <1>2, <1>9 DEF PoolInv

LEMMA FetchKeeps ==
  ASSUME PoolInv, NEW t \in Threads, NEW c \in Class, FetchFromCentralCache(t, c)
  PROVE  PoolInv'
<1> DEFINE k == Call("fetch_lock", c, << >>)
<1>1. call[t] = Ready /\ freeList[t][c] = << >> /\ call' = [call EXCEPT ![t] = k]
      /\ UNCHANGED <<threadVars, centralVars, inUse>>
  BY DEF FetchFromCentralCache, SetCall
<1>2. k \in CallType /\ CallShape(k) /\ k.chain = << >> /\ call[t].chain = << >>
  BY <1>1 DEF CallType, CallShape, Call, Ready, Class, Pc
<1>3. Emptied(k) \subseteq {c}
  BY DEF Emptied, Call
<1> HIDE DEF k
<1> QED BY <1>1, <1>2, <1>3, CallStep

LEMMA LockKeeps ==
  ASSUME PoolInv, NEW t \in Threads, Lock(t)
  PROVE  PoolInv'
<1> DEFINE k == [call[t] EXCEPT !.pc = CASE @ = "fetch_lock"  -> "fetch"
                                         [] @ = "return_lock" -> "return"
                                         [] @ = "flush_lock"  -> "flush"]
<1>0. 1 \in Class
  BY DEF Class
<1>1. call[t] \in CallType /\ CallShape(call[t])
      /\ \A d \in Emptied(call[t]) : freeList[t][d] = << >>
  BY <1>0, Own
<1>2. /\ call[t].pc \in {"fetch_lock", "return_lock", "flush_lock"}
      /\ call' = [call EXCEPT ![t].pc = CASE @ = "fetch_lock"  -> "fetch"
                                          [] @ = "return_lock" -> "return"
                                          [] @ = "flush_lock"  -> "flush"]
      /\ UNCHANGED <<threadVars, centralVars, inUse>>
  BY DEF Lock
<1>3. call' = [call EXCEPT ![t] = k]
  BY <1>2
<1>4. /\ k \in CallType /\ k.chain = call[t].chain /\ k.class = call[t].class
      /\ \/ call[t].pc = "fetch_lock" /\ k.pc = "fetch"
         \/ call[t].pc = "return_lock" /\ k.pc = "return"
         \/ call[t].pc = "flush_lock" /\ k.pc = "flush"
  BY <1>1, <1>2 DEF CallType, Pc
<1> HIDE DEF k
<1>5. CallShape(k)
  BY <1>1, <1>4 DEF CallShape
<1>6. Emptied(k) \subseteq Emptied(call[t])
  BY <1>4 DEF Emptied
<1> QED BY <1>1, <1>2, <1>3, <1>4, <1>5, <1>6, CallStep

LEMMA ReturnDoneKeeps ==
  ASSUME PoolInv, NEW t \in Threads, ReturnDone(t)
  PROVE  PoolInv'
<1> DEFINE c == call[t].class
           k == IF call[t].pc = "return" THEN Ready ELSE Call("exit", c + 1, << >>)
<1>0. 1 \in Class
  BY DEF Class
<1>1. call[t] \in CallType /\ CallShape(call[t])
      /\ \A d \in Emptied(call[t]) : freeList[t][d] = << >>
  BY <1>0, Own
<1>2. /\ call[t].pc \in {"return", "flush"} /\ call[t].chain = << >>
      /\ call' = [call EXCEPT ![t] = k]
      /\ UNCHANGED <<threadVars, centralVars, inUse>>
  BY DEF ReturnDone, SetCall
<1>3. c \in Class /\ c \in 1 .. NumClasses /\ c + 1 \in 1 .. NumClasses + 1
  BY <1>1, <1>2 DEF CallShape, Class
<1> HIDE DEF c
<1>4. k \in CallType /\ CallShape(k) /\ k.chain = << >>
  BY <1>3 DEF CallType, CallShape, Call, Ready, Pc
<1>5. Emptied(k) \subseteq Emptied(call[t])
  <2>1. CASE call[t].pc = "return"
    BY <2>1 DEF Emptied, Ready, Call
  <2>2. CASE call[t].pc = "flush"
    <3>1. k.pc = "exit" /\ k.class = c + 1
      BY <2>2 DEF Call
    <3>2. \A d \in Class : d < c + 1 => d <= c
      BY <1>3 DEF Class
    <3> QED BY <2>2, <3>1, <3>2 DEF Emptied, c
  <2> QED BY <1>2, <2>1, <2>2
<1> HIDE DEF k
<1> QED BY <1>1, <1>2, <1>4, <1>5, CallStep

LEMMA ExitKeeps ==
  ASSUME PoolInv, NEW t \in Threads, Exit(t)
  PROVE  PoolInv'
<1> DEFINE k == Call("exit", 1, << >>)
<1>1. call[t] = Ready /\ call' = [call EXCEPT ![t] = k] /\ UNCHANGED <<threadVars, centralVars, inUse>>
  BY DEF Exit, SetCall
<1>2. k \in CallType /\ CallShape(k) /\ k.chain = << >> /\ call[t].chain = << >>
  BY <1>1 DEF CallType, CallShape, Call, Ready, Pc
<1>3. Emptied(k) = {}
  BY DEF Emptied, Call, Class
<1> HIDE DEF k
<1> QED BY <1>1, <1>2, <1>3, CallStep

LEMMA StartKeeps ==
  ASSUME PoolInv, NEW t \in Threads, Start(t)
  PROVE  PoolInv'
<1>1. call[t] = Gone /\ call' = [call EXCEPT ![t] = Ready] /\ UNCHANGED <<threadVars, centralVars, inUse>>
  BY DEF Start, SetCall
<1>2. Ready \in CallType /\ CallShape(Ready) /\ Ready.chain = << >> /\ call[t].chain = << >>
  BY <1>1 DEF CallType, CallShape, Call, Ready, Gone, Pc
<1>3. Emptied(Ready) = {}
  BY DEF Emptied, Ready, Call
<1> QED BY <1>1, <1>2, <1>3, CallStep

LEMMA AllocateCachedKeeps ==
  ASSUME PoolInv, NEW t \in Threads, NEW c \in Class, AllocateCached(t, c)
  PROVE  PoolInv'
<1> DEFINE q == freeList[t][c]
           l == Tail(q)
           k == call[t]
           b == Head(q)
<1>1. /\ k = Ready /\ q # << >> /\ freeList' = [freeList EXCEPT ![t][c] = l]
      /\ freeListSize' = [freeListSize EXCEPT ![t][c] = freeListSize[t][c] - 1]
      /\ inUse' = inUse \cup {b} /\ UNCHANGED call /\ UNCHANGED centralVars
  BY DEF AllocateCached
<1>2. SpanInv' /\ FreeBlocks' = FreeBlocks /\ Cut' = Cut /\ sizeClass' = sizeClass
  BY <1>1, CentralSame
<1>3. /\ q \in Seq(Block) /\ IsInjective(q) /\ freeListSize[t][c] = Len(q)
      /\ \A x \in ToSet(q) : sizeClass[x[1]] = c
      /\ k \in CallType /\ CallShape(k) /\ IsInjective(k.chain)
      /\ \A d \in Emptied(k) : freeList[t][d] = << >>
      /\ inUse \subseteq Block /\ inUse \subseteq Cut /\ FreeBlocks \subseteq Cut
      /\ ToSet(q) \subseteq Cut /\ FreeBlocks \cap inUse = {} /\ FreeBlocks \cap ToSet(q) = {}
      /\ inUse \cap ToSet(q) = {}
  BY Own
<1>4. call' = [call EXCEPT ![t] = k]
  BY <1>1, SameCall
<1>5. k.chain = << >> /\ ToSet(k.chain) = {}
  BY <1>1 DEF Ready, Call, ToSet
<1>6. Emptied(k) = {}
  BY <1>1 DEF Emptied, Ready, Call
<1> HIDE DEF q, k
<1>7. /\ b \in Block /\ b \in ToSet(q) /\ l \in Seq(Block) /\ Len(l) = Len(q) - 1
      /\ IsInjective(l) /\ ToSet(l) = ToSet(q) \ {b}
  BY <1>1, <1>3, TailSet
<1> HIDE DEF l, b
<1>8. Before(t, c) = FreeBlocks \cup inUse \cup ToSet(q)
  BY <1>5 DEF Before, q, k
<1>9. After(l, k) = FreeBlocks \cup inUse \cup ToSet(q)
  BY <1>1, <1>2, <1>5, <1>7 DEF After
<1>10. OwnStep(t, c, l, k)
  <2>1. freeListSize' = [freeListSize EXCEPT ![t][c] = Len(l)]
    BY <1>1, <1>3, <1>7
  <2>2. /\ inUse' \subseteq Block /\ FreeBlocks' \cap inUse' = {} /\ FreeBlocks' \cap ToSet(l) = {}
        /\ inUse' \cap ToSet(l) = {} /\ \A x \in ToSet(l) : sizeClass'[x[1]] = c
    BY <1>1, <1>2, <1>3, <1>7
  <2>3. /\ \A x \in After(l, k) : x \in Before(t, c)
        /\ Cut' = (Cut \ Before(t, c)) \cup After(l, k)
    BY <1>2, <1>3, <1>8, <1>9
  <2>4. /\ FreeBlocks' \cap ToSet(k.chain) = {} /\ inUse' \cap ToSet(k.chain) = {}
        /\ ToSet(l) \cap ToSet(k.chain) = {} /\ \A x \in ToSet(k.chain) : sizeClass'[x[1]] = k.class
    BY <1>5
  <2> QED BY <1>1, <1>2, <1>3, <1>4, <1>6, <1>7, <2>1, <2>2, <2>3, <2>4 DEF OwnStep
<1>11. ThreadInv' /\ Placed'
  BY <1>3, <1>7, <1>10, ThreadStep
<1> QED BY <1>2, <1>11 DEF PoolInv

LEMMA FetchDoneKeeps ==
  ASSUME PoolInv, NEW t \in Threads, FetchDone(t)
  PROVE  PoolInv'
<1> DEFINE c == call[t].class
           q == call[t].chain
           l == Tail(q)
           b == Head(q)
<1>0. 1 \in Class
  BY DEF Class
<1>a. call[t].pc = "fetch" /\ call' = [call EXCEPT ![t] = Ready] /\ UNCHANGED centralVars
  BY DEF FetchDone, SetCall
<1>b. CallShape(call[t]) /\ \A d \in Emptied(call[t]) : freeList[t][d] = << >>
  BY <1>0, Own
<1>1. c \in Class /\ c \in Emptied(call[t]) /\ freeList[t][c] = << >>
  BY <1>a, <1>b DEF CallShape, Emptied
<1>2. SpanInv' /\ FreeBlocks' = FreeBlocks /\ Cut' = Cut /\ sizeClass' = sizeClass
  BY <1>a, CentralSame
<1>3. /\ q \in Seq(Block) /\ IsInjective(q) /\ freeListSize[t][c] = Len(freeList[t][c])
      /\ \A x \in ToSet(q) : sizeClass[x[1]] = c
      /\ inUse \subseteq Block /\ inUse \subseteq Cut /\ FreeBlocks \subseteq Cut
      /\ ToSet(q) \subseteq Cut /\ FreeBlocks \cap inUse = {} /\ FreeBlocks \cap ToSet(q) = {}
      /\ inUse \cap ToSet(q) = {}
  BY <1>1, Own
<1>4. /\ Ready \in CallType /\ CallShape(Ready) /\ Ready.chain = << >> /\ ToSet(Ready.chain) = {}
      /\ IsInjective(Ready.chain) /\ Emptied(Ready) = {} /\ ToSet(freeList[t][c]) = {}
  BY <1>1 DEF CallType, CallShape, Call, Ready, Pc, Emptied, ToSet, IsInjective
<1>5. CASE q = << >>
  <2>1. UNCHANGED <<threadVars, centralVars, inUse>>
    BY <1>5 DEF FetchDone
  <2> QED BY <1>a, <1>4, <1>5, <2>1, CallStep
<1>6. CASE q # << >>
  <2>1. /\ freeList' = [freeList EXCEPT ![t][c] = l]
        /\ freeListSize' = [freeListSize EXCEPT ![t][c] = freeListSize[t][c] + Len(q) - 1]
        /\ inUse' = inUse \cup {b}
    BY <1>6 DEF FetchDone
  <2>2. Len(freeList[t][c]) = 0
    BY <1>1
  <2>8. Before(t, c) = FreeBlocks \cup inUse \cup ToSet(q)
    BY <1>4 DEF Before
  <2> HIDE DEF q, c
  <2>7. /\ b \in Block /\ b \in ToSet(q) /\ l \in Seq(Block) /\ Len(l) = Len(q) - 1
        /\ IsInjective(l) /\ ToSet(l) = ToSet(q) \ {b}
    BY <1>6, <1>3, TailSet
  <2>3. Len(q) \in Nat
    BY <1>3
  <2>4. freeListSize' = [freeListSize EXCEPT ![t][c] = Len(l)]
    BY <1>3, <2>1, <2>2, <2>3, <2>7
  <2> HIDE DEF l, b
  <2>9. After(l, Ready) = FreeBlocks \cup inUse \cup ToSet(q)
    BY <1>2, <1>4, <2>1, <2>7 DEF After
  <2>10. OwnStep(t, c, l, Ready)
    BY <1>a, <1>1, <1>2, <1>3, <1>4, <2>1, <2>4, <2>7, <2>8, <2>9 DEF OwnStep
  <2>11. ThreadInv' /\ Placed'
    BY <1>1, <1>4, <2>7, <2>10, ThreadStep
  <2> QED BY <1>2, <2>11 DEF PoolInv
<1> QED BY <1>5, <1>6

LEMMA FlushClassKeeps ==
  ASSUME PoolInv, NEW t \in Threads, FlushClass(t)
  PROVE  PoolInv'
<1> DEFINE c == call[t].class
           q == freeList[t][c]
<1>0. 1 \in Class
  BY DEF Class
<1>a. call[t].pc = "exit" /\ UNCHANGED <<centralVars, inUse>>
  BY DEF FlushClass
<1>b. CallShape(call[t]) /\ \A d \in Emptied(call[t]) : freeList[t][d] = << >>
  BY <1>0, Own
<1>1. c \in 1 .. NumClasses + 1 /\ call[t].chain = << >> /\ ToSet(call[t].chain) = {}
  BY <1>a, <1>b DEF CallShape, ToSet
<1>c. \A d \in Class : d < c => freeList[t][d] = << >>
  BY <1>a, <1>b DEF Emptied
<1>2. CASE c > NumClasses
  <2>1. call' = [call EXCEPT ![t] = Gone] /\ UNCHANGED threadVars
    BY <1>2 DEF FlushClass, SetCall
  <2>2. Gone \in CallType /\ CallShape(Gone) /\ Gone.chain = << >>
    BY DEF CallType, CallShape, Call, Gone, Pc
  <2>3. \A d \in Class : d < c
    BY <1>1, <1>2 DEF Class
  <2>4. \A d \in Emptied(Gone) : freeList[t][d] = << >>
    BY <1>c, <2>3 DEF Emptied
  <2> QED BY <1>a, <1>1, <2>1, <2>2, <2>4, CallStep
<1>3. CASE c <= NumClasses
  <2>1. c \in Class
    BY <1>1, <1>3 DEF Class
  <2>2. /\ q \in Seq(Block) /\ IsInjective(q) /\ freeListSize[t][c] = Len(q)
        /\ \A x \in ToSet(q) : sizeClass[x[1]] = c
        /\ inUse \subseteq Block /\ inUse \subseteq Cut /\ FreeBlocks \subseteq Cut
        /\ ToSet(q) \subseteq Cut /\ FreeBlocks \cap inUse = {} /\ FreeBlocks \cap ToSet(q) = {}
        /\ inUse \cap ToSet(q) = {}
    BY <2>1, Own
  <2>3. CASE q # << >>
    <3> DEFINE k == Call("flush_lock", c, q)
    <3>1. q # << >> /\ freeListSize[t][c] > 0 /\ ~(c > NumClasses)
      BY <1>1, <1>3, <2>2, <2>3
    <3>2. /\ call' = [call EXCEPT ![t] = k] /\ freeList' = [freeList EXCEPT ![t][c] = << >>]
          /\ freeListSize' = [freeListSize EXCEPT ![t][c] = 0]
      BY <3>1 DEF FlushClass, SetCall
    <3>3. SpanInv' /\ FreeBlocks' = FreeBlocks /\ Cut' = Cut /\ sizeClass' = sizeClass
      BY <1>a, CentralSame
    <3>4. k \in CallType /\ CallShape(k) /\ k.chain = q /\ k.class = c
      BY <2>1, <2>2 DEF CallType, CallShape, Call, Pc, Class
    <3>5. /\ << >> \in Seq(Block) /\ ToSet(<< >>) = {} /\ IsInjective(<< >>) /\ Len(<< >>) = 0
      BY DEF ToSet, IsInjective
    <3>6. \A d \in Emptied(k) : d # c => freeList[t][d] = << >>
      <4>1. \A d \in Class : d <= c /\ d # c => d < c
        BY <2>1 DEF Class
      <4> QED BY <1>c, <4>1 DEF Emptied, Call
    <3>8. Before(t, c) = FreeBlocks \cup inUse \cup ToSet(q)
      BY <1>1 DEF Before
    <3> HIDE DEF k, q, c
    <3>9. After(<< >>, k) = FreeBlocks \cup inUse \cup ToSet(q)
      BY <1>a, <3>3, <3>4, <3>5 DEF After
    <3>10. OwnStep(t, c, << >>, k)
      BY <1>a, <2>1, <2>2, <3>2, <3>3, <3>4, <3>5, <3>6, <3>8, <3>9 DEF OwnStep
    <3>11. ThreadInv' /\ Placed'
      BY <2>1, <3>4, <3>5, <3>10, ThreadStep
    <3> QED BY <3>3, <3>11 DEF PoolInv
  <2>4. CASE q = << >>
    <3> DEFINE k == Call("exit", c + 1, << >>)
    <3>1. call' = [call EXCEPT ![t] = k] /\ UNCHANGED threadVars
      BY <1>1, <1>3, <2>4 DEF FlushClass, SetCall
    <3>2. k \in CallType /\ CallShape(k) /\ k.chain = << >>
      BY <1>1, <1>3 DEF CallType, CallShape, Call, Pc
    <3>3. \A d \in Class : d < c + 1 => d = c \/ d < c
      BY <2>1 DEF Class
    <3>4. \A d \in Emptied(k) : freeList[t][d] = << >>
      BY <1>c, <2>4, <3>3 DEF Emptied, Call
    <3> HIDE DEF k
    <3> QED BY <1>a, <1>1, <3>1, <3>2, <3>4, CallStep
  <2> QED BY <2>3, <2>4
<1> QED BY <1>1, <1>2, <1>3

(* Steps of a thread that is not in a call: its chain is empty.            *)
LEMMA Idle ==
  ASSUME PoolInv, NEW t \in Threads, call[t] = Ready
  PROVE  /\ call[t].chain = << >> /\ ToSet(call[t].chain) = {} /\ Emptied(call[t]) = {}
         /\ call[t] \in CallType /\ CallShape(call[t]) /\ IsInjective(call[t].chain)
BY DEF Ready, Call, ToSet, Emptied, CallType, CallShape, Pc, IsInjective

LEMMA KeepNumType ==
  ASSUME NEW n \in Nat
  PROVE  KeepNum(n) \in Nat
<1>1. \A x, y \in Nat : Max({x, y}) \in Nat /\ Min({x, y}) \in Nat
  <2> TAKE x, y \in Nat
  <2>1. \E z \in {x, y} : \A v \in {x, y} : z >= v
    <3>1. CASE x >= y
      BY <3>1
    <3>2. CASE y >= x
      BY <3>2
    <3> QED BY <3>1, <3>2
  <2>2. \E z \in {x, y} : \A v \in {x, y} : z <= v
    <3>1. CASE x <= y
      BY <3>1
    <3>2. CASE y <= x
      BY <3>2
    <3> QED BY <3>1, <3>2
  <2>3. Max({x, y}) \in {x, y}
    BY <2>1 DEF Max
  <2>4. Min({x, y}) \in {x, y}
    BY <2>2 DEF Min
  <2> QED BY <2>3, <2>4
<1>2. n \div 2 \in Nat
  OBVIOUS
<1> DEFINE h == n \div 2
           m == Max({h, 1})
<1> HIDE DEF h
<1>3. m \in Nat
  BY <1>1, <1>2 DEF h
<1> HIDE DEF m
<1> QED BY <1>1, <1>3 DEF KeepNum, m, h

LEMMA DeallocateKeeps ==
  ASSUME PoolInv, NEW t \in Threads, NEW b \in Block, Deallocate(t, b)
  PROVE  PoolInv'
<1> DEFINE c == FreeClass(b)
           q == freeList[t][c]
           l == <<b>> \o q
           n == freeListSize[t][c] + 1
<1>1. /\ call[t] = Ready /\ b \in inUse /\ c \in Class /\ inUse' = inUse \ {b}
      /\ UNCHANGED centralVars
  BY DEF Deallocate
<1>2. SpanInv' /\ FreeBlocks' = FreeBlocks /\ Cut' = Cut /\ sizeClass' = sizeClass
  BY <1>1, CentralSame
<1>3. /\ q \in Seq(Block) /\ IsInjective(q) /\ freeListSize[t][c] = Len(q)
      /\ \A x \in ToSet(q) : sizeClass[x[1]] = c
      /\ inUse \subseteq Block /\ inUse \subseteq Cut /\ FreeBlocks \subseteq Cut
      /\ ToSet(q) \subseteq Cut /\ FreeBlocks \cap inUse = {} /\ FreeBlocks \cap ToSet(q) = {}
      /\ inUse \cap ToSet(q) = {}
  BY <1>1, Own
<1>4. /\ call[t].chain = << >> /\ ToSet(call[t].chain) = {} /\ Emptied(call[t]) = {}
      /\ call[t] \in CallType /\ CallShape(call[t]) /\ IsInjective(call[t].chain)
  BY <1>1, Idle
<1>5. sizeClass[b[1]] = c
  BY DEF FreeClass
<1>6. n \in Nat /\ n = Len(q) + 1 /\ KeepNum(n) \in Nat
  <2>1. Len(q) \in Nat
    BY <1>3, SetOf
  <2>2. n \in Nat /\ n = Len(q) + 1
    BY <1>3, <2>1
  <2> HIDE DEF n
  <2> QED BY <2>2, KeepNumType
<1>7. IF n > MaxCached /\ KeepNum(n) < n
      THEN /\ freeList'     = [freeList EXCEPT ![t][c] = SubSeq(l, 1, KeepNum(n))]
           /\ freeListSize' = [freeListSize EXCEPT ![t][c] = KeepNum(n)]
           /\ call' = [call EXCEPT ![t] = Call("return_lock", c, SubSeq(l, KeepNum(n) + 1, Len(l)))]
      ELSE /\ freeList'     = [freeList EXCEPT ![t][c] = l]
           /\ freeListSize' = [freeListSize EXCEPT ![t][c] = n]
           /\ UNCHANGED call
  BY DEF Deallocate, SetCall
<1>8. Before(t, c) = FreeBlocks \cup inUse \cup ToSet(q)
  BY <1>4 DEF Before
<1> HIDE DEF c, q, n
<1>9. l \in Seq(Block) /\ Len(l) = n /\ IsInjective(l) /\ ToSet(l) = ToSet(q) \cup {b}
  BY <1>1, <1>3, <1>6, ConsSet
<1> HIDE DEF l
<1>10. \A x \in ToSet(l) : sizeClass[x[1]] = c
  BY <1>3, <1>5, <1>9
<1>11. CASE n > MaxCached /\ KeepNum(n) < n
  <2> DEFINE m == KeepNum(n)
             r == SubSeq(l, 1, m)
             o == SubSeq(l, m + 1, Len(l))
             k == Call("return_lock", c, o)
  <2>1. /\ freeList' = [freeList EXCEPT ![t][c] = r]
        /\ freeListSize' = [freeListSize EXCEPT ![t][c] = m]
        /\ call' = [call EXCEPT ![t] = k]
    BY <1>7, <1>11
  <2>2. m \in 0 .. Len(l)
    BY <1>6, <1>9, <1>11
  <2> HIDE DEF m
  <2>3. /\ r \in Seq(Block) /\ Len(r) = m /\ IsInjective(r)
        /\ o \in Seq(Block) /\ IsInjective(o)
        /\ ToSet(r) \cap ToSet(o) = {} /\ ToSet(r) \cup ToSet(o) = ToSet(l)
    BY <1>9, <2>2, SplitSet
  <2> HIDE DEF r, o
  <2>4. k \in CallType /\ CallShape(k) /\ k.chain = o /\ k.class = c /\ Emptied(k) = {}
    BY <1>1, <2>3 DEF CallType, CallShape, Call, Pc, Class, Emptied
  <2> HIDE DEF k
  <2>5. After(r, k) = FreeBlocks \cup inUse \cup ToSet(q)
    BY <1>1, <1>2, <1>9, <2>3, <2>4 DEF After
  <2>6. OwnStep(t, c, r, k)
    BY <1>1, <1>2, <1>3, <1>8, <1>9, <1>10, <2>1, <2>3, <2>4, <2>5 DEF OwnStep
  <2>7. ThreadInv' /\ Placed'
    BY <1>1, <2>3, <2>4, <2>6, ThreadStep
  <2> QED BY <1>2, <2>7 DEF PoolInv
<1>12. CASE ~(n > MaxCached /\ KeepNum(n) < n)
  <2> DEFINE k == call[t]
  <2>1. /\ freeList' = [freeList EXCEPT ![t][c] = l]
        /\ freeListSize' = [freeListSize EXCEPT ![t][c] = n]
        /\ UNCHANGED call
    BY <1>7, <1>12
  <2>2. call' = [call EXCEPT ![t] = k]
    BY <2>1, SameCall
  <2> HIDE DEF k
  <2>3. After(l, k) = FreeBlocks \cup inUse \cup ToSet(q)
    BY <1>1, <1>2, <1>4, <1>9 DEF After, k
  <2>4. OwnStep(t, c, l, k)
    BY ZenonT(30), <1>1, <1>2, <1>3, <1>4, <1>8, <1>9, <1>10, <2>1, <2>2, <2>3 DEF OwnStep, k
  <2>5. ThreadInv' /\ Placed'
    BY <1>1, <1>4, <1>9, <2>4, ThreadStep DEF k
  <2> QED BY <1>2, <2>5 DEF PoolInv
<1> QED BY <1>11, <1>12

(* The spans as the invariant describes them.                              *)
LEMMA SpanFacts ==
  ASSUME PoolInv, NEW s \in Spans
  PROVE  /\ sizeClass[s] \in 0 .. NumClasses + 1 /\ spanList[s] \in Seq(1 .. BlockCount)
         /\ freeCount[s] = Len(spanList[s]) /\ freeCount[s] \in Nat /\ freeCount[s] < BlockCount
         /\ IsInjective(spanList[s])
         /\ sizeClass[s] \notin Class => spanList[s] = << >> /\ freeCount[s] = 0
BY DEF PoolInv, SpanInv

LEMMA LargeSpan ==
  ASSUME PoolInv, NEW s \in Spans, NEW v \in {Unused, Large}, sizeClass[s] \in {Unused, Large},
         sizeClass' = [sizeClass EXCEPT ![s] = v], UNCHANGED <<partial, spanList, freeCount>>
  PROVE  /\ SpanInv' /\ FreeBlocks' = FreeBlocks
         /\ sizeClass'[s] = v /\ \A r \in Spans : r # s => sizeClass'[r] = sizeClass[r]
<1>0. /\ sizeClass \in [Spans -> 0 .. NumClasses + 1]
      /\ Unused \notin Class /\ Large \notin Class
      /\ Unused \in 0 .. NumClasses + 1 /\ Large \in 0 .. NumClasses + 1
  BY DEF PoolInv, SpanInv, Unused, Large, Class
<1>1. /\ sizeClass' \in [Spans -> 0 .. NumClasses + 1] /\ sizeClass'[s] = v
      /\ \A r \in Spans : r # s => sizeClass'[r] = sizeClass[r]
  BY <1>0
<1>2. FreeBlocks' = FreeBlocks
  BY DEF FreeBlocks
<1>3. \A r \in Spans, c \in Class : sizeClass'[r] = c <=> sizeClass[r] = c
  BY <1>0, <1>1
<1>4. \A r \in Spans : sizeClass'[r] \notin Class <=> sizeClass[r] \notin Class
  BY <1>0, <1>1
<1>5. \A c \in Class : ToSet(partial'[c]) = {r \in Spans : sizeClass'[r] = c /\ freeCount'[r] > 0}
  <2> TAKE c \in Class
  <2>1. ToSet(partial[c]) = {r \in Spans : sizeClass[r] = c /\ freeCount[r] > 0}
    BY DEF PoolInv, SpanInv
  <2> QED BY <1>3, <2>1
<1>6. SpanInv
  BY DEF PoolInv
<1>7. SpanInv'
  BY <1>1, <1>4, <1>5, <1>6 DEF SpanInv
<1> QED BY <1>1, <1>2, <1>7

LEMMA AllocateLargeKeeps ==
  ASSUME PoolInv, NEW t \in Threads, NEW s \in Spans, AllocateLarge(t, s)
  PROVE  PoolInv'
<1> DEFINE c == 1
           q == freeList[t][c]
           k == call[t]
           b == <<s, 1>>
<1>0. c \in Class /\ b \in Block
  BY DEF Class, Block
<1>a. b[1] = s /\ b[2] = 1
  OBVIOUS
<1>1. /\ k = Ready /\ sizeClass[s] = Unused /\ sizeClass' = [sizeClass EXCEPT ![s] = Large]
      /\ inUse' = inUse \cup {b} /\ UNCHANGED threadVars /\ UNCHANGED call
      /\ UNCHANGED <<partial, spanList, freeCount>>
  BY DEF AllocateLarge
<1> HIDE DEF c, b
<1>2. /\ SpanInv' /\ FreeBlocks' = FreeBlocks
      /\ sizeClass'[s] = Large /\ \A r \in Spans : r # s => sizeClass'[r] = sizeClass[r]
  BY <1>1, LargeSpan
<1>3. /\ q \in Seq(Block) /\ IsInjective(q)
      /\ \A x \in ToSet(q) : sizeClass[x[1]] = c
      /\ inUse \subseteq Block /\ inUse \subseteq Cut /\ FreeBlocks \subseteq Cut
      /\ ToSet(q) \subseteq Cut /\ FreeBlocks \cap inUse = {} /\ FreeBlocks \cap ToSet(q) = {}
      /\ inUse \cap ToSet(q) = {}
  BY <1>0, Own
<1>4. /\ k.chain = << >> /\ ToSet(k.chain) = {} /\ Emptied(k) = {}
      /\ k \in CallType /\ CallShape(k) /\ IsInjective(k.chain)
  BY <1>1, Idle
<1>5. /\ freeList' = [freeList EXCEPT ![t][c] = q]
      /\ freeListSize' = [freeListSize EXCEPT ![t][c] = Len(q)]
      /\ call' = [call EXCEPT ![t] = k]
  BY <1>0, <1>1, SameList, SameCall
<1>6. Unused \notin Class /\ Large \notin Class /\ Unused # Large
  BY DEF Unused, Large, Class
<1>7. \A x \in Block : x[1] \in Spans /\ (x[1] = s /\ x[2] = 1 => x = b)
  BY DEF Block, b
<1>8. \A x \in Cut : x[1] # s
  BY <1>1, <1>6 DEF Cut
<1>9. Cut' = Cut \cup {b}
  BY <1>0, <1>a, <1>2, <1>6, <1>7, <1>8 DEF Cut
<1>10. \A x \in Cut : sizeClass'[x[1]] = sizeClass[x[1]]
  BY <1>2, <1>7, <1>8 DEF Cut
<1>11. Before(t, c) = FreeBlocks \cup inUse \cup ToSet(q)
  BY <1>4 DEF Before
<1>12. b \notin Cut
  BY <1>a, <1>8
<1> HIDE DEF q, k
<1>13. After(q, k) = FreeBlocks \cup inUse \cup ToSet(q) \cup {b}
  BY <1>1, <1>2, <1>4 DEF After
<1>14. OwnStep(t, c, q, k)
  <2>1. \A x \in ToSet(q) : sizeClass'[x[1]] = c
    BY <1>3, <1>10
  <2>2. Cut' = (Cut \ Before(t, c)) \cup After(q, k)
    BY <1>3, <1>9, <1>11, <1>12, <1>13
  <2>3. \A x \in After(q, k) : x \in Before(t, c) \/ x \notin Cut
    BY <1>11, <1>12, <1>13
  <2> QED BY ZenonT(30), <1>0, <1>1, <1>2, <1>3, <1>4, <1>5, <1>10, <1>12, <2>1, <2>2, <2>3 DEF OwnStep
<1>15. ThreadInv' /\ Placed'
  BY <1>0, <1>3, <1>4, <1>14, ThreadStep
<1> QED BY <1>2, <1>15 DEF PoolInv

LEMMA DeallocateLargeKeeps ==
  ASSUME PoolInv, NEW t \in Threads, NEW b \in Block, DeallocateLarge(t, b)
  PROVE  PoolInv'
<1> DEFINE c == 1
           q == freeList[t][c]
           k == call[t]
           s == b[1]
<1>0. c \in Class /\ s \in Spans
  BY DEF Class, Block
<1>1. /\ k = Ready /\ sizeClass[s] = Large /\ sizeClass' = [sizeClass EXCEPT ![s] = Unused]
      /\ b \in inUse /\ inUse' = inUse \ {b} /\ UNCHANGED threadVars /\ UNCHANGED call
      /\ UNCHANGED <<partial, spanList, freeCount>>
  BY DEF DeallocateLarge
<1> HIDE DEF c
<1>2. /\ SpanInv' /\ FreeBlocks' = FreeBlocks
      /\ sizeClass'[s] = Unused /\ \A r \in Spans : r # s => sizeClass'[r] = sizeClass[r]
  BY <1>0, <1>1, LargeSpan
<1>3. /\ q \in Seq(Block) /\ IsInjective(q)
      /\ \A x \in ToSet(q) : sizeClass[x[1]] = c
      /\ inUse \subseteq Block /\ inUse \subseteq Cut /\ FreeBlocks \subseteq Cut
      /\ ToSet(q) \subseteq Cut /\ FreeBlocks \cap inUse = {} /\ FreeBlocks \cap ToSet(q) = {}
      /\ inUse \cap ToSet(q) = {}
  BY <1>0, Own
<1>4. /\ k.chain = << >> /\ ToSet(k.chain) = {} /\ Emptied(k) = {}
      /\ k \in CallType /\ CallShape(k) /\ IsInjective(k.chain)
  BY <1>1, Idle
<1>5. /\ freeList' = [freeList EXCEPT ![t][c] = q]
      /\ freeListSize' = [freeListSize EXCEPT ![t][c] = Len(q)]
      /\ call' = [call EXCEPT ![t] = k]
  BY <1>0, <1>1, SameList, SameCall
<1>6. Unused \notin Class /\ Large \notin Class /\ Unused # Large
  BY DEF Unused, Large, Class
<1>7. \A x, y \in Block : x[1] \in Spans /\ (x[1] = y[1] /\ x[2] = y[2] => x = y)
  BY DEF Block
<1>8. \A x \in Cut : x[1] = s => x = b
  <2>1. \A x \in Cut : x \in Block /\ (x[1] = s => x[2] = 1)
    BY <1>1, <1>6 DEF Cut
  <2>2. b \in Cut
    BY <1>1, <1>3
  <2> QED BY <1>7, <2>1, <2>2
<1>9. Cut' = Cut \ {b}
  <2>1. \A x \in Block : x[1] # s => (x \in Cut' <=> x \in Cut)
    BY <1>2, <1>7 DEF Cut
  <2>2. \A x \in Block : x[1] = s => x \notin Cut'
    BY <1>2, <1>6 DEF Cut
  <2>3. Cut \subseteq Block /\ Cut' \subseteq Block
    BY DEF Cut
  <2> QED BY <1>8, <2>1, <2>2, <2>3
<1>10. \A x \in Cut : x # b => sizeClass'[x[1]] = sizeClass[x[1]]
  BY <1>2, <1>7, <1>8 DEF Cut
<1>11. Before(t, c) = FreeBlocks \cup inUse \cup ToSet(q)
  BY <1>4 DEF Before
<1> HIDE DEF q, k, s
<1>13. After(q, k) = FreeBlocks \cup (inUse \ {b}) \cup ToSet(q)
  BY <1>1, <1>2, <1>4 DEF After
<1>14. OwnStep(t, c, q, k)
  <2>1. \A x \in ToSet(q) : sizeClass'[x[1]] = c
    BY <1>1, <1>3, <1>10
  <2>2. Cut' = (Cut \ Before(t, c)) \cup After(q, k)
    BY <1>1, <1>3, <1>9, <1>11, <1>13
  <2>3. \A x \in Cut \ Before(t, c) : sizeClass'[x[1]] = sizeClass[x[1]]
    BY <1>1, <1>10, <1>11
  <2> QED BY <1>0, <1>1, <1>2, <1>3, <1>4, <1>5, <1>11, <1>13, <2>1, <2>2, <2>3 DEF OwnStep
<1>15. ThreadInv' /\ Placed'
  BY <1>0, <1>3, <1>4, <1>14, ThreadStep
<1> QED BY <1>2, <1>15 DEF PoolInv

-----------------------------------------------------------------------------
(* The central cache changes one span s of class c: v is its new class, l  *)
(* its new free list and p the new partial list of the class.              *)
SpanStep(c, s, v, l, p) ==
  /\ sizeClass[s] \in {c, Unused} /\ v \in {c, Unused}
  /\ v = Unused => l = << >>
  /\ l \in Seq(1 .. BlockCount) /\ IsInjective(l) /\ Len(l) < BlockCount
  /\ p \in Seq(Spans) /\ IsInjective(p)
  /\ ToSet(p) = (ToSet(partial[c]) \ {s}) \cup (IF Len(l) > 0 THEN {s} ELSE {})
  /\ sizeClass' = [sizeClass EXCEPT ![s] = v]
  /\ spanList'  = [spanList EXCEPT ![s] = l]
  /\ freeCount' = [freeCount EXCEPT ![s] = Len(l)]
  /\ partial'   = [partial EXCEPT ![c] = p]

LEMMA SpanKeeps ==
  ASSUME PoolInv, NEW c \in Class, NEW s \in Spans, NEW v, NEW l, NEW p, SpanStep(c, s, v, l, p)
  PROVE  SpanInv'
<1>h. /\ sizeClass[s] \in {c, Unused} /\ v \in {c, Unused}
      /\ v = Unused => l = << >>
      /\ l \in Seq(1 .. BlockCount) /\ IsInjective(l) /\ Len(l) < BlockCount
      /\ p \in Seq(Spans) /\ IsInjective(p)
      /\ ToSet(p) = (ToSet(partial[c]) \ {s}) \cup (IF Len(l) > 0 THEN {s} ELSE {})
      /\ sizeClass' = [sizeClass EXCEPT ![s] = v]
      /\ spanList'  = [spanList EXCEPT ![s] = l]
      /\ freeCount' = [freeCount EXCEPT ![s] = Len(l)]
      /\ partial'   = [partial EXCEPT ![c] = p]
  BY DEF SpanStep
<1>0. /\ sizeClass \in [Spans -> 0 .. NumClasses + 1] /\ spanList \in [Spans -> Seq(1 .. BlockCount)]
      /\ freeCount \in [Spans -> Nat] /\ partial \in [Class -> Seq(Spans)]
      /\ \A d \in Class : IsInjective(partial[d])
      /\ \A d \in Class : ToSet(partial[d]) = {r \in Spans : sizeClass[r] = d /\ freeCount[r] > 0}
  BY DEF PoolInv, SpanInv
<1>1. Len(l) \in Nat /\ (Len(l) > 0 => v = c)
  BY <1>h
<1>2. c \in 0 .. NumClasses + 1 /\ Unused \in 0 .. NumClasses + 1 /\ Unused \notin Class
  BY DEF Class, Unused
<1>3. /\ sizeClass' \in [Spans -> 0 .. NumClasses + 1] /\ sizeClass'[s] = v
      /\ \A r \in Spans : r # s => sizeClass'[r] = sizeClass[r]
  BY <1>h, <1>0, <1>2
<1>4. /\ spanList' \in [Spans -> Seq(1 .. BlockCount)] /\ spanList'[s] = l
      /\ \A r \in Spans : r # s => spanList'[r] = spanList[r]
  BY <1>h, <1>0
<1>5. /\ freeCount' \in [Spans -> Nat] /\ freeCount'[s] = Len(l)
      /\ \A r \in Spans : r # s => freeCount'[r] = freeCount[r]
  BY <1>h, <1>0, <1>1
<1>6. \A r \in Spans : /\ IsInjective(spanList'[r]) /\ freeCount'[r] = Len(spanList'[r])
                       /\ freeCount'[r] < BlockCount
                       /\ sizeClass'[r] \notin Class => spanList'[r] = << >>
  <2> TAKE r \in Spans
  <2>1. CASE r = s
    BY <1>h, <1>3, <1>4, <1>5, <2>1
  <2>2. CASE r # s
    <3>1. /\ IsInjective(spanList[r]) /\ freeCount[r] = Len(spanList[r]) /\ freeCount[r] < BlockCount
          /\ sizeClass[r] \notin Class => spanList[r] = << >>
      BY DEF PoolInv, SpanInv
    <3> QED BY <1>3, <1>4, <1>5, <2>2, <3>1
  <2> QED BY <2>1, <2>2
<1>7. /\ partial' \in [Class -> Seq(Spans)] /\ partial'[c] = p
      /\ \A d \in Class : d # c => partial'[d] = partial[d]
  BY <1>h, <1>0
<1>8. \A d \in Class : IsInjective(partial'[d])
  BY <1>h, <1>0, <1>7
<1>9. ASSUME NEW d \in Class
      PROVE  ToSet(partial'[d]) = {r \in Spans : sizeClass'[r] = d /\ freeCount'[r] > 0}
  <2>1. CASE d = c
    <3>1. \A r \in Spans : r # s =>
            ((sizeClass'[r] = c /\ freeCount'[r] > 0) <=> (sizeClass[r] = c /\ freeCount[r] > 0))
      BY <1>3, <1>5
    <3>2. sizeClass'[s] = c /\ freeCount'[s] > 0 <=> Len(l) > 0
      BY <1>1, <1>3, <1>5
    <3>3. ToSet(partial[c]) = {r \in Spans : sizeClass[r] = c /\ freeCount[r] > 0}
      BY <1>0
    <3>4. CASE Len(l) > 0
      <4>1. ToSet(p) = (ToSet(partial[c]) \ {s}) \cup {s}
        BY <1>h, <3>4
      <4> QED BY <1>7, <2>1, <3>1, <3>2, <3>3, <3>4, <4>1
    <3>5. CASE ~(Len(l) > 0)
      <4>1. ToSet(p) = ToSet(partial[c]) \ {s}
        BY <1>h, <3>5
      <4> QED BY <1>7, <2>1, <3>1, <3>2, <3>3, <3>5, <4>1
    <3> QED BY <3>4, <3>5
  <2>2. CASE d # c
    <3>1. \A r \in Spans :
            (sizeClass'[r] = d /\ freeCount'[r] > 0) <=> (sizeClass[r] = d /\ freeCount[r] > 0)
      BY <1>h, <1>2, <1>3, <1>5, <2>2
    <3> QED BY <1>0, <1>7, <2>2, <3>1
  <2> QED BY <2>1, <2>2
<1> QED BY <1>3, <1>4, <1>5, <1>6, <1>7, <1>8, <1>9 DEF SpanInv

(* fetchRange.  The span s at hand has free list "list" and heads "spans", *)
(* whether it was found in the partial list or has just been created.      *)
Takes(c, s, spans, list, count) ==
  /\ list \in Seq(1 .. BlockCount) /\ IsInjective(list) /\ list # << >>
  /\ count = Len(list) /\ count <= BlockCount
  /\ spans \in Seq(Spans) /\ IsInjective(spans) /\ spans # << >> /\ Head(spans) = s
  /\ ToSet(spans) = ToSet(partial[c]) \cup {s}
  /\ sizeClass[s] \in {c, Unused}
  /\ sizeClass' = [sizeClass EXCEPT ![s] = c]
  /\ spanList'  = [spanList EXCEPT ![s] = Tail(list)]
  /\ freeCount' = [freeCount EXCEPT ![s] = count - 1]
  /\ partial'   = [partial EXCEPT ![c] = IF count = 1 THEN Tail(spans) ELSE spans]

LEMMA TakeSpan ==
  ASSUME PoolInv, NEW c \in Class, NEW s \in Spans, NEW spans, NEW list, NEW count,
         Takes(c, s, spans, list, count)
  PROVE  SpanInv'
<1> DEFINE l == Tail(list)
           p == IF count = 1 THEN Tail(spans) ELSE spans
<1>h. /\ list \in Seq(1 .. BlockCount) /\ IsInjective(list) /\ list # << >>
      /\ count = Len(list) /\ count <= BlockCount
      /\ spans \in Seq(Spans) /\ IsInjective(spans) /\ spans # << >> /\ Head(spans) = s
      /\ ToSet(spans) = ToSet(partial[c]) \cup {s}
      /\ sizeClass[s] \in {c, Unused}
      /\ sizeClass' = [sizeClass EXCEPT ![s] = c]
      /\ spanList'  = [spanList EXCEPT ![s] = l]
      /\ freeCount' = [freeCount EXCEPT ![s] = count - 1]
      /\ partial'   = [partial EXCEPT ![c] = p]
  BY DEF Takes
<1>1. Len(list) > 0 /\ l \in Seq(1 .. BlockCount) /\ Len(l) = Len(list) - 1 /\ IsInjective(l)
  BY <1>h, TailSet
<1>2. /\ p \in Seq(Spans) /\ IsInjective(p)
      /\ ToSet(p) = IF count = 1 THEN ToSet(spans) \ {s} ELSE ToSet(spans)
  BY <1>h, TailSet
<1>3. c # Unused
  BY DEF Class, Unused
<1> HIDE DEF l, p
<1>4. count \in Nat /\ Len(l) < BlockCount /\ Len(l) = count - 1 /\ (Len(l) > 0 <=> count # 1)
  <2>1. Len(list) \in Nat
    BY <1>h
  <2>2. count = Len(list) /\ count <= BlockCount /\ Len(list) > 0 /\ Len(l) = Len(list) - 1
    BY <1>h, <1>1
  <2> HIDE <1>h, <1>1
  <2> QED BY <2>1, <2>2
<1>5. ToSet(p) = (ToSet(partial[c]) \ {s}) \cup (IF Len(l) > 0 THEN {s} ELSE {})
  <2>1. CASE count = 1
    BY <1>h, <1>2, <1>4, <2>1
  <2>2. CASE count # 1
    BY <1>h, <1>2, <1>4, <2>2
  <2> QED BY <2>1, <2>2
<1>6. SpanStep(c, s, c, l, p)
  BY <1>h, <1>1, <1>2, <1>3, <1>4, <1>5 DEF SpanStep
<1> QED BY <1>6, SpanKeeps

(* The chain grows by block b; New are the blocks of a span just created.  *)
Grows(t, b, New) ==
  /\ call[t].pc = "fetch"
  /\ call' = [call EXCEPT ![t].chain = Append(@, b)]
  /\ UNCHANGED <<threadVars, inUse>>
  /\ New \cap Cut = {}
  /\ Cut' = Cut \cup New
  /\ b \in FreeBlocks \cup New
  /\ FreeBlocks' = (FreeBlocks \cup New) \ {b}
  /\ sizeClass'[b[1]] = call[t].class
  /\ \A x \in Cut : sizeClass'[x[1]] = sizeClass[x[1]]

LEMMA ChainGrows ==
  ASSUME PoolInv, NEW t \in Threads, NEW b \in Block, NEW New, Grows(t, b, New)
  PROVE  ThreadInv' /\ Placed'
<1> DEFINE c == call[t].class
           q == freeList[t][c]
           h == call[t].chain
           g == Append(h, b)
           k == [call[t] EXCEPT !.chain = g]
<1>0. 1 \in Class
  BY DEF Class
<1>1. /\ call[t].pc = "fetch" /\ call' = [call EXCEPT ![t].chain = Append(@, b)]
      /\ UNCHANGED threadVars /\ UNCHANGED inUse
      /\ New \cap Cut = {} /\ Cut' = Cut \cup New /\ b \in FreeBlocks \cup New
      /\ FreeBlocks' = (FreeBlocks \cup New) \ {b}
      /\ sizeClass'[b[1]] = c /\ \A x \in Cut : sizeClass'[x[1]] = sizeClass[x[1]]
  BY DEF Grows
<1>2. /\ call[t] \in CallType /\ CallShape(call[t])
      /\ \A d \in Emptied(call[t]) : freeList[t][d] = << >>
  BY <1>0, Own
<1>3. c \in Class
  BY <1>1, <1>2 DEF CallShape
<1>4. /\ q \in Seq(Block) /\ IsInjective(q)
      /\ \A x \in ToSet(q) : sizeClass[x[1]] = c
      /\ \A x \in ToSet(h) : sizeClass[x[1]] = c
      /\ h \in Seq(Block) /\ IsInjective(h)
      /\ inUse \subseteq Block /\ inUse \subseteq Cut /\ FreeBlocks \subseteq Cut
      /\ ToSet(q) \subseteq Cut /\ ToSet(h) \subseteq Cut
      /\ FreeBlocks \cap inUse = {} /\ FreeBlocks \cap ToSet(q) = {}
      /\ FreeBlocks \cap ToSet(h) = {} /\ inUse \cap ToSet(q) = {}
      /\ inUse \cap ToSet(h) = {} /\ ToSet(q) \cap ToSet(h) = {}
  BY <1>3, Own
<1>5. call' = [call EXCEPT ![t] = k]
  BY <1>1
<1>6. Before(t, c) = FreeBlocks \cup inUse \cup ToSet(q) \cup ToSet(h)
  BY DEF Before
<1>7. /\ freeList' = [freeList EXCEPT ![t][c] = q]
      /\ freeListSize' = [freeListSize EXCEPT ![t][c] = Len(q)]
  BY <1>1, <1>3, SameList
<1>8. b \notin ToSet(h)
  BY <1>1, <1>4
<1>9. call[t].class = c
  OBVIOUS
<1> HIDE DEF c, q, h
<1>10. g \in Seq(Block) /\ IsInjective(g) /\ ToSet(g) = ToSet(h) \cup {b}
  BY <1>4, <1>8, AppendSet
<1> HIDE DEF g
<1>11. k \in CallType /\ k.chain = g /\ k.class = c /\ k.pc = "fetch"
  BY <1>1, <1>2, <1>9, <1>10 DEF CallType
<1> HIDE DEF k
<1>12. CallShape(k)
  BY <1>3, <1>11 DEF CallShape
<1>13. \A d \in Emptied(k) : IF d = c THEN q = << >> ELSE freeList[t][d] = << >>
  <2>1. Emptied(k) = Emptied(call[t])
    BY <1>1, <1>9, <1>11 DEF Emptied
  <2> QED BY <1>2, <2>1 DEF q
<1>14. After(q, k) = ((FreeBlocks \cup New) \ {b}) \cup inUse \cup ToSet(q) \cup ToSet(h) \cup {b}
  BY <1>1, <1>10, <1>11 DEF After
<1>15. After(q, k) = FreeBlocks \cup New \cup inUse \cup ToSet(q) \cup ToSet(h)
  BY <1>1, <1>14
<1>16. Cut' = (Cut \ Before(t, c)) \cup After(q, k)
  BY <1>1, <1>4, <1>6, <1>15
<1>17. /\ FreeBlocks' \cap inUse = {} /\ FreeBlocks' \cap ToSet(q) = {}
       /\ FreeBlocks' \cap ToSet(g) = {} /\ inUse \cap ToSet(g) = {} /\ ToSet(q) \cap ToSet(g) = {}
  BY <1>1, <1>4, <1>10
<1>18. \A x \in After(q, k) : x \in Before(t, c) \/ x \notin Cut
  BY <1>1, <1>6, <1>15
<1>19. \A x \in ToSet(q) : sizeClass'[x[1]] = c
  BY <1>1, <1>4
<1>20. \A x \in ToSet(g) : sizeClass'[x[1]] = c
  BY <1>1, <1>4, <1>10
<1>21. OwnStep(t, c, q, k)
  BY <1>1, <1>4, <1>5, <1>7, <1>10, <1>11, <1>12, <1>13, <1>16, <1>17, <1>18, <1>19, <1>20 DEF OwnStep
<1> QED BY <1>3, <1>4, <1>11, <1>21, ThreadStep

LEMMA FetchBlockKeeps ==
  ASSUME PoolInv, NEW t \in Threads, FetchBlock(t)
  PROVE  PoolInv'
<1> DEFINE c == call[t].class
           spans == partial[c]
           s == Head(spans)
           list == spanList[s]
           count == freeCount[s]
           b == <<s, Head(list)>>
<1>0. 1 \in Class
  BY DEF Class
<1>1. /\ call[t].pc = "fetch" /\ spans # << >>
      /\ call' = [call EXCEPT ![t].chain = Append(@, b)]
      /\ spanList'  = [spanList EXCEPT ![s] = Tail(list)]
      /\ freeCount' = [freeCount EXCEPT ![s] = count - 1]
      /\ partial'   = [partial EXCEPT ![c] = IF count = 1 THEN Tail(spans) ELSE spans]
      /\ UNCHANGED <<threadVars, inUse>> /\ sizeClass' = sizeClass
  BY DEF FetchBlock, TakeBlock
<1>2. c \in Class
  BY <1>0, <1>1, Own DEF CallShape
<1>3. /\ spans \in Seq(Spans) /\ IsInjective(spans)
      /\ ToSet(spans) = {r \in Spans : sizeClass[r] = c /\ freeCount[r] > 0}
      /\ sizeClass \in [Spans -> 0 .. NumClasses + 1] /\ spanList \in [Spans -> Seq(1 .. BlockCount)]
  BY <1>2 DEF PoolInv, SpanInv
<1>9. c = call[t].class
  OBVIOUS
<1> HIDE DEF c, spans
<1>4. s \in Spans /\ s \in ToSet(spans)
  BY <1>1, <1>3, TailSet
<1>5. sizeClass[s] = c /\ count > 0
  BY <1>3, <1>4
<1> HIDE DEF s
<1>6. /\ list \in Seq(1 .. BlockCount) /\ count = Len(list) /\ count \in Nat /\ count < BlockCount
      /\ IsInjective(list)
  BY <1>4, SpanFacts
<1>7. list # << >> /\ count <= BlockCount
  BY <1>5, <1>6
<1>8. Takes(c, s, spans, list, count)
  <2>1. sizeClass' = [sizeClass EXCEPT ![s] = c]
    BY <1>1, <1>3, <1>5
  <2>2. ToSet(spans) = ToSet(partial[c]) \cup {s}
    BY <1>4 DEF spans
  <2>3. Head(spans) = s
    BY DEF s
  <2> QED BY <1>1, <1>3, <1>5, <1>6, <1>7, <2>1, <2>2, <2>3 DEF Takes
<1> DEFINE new == {}
           tl == Tail(list)
           hd == Head(list)
<1>10. hd \in 1 .. BlockCount /\ hd \in ToSet(list) /\ ToSet(tl) = ToSet(list) \ {hd} /\ tl \in Seq(1 .. BlockCount)
  BY <1>6, <1>7, TailSet
<1> HIDE DEF tl, hd
<1>11. b = <<s, hd>> /\ b \in Block /\ b[1] = s /\ b[2] = hd
  BY <1>4, <1>10 DEF hd, Block
<1>12. Cut' = Cut
  BY <1>1 DEF Cut
<1>13. FreeBlocks' = FreeBlocks \ {b} /\ b \in FreeBlocks
  <2>1. /\ spanList'[s] = tl /\ spanList[s] = list
        /\ \A r \in Spans : r # s => spanList'[r] = spanList[r]
    BY <1>1, <1>3, <1>4, <1>10 DEF tl
  <2>2. \A x \in Block : x[1] \in Spans /\ (x = b <=> x[1] = s /\ x[2] = hd)
    BY <1>11 DEF Block
  <2>3. b \in FreeBlocks
    BY <1>10, <1>11, <2>1 DEF FreeBlocks
  <2>4. \A x \in Block : x \in FreeBlocks' <=> x \in FreeBlocks /\ x # b
    <3> TAKE x \in Block
    <3>1. CASE x[1] = s
      BY <1>10, <2>1, <2>2, <3>1 DEF FreeBlocks
    <3>2. CASE x[1] # s
      BY <2>1, <2>2, <3>2 DEF FreeBlocks
    <3> QED BY <3>1, <3>2
  <2>5. FreeBlocks \subseteq Block /\ FreeBlocks' \subseteq Block
    BY DEF FreeBlocks
  <2> QED BY <2>3, <2>4, <2>5
<1>14. SpanInv'
  BY <1>2, <1>4, <1>8, TakeSpan
<1> HIDE DEF list, b, count
<1>15. Grows(t, b, {})
  BY <1>1, <1>5, <1>9, <1>11, <1>12, <1>13 DEF Grows
<1>16. ThreadInv' /\ Placed'
  BY <1>11, <1>15, ChainGrows
<1> QED BY <1>14, <1>16 DEF PoolInv

LEMMA CreateSpanKeeps ==
  ASSUME PoolInv, NEW t \in Threads, NEW s \in Spans, CreateSpan(t, s)
  PROVE  PoolInv'
<1> DEFINE c == call[t].class
           list == [i \in 1 .. BlockCount |-> i]
           b == <<s, Head(list)>>
           new == {x \in Block : x[1] = s}
<1>0. 1 \in Class
  BY DEF Class
<1>1. /\ call[t].pc = "fetch" /\ partial[c] = << >> /\ sizeClass[s] = Unused
      /\ call' = [call EXCEPT ![t].chain = Append(@, b)]
      /\ sizeClass' = [sizeClass EXCEPT ![s] = c]
      /\ spanList'  = [spanList EXCEPT ![s] = Tail(list)]
      /\ freeCount' = [freeCount EXCEPT ![s] = BlockCount - 1]
      /\ partial'   = [partial EXCEPT ![c] = IF BlockCount = 1 THEN Tail(<<s>>) ELSE <<s>>]
      /\ UNCHANGED <<threadVars, inUse>>
  BY DEF CreateSpan, TakeBlock
<1>2. c \in Class
  BY <1>0, <1>1, Own DEF CallShape
<1>3. /\ ToSet(partial[c]) = {r \in Spans : sizeClass[r] = c /\ freeCount[r] > 0}
      /\ sizeClass \in [Spans -> 0 .. NumClasses + 1] /\ spanList \in [Spans -> Seq(1 .. BlockCount)]
  BY <1>2 DEF PoolInv, SpanInv
<1>4. ToSet(partial[c]) = {}
  BY <1>1 DEF ToSet
<1>5. c = call[t].class
  OBVIOUS
<1> HIDE DEF c
<1>6. /\ list \in Seq(1 .. BlockCount) /\ Len(list) = BlockCount /\ list # << >> /\ Head(list) = 1
      /\ DOMAIN list = 1 .. BlockCount /\ \A i \in 1 .. BlockCount : list[i] = i
  OBVIOUS
<1> HIDE DEF list
<1>7. IsInjective(list)
  BY <1>6 DEF IsInjective
<1>8. ToSet(list) = 1 .. BlockCount
  BY <1>6 DEF ToSet
<1>9. Takes(c, s, <<s>>, list, BlockCount)
  <2>1. <<s>> \in Seq(Spans) /\ <<s>> # << >> /\ Head(<<s>>) = s
    OBVIOUS
  <2>2. IsInjective(<<s>>) /\ ToSet(<<s>>) = {s}
    BY DEF IsInjective, ToSet
  <2>3. ToSet(<<s>>) = ToSet(partial[c]) \cup {s}
    BY <1>4, <2>2
  <2> QED BY <1>1, <1>6, <1>7, <2>1, <2>2, <2>3 DEF Takes
<1>10. SpanInv'
  BY <1>2, <1>9, TakeSpan
<1> DEFINE tl == Tail(list)
<1>11. ToSet(tl) = (1 .. BlockCount) \ {1} /\ tl \in Seq(1 .. BlockCount)
  BY <1>6, <1>7, <1>8, TailSet
<1> HIDE DEF tl
<1>12. b = <<s, 1>> /\ b \in Block /\ b[1] = s /\ b[2] = 1
  BY <1>6 DEF Block
<1>13. /\ sizeClass'[s] = c /\ \A r \in Spans : r # s => sizeClass'[r] = sizeClass[r]
       /\ spanList'[s] = tl /\ \A r \in Spans : r # s => spanList'[r] = spanList[r]
  BY <1>1, <1>2, <1>3, <1>11 DEF tl
<1>14. Unused \notin Class /\ Unused # Large
  BY DEF Unused, Class, Large
<1>15. \A x \in Block : x[1] \in Spans /\ x[2] \in 1 .. BlockCount /\ (x = b <=> x[1] = s /\ x[2] = 1)
  BY <1>12 DEF Block
<1>16. \A x \in Cut : x \in Block /\ x[1] # s
  BY <1>1, <1>14 DEF Cut
<1>17. Cut' = Cut \cup new
  <2>1. \A x \in Block : x \in Cut' <=> x \in Cut \/ x[1] = s
    <3> TAKE x \in Block
    <3>1. CASE x[1] = s
      BY <1>2, <1>13, <3>1 DEF Cut
    <3>2. CASE x[1] # s
      BY <1>13, <1>15, <3>2 DEF Cut
    <3> QED BY <3>1, <3>2
  <2>2. Cut \subseteq Block /\ Cut' \subseteq Block
    BY DEF Cut
  <2> QED BY <2>1, <2>2
<1>18. spanList[s] = << >> /\ ToSet(spanList[s]) = {}
  BY <1>1, <1>14, SpanFacts DEF ToSet
<1>19. FreeBlocks' = (FreeBlocks \cup new) \ {b} /\ b \in new
  <2>1. \A x \in Block : x \in FreeBlocks' <=> (x \in FreeBlocks \/ x[1] = s) /\ x # b
    <3> TAKE x \in Block
    <3>1. CASE x[1] = s
      BY <1>11, <1>13, <1>15, <3>1 DEF FreeBlocks
    <3>2. CASE x[1] # s
      BY <1>13, <1>15, <3>2 DEF FreeBlocks
    <3> QED BY <3>1, <3>2
  <2>2. FreeBlocks \subseteq Block /\ FreeBlocks' \subseteq Block
    BY DEF FreeBlocks
  <2> QED BY <1>12, <2>1, <2>2
<1>20. \A x \in Cut : sizeClass'[x[1]] = sizeClass[x[1]]
  BY <1>13, <1>15, <1>16
<1>21. new \cap Cut = {}
  BY <1>16
<1> HIDE DEF new, b
<1>22. Grows(t, b, new)
  BY <1>1, <1>5, <1>12, <1>13, <1>17, <1>19, <1>20, <1>21 DEF Grows
<1>23. ThreadInv' /\ Placed'
  BY <1>12, <1>22, ChainGrows
<1> QED BY <1>10, <1>23 DEF PoolInv

-----------------------------------------------------------------------------
(* returnRange.                                                            *)

(* The last block of a span comes back: then all its blocks are there.     *)
LEMMA Complete ==
  ASSUME NEW list \in Seq(1 .. BlockCount), IsInjective(list), NEW i \in 1 .. BlockCount,
         i \notin ToSet(list), Len(list) + 1 = BlockCount
  PROVE  ToSet(list) \cup {i} = 1 .. BlockCount
<1> DEFINE S == ToSet(list)
           I == 1 .. BlockCount
<1>1. IsFiniteSet(S) /\ Cardinality(S) = Len(list) /\ S \subseteq I
  BY SetCount, SetOf
<1>2. IsFiniteSet(I) /\ Cardinality(I) = BlockCount
  BY FS_Interval
<1> HIDE DEF S
<1>3. Cardinality(S \cup {i}) = Cardinality(S) + 1
  BY <1>1, FS_AddElement DEF S
<1>4. S \cup {i} \in SUBSET I
  BY <1>1
<1> HIDE DEF I
<1>5. I = S \cup {i}
  BY <1>1, <1>2, <1>3, <1>4, FS_Subset
<1> QED BY <1>5 DEF S, I

(* The chain loses its head b; Back are the blocks of a span that goes     *)
(* back to the page cache.                                                 *)
Shrinks(t, b, Back) ==
  /\ call[t].pc \in {"return", "flush"} /\ call[t].chain # << >> /\ b = Head(call[t].chain)
  /\ call' = [call EXCEPT ![t].chain = Tail(@)]
  /\ UNCHANGED <<threadVars, inUse>>
  /\ Back \subseteq FreeBlocks \cup {b}
  /\ Cut' = Cut \ Back
  /\ FreeBlocks' = (FreeBlocks \cup {b}) \ Back
  /\ \A x \in Cut \ Back : sizeClass'[x[1]] = sizeClass[x[1]]

LEMMA ChainShrinks ==
  ASSUME PoolInv, NEW t \in Threads, NEW b, NEW Back, Shrinks(t, b, Back)
  PROVE  ThreadInv' /\ Placed'
<1> DEFINE c == call[t].class
           q == freeList[t][c]
           h == call[t].chain
           g == Tail(h)
           k == [call[t] EXCEPT !.chain = g]
<1>0. 1 \in Class
  BY DEF Class
<1>1. /\ call[t].pc \in {"return", "flush"} /\ h # << >> /\ b = Head(h)
      /\ call' = [call EXCEPT ![t].chain = Tail(@)]
      /\ UNCHANGED threadVars /\ UNCHANGED inUse
      /\ Back \subseteq FreeBlocks \cup {b} /\ Cut' = Cut \ Back
      /\ FreeBlocks' = (FreeBlocks \cup {b}) \ Back
      /\ \A x \in Cut \ Back : sizeClass'[x[1]] = sizeClass[x[1]]
  BY DEF Shrinks
<1>2. /\ call[t] \in CallType /\ CallShape(call[t])
      /\ \A d \in Emptied(call[t]) : freeList[t][d] = << >>
  BY <1>0, Own
<1>3. c \in Class
  BY <1>1, <1>2 DEF CallShape
<1>4. /\ q \in Seq(Block) /\ IsInjective(q)
      /\ \A x \in ToSet(q) : sizeClass[x[1]] = c
      /\ \A x \in ToSet(h) : sizeClass[x[1]] = c
      /\ h \in Seq(Block) /\ IsInjective(h)
      /\ inUse \subseteq Block /\ inUse \subseteq Cut /\ FreeBlocks \subseteq Cut
      /\ ToSet(q) \subseteq Cut /\ ToSet(h) \subseteq Cut
      /\ FreeBlocks \cap inUse = {} /\ FreeBlocks \cap ToSet(q) = {}
      /\ FreeBlocks \cap ToSet(h) = {} /\ inUse \cap ToSet(q) = {}
      /\ inUse \cap ToSet(h) = {} /\ ToSet(q) \cap ToSet(h) = {}
  BY <1>3, Own
<1>5. call' = [call EXCEPT ![t] = k]
  BY <1>1
<1>6. Before(t, c) = FreeBlocks \cup inUse \cup ToSet(q) \cup ToSet(h)
  BY DEF Before
<1>7. /\ freeList' = [freeList EXCEPT ![t][c] = q]
      /\ freeListSize' = [freeListSize EXCEPT ![t][c] = Len(q)]
  BY <1>1, <1>3, SameList
<1>9. call[t].class = c
  OBVIOUS
<1> HIDE DEF c, q, h
<1>10. b \in ToSet(h) /\ g \in Seq(Block) /\ IsInjective(g) /\ ToSet(g) = ToSet(h) \ {b}
  BY <1>1, <1>4, TailSet
<1> HIDE DEF g
<1>11. k \in CallType /\ k.chain = g /\ k.class = c /\ k.pc = call[t].pc
  BY <1>1, <1>2, <1>9, <1>10 DEF CallType
<1> HIDE DEF k
<1>12. CallShape(k)
  BY <1>1, <1>3, <1>11 DEF CallShape
<1>13. \A d \in Emptied(k) : IF d = c THEN q = << >> ELSE freeList[t][d] = << >>
  <2>1. Emptied(k) = Emptied(call[t])
    BY <1>1, <1>9, <1>11 DEF Emptied
  <2> QED BY <1>2, <2>1 DEF q
<1>14. After(q, k) = ((FreeBlocks \cup {b}) \ Back) \cup inUse \cup ToSet(q) \cup (ToSet(h) \ {b})
  BY <1>1, <1>10, <1>11 DEF After
<1>15. Back \cap inUse = {} /\ Back \cap ToSet(q) = {} /\ Back \cap ToSet(g) = {}
  BY <1>1, <1>4, <1>10
<1>16. Cut' = (Cut \ Before(t, c)) \cup After(q, k)
  <2>1. Cut \ Before(t, c) = (Cut \ Back) \ Before(t, c)
    BY <1>1, <1>6, <1>10
  <2>2. After(q, k) = Before(t, c) \ Back
    BY <1>1, <1>4, <1>6, <1>10, <1>14, <1>15
  <2> QED BY <1>1, <1>4, <1>6, <2>1, <2>2
<1>17. /\ FreeBlocks' \cap inUse = {} /\ FreeBlocks' \cap ToSet(q) = {}
       /\ FreeBlocks' \cap ToSet(g) = {} /\ inUse \cap ToSet(g) = {} /\ ToSet(q) \cap ToSet(g) = {}
  BY <1>1, <1>4, <1>10
<1>18. \A x \in After(q, k) : x \in Before(t, c) \/ x \notin Cut
  BY <1>6, <1>10, <1>14
<1>19. \A x \in ToSet(q) : sizeClass'[x[1]] = c
  BY <1>1, <1>4, <1>15
<1>20. \A x \in ToSet(g) : sizeClass'[x[1]] = c
  BY <1>1, <1>4, <1>10, <1>15
<1>22. \A x \in Cut \ Before(t, c) : sizeClass'[x[1]] = sizeClass[x[1]]
  BY <1>1, <1>6, <1>10
<1>21. OwnStep(t, c, q, k)
  BY <1>1, <1>4, <1>5, <1>7, <1>10, <1>11, <1>12, <1>13, <1>16, <1>17, <1>18, <1>19, <1>20, <1>22
  DEF OwnStep
<1> QED BY <1>3, <1>4, <1>11, <1>21, ThreadStep

LEMMA ReturnBlockKeeps ==
  ASSUME PoolInv, NEW t \in Threads, ReturnBlock(t)
  PROVE  PoolInv'
<1> DEFINE c == call[t].class
           q == call[t].chain
           b == Head(q)
           s == b[1]
           i == b[2]
           list == spanList[s]
<1>0. 1 \in Class
  BY DEF Class
<1>1. /\ call[t].pc \in {"return", "flush"} /\ q # << >>
      /\ call' = [call EXCEPT ![t].chain = Tail(@)]
      /\ UNCHANGED <<threadVars, inUse>>
  BY DEF ReturnBlock
<1>2. c \in Class
  BY <1>0, <1>1, Own DEF CallShape
<1>3. /\ q \in Seq(Block) /\ IsInjective(q) /\ \A x \in ToSet(q) : sizeClass[x[1]] = c
      /\ ToSet(q) \subseteq Cut /\ FreeBlocks \cap ToSet(q) = {}
  BY <1>0, Own
<1>4. b \in Block /\ b \in ToSet(q)
  BY <1>1, <1>3, TailSet
<1>5. s \in Spans /\ i \in 1 .. BlockCount /\ b = <<s, i>> /\ sizeClass[s] = c
  BY <1>3, <1>4 DEF Block
<1>6. IF AllBlocksBack(s)
      THEN /\ partial'   = [partial EXCEPT ![c] = Unlinked(c, s)]
           /\ sizeClass' = [sizeClass EXCEPT ![s] = Unused]
           /\ spanList'  = [spanList EXCEPT ![s] = << >>]
           /\ freeCount' = [freeCount EXCEPT ![s] = 0]
      ELSE /\ partial'   = [partial EXCEPT ![c] = Relinked(c, s)]
           /\ spanList'  = [spanList EXCEPT ![s] = <<i>> \o list]
           /\ freeCount' = [freeCount EXCEPT ![s] = freeCount[s] + 1]
           /\ UNCHANGED sizeClass
  BY <1>5 DEF ReturnBlock
<1>7. c = call[t].class /\ b = Head(call[t].chain)
  OBVIOUS
<1> HIDE DEF c, q
<1>8. b \notin FreeBlocks /\ b \in Cut
  BY <1>3, <1>4
<1>9. i \notin ToSet(list)
  BY <1>4, <1>8 DEF FreeBlocks
<1> HIDE DEF s, i, b
<1>10. /\ list \in Seq(1 .. BlockCount) /\ IsInjective(list)
       /\ freeCount[s] = Len(list) /\ freeCount[s] \in Nat /\ freeCount[s] < BlockCount
  BY <1>5, SpanFacts
<1>11. /\ partial[c] \in Seq(Spans) /\ IsInjective(partial[c])
       /\ ToSet(partial[c]) = {r \in Spans : sizeClass[r] = c /\ freeCount[r] > 0}
       /\ sizeClass \in [Spans -> 0 .. NumClasses + 1] /\ spanList \in [Spans -> Seq(1 .. BlockCount)]
  BY <1>2 DEF PoolInv, SpanInv
<1>12. \A x \in Block : /\ x[1] \in Spans /\ x[2] \in 1 .. BlockCount
                        /\ (x = b <=> x[1] = s /\ x[2] = i)
  BY <1>4, <1>5 DEF Block
<1>13. FreeBlocks \subseteq Block /\ FreeBlocks' \subseteq Block /\ Cut \subseteq Block /\ Cut' \subseteq Block
  BY DEF FreeBlocks, Cut
<1>14. s \in ToSet(partial[c]) <=> freeCount[s] > 0
  BY <1>5, <1>11
<1>15. Unused \notin Class /\ Unused # Large
  BY DEF Unused, Class, Large
<1>16. list = spanList[s]
  OBVIOUS
<1> HIDE DEF list
<1>17. CASE AllBlocksBack(s)
  <2> DEFINE p == Unlinked(c, s)
             back == {x \in Block : x[1] = s}
  <2>1. p \in Seq(Spans) /\ IsInjective(p) /\ ToSet(p) = ToSet(partial[c]) \ {s}
    BY <1>11, KeptSet DEF Unlinked
  <2> HIDE DEF p
  <2>2. /\ partial' = [partial EXCEPT ![c] = p] /\ sizeClass' = [sizeClass EXCEPT ![s] = Unused]
        /\ spanList'  = [spanList EXCEPT ![s] = << >>]
        /\ freeCount' = [freeCount EXCEPT ![s] = 0]
    BY <1>6, <1>17 DEF p
  <2>3. /\ << >> \in Seq(1 .. BlockCount) /\ IsInjective(<< >>) /\ Len(<< >>) = 0 /\ Len(<< >>) < BlockCount
        /\ ToSet(<< >>) = {}
    BY DEF IsInjective, ToSet
  <2>4. SpanStep(c, s, Unused, << >>, p)
    BY <1>5, <2>1, <2>2, <2>3 DEF SpanStep
  <2>5. SpanInv'
    BY <1>2, <1>5, <2>4, SpanKeeps
  <2>6. ToSet(list) \cup {i} = 1 .. BlockCount
    BY <1>5, <1>9, <1>10, <1>17, Complete DEF AllBlocksBack
  <2>7. back \subseteq FreeBlocks \cup {b}
    BY <1>12, <1>16, <2>6 DEF FreeBlocks
  <2>8. /\ sizeClass'[s] = Unused /\ \A r \in Spans : r # s => sizeClass'[r] = sizeClass[r]
        /\ spanList'[s] = << >> /\ \A r \in Spans : r # s => spanList'[r] = spanList[r]
    BY <1>5, <1>11, <2>2, <2>3
  <2>9. Cut' = Cut \ back
    <3>1. \A x \in Block : x \in Cut' <=> x \in Cut /\ x[1] # s
      <4> TAKE x \in Block
      <4>1. CASE x[1] = s
        BY <1>15, <2>8, <4>1 DEF Cut
      <4>2. CASE x[1] # s
        BY <1>12, <2>8, <4>2 DEF Cut
      <4> QED BY <4>1, <4>2
    <3> QED BY <1>13, <3>1
  <2>10. FreeBlocks' = (FreeBlocks \cup {b}) \ back
    <3>1. \A x \in Block : x \in FreeBlocks' <=> (x \in FreeBlocks \/ x = b) /\ x[1] # s
      <4> TAKE x \in Block
      <4>1. CASE x[1] = s
        BY <2>3, <2>8, <4>1 DEF FreeBlocks
      <4>2. CASE x[1] # s
        BY <1>12, <2>8, <4>2 DEF FreeBlocks
      <4> QED BY <4>1, <4>2
    <3> QED BY <1>4, <1>13, <3>1
  <2>11. \A x \in Cut \ back : sizeClass'[x[1]] = sizeClass[x[1]]
    BY <1>12, <1>13, <2>8
  <2> HIDE DEF back
  <2>12. Shrinks(t, b, back)
    BY <1>1, <1>7, <2>7, <2>9, <2>10, <2>11 DEF Shrinks, q
  <2>13. ThreadInv' /\ Placed'
    BY <2>12, ChainShrinks
  <2> QED BY <2>5, <2>13 DEF PoolInv
<1>18. CASE ~AllBlocksBack(s)
  <2> DEFINE p == Relinked(c, s)
             l == <<i>> \o list
  <2>1. /\ l \in Seq(1 .. BlockCount) /\ Len(l) = Len(list) + 1
        /\ IsInjective(l) /\ ToSet(l) = ToSet(list) \cup {i}
    BY <1>5, <1>9, <1>10, ConsSet
  <2>2. Len(l) < BlockCount /\ Len(l) > 0 /\ Len(l) = freeCount[s] + 1
    BY <1>10, <1>18, <2>1 DEF AllBlocksBack
  <2>3. p \in Seq(Spans) /\ IsInjective(p) /\ ToSet(p) = ToSet(partial[c]) \cup {s}
    <3>1. CASE freeCount[s] = 0
      <4>1. p = <<s>> \o partial[c] /\ s \notin ToSet(partial[c])
        BY <1>10, <1>14, <3>1 DEF Relinked
      <4> QED BY <1>5, <1>11, <4>1, ConsSet
    <3>2. CASE freeCount[s] # 0
      <4>1. p = partial[c] /\ s \in ToSet(partial[c])
        BY <1>10, <1>14, <3>2 DEF Relinked
      <4> QED BY <1>11, <4>1
    <3> QED BY <3>1, <3>2
  <2> HIDE DEF p
  <2>4. /\ partial' = [partial EXCEPT ![c] = p] /\ spanList' = [spanList EXCEPT ![s] = l]
        /\ freeCount' = [freeCount EXCEPT ![s] = Len(l)] /\ sizeClass' = sizeClass
    BY <1>6, <1>18, <2>2 DEF p
  <2> HIDE DEF l
  <2>5. sizeClass' = [sizeClass EXCEPT ![s] = c]
    BY <1>5, <1>11, <2>4
  <2>6. c # Unused
    BY <1>2, <1>15
  <2>7. ToSet(p) = (ToSet(partial[c]) \ {s}) \cup (IF Len(l) > 0 THEN {s} ELSE {})
    BY <2>2, <2>3
  <2>8. SpanStep(c, s, c, l, p)
    BY <1>5, <2>1, <2>2, <2>3, <2>4, <2>5, <2>6, <2>7 DEF SpanStep
  <2>9. SpanInv'
    BY <1>2, <1>5, <2>8, SpanKeeps
  <2>10. Cut' = Cut
    BY <2>4 DEF Cut
  <2>11. spanList'[s] = l /\ \A r \in Spans : r # s => spanList'[r] = spanList[r]
    BY <1>5, <1>11, <2>1, <2>4
  <2>12. FreeBlocks' = FreeBlocks \cup {b}
    <3>1. \A x \in Block : x \in FreeBlocks' <=> x \in FreeBlocks \/ x = b
      <4> TAKE x \in Block
      <4>1. CASE x[1] = s
        BY <1>12, <1>16, <2>1, <2>11, <4>1 DEF FreeBlocks
      <4>2. CASE x[1] # s
        BY <1>12, <2>11, <4>2 DEF FreeBlocks
      <4> QED BY <4>1, <4>2
    <3> QED BY <1>4, <1>13, <3>1
  <2>13. Shrinks(t, b, {})
    BY <1>1, <1>7, <2>4, <2>10, <2>12 DEF Shrinks, q
  <2>14. ThreadInv' /\ Placed'
    BY <2>13, ChainShrinks
  <2> QED BY <2>9, <2>14 DEF PoolInv
<1> QED BY <1>17, <1>18

-----------------------------------------------------------------------------
(* The invariant is inductive.                                             *)

LEMMA PoolInvInit ==
  ASSUME Init
  PROVE  PoolInv
<1>1. /\ << >> \in Seq(Block) /\ << >> \in Seq(1 .. BlockCount) /\ << >> \in Seq(Spans)
      /\ Len(<< >>) = 0 /\ IsInjective(<< >>) /\ ToSet(<< >>) = {}
  BY DEF IsInjective, ToSet
<1>2. /\ Unused \notin Class /\ Unused # Large /\ Unused \in 0 .. NumClasses + 1
  BY DEF Unused, Class, Large
<1>3. Ready \in CallType /\ CallShape(Ready) /\ Emptied(Ready) = {} /\ Ready.chain = << >>
  BY <1>1 DEF Ready, Call, CallType, CallShape, Emptied, Pc
<1>4. /\ freeList     = [t \in Threads |-> [c \in Class |-> << >>]]
      /\ freeListSize = [t \in Threads |-> [c \in Class |-> 0]]
      /\ call         = [t \in Threads |-> Ready]
      /\ partial      = [c \in Class |-> << >>]
      /\ sizeClass    = [s \in Spans |-> Unused]
      /\ spanList     = [s \in Spans |-> << >>]
      /\ freeCount    = [s \in Spans |-> 0]
      /\ inUse        = {}
  BY DEF Init
<1>5. ThreadInv
  BY <1>1, <1>3, <1>4 DEF ThreadInv
<1>6. SpanInv
  <2>1. \A c \in Class : ToSet(partial[c]) = {s \in Spans : sizeClass[s] = c /\ freeCount[s] > 0}
    BY <1>1, <1>2, <1>4
  <2> QED BY <1>1, <1>2, <1>4, <2>1 DEF SpanInv
<1>7. Placed
  <2>1. \A b \in Block : b[1] \in Spans
    BY DEF Block
  <2>2. FreeBlocks = {} /\ Cut = {}
    BY <1>1, <1>2, <1>4, <2>1 DEF FreeBlocks, Cut
  <2>3. \A t \in Threads : ChainSets[t] = {} /\ \A c \in Class : ListSets[t][c] = {}
    BY <1>1, <1>3, <1>4 DEF ChainSets, ListSets
  <2> QED BY <1>4, <2>2, <2>3 DEF Placed, Partition
<1> QED BY <1>5, <1>6, <1>7 DEF PoolInv

LEMMA PoolInvInductive ==
  ASSUME PoolInv, [Next]_vars
  PROVE  PoolInv'
<1>1. CASE UNCHANGED vars
  BY <1>1 DEF vars, threadVars, centralVars, PoolInv, ThreadInv, SpanInv, Placed, FreeBlocks, Cut,
              ListSets, ChainSets
<1>2. ASSUME NEW t \in Threads, NEW c \in Class, AllocateCached(t, c) \/ FetchFromCentralCache(t, c)
      PROVE  PoolInv'
  BY <1>2, AllocateCachedKeeps, FetchKeeps
<1>3. ASSUME NEW t \in Threads, NEW s \in Spans, AllocateLarge(t, s)
      PROVE  PoolInv'
  BY <1>3, AllocateLargeKeeps
<1>4. ASSUME NEW t \in Threads, Locked(t)
      PROVE  PoolInv'
  BY <1>4, FetchBlockKeeps, CreateSpanKeeps, FetchDoneKeeps, ReturnBlockKeeps, ReturnDoneKeeps
  DEF Locked
<1>5. ASSUME NEW t \in Threads, NEW b \in Block, Deallocate(t, b) \/ DeallocateLarge(t, b)
      PROVE  PoolInv'
  BY <1>5, DeallocateKeeps, DeallocateLargeKeeps
<1>6. ASSUME NEW t \in Threads, Lock(t) \/ Exit(t) \/ FlushClass(t) \/ Start(t)
      PROVE  PoolInv'
  BY <1>6, LockKeeps, ExitKeeps, FlushClassKeeps, StartKeeps
<1> QED BY <1>1, <1>2, <1>3, <1>4, <1>5, <1>6 DEF Next

LEMMA PoolInvHolds == Spec => []PoolInv
<1>1. Init => PoolInv
  BY PoolInvInit
<1>2. PoolInv /\ [Next]_vars => PoolInv'
  BY PoolInvInductive
<1> QED BY <1>1, <1>2, PTL DEF Spec

-----------------------------------------------------------------------------
(* What the invariant says about the pool.                                 *)

LEMMA InvLists == PoolInv => ListsExact
<1> SUFFICES ASSUME PoolInv PROVE ListsExact
  OBVIOUS
<1>1. ClassesKept
  BY DEF PoolInv, ThreadInv, ClassesKept
<1>2. CountersExact
  BY DEF PoolInv, ThreadInv, SpanInv, CountersExact
<1>3. PartialExact
  BY DEF PoolInv, SpanInv, PartialExact
<1> QED BY <1>1, <1>2, <1>3 DEF ListsExact

(* A set of which two members are equal counts one or none.                *)
LEMMA AtMostOne ==
  ASSUME NEW S, \A x, y \in S : x = y
  PROVE  Cardinality(S) = IF S = {} THEN 0 ELSE 1
<1>1. CASE S = {}
  BY <1>1, FS_EmptySet
<1>2. CASE S # {}
  <2>1. PICK x : x \in S
    BY <1>2
  <2>2. S = {x}
    BY <2>1
  <2> QED BY <1>2, <2>2, FS_Singleton
<1> QED BY <1>1, <1>2

LEMMA InvBlocks == PoolInv => BlocksConserved
<1> SUFFICES ASSUME PoolInv PROVE BlocksConserved
  OBVIOUS
<1>1. NoRepeats
  BY DEF PoolInv, ThreadInv, SpanInv, NoRepeats
<1>2. ASSUME NEW b \in Block
      PROVE  Copies(b) = IF b \in Cut THEN 1 ELSE 0
  <2> DEFINE cached == {x \in Threads \X Class : b \in ToSet(freeList[x[1]][x[2]])}
             moving == {t \in Threads : b \in ToSet(call[t].chain)}
             held == b \in inUse
             free == b[2] \in ToSet(spanList[b[1]])
  <2>1. Partition(FreeBlocks, inUse, ListSets, ChainSets, Cut)
    BY DEF PoolInv, Placed
  <2>2. /\ \A t \in Threads : ChainSets[t] = ToSet(call[t].chain)
        /\ \A t \in Threads, c \in Class : ListSets[t][c] = ToSet(freeList[t][c])
    BY DEF ChainSets, ListSets
  <2>3. free <=> b \in FreeBlocks
    BY DEF FreeBlocks
  <2>4. \A x \in cached : x[1] \in Threads /\ x[2] \in Class /\ b \in ListSets[x[1]][x[2]]
    BY <2>2
  <2>5. \A t \in moving : t \in Threads /\ b \in ChainSets[t]
    BY <2>2
  <2>6. \A x, y \in cached : x = y
    <3> SUFFICES ASSUME NEW x \in cached, NEW y \in cached PROVE x = y
      OBVIOUS
    <3>1. x \in Threads \X Class /\ y \in Threads \X Class
      OBVIOUS
    <3>2. x[1] = y[1] /\ x[2] = y[2]
      BY <2>1, <2>4 DEF Partition
    <3> QED BY <3>1, <3>2
  <2>7. \A t, u \in moving : t = u
    BY <2>1, <2>5 DEF Partition
  <2>8. /\ ~(free /\ held)
        /\ cached # {} => moving = {} /\ ~held /\ ~free
        /\ moving # {} => ~held /\ ~free
    <3>1. ~(free /\ held)
      BY <2>1, <2>3 DEF Partition
    <3>2. cached # {} => moving = {} /\ ~held /\ ~free
      BY <2>1, <2>3, <2>4, <2>5 DEF Partition
    <3>3. moving # {} => ~held /\ ~free
      BY <2>1, <2>3, <2>5 DEF Partition
    <3> QED BY <3>1, <3>2, <3>3
  <2>9. b \in Cut <=> free \/ held \/ moving # {} \/ cached # {}
    <3>1. (\E t \in Threads : b \in ChainSets[t]) <=> moving # {}
      BY <2>2
    <3>2. (\E t \in Threads, c \in Class : b \in ListSets[t][c]) <=> cached # {}
      <4>1. ASSUME NEW t \in Threads, NEW c \in Class, b \in ListSets[t][c]
            PROVE  <<t, c>> \in cached
        BY <2>2, <4>1
      <4> QED BY <2>4, <4>1
    <3> QED BY <2>1, <2>3, <3>1, <3>2 DEF Partition
  <2>10. Copies(b) = Cardinality(cached) + Cardinality(moving) + (IF held THEN 1 ELSE 0)
                     + (IF free THEN 1 ELSE 0)
    BY DEF Copies
  <2> HIDE DEF cached, moving, held, free
  <2>11. /\ Cardinality(cached) = IF cached = {} THEN 0 ELSE 1
         /\ Cardinality(moving) = IF moving = {} THEN 0 ELSE 1
    BY <2>6, <2>7, AtMostOne
  <2> DEFINE ca == cached = {}  mo == moving = {}
  <2>12. /\ ~(free /\ held) /\ (~ca => mo /\ ~held /\ ~free) /\ (~mo => ~held /\ ~free)
         /\ (b \in Cut <=> free \/ held \/ ~mo \/ ~ca)
         /\ Copies(b) = (IF ca THEN 0 ELSE 1) + (IF mo THEN 0 ELSE 1) + (IF held THEN 1 ELSE 0)
                        + (IF free THEN 1 ELSE 0)
    BY <2>8, <2>9, <2>10, <2>11
  <2> HIDE DEF ca, mo
  <2>13. CASE ca /\ mo /\ ~held /\ ~free
    <3>1. b \notin Cut /\ Copies(b) = 0 + 0 + 0 + 0
      BY <2>12, <2>13
    <3> QED BY <3>1
  <2>14. CASE ~ca
    <3>1. b \in Cut /\ Copies(b) = 1 + 0 + 0 + 0
      BY <2>12, <2>14
    <3> QED BY <3>1
  <2>15. CASE ca /\ ~mo
    <3>1. b \in Cut /\ Copies(b) = 0 + 1 + 0 + 0
      BY <2>12, <2>15
    <3> QED BY <3>1
  <2>16. CASE ca /\ mo /\ held
    <3>1. b \in Cut /\ Copies(b) = 0 + 0 + 1 + 0
      BY <2>12, <2>16
    <3> QED BY <3>1
  <2>17. CASE ca /\ mo /\ ~held /\ free
    <3>1. b \in Cut /\ Copies(b) = 0 + 0 + 0 + 1
      BY <2>12, <2>17
    <3> QED BY <3>1
  <2> QED BY <2>13, <2>14, <2>15, <2>16, <2>17
<1>3. Large \notin Class
  BY DEF Large, Class
<1>4. ASSUME NEW b \in Block
      PROVE  Copies(b) = CASE sizeClass[b[1]] \in Class -> 1
                           [] sizeClass[b[1]] = Large -> IF b[2] = 1 THEN 1 ELSE 0
                           [] OTHER -> 0
  <2>1. CASE sizeClass[b[1]] \in Class
    BY <1>2, <1>3, <2>1 DEF Cut
  <2>2. CASE sizeClass[b[1]] = Large
    BY <1>2, <1>3, <2>2 DEF Cut
  <2>3. CASE sizeClass[b[1]] \notin Class /\ sizeClass[b[1]] # Large
    BY <1>2, <2>3 DEF Cut
  <2> QED BY <2>1, <2>2, <2>3
<1> QED BY <1>1, <1>4 DEF BlocksConserved

LEMMA InvNoLeak == PoolInv => NoLeakAfterExit
<1> SUFFICES ASSUME PoolInv, \A t \in Threads : call[t] = Gone, inUse = {}, NEW s \in Spans,
                    sizeClass[s] # Unused
             PROVE  FALSE
  BY DEF NoLeakAfterExit
<1>1. Partition(FreeBlocks, inUse, ListSets, ChainSets, Cut)
  BY DEF PoolInv, Placed
<1>2. \A t \in Threads : ChainSets[t] = {} /\ \A c \in Class : ListSets[t][c] = {}
  <2> TAKE t \in Threads
  <2>1. call[t].chain = << >> /\ Emptied(call[t]) = Class
    BY DEF Gone, Call, Emptied
  <2>2. \A c \in Class : freeList[t][c] = << >>
    BY <2>1 DEF PoolInv, ThreadInv
  <2>3. ToSet(<< >>) = {}
    BY DEF ToSet
  <2> QED BY <2>1, <2>2, <2>3 DEF ChainSets, ListSets
<1>3. Cut \subseteq FreeBlocks
  <2>1. Cut \subseteq Block
    BY DEF Cut
  <2> QED BY <1>1, <1>2, <2>1 DEF Partition
<1>4. /\ sizeClass[s] \in 0 .. NumClasses + 1 /\ spanList[s] \in Seq(1 .. BlockCount)
      /\ freeCount[s] = Len(spanList[s]) /\ freeCount[s] \in Nat /\ freeCount[s] < BlockCount
      /\ IsInjective(spanList[s])
      /\ sizeClass[s] \notin Class => spanList[s] = << >>
  BY SpanFacts
<1>5. \A i \in 1 .. BlockCount : <<s, i>> \in Block /\ <<s, i>>[1] = s /\ <<s, i>>[2] = i
  BY DEF Block
<1>6. sizeClass[s] \in Class \/ sizeClass[s] = Large
  BY <1>4 DEF Class, Large, Unused
<1>7. CASE sizeClass[s] \in Class
  <2> DEFINE S == ToSet(spanList[s])
  <2>1. \A i \in 1 .. BlockCount : i \in S
    BY <1>3, <1>5, <1>7 DEF Cut, FreeBlocks
  <2>2. S \subseteq 1 .. BlockCount /\ Cardinality(S) = Len(spanList[s])
    BY <1>4, SetOf, SetCount
  <2> HIDE DEF S
  <2>3. S = 1 .. BlockCount
    BY <2>1, <2>2
  <2>4. Cardinality(1 .. BlockCount) = BlockCount
    BY FS_Interval
  <2> QED BY <1>4, <2>2, <2>3, <2>4
<1>8. CASE sizeClass[s] = Large
  <2>1. Large \notin Class /\ 1 \in 1 .. BlockCount
    BY DEF Large, Class
  <2>2. ToSet(spanList[s]) = {}
    BY <1>4, <1>8, <2>1 DEF ToSet
  <2>3. <<s, 1>> \in Cut
    BY <1>5, <1>8, <2>1 DEF Cut
  <2>4. 1 \in ToSet(spanList[s])
    BY <1>3, <1>5, <2>1, <2>3 DEF FreeBlocks
  <2> QED BY <2>2, <2>4
<1> QED BY <1>6, <1>7, <1>8

(* Every block of a cut span is in exactly one place, whatever threads     *)
(* fetch, free, return and exit concurrently (fetchRange, returnRange,     *)
(* deallocate, flushAll): none is handed out twice and none is lost.       *)
THEOREM PoolConservesBlocks == Spec => []BlocksConserved
BY PoolInvHolds, InvBlocks, PTL

(* Blocks stay in lists of their class, so the sizeClass test of           *)
(* returnRange drops none; freeListSize_ and freeCount count their lists;  *)
(* partial lists exactly the spans with a free block.                      *)
THEOREM PoolListsExact == Spec => []ListsExact
BY PoolInvHolds, InvLists, PTL

(* After flushAll of every thread, with nothing in use, all spans are back *)
(* in the page cache.                                                      *)
THEOREM PoolLeavesNothing == Spec => []NoLeakAfterExit
BY PoolInvHolds, InvNoLeak, PTL

-----------------------------------------------------------------------------
(* The spin lock.  A thread inside a shard holds its lock.                 *)

LockHeld ==
  /\ lock \in [Class -> Threads \cup {NoThread}]
  /\ \A t \in Threads : InShard(t) => lock[call[t].class] = t

LEMMA LockHeldInductive ==
  ASSUME PoolInv, LockHeld, [Next]_vars
  PROVE  LockHeld'
<1>0. /\ call \in [Threads -> CallType] /\ lock \in [Class -> Threads \cup {NoThread}]
      /\ \A t \in Threads : InShard(t) => lock[call[t].class] = t
      /\ \A t \in Threads : InShard(t) => call[t].class \in Class
  BY DEF PoolInv, ThreadInv, CallShape, LockHeld, InShard
(* A step of thread t that leaves the locks alone and does not bring it    *)
(* into a shard.                                                           *)
<1>1. ASSUME NEW t \in Threads, NEW k \in CallType, UNCHANGED lock, call' = [call EXCEPT ![t] = k],
             k.pc \in {"fetch", "return", "flush"} => k.pc = call[t].pc /\ k.class = call[t].class
      PROVE  LockHeld'
  BY <1>0, <1>1 DEF LockHeld, InShard
(* The step in which thread t enters the shard of its class.               *)
<1>2. ASSUME NEW t \in Threads, Lock(t)
      PROVE  LockHeld'
  <2> DEFINE c == call[t].class
             k == [call[t] EXCEPT !.pc = CASE @ = "fetch_lock"  -> "fetch"
                                           [] @ = "return_lock" -> "return"
                                           [] @ = "flush_lock"  -> "flush"]
  <2>1. /\ lock[c] = NoThread /\ lock' = [lock EXCEPT ![c] = t]
        /\ call[t].pc \in {"fetch_lock", "return_lock", "flush_lock"}
        /\ call' = [call EXCEPT ![t].pc = CASE @ = "fetch_lock"  -> "fetch"
                                            [] @ = "return_lock" -> "return"
                                            [] @ = "flush_lock"  -> "flush"]
    BY <1>2 DEF Lock
  <2>2. c \in Class
    BY <2>1 DEF PoolInv, ThreadInv, CallShape
  <2>3. call' = [call EXCEPT ![t] = k] /\ k.class = c
    BY <1>0, <2>1 DEF CallType
  <2> HIDE DEF k
  <2>4. /\ lock' \in [Class -> Threads \cup {NoThread}] /\ lock'[c] = t
        /\ \A d \in Class : d # c => lock'[d] = lock[d]
    BY <1>0, <2>1, <2>2
  <2>5. ASSUME NEW u \in Threads, InShard(u)'
        PROVE  lock'[call'[u].class] = u
    <3>1. CASE u = t
      BY <1>0, <2>3, <2>4, <3>1
    <3>2. CASE u # t
      <4>1. call'[u] = call[u] /\ InShard(u)
        BY <1>0, <2>3, <2>5, <3>2 DEF InShard
      <4>2. lock[call[u].class] = u /\ call[u].class \in Class
        BY <1>0, <4>1
      <4> QED BY <2>1, <2>4, <4>1, <4>2
    <3> QED BY <3>1, <3>2
  <2> QED BY <2>4, <2>5 DEF LockHeld
(* The steps in which it leaves.                                           *)
<1>3. ASSUME NEW t \in Threads, NEW k \in CallType, InShard(t), call' = [call EXCEPT ![t] = k],
             lock' = [lock EXCEPT ![call[t].class] = NoThread],
             k.pc \notin {"fetch", "return", "flush"}
      PROVE  LockHeld'
  <2> DEFINE c == call[t].class
  <2>1. c \in Class /\ lock[c] = t
    BY <1>0, <1>3
  <2>2. /\ lock' \in [Class -> Threads \cup {NoThread}]
        /\ \A d \in Class : d # c => lock'[d] = lock[d]
    BY <1>0, <1>3, <2>1
  <2>3. ASSUME NEW u \in Threads, InShard(u)'
        PROVE  lock'[call'[u].class] = u
    <3>1. u # t
      BY <1>0, <1>3, <2>3 DEF InShard
    <3>2. call'[u] = call[u] /\ InShard(u)
      BY <1>0, <1>3, <2>3, <3>1 DEF InShard
    <3>3. lock[call[u].class] = u /\ call[u].class \in Class
      BY <1>0, <3>2
    <3> QED BY <2>1, <2>2, <3>1, <3>2, <3>3
  <2> QED BY <2>2, <2>3 DEF LockHeld
<1>4. CASE UNCHANGED vars
  BY <1>0, <1>4 DEF vars, LockHeld, InShard
<1>5. /\ Ready \in CallType /\ Ready.pc = "ready" /\ Gone \in CallType /\ Gone.pc = "gone"
      /\ \A p \in Pc, c \in Nat, q \in Seq(Block) : Call(p, c, q) \in CallType /\ Call(p, c, q).pc = p
  BY DEF Ready, Gone, Call, CallType, Pc
<1>b. \A p \in Pc, c \in Nat : Call(p, c, << >>) \in CallType /\ Call(p, c, << >>).pc = p
  BY DEF Call, CallType
<1>6. \A t \in Threads : call[t] \in CallType /\ call[t].class \in Nat /\ call[t].chain \in Seq(Block)
  BY <1>0 DEF CallType
<1>7. << >> \in Seq(Block) /\ \A c \in Class : c \in Nat
  BY DEF Class
<1>a. ASSUME NEW t \in Threads, UNCHANGED <<lock, call>>
      PROVE  LockHeld'
  BY <1>0, <1>a DEF LockHeld, InShard
<1>8. ASSUME NEW t \in Threads, NEW c \in Class, AllocateCached(t, c) \/ FetchFromCentralCache(t, c)
      PROVE  LockHeld'
  <2>1. CASE AllocateCached(t, c)
    BY <1>a, <2>1 DEF AllocateCached
  <2>2. CASE FetchFromCentralCache(t, c)
    <3> DEFINE k == Call("fetch_lock", c, << >>)
    <3>1. k \in CallType /\ k.pc = "fetch_lock"
      BY <1>b, <1>7 DEF Pc
    <3>2. UNCHANGED lock /\ call' = [call EXCEPT ![t] = k]
      BY <2>2 DEF FetchFromCentralCache, SetCall
    <3> HIDE DEF k
    <3> QED BY <1>1, <3>1, <3>2
  <2> QED BY <1>8, <2>1, <2>2
<1>9. ASSUME NEW t \in Threads, NEW s \in Spans, AllocateLarge(t, s)
      PROVE  LockHeld'
  BY <1>a, <1>9 DEF AllocateLarge
<1>10. ASSUME NEW t \in Threads, Locked(t)
       PROVE  LockHeld'
  <2>1. ASSUME NEW b \in Block, UNCHANGED lock, call' = [call EXCEPT ![t].chain = Append(@, b)]
        PROVE  LockHeld'
    <3> DEFINE g == Append(call[t].chain, b)
               k == [call[t] EXCEPT !.chain = g]
    <3>1. g \in Seq(Block)
      BY <1>6
    <3> HIDE DEF g
    <3>2. k \in CallType /\ k.pc = call[t].pc /\ k.class = call[t].class
      BY <1>6, <3>1 DEF CallType
    <3>3. call' = [call EXCEPT ![t] = k]
      BY <1>0, <2>1 DEF g
    <3> HIDE DEF k
    <3> QED BY <1>1, <2>1, <3>2, <3>3
  <2>2. CASE FetchBlock(t)
    <3> DEFINE s == Head(partial[call[t].class])
    <3>1. call[t].pc = "fetch" /\ partial[call[t].class] # << >> /\ UNCHANGED lock
          /\ call' = [call EXCEPT ![t].chain = Append(@, <<s, Head(spanList[s])>>)]
      BY <2>2 DEF FetchBlock, TakeBlock
    <3>2. call[t].class \in Class
      BY <1>0, <3>1 DEF InShard
    <3>3. /\ partial[call[t].class] \in Seq(Spans)
          /\ ToSet(partial[call[t].class]) = {r \in Spans : sizeClass[r] = call[t].class /\ freeCount[r] > 0}
          /\ IsInjective(partial[call[t].class])
      BY <3>2 DEF PoolInv, SpanInv
    <3>4. s \in Spans /\ freeCount[s] > 0
      BY <3>1, <3>3, TailSet
    <3> HIDE DEF s
    <3>5. spanList[s] \in Seq(1 .. BlockCount) /\ spanList[s] # << >>
      BY <3>4, SpanFacts
    <3>6. <<s, Head(spanList[s])>> \in Block
      BY <3>4, <3>5 DEF Block
    <3> QED BY <2>1, <3>1, <3>6
  <2>3. ASSUME NEW s \in Spans, CreateSpan(t, s)
        PROVE  LockHeld'
    <3>1. UNCHANGED lock
          /\ call' = [call EXCEPT ![t].chain = Append(@, <<s, Head([i \in 1 .. BlockCount |-> i])>>)]
      BY <2>3 DEF CreateSpan, TakeBlock
    <3>2. <<s, Head([i \in 1 .. BlockCount |-> i])>> \in Block
      BY DEF Block
    <3> QED BY <2>1, <3>1, <3>2
  <2>4. CASE FetchDone(t)
    BY <1>3, <1>5, <2>4 DEF FetchDone, SetCall, InShard
  <2>5. CASE ReturnBlock(t)
    <3> DEFINE g == Tail(call[t].chain)
               k == [call[t] EXCEPT !.chain = g]
    <3>1. UNCHANGED lock /\ call[t].chain # << >> /\ call' = [call EXCEPT ![t].chain = Tail(@)]
      BY <2>5 DEF ReturnBlock
    <3>2. g \in Seq(Block)
      BY <1>6, <3>1
    <3>3. call' = [call EXCEPT ![t] = k]
      BY <1>0, <3>1
    <3> HIDE DEF g
    <3>4. k \in CallType /\ k.pc = call[t].pc /\ k.class = call[t].class
      BY <1>6, <3>2 DEF CallType
    <3> HIDE DEF k
    <3> QED BY <1>1, <3>1, <3>3, <3>4
  <2>6. CASE ReturnDone(t)
    <3> DEFINE k == IF call[t].pc = "return" THEN Ready ELSE Call("exit", call[t].class + 1, << >>)
    <3>1. /\ lock' = [lock EXCEPT ![call[t].class] = NoThread] /\ call' = [call EXCEPT ![t] = k]
          /\ InShard(t)
      BY <2>6 DEF ReturnDone, SetCall, InShard
    <3>2. call[t].class + 1 \in Nat
      BY <1>6
    <3>3. k \in CallType /\ k.pc \notin {"fetch", "return", "flush"}
      BY <1>5, <1>7, <3>2 DEF Pc
    <3> HIDE DEF k
    <3> QED BY <1>3, <3>1, <3>3
  <2> QED BY <1>10, <2>2, <2>3, <2>4, <2>5, <2>6 DEF Locked
<1>11. ASSUME NEW t \in Threads, NEW b \in Block, Deallocate(t, b) \/ DeallocateLarge(t, b)
       PROVE  LockHeld'
  <2>1. CASE DeallocateLarge(t, b)
    BY <1>a, <2>1 DEF DeallocateLarge
  <2>2. CASE Deallocate(t, b)
    <3> DEFINE c == FreeClass(b)
               l == <<b>> \o freeList[t][c]
               n == freeListSize[t][c] + 1
               o == SubSeq(l, KeepNum(n) + 1, Len(l))
               k == Call("return_lock", c, o)
    <3>1. c \in Class /\ UNCHANGED lock /\ (UNCHANGED call \/ call' = [call EXCEPT ![t] = k])
      BY <2>2 DEF Deallocate, SetCall
    <3>2. freeList[t][c] \in Seq(Block) /\ freeListSize[t][c] \in Nat
      BY <3>1 DEF PoolInv, ThreadInv
    <3>3. l \in Seq(Block) /\ n \in Nat
      BY <3>2
    <3> HIDE DEF l, n
    <3>4. KeepNum(n) \in Nat /\ Len(l) \in Nat
      BY <3>3, KeepNumType
    <3>5. o \in Seq(Block)
      BY <3>3, <3>4
    <3> HIDE DEF o, c
    <3>6. k \in CallType /\ k.pc = "return_lock"
      BY <1>5, <1>7, <3>1, <3>5 DEF Pc
    <3> HIDE DEF k
    <3> QED BY <1>1, <1>a, <3>1, <3>6
  <2> QED BY <1>11, <2>1, <2>2
<1>12. ASSUME NEW t \in Threads, Exit(t) \/ FlushClass(t) \/ Start(t)
       PROVE  LockHeld'
  <2>1. CASE Exit(t)
    <3>1. Call("exit", 1, << >>) \in CallType /\ Call("exit", 1, << >>).pc = "exit"
      BY <1>b DEF Pc
    <3> QED BY <1>1, <2>1, <3>1 DEF Exit, SetCall
  <2>2. CASE Start(t)
    BY <1>1, <1>5, <2>2 DEF Start, SetCall
  <2>3. CASE FlushClass(t)
    <3> DEFINE c == call[t].class
               k1 == Call("flush_lock", c, freeList[t][c])
               k2 == Call("exit", c + 1, << >>)
    <3>1. UNCHANGED lock /\ \/ call' = [call EXCEPT ![t] = Gone]
                            \/ ~(c > NumClasses) /\ call' = [call EXCEPT ![t] = k1]
                            \/ call' = [call EXCEPT ![t] = k2]
      BY <2>3 DEF FlushClass, SetCall
    <3>2. c \in 1 .. NumClasses + 1
      BY <2>3 DEF FlushClass, PoolInv, ThreadInv, CallShape
    <3>3. c \in Nat /\ c + 1 \in Nat /\ (~(c > NumClasses) => c \in Class)
      BY <3>2 DEF Class
    <3>4. c \in Class => freeList[t][c] \in Seq(Block)
      BY DEF PoolInv, ThreadInv
    <3> HIDE DEF c
    <3>5. k2 \in CallType /\ k2.pc = "exit"
      BY <1>b, <3>3 DEF Pc
    <3>6. c \in Class => k1 \in CallType /\ k1.pc = "flush_lock"
      BY <1>5, <3>3, <3>4 DEF Pc
    <3> HIDE DEF k1, k2
    <3>7. CASE call' = [call EXCEPT ![t] = Gone]
      BY <1>1, <1>5, <3>1, <3>7
    <3>8. CASE ~(c > NumClasses) /\ call' = [call EXCEPT ![t] = k1]
      BY <1>1, <3>1, <3>3, <3>6, <3>8
    <3>9. CASE call' = [call EXCEPT ![t] = k2]
      BY <1>1, <3>1, <3>5, <3>9
    <3> QED BY <3>1, <3>7, <3>8, <3>9
  <2> QED BY <1>12, <2>1, <2>2, <2>3
<1> QED BY <1>2, <1>4, <1>8, <1>9, <1>10, <1>11, <1>12 DEF Next

(* At most one thread at a time is between lock and unlock of a shard      *)
(* (SpinLock, fetchRange, returnRange), for any number of threads.         *)
THEOREM PoolShardExclusive == Spec => []ShardExclusive
<1>1. Init => LockHeld
  BY DEF Init, LockHeld, InShard, Ready, Call
<1>2. PoolInv /\ LockHeld /\ [Next]_vars => LockHeld'
  BY LockHeldInductive
<1>3. LockHeld => ShardExclusive
  BY DEF LockHeld, ShardExclusive
<1> QED BY <1>1, <1>2, <1>3, PoolInvHolds, PTL DEF Spec
=============================================================================
