------------------------------ MODULE KamaPool ------------------------------
(***************************************************************************)
(* The small-object path of Kama_memoryPool v3: per-thread free lists      *)
(* (ThreadCache.cpp) in front of one spin-locked shard per size class      *)
(* (CentralCache.cpp), which cuts spans of the page cache into blocks.     *)
(* Large allocations go straight to the page cache.                        *)
(*                                                                         *)
(* A block is <<span, index>>.  What ThreadCache does to its own lists is  *)
(* one step; fetchRange and returnRange are one step per loop iteration    *)
(* between lock and unlock, so any two threads interleave inside them.     *)
(* The page cache is used as SpanPool promises: allocateSpan answers with  *)
(* a span nobody holds, or fails; findSpan answers with the span of a      *)
(* block in use.  Threads free blocks that other threads allocated, and    *)
(* exit (flushAll) and start again at any time.                            *)
(*                                                                         *)
(* Callers free only what they hold, and pass the size they asked for, so  *)
(* deallocate(ptr) and deallocate(ptr, size) reach the same size class.    *)
(***************************************************************************)
EXTENDS Integers, Sequences, FiniteSets, FiniteSetsExt, SequencesExt, Selection

CONSTANTS Threads,     \* threads using the pool
          NoThread,    \* an unlocked shard
          NumClasses,  \* FREE_LIST_SIZE
          Spans,       \* bound: spans the page cache can hand out
          BlockCount,  \* blocks createSpan cuts a span into
          BatchNum,    \* getBatchNum
          MaxCached    \* maxCachedBlocks

ASSUME NoThreadAssumption == NoThread \notin Threads
ASSUME NumClassesAssumption == NumClasses \in Nat \ {0}
ASSUME BlockCountAssumption == BlockCount \in Nat \ {0}
ASSUME BatchNumAssumption == BatchNum \in Nat \ {0}
ASSUME MaxCachedAssumption == MaxCached \in Nat \ {0}

VARIABLES freeList,      \* freeList_[class] of each thread, head first
          freeListSize,  \* freeListSize_[class] of each thread
          call,          \* what each thread is executing
          lock,          \* shards_[class].lock
          partial,       \* shards_[class].partial, head first
          sizeClass,     \* span -> class, Large, or Unused (in the page cache)
          spanList,      \* Span::freeList, head first
          freeCount,     \* Span::freeCount
          inUse          \* blocks callers hold

threadVars  == <<freeList, freeListSize>>
centralVars == <<partial, sizeClass, spanList, freeCount>>
vars        == <<threadVars, call, lock, centralVars, inUse>>

Class  == 1 .. NumClasses
Large  == NumClasses + 1   \* sizeClass of a large span
Unused == 0                \* not allocated by the page cache
Block  == Spans \X (1 .. BlockCount)

Call(pc, c, chain) == [pc |-> pc, class |-> c, chain |-> chain]
Ready == Call("ready", 0, << >>)
Gone  == Call("gone", 0, << >>)

Init ==
  /\ freeList     = [t \in Threads |-> [c \in Class |-> << >>]]
  /\ freeListSize = [t \in Threads |-> [c \in Class |-> 0]]
  /\ call         = [t \in Threads |-> Ready]
  /\ lock         = [c \in Class |-> NoThread]
  /\ partial      = [c \in Class |-> << >>]
  /\ sizeClass    = [s \in Spans |-> Unused]
  /\ spanList     = [s \in Spans |-> << >>]
  /\ freeCount    = [s \in Spans |-> 0]
  /\ inUse        = {}

SetCall(t, v) == call' = [call EXCEPT ![t] = v]

-----------------------------------------------------------------------------
(* ThreadCache::allocate.                                                  *)

AllocateCached(t, c) ==
  /\ call[t] = Ready
  /\ freeList[t][c] # << >>
  /\ freeList'     = [freeList EXCEPT ![t][c] = Tail(@)]
  /\ freeListSize' = [freeListSize EXCEPT ![t][c] = @ - 1]
  /\ inUse'        = inUse \cup {Head(freeList[t][c])}
  /\ UNCHANGED <<call, lock, centralVars>>

FetchFromCentralCache(t, c) ==
  /\ call[t] = Ready
  /\ freeList[t][c] = << >>
  /\ SetCall(t, Call("fetch_lock", c, << >>))
  /\ UNCHANGED <<threadVars, lock, centralVars, inUse>>

AllocateLarge(t, s) ==
  /\ call[t] = Ready
  /\ sizeClass[s] = Unused
  /\ sizeClass' = [sizeClass EXCEPT ![s] = Large]
  /\ inUse'     = inUse \cup {<<s, 1>>}
  /\ UNCHANGED <<threadVars, call, lock, partial, spanList, freeCount>>

-----------------------------------------------------------------------------
(* SpinLock.                                                               *)

(* Faulty: takes the lock without waiting for it to be free.               *)
LockUnguarded(t) ==
  /\ call[t].pc \in {"fetch_lock", "return_lock", "flush_lock"}
  /\ lock' = [lock EXCEPT ![call[t].class] = t]
  /\ call' = [call EXCEPT ![t].pc = CASE @ = "fetch_lock"  -> "fetch"
                                      [] @ = "return_lock" -> "return"
                                      [] @ = "flush_lock"  -> "flush"]
  /\ UNCHANGED <<threadVars, centralVars, inUse>>

Lock(t) ==
  /\ call[t].pc \in {"fetch_lock", "return_lock", "flush_lock"}
  /\ lock[call[t].class] = NoThread
  /\ lock' = [lock EXCEPT ![call[t].class] = t]
  /\ call' = [call EXCEPT ![t].pc = CASE @ = "fetch_lock"  -> "fetch"
                                      [] @ = "return_lock" -> "return"
                                      [] @ = "flush_lock"  -> "flush"]
  /\ UNCHANGED <<threadVars, centralVars, inUse>>

-----------------------------------------------------------------------------
(* CentralCache::fetchRange.                                               *)

(* Take the first block of span s, the head of list spans, off its list;   *)
(* a span without blocks leaves the partial list.                          *)
TakeBlock(t, c, s, spans, list, count) ==
  /\ call'      = [call EXCEPT ![t].chain = Append(@, <<s, Head(list)>>)]
  /\ spanList'  = [spanList EXCEPT ![s] = Tail(list)]
  /\ freeCount' = [freeCount EXCEPT ![s] = count - 1]
  /\ partial'   = [partial EXCEPT ![c] = IF count = 1 THEN Tail(spans) ELSE spans]

(* One iteration with a span at hand. *)
FetchBlock(t) ==
  LET c == call[t].class
      s == Head(partial[c])
  IN  /\ call[t].pc = "fetch"
      /\ Len(call[t].chain) < BatchNum
      /\ partial[c] # << >>
      /\ TakeBlock(t, c, s, partial[c], spanList[s], freeCount[s])
      /\ UNCHANGED <<threadVars, lock, sizeClass, inUse>>

(* One iteration that has to create a span: all its blocks are chained in  *)
(* address order.                                                          *)
CreateSpan(t, s) ==
  LET c == call[t].class
  IN  /\ call[t].pc = "fetch"
      /\ Len(call[t].chain) < BatchNum
      /\ partial[c] = << >>
      /\ sizeClass[s] = Unused
      /\ sizeClass' = [sizeClass EXCEPT ![s] = c]
      /\ TakeBlock(t, c, s, <<s>>, [i \in 1 .. BlockCount |-> i], BlockCount)
      /\ UNCHANGED <<threadVars, lock, inUse>>

(* Faulty: the block handed to the caller stays in the free list.          *)
FetchDoneKeepHead(t) ==
  LET c     == call[t].class
      chain == call[t].chain
  IN  /\ call[t].pc = "fetch"
      /\ Len(chain) = BatchNum \/ partial[c] = << >>
      /\ lock' = [lock EXCEPT ![c] = NoThread]
      /\ SetCall(t, Ready)
      /\ IF chain = << >>
         THEN UNCHANGED <<threadVars, inUse>>
         ELSE /\ freeList'     = [freeList EXCEPT ![t][c] = chain]
              /\ freeListSize' = [freeListSize EXCEPT ![t][c] = @ + Len(chain)]
              /\ inUse'        = inUse \cup {Head(chain)}
      /\ UNCHANGED centralVars

(* Faulty: without a span the loop tries again instead of giving up, with  *)
(* the lock held.                                                          *)
FetchDoneRetry(t) ==
  LET c     == call[t].class
      chain == call[t].chain
  IN  /\ call[t].pc = "fetch"
      /\ \/ /\ Len(chain) < BatchNum
            /\ partial[c] = << >>
            /\ UNCHANGED <<threadVars, call, lock, inUse>>
         \/ /\ Len(chain) = BatchNum
            /\ lock'         = [lock EXCEPT ![c] = NoThread]
            /\ SetCall(t, Ready)
            /\ freeList'     = [freeList EXCEPT ![t][c] = Tail(chain)]
            /\ freeListSize' = [freeListSize EXCEPT ![t][c] = @ + Len(chain) - 1]
            /\ inUse'        = inUse \cup {Head(chain)}
      /\ UNCHANGED centralVars

(* The loop ends with a full batch or when no span can be created; unlock  *)
(* and hand the first block to the caller, the others to the free list.    *)
FetchDone(t) ==
  LET c     == call[t].class
      chain == call[t].chain
  IN  /\ call[t].pc = "fetch"
      /\ Len(chain) = BatchNum \/ partial[c] = << >>
      /\ lock' = [lock EXCEPT ![c] = NoThread]
      /\ SetCall(t, Ready)
      /\ IF chain = << >>
         THEN UNCHANGED <<threadVars, inUse>>
         ELSE /\ freeList'     = [freeList EXCEPT ![t][c] = Tail(chain)]
              /\ freeListSize' = [freeListSize EXCEPT ![t][c] = @ + Len(chain) - 1]
              /\ inUse'        = inUse \cup {Head(chain)}
      /\ UNCHANGED centralVars

-----------------------------------------------------------------------------
(* ThreadCache::deallocate.                                                *)

(* returnToCentralCache keeps half of the list, at most the limit.         *)
KeepNum(n) == Min({Max({n \div 2, 1}), MaxCached})

(* The class a freed block is listed under: Span::sizeClass, or the class  *)
(* of the size the caller passes.                                          *)
FreeClass(b) == sizeClass[b[1]]

(* Push on the caller's own list; above the limit, the older part of the   *)
(* list goes back to the central cache.                                    *)
Deallocate(t, b) ==
  LET c == FreeClass(b)
      l == <<b>> \o freeList[t][c]
      n == freeListSize[t][c] + 1
  IN  /\ call[t] = Ready
      /\ b \in inUse
      /\ c \in Class
      /\ inUse' = inUse \ {b}
      /\ IF n > MaxCached /\ KeepNum(n) < n
         THEN /\ freeList'     = [freeList EXCEPT ![t][c] = SubSeq(l, 1, KeepNum(n))]
              /\ freeListSize' = [freeListSize EXCEPT ![t][c] = KeepNum(n)]
              /\ SetCall(t, Call("return_lock", c, SubSeq(l, KeepNum(n) + 1, Len(l))))
         ELSE /\ freeList'     = [freeList EXCEPT ![t][c] = l]
              /\ freeListSize' = [freeListSize EXCEPT ![t][c] = n]
              /\ UNCHANGED call
      /\ UNCHANGED <<lock, centralVars>>

DeallocateLarge(t, b) ==
  /\ call[t] = Ready
  /\ b \in inUse
  /\ sizeClass[b[1]] = Large
  /\ inUse'     = inUse \ {b}
  /\ sizeClass' = [sizeClass EXCEPT ![b[1]] = Unused]
  /\ UNCHANGED <<threadVars, call, lock, partial, spanList, freeCount>>

-----------------------------------------------------------------------------
(* CentralCache::returnRange.                                              *)

(* Faulty: a span that was exhausted is not linked again.                  *)
RelinkedNever(c, s) == partial[c]

(* A span that had no free block comes back to the front of the list.      *)
Relinked(c, s) == IF freeCount[s] = 0 THEN <<s>> \o partial[c] ELSE partial[c]

(* unlinkPartial                                                           *)
Unlinked(c, s) == Kept(partial[c], {k \in DOMAIN partial[c] : partial[c][k] # s})

AllBlocksBack(s) == freeCount[s] + 1 = BlockCount

(* One iteration: findSpan, push the block; a completely free span leaves  *)
(* the partial list and goes back to the page cache.                       *)
ReturnBlock(t) ==
  LET c == call[t].class
      s == Head(call[t].chain)[1]
      i == Head(call[t].chain)[2]
  IN  /\ call[t].pc \in {"return", "flush"}
      /\ call[t].chain # << >>
      /\ call' = [call EXCEPT ![t].chain = Tail(@)]
      /\ IF sizeClass[s] # c
         THEN UNCHANGED centralVars
         ELSE IF AllBlocksBack(s)
         THEN /\ partial'   = [partial EXCEPT ![c] = Unlinked(c, s)]
              /\ sizeClass' = [sizeClass EXCEPT ![s] = Unused]
              /\ spanList'  = [spanList EXCEPT ![s] = << >>]
              /\ freeCount' = [freeCount EXCEPT ![s] = 0]
         ELSE /\ partial'   = [partial EXCEPT ![c] = Relinked(c, s)]
              /\ spanList'  = [spanList EXCEPT ![s] = <<i>> \o @]
              /\ freeCount' = [freeCount EXCEPT ![s] = @ + 1]
              /\ UNCHANGED sizeClass
      /\ UNCHANGED <<threadVars, lock, inUse>>

ReturnDone(t) ==
  LET c == call[t].class
  IN  /\ call[t].pc \in {"return", "flush"}
      /\ call[t].chain = << >>
      /\ lock' = [lock EXCEPT ![c] = NoThread]
      /\ SetCall(t, IF call[t].pc = "return" THEN Ready ELSE Call("exit", c + 1, << >>))
      /\ UNCHANGED <<threadVars, centralVars, inUse>>

-----------------------------------------------------------------------------
(* Thread exit: ~ThreadCache runs flushAll, class by class.                *)

Exit(t) ==
  /\ call[t] = Ready
  /\ SetCall(t, Call("exit", 1, << >>))
  /\ UNCHANGED <<threadVars, lock, centralVars, inUse>>

(* Faulty: the loop over the classes ends one too early.                   *)
FlushClassShort(t) ==
  LET c == call[t].class
  IN  /\ call[t].pc = "exit"
      /\ IF c >= NumClasses
         THEN SetCall(t, Gone) /\ UNCHANGED threadVars
         ELSE IF freeList[t][c] # << >> /\ freeListSize[t][c] > 0
         THEN /\ SetCall(t, Call("flush_lock", c, freeList[t][c]))
              /\ freeList'     = [freeList EXCEPT ![t][c] = << >>]
              /\ freeListSize' = [freeListSize EXCEPT ![t][c] = 0]
         ELSE SetCall(t, Call("exit", c + 1, << >>)) /\ UNCHANGED threadVars
      /\ UNCHANGED <<lock, centralVars, inUse>>

(* The next class to flush; its list is not looked at again.               *)
FlushClass(t) ==
  LET c == call[t].class
  IN  /\ call[t].pc = "exit"
      /\ IF c > NumClasses
         THEN SetCall(t, Gone) /\ UNCHANGED threadVars
         ELSE IF freeList[t][c] # << >> /\ freeListSize[t][c] > 0
         THEN /\ SetCall(t, Call("flush_lock", c, freeList[t][c]))
              /\ freeList'     = [freeList EXCEPT ![t][c] = << >>]
              /\ freeListSize' = [freeListSize EXCEPT ![t][c] = 0]
         ELSE SetCall(t, Call("exit", c + 1, << >>)) /\ UNCHANGED threadVars
      /\ UNCHANGED <<lock, centralVars, inUse>>

(* Another thread starts with an empty cache.                              *)
Start(t) ==
  /\ call[t] = Gone
  /\ SetCall(t, Ready)
  /\ UNCHANGED <<threadVars, lock, centralVars, inUse>>

-----------------------------------------------------------------------------
(* Steps inside fetchRange and returnRange, with the lock held.            *)
Locked(t) ==
  \/ FetchBlock(t)
  \/ \E s \in Spans : CreateSpan(t, s)
  \/ FetchDone(t)
  \/ ReturnBlock(t)
  \/ ReturnDone(t)

Next ==
  \E t \in Threads :
    \/ \E c \in Class : AllocateCached(t, c) \/ FetchFromCentralCache(t, c)
    \/ \E s \in Spans : AllocateLarge(t, s)
    \/ Lock(t)
    \/ Locked(t)
    \/ \E b \in Block : Deallocate(t, b) \/ DeallocateLarge(t, b)
    \/ Exit(t)
    \/ FlushClass(t)
    \/ Start(t)

Spec == Init /\ [][Next]_vars

(* A thread that holds a shard lock keeps running.  Nothing is assumed     *)
(* about who gets a lock: the spin lock is not fair.                       *)
FairSpec == Spec /\ \A t \in Threads : WF_vars(Locked(t))

-----------------------------------------------------------------------------
(* How many places hold block b: the list of its span, the free lists, the *)
(* chains being moved and the callers' hands.                              *)
Copies(b) ==
  LET cached == {x \in Threads \X Class : b \in ToSet(freeList[x[1]][x[2]])}
      moving == {t \in Threads : b \in ToSet(call[t].chain)}
  IN  Cardinality(cached) + Cardinality(moving) + (IF b \in inUse THEN 1 ELSE 0)
        + (IF b[2] \in ToSet(spanList[b[1]]) THEN 1 ELSE 0)

(* No list or chain names a block twice.                                   *)
NoRepeats ==
  /\ \A t \in Threads : IsInjective(call[t].chain) /\ \A c \in Class : IsInjective(freeList[t][c])
  /\ \A s \in Spans : IsInjective(spanList[s])

(* Every block of a span that is cut into blocks is in exactly one place,  *)
(* whatever threads allocate, free and exit concurrently: it is never      *)
(* handed out twice and never lost; a span in the page cache has no block  *)
(* anywhere.                                                               *)
BlocksConserved ==
  /\ NoRepeats
  /\ \A b \in Block :
       Copies(b) = CASE sizeClass[b[1]] \in Class -> 1
                     [] sizeClass[b[1]] = Large -> IF b[2] = 1 THEN 1 ELSE 0
                     [] OTHER -> 0

(* Blocks cached or moved for class c are of class c, so that the          *)
(* sizeClass test in returnRange never drops a block.                      *)
ClassesKept ==
  \A t \in Threads, c \in Class :
    /\ \A b \in ToSet(freeList[t][c]) : sizeClass[b[1]] = c
    /\ call[t].class = c => \A b \in ToSet(call[t].chain) : sizeClass[b[1]] = c

(* The hand-kept counters agree with the lists they count.                 *)
CountersExact ==
  /\ \A t \in Threads, c \in Class : freeListSize[t][c] = Len(freeList[t][c])
  /\ \A s \in Spans : freeCount[s] = Len(spanList[s])

(* The partial list of a class holds exactly its spans with a free block,  *)
(* each once; no span is kept that is completely free.                     *)
PartialExact ==
  /\ \A c \in Class : /\ IsInjective(partial[c])
                      /\ ToSet(partial[c]) = {s \in Spans : sizeClass[s] = c /\ freeCount[s] > 0}
  /\ \A s \in Spans : freeCount[s] < BlockCount

(* However the calls of several threads interleave: blocks stay in lists   *)
(* of their size class; the hand-kept counters agree with the lists they   *)
(* count; a class lists exactly its spans with a free block.               *)
ListsExact == ClassesKept /\ CountersExact /\ PartialExact

(* When every thread has exited and nothing is in use, all spans are back  *)
(* in the page cache.                                                      *)
NoLeakAfterExit ==
  (\A t \in Threads : call[t] = Gone) /\ inUse = {} => \A s \in Spans : sizeClass[s] = Unused

(* Thread t is inside fetchRange or returnRange.                           *)
InShard(t) == call[t].pc \in {"fetch", "return", "flush"}

(* Two threads never work on the same shard at once: every iteration of    *)
(* the loops in fetchRange and returnRange has the lists of its class to   *)
(* itself, which is what lets the model take an iteration as one step.     *)
ShardExclusive ==
  \A t, u \in Threads :
    t # u /\ InShard(t) /\ InShard(u) => call[t].class # call[u].class

(* Whoever locks a shard leaves it: the loops of fetchRange and            *)
(* returnRange end.                                                        *)
LockReleased ==
  \A t \in Threads, c \in Class : lock[c] = t ~> lock[c] # t
=============================================================================
