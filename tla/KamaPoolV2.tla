----------------------------- MODULE KamaPoolV2 -----------------------------
(***************************************************************************)
(* CentralCache and ThreadCache of vendor_memorypool/v2.  The central      *)
(* cache cuts spans into blocks, one list per size class, and returns a    *)
(* span to the page cache when its tracker counts all blocks as free.      *)
(*                                                                         *)
(* fetchRange and returnRange run under the spin lock of their class, and  *)
(* what a thread does to its own cache around such a call is invisible to  *)
(* the others: every call of MemoryPool is a single step.  Trackers of a   *)
(* span that two classes used after each other are shared by their locks;  *)
(* the steps of two classes are taken one after the other here.            *)
(*                                                                         *)
(* Lists are sequences, which describes the memory up to the moment a span *)
(* with blocks in use is handed back; the model is not followed further.   *)
(* The page cache (PageCacheV2) is the set of spans it has handed out.     *)
(* Left out: blocks above MAX_BYTES, which go to malloc and free, a        *)
(* tracker that cannot be allocated, and classes above 16 KiB, whose span  *)
(* is a single block that is never tracked nor returned.                   *)
(***************************************************************************)
EXTENDS Integers, Sequences, FiniteSets, FiniteSetsExt, SequencesExt

CONSTANTS Threads, Spans, Classes,
          BlockNum,        \* BlockNum[c]: blocks a span is cut into, at least 2
          Threshold,       \* shouldReturnToCentralCache: longest cached list
          MAX_DELAY_COUNT, \* returns between two looks at the trackers
          MaxTrackers      \* bound: spans fetched in a behaviour

VARIABLES out,         \* spans the page cache has handed out
          central,     \* centralFreeList_
          trackers,    \* spanTrackers_, in the order they were pushed
          delayCounts, \* delayCounts_
          cache,       \* cache[t][c]: freeList_[c] of thread t
          used,        \* used[c]: blocks of class c that callers hold
          exited       \* threads whose ThreadCache is being destroyed
vars == <<out, central, trackers, delayCounts, cache, used, exited>>

Block(s, i) == [span |-> s, pos |-> i]

Init ==
  /\ out         = {}
  /\ central     = [c \in Classes |-> << >>]
  /\ trackers    = << >>
  /\ delayCounts = [c \in Classes |-> 0]
  /\ cache       = [t \in Threads |-> [c \in Classes |-> << >>]]
  /\ used        = [c \in Classes |-> {}]
  /\ exited      = {}

(* getSpanTracker: the first tracker of the block's span, 0 if none; also  *)
(* one that was left behind when the span was handed back.                 *)
getSpanTracker(b) ==
  LET found == {i \in DOMAIN trackers : trackers[i].span = b.span}
  IN  IF found = {} THEN 0 ELSE Min(found)

Hand(c, b) == used' = [used EXCEPT ![c] = @ \cup {b}]

-----------------------------------------------------------------------------
(* allocate.                                                               *)

AllocateCached(t, c) ==
  /\ t \notin exited
  /\ cache[t][c] # << >>
  /\ Hand(c, Head(cache[t][c]))
  /\ cache' = [cache EXCEPT ![t][c] = Tail(@)]
  /\ UNCHANGED <<out, central, trackers, delayCounts, exited>>

(* fetchRange takes the first block of the list and counts it as used.     *)
(* freeCount may fall below 0 (a size_t): it is only compared modulo 2^64. *)
FetchListed(t, c) ==
  /\ t \notin exited
  /\ cache[t][c] = << >> /\ central[c] # << >>
  /\ LET b == Head(central[c])
         k == getSpanTracker(b)
     IN  /\ Hand(c, b)
         /\ trackers' = IF k = 0 THEN trackers
                        ELSE [trackers EXCEPT ![k].freeCount = @ - 1]
  /\ central' = [central EXCEPT ![c] = Tail(@)]
  /\ UNCHANGED <<out, delayCounts, cache, exited>>

(* fetchRange with an empty list cuts a new span.                          *)
FetchSpan(t, c, s) ==
  /\ t \notin exited
  /\ cache[t][c] = << >> /\ central[c] = << >>
  /\ Len(trackers) < MaxTrackers
  /\ s \notin out
  /\ out' = out \cup {s}
  /\ Hand(c, Block(s, 1))
  /\ central'  = [central EXCEPT ![c] = [i \in 1 .. BlockNum[c] - 1 |-> Block(s, i + 1)]]
  /\ trackers' = Append(trackers, [span |-> s, blockCount |-> BlockNum[c],
                                   freeCount |-> BlockNum[c] - 1])
  /\ UNCHANGED <<delayCounts, cache, exited>>

-----------------------------------------------------------------------------
(* returnRange.                                                            *)

(* updateSpanFreeCount's walk: the blocks of the span leave the list, but  *)
(* newHead is only set when the list begins with one of them.              *)
Without(list, s) ==
  IF Head(list).span = s THEN SelectSeq(list, LAMBDA b : b.span # s) ELSE << >>

(* One turn of performDelayedReturn's loop, for tracker k; count[k] are    *)
(* the listed blocks of its span.                                          *)
updateSpanFreeCount(r, k, count) ==
  LET s == r.trackers[k].span
      n == r.trackers[k].freeCount + count[k]
      counted == [r EXCEPT !.trackers[k].freeCount = n]
  IN  IF n # r.trackers[k].blockCount THEN counted
      ELSE [counted EXCEPT !.list = IF @ = << >> THEN @ ELSE Without(@, s),
                           !.out  = @ \ {s}]

(* performDelayedReturn on list; the order of the trackers is that of an   *)
(* unordered_map.                                                          *)
Listed(list, k) == {i \in DOMAIN list : getSpanTracker(list[i]) = k}

performDelayedReturn(c, list) ==
  LET count == [k \in DOMAIN trackers |-> Cardinality(Listed(list, k))]
  IN  \E order \in SetToSeqs({k \in DOMAIN trackers : count[k] > 0}) :
        LET r == FoldLeft(LAMBDA x, k : updateSpanFreeCount(x, k, count),
                          [list |-> list, trackers |-> trackers, out |-> out], order)
        IN  /\ central'  = [central EXCEPT ![c] = r.list]
            /\ trackers' = r.trackers
            /\ out'      = r.out
            /\ delayCounts' = [delayCounts EXCEPT ![c] = 0]

(* The returned blocks go to the front; every MAX_DELAY_COUNT-th return    *)
(* looks at the trackers, and any other may, when DELAY_INTERVAL is over.  *)
returnRange(blocks, c) ==
  LET list == blocks \o central[c]
      n    == delayCounts[c] + 1
  IN  \/ performDelayedReturn(c, list)
      \/ /\ n < MAX_DELAY_COUNT
         /\ central'     = [central EXCEPT ![c] = list]
         /\ delayCounts' = [delayCounts EXCEPT ![c] = n]
         /\ UNCHANGED <<out, trackers>>

-----------------------------------------------------------------------------
(* deallocate, by any thread; the caller's size selects the class.  Above  *)
(* the threshold a quarter of the list, at least one block, stays.         *)
Deallocate(t, c, b) ==
  /\ t \notin exited
  /\ b \in used[c]
  /\ used' = [used EXCEPT ![c] = @ \ {b}]
  /\ LET list == <<b>> \o cache[t][c]
         keep == Max({Len(list) \div 4, 1})
     IN  IF Len(list) > Threshold /\ Len(list) > 1
         THEN /\ cache' = [cache EXCEPT ![t][c] = SubSeq(list, 1, keep)]
              /\ returnRange(SubSeq(list, keep + 1, Len(list)), c)
         ELSE /\ cache' = [cache EXCEPT ![t][c] = list]
              /\ UNCHANGED <<out, central, trackers, delayCounts>>
  /\ UNCHANGED exited

(* ~ThreadCache returns one class after the other; other threads run in    *)
(* between.                                                                *)
Exit(t) ==
  /\ t \notin exited
  /\ exited' = exited \cup {t}
  /\ UNCHANGED <<out, central, trackers, delayCounts, cache, used>>

FlushClass(t, c) ==
  /\ t \in exited /\ cache[t][c] # << >>
  /\ returnRange(cache[t][c], c)
  /\ cache' = [cache EXCEPT ![t][c] = << >>]
  /\ UNCHANGED <<used, exited>>

Next ==
  \E t \in Threads :
    \/ Exit(t)
    \/ \E c \in Classes :
         \/ AllocateCached(t, c) \/ FetchListed(t, c) \/ FlushClass(t, c)
         \/ \E s \in Spans : FetchSpan(t, c, s)
         \/ \E b \in used[c] : Deallocate(t, c, b)

Spec == Init /\ [][Next]_vars

-----------------------------------------------------------------------------
Cached == UNION {ToSet(cache[t][c]) : t \in Threads, c \in Classes}
InUse  == UNION {used[c] : c \in Classes}

(* CentralCache.h on SpanTracker::freeCount: a span goes back to the page  *)
(* cache when all its blocks are free.  So no block of a span that the     *)
(* page cache may hand out again is held by a caller or by a thread.       *)
SpanReturnedFree == \A b \in InUse \cup Cached : b.span \in out
=============================================================================
