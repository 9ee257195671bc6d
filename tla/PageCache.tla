----------------------------- MODULE PageCache -----------------------------
(***************************************************************************)
(* Kama_memoryPool::PageCache (vendor_memorypool/v3/src/PageCache.cpp):    *)
(* runs of pages obtained from the system ("origins"), cut into spans,     *)
(* kept in size-ordered free lists and merged when they come back.         *)
(*                                                                         *)
(* allocateSpan and deallocateSpan run under mutex_.  findSpan does not:   *)
(* it only takes pageMapMutex_, which deallocateSpan acquires once per     *)
(* registerPages/redirectPages/unregisterPages call.  deallocateSpan is    *)
(* therefore one step per such critical section (op tells how far it is);  *)
(* allocateSpan changes no page-map entry of a page in use and rewrites    *)
(* equal entries in its second section, so it is a single step.            *)
(*                                                                         *)
(* pageAddr of a Span object never changes, so a span is named by its      *)
(* first page; numPages = 0 says that no Span object starts there.         *)
(* A failing allocPages returns nullptr and changes nothing.               *)
(***************************************************************************)
EXTENDS Integers, Sequences, FiniteSets, FiniteSetsExt, SequencesExt, Selection

CONSTANTS NumPages,        \* bound: pages of the address space the system may map
          MaxRequest,      \* bound: longest span a caller asks for
          Granularity,     \* systemAllocGranularity() in pages
          MaxCachedPages   \* kMaxCachedBytes / systemPageSize()

ASSUME NumPagesAssumption == NumPages \in Nat \ {0}
ASSUME MaxRequestAssumption == MaxRequest \in 1 .. NumPages
ASSUME GranularityAssumption == Granularity \in Nat \ {0}
ASSUME MaxCachedPagesAssumption == MaxCachedPages \in Nat

VARIABLES numPages,         \* Span::numPages, by first page
          originAddr,       \* Span::originAddr
          originPages,      \* Span::originPages
          inFreeList,       \* Span::inFreeList
          isLarge,          \* Span::isLarge, set by ThreadCache::allocate
          pageMap,          \* pageMap_: page -> span, 0 if absent
          freeSpans,        \* freeSpans_: size -> list, last inserted first
          cachedFreePages,  \* cachedFreePages_
          systemAllocs,     \* systemAllocs_: set of <<address, pages>>
          op                \* deallocateSpan in progress under mutex_

spanVars == <<numPages, originAddr, originPages, inFreeList, isLarge>>
listVars == <<freeSpans, cachedFreePages>>
vars     == <<spanVars, pageMap, listVars, systemAllocs, op>>

Page  == 1 .. NumPages
Idle  == [pc |-> "idle", span |-> 0]
At(pc, b) == [pc |-> pc, span |-> b]
Run(b, n) == b .. b + n - 1

Init ==
  /\ numPages        = [b \in Page |-> 0]
  /\ originAddr      = [b \in Page |-> 0]
  /\ originPages     = [b \in Page |-> 0]
  /\ inFreeList      = [b \in Page |-> FALSE]
  /\ isLarge         = [b \in Page |-> FALSE]
  /\ pageMap         = [p \in Page |-> 0]
  /\ freeSpans       = [k \in Page |-> << >>]
  /\ cachedFreePages = 0
  /\ systemAllocs    = {}
  /\ op              = Idle

(* Spans in the hands of the central cache or of a large allocation.       *)
Live == {b \in Page : numPages[b] > 0 /\ ~inFreeList[b] /\ b # op.span}

-----------------------------------------------------------------------------
(* Page map and free lists.                                                *)

(* registerPages, and redirectPages when the pages belong to another span. *)
Registered(map, b, n, to) ==
  [p \in Page |-> IF p \in Run(b, n) THEN to ELSE map[p]]

(* findSpanLocked: 0 outside the map.                                      *)
FindSpan(p) == IF p \in Page THEN pageMap[p] ELSE 0

(* Keys of freeSpans_ from lower_bound(n) on.                              *)
Fits(n) == {k \in n .. NumPages : freeSpans[k] # << >>}

(* removeFromFreeList finds the span only in the list of its own size.     *)
InList(b) == b \in ToSet(freeSpans[numPages[b]])

Without(list, b) == Kept(list, {i \in DOMAIN list : list[i] # b})

Unlinked(b) == [freeSpans EXCEPT ![numPages[b]] = Without(@, b)]

RoundUp(n) == ((n + Granularity - 1) \div Granularity) * Granularity

-----------------------------------------------------------------------------
(* allocateSpan.                                                           *)

(* Faulty: registerPages(rest) is missing.                                 *)
SplitMapNoRest(b, n, m) == Registered(pageMap, b, n, b)

(* Cutting span b of m pages after n pages registers both parts.           *)
SplitMap(b, n, m) == Registered(Registered(pageMap, b + n, m - n, b + n), b, n, b)

(* The smallest list that fits; a longer span is cut and the rest goes     *)
(* back to the lists.  ThreadCache marks large spans before it hands out   *)
(* their address.                                                          *)
AllocateCached(n, large) ==
  /\ op = Idle
  /\ Fits(n) # {}
  /\ LET k      == Min(Fits(n))
         b      == Head(freeSpans[k])
         m      == numPages[b]
         rest   == b + n
         popped == [freeSpans EXCEPT ![k] = Tail(@)]
     IN  /\ isLarge' = [isLarge EXCEPT ![b] = large]
         /\ IF m > n
            THEN /\ freeSpans'       = [popped EXCEPT ![m - n] = <<rest>> \o @]
                 /\ cachedFreePages' = cachedFreePages - m + (m - n)
                 /\ numPages'        = [numPages EXCEPT ![b] = n, ![rest] = m - n]
                 /\ originAddr'      = [originAddr EXCEPT ![rest] = originAddr[b]]
                 /\ originPages'     = [originPages EXCEPT ![rest] = originPages[b]]
                 /\ inFreeList'      = [inFreeList EXCEPT ![b] = FALSE, ![rest] = TRUE]
                 /\ pageMap'         = SplitMap(b, n, m)
            ELSE /\ freeSpans'       = popped
                 /\ cachedFreePages' = cachedFreePages - m
                 /\ inFreeList'      = [inFreeList EXCEPT ![b] = FALSE]
                 /\ UNCHANGED <<numPages, originAddr, originPages, pageMap>>
  /\ UNCHANGED <<systemAllocs, op>>

(* systemAlloc rounds up to the granularity; the system answers with any   *)
(* run of pages it has not mapped yet.                                     *)
AllocateSystem(n, large, b) ==
  LET m == RoundUp(n)
  IN  /\ op = Idle
      /\ Fits(n) = {}
      /\ Run(b, m) \subseteq Page
      /\ \A a \in systemAllocs : Run(b, m) \cap Run(a[1], a[2]) = {}
      /\ systemAllocs' = systemAllocs \cup {<<b, m>>}
      /\ numPages'     = [numPages EXCEPT ![b] = m]
      /\ originAddr'   = [originAddr EXCEPT ![b] = b]
      /\ originPages'  = [originPages EXCEPT ![b] = m]
      /\ isLarge'      = [isLarge EXCEPT ![b] = large]
      /\ pageMap'      = Registered(pageMap, b, m, b)
      /\ UNCHANGED <<inFreeList, listVars, op>>

-----------------------------------------------------------------------------
(* deallocateSpan.                                                         *)

OwnsOrigin(b) == originAddr[b] = b /\ numPages[b] = originPages[b]

(* releaseOrigin: unregister, forget the system allocation, delete.        *)
ReleaseOrigin(b) ==
  /\ pageMap'      = Registered(pageMap, b, numPages[b], 0)
  /\ systemAllocs' = {a \in systemAllocs : a[1] # originAddr[b]}
  /\ numPages'     = [numPages EXCEPT ![b] = 0]
  /\ originAddr'   = [originAddr EXCEPT ![b] = 0]
  /\ originPages'  = [originPages EXCEPT ![b] = 0]
  /\ isLarge'      = [isLarge EXCEPT ![b] = FALSE]
  /\ op'           = Idle
  /\ UNCHANGED <<inFreeList, listVars>>

(* Faulty: a large span releases its origin even when it is a part of it.  *)
DeallocateSpanLargeDirect(b) ==
  /\ op = Idle
  /\ b \in Live
  /\ IF isLarge[b] /\ originAddr[b] = b
     THEN ReleaseOrigin(b)
     ELSE /\ isLarge' = [isLarge EXCEPT ![b] = FALSE]
          /\ op'      = At("next", b)
          /\ UNCHANGED <<numPages, originAddr, originPages, inFreeList, pageMap,
                         listVars, systemAllocs>>

DeallocateSpan(b) ==
  /\ op = Idle
  /\ b \in Live
  /\ IF isLarge[b] /\ OwnsOrigin(b)
     THEN ReleaseOrigin(b)
     ELSE /\ isLarge' = [isLarge EXCEPT ![b] = FALSE]
          /\ op'      = At("next", b)
          /\ UNCHANGED <<numPages, originAddr, originPages, inFreeList, pageMap,
                         listVars, systemAllocs>>

(* Two neighbours become one span named left; listed, the one of them that *)
(* was free, leaves its list, and the Span object of right is deleted.     *)
Merge(left, right, listed) ==
  /\ freeSpans'       = Unlinked(listed)
  /\ cachedFreePages' = cachedFreePages - numPages[listed]
  /\ inFreeList'      = [inFreeList EXCEPT ![listed] = FALSE]
  /\ numPages'        = [numPages EXCEPT ![left] = @ + numPages[right], ![right] = 0]
  /\ originAddr'      = [originAddr EXCEPT ![right] = 0]
  /\ originPages'     = [originPages EXCEPT ![right] = 0]
  /\ pageMap'         = Registered(pageMap, right, numPages[right], left)
  /\ UNCHANGED isLarge

NextMerges(b, n) ==
  /\ n # 0 /\ n # b
  /\ inFreeList[n]
  /\ n = b + numPages[b]
  /\ originAddr[n] = originAddr[b]
  /\ InList(n)

MergeNext ==
  /\ op.pc = "next"
  /\ LET b == op.span
         n == FindSpan(b + numPages[b])
     IN  /\ op' = At("prev", b)
         /\ IF NextMerges(b, n) THEN Merge(b, n, n)
            ELSE UNCHANGED <<spanVars, pageMap, listVars>>
  /\ UNCHANGED systemAllocs

(* Faulty: the left neighbour is never merged.                             *)
PrevMergesNever(b, q) == FALSE

PrevMerges(b, q) ==
  /\ b # originAddr[b]
  /\ q # 0 /\ q # b
  /\ inFreeList[q]
  /\ originAddr[q] = originAddr[b]
  /\ q + numPages[q] = b
  /\ InList(q)

MergePrev ==
  /\ op.pc = "prev"
  /\ LET b == op.span
         q == FindSpan(b - 1)
     IN  IF PrevMerges(b, q) THEN op' = At("insert", q) /\ Merge(q, b, q)
         ELSE op' = At("insert", b) /\ UNCHANGED <<spanVars, pageMap, listVars>>
  /\ UNCHANGED systemAllocs

(* Faulty: cachedFreePages_ alone is compared with the budget.             *)
OverBudgetLate(n) == cachedFreePages > MaxCachedPages

OverBudget(n) == cachedFreePages + n > MaxCachedPages

(* A whole origin beyond the cache budget goes back to the system; every   *)
(* other span goes to the front of its list.                               *)
InsertFree ==
  /\ op.pc = "insert"
  /\ LET b == op.span
     IN  IF OwnsOrigin(b) /\ OverBudget(numPages[b])
         THEN ReleaseOrigin(b)
         ELSE /\ inFreeList'      = [inFreeList EXCEPT ![b] = TRUE]
              /\ freeSpans'       = [freeSpans EXCEPT ![numPages[b]] = <<b>> \o @]
              /\ cachedFreePages' = cachedFreePages + numPages[b]
              /\ op'              = Idle
              /\ UNCHANGED <<numPages, originAddr, originPages, isLarge, pageMap,
                             systemAllocs>>

Next ==
  \/ \E n \in 1 .. MaxRequest, large \in BOOLEAN :
       \/ AllocateCached(n, large)
       \/ \E b \in Page : AllocateSystem(n, large, b)
  \/ \E b \in Page : DeallocateSpan(b)
  \/ MergeNext
  \/ MergePrev
  \/ InsertFree

Spec == Init /\ [][Next]_vars

-----------------------------------------------------------------------------
(* The Span objects cut every mapped origin into disjoint runs, leave no   *)
(* page out, and the page map leads from each page to the span it is in:   *)
(* findSpan never answers with a deleted or a neighbouring span.           *)
PageMapExact ==
  /\ \A p \in Page : pageMap[p] # 0 <=> \E a \in systemAllocs : p \in Run(a[1], a[2])
  /\ \A p \in Page : pageMap[p] # 0 => p \in Run(pageMap[p], numPages[pageMap[p]])
  /\ \A b \in Page : \A p \in Run(b, numPages[b]) : p \in Page /\ pageMap[p] = b
  /\ \A b \in Page : numPages[b] > 0 =>
       /\ <<originAddr[b], originPages[b]>> \in systemAllocs
       /\ Run(b, numPages[b]) \subseteq Run(originAddr[b], originPages[b])

(* Outside deallocateSpan no two neighbouring spans of one origin are both *)
(* free, so a free origin is a single span.                                *)
Coalesced ==
  op = Idle =>
    \A b, c \in Page :
      inFreeList[b] /\ inFreeList[c] /\ c = b + numPages[b] => originAddr[b] # originAddr[c]

(* The pages of the spans in S.                                            *)
PagesOf(S) == UNION {Run(b, numPages[b]) : b \in S}

(* A span is flagged free exactly when it is, once, in the list of its     *)
(* length, cachedFreePages_ is the number of pages of the free spans, and  *)
(* merging is complete.                                                    *)
FreeListsExact ==
  /\ \A b \in Page : inFreeList[b] <=> \E k \in Page : b \in ToSet(freeSpans[k])
  /\ \A k \in Page : /\ IsInjective(freeSpans[k])
                     /\ \A b \in ToSet(freeSpans[k]) : numPages[b] = k
  /\ cachedFreePages = Cardinality(PagesOf({b \in Page : inFreeList[b]}))
  /\ Coalesced

(* What the budget of deallocateSpan guarantees: origins kept although     *)
(* they are entirely free never exceed kMaxCachedBytes.                    *)
WholeOriginsWithinBudget ==
  Cardinality(PagesOf({b \in Page : inFreeList[b] /\ OwnsOrigin(b)})) <= MaxCachedPages

(* PageCache hands out disjoint runs of pages and nothing that is still in *)
(* use, through any sequence of cuts, merges and system calls.             *)
Pool == INSTANCE SpanPool WITH
          live <- [b \in Page |-> IF b \in Live THEN numPages[b] ELSE 0]

ImplementsSpanPool == Pool!Spec

(* README.md on the page cache: its limit is 64 MiB.                       *)
CacheWithinBudget == cachedFreePages <= MaxCachedPages
=============================================================================
