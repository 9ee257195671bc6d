---------------------------- MODULE PageCacheV2 ----------------------------
(***************************************************************************)
(* Kama_memoryPool::PageCache of vendor_memorypool/v2: spans found by      *)
(* their first page (spanMap_) and kept in free lists by length, without   *)
(* a page map, origins or a budget.  Every call runs under mutex_, so      *)
(* allocateSpan and deallocateSpan are single steps.                       *)
(*                                                                         *)
(* A span is free when it is in a list; nothing else says so.  The caller  *)
(* of deallocateSpan states the length; the callers of the model state the *)
(* length they asked for.  An address that spanMap_ does not hold is       *)
(* ignored, and a failing allocPages returns nullptr: nothing changes.     *)
(***************************************************************************)
EXTENDS Integers, Sequences, FiniteSets, FiniteSetsExt, SequencesExt, Selection

CONSTANTS NumPages,     \* bound: pages of the address space the system may map
          MaxRequest    \* bound: longest span a caller asks for

VARIABLES spans,        \* spanMap_: first page -> Span::numPages, 0 if absent
          freeSpans,    \* freeSpans_: length -> list, last inserted first
          systemAllocs, \* systemAllocs_: set of <<address, pages>>
          asked         \* asked[b]: length the holder of the span at b asked for
vars == <<spans, freeSpans, systemAllocs, asked>>

Page      == 1 .. NumPages
Run(b, n) == b .. b + n - 1

Init ==
  /\ spans        = [b \in Page |-> 0]
  /\ freeSpans    = [k \in Page |-> << >>]
  /\ systemAllocs = {}
  /\ asked        = [b \in Page |-> 0]

(* Keys of freeSpans_ from lower_bound(n) on.                              *)
Fits(n) == {k \in n .. NumPages : freeSpans[k] # << >>}

-----------------------------------------------------------------------------
(* Faulty: the span keeps the length it had before it was cut.             *)
SplitKeepLength(b, n, m) == [spans EXCEPT ![b + n] = m - n]

(* spanMap_ after span b of m pages was cut behind its first n pages.      *)
Split(b, n, m) == [spans EXCEPT ![b] = n, ![b + n] = m - n]

AllocateCached(n) ==
  /\ Fits(n) # {}
  /\ LET k      == Min(Fits(n))
         b      == Head(freeSpans[k])
         m      == spans[b]
         popped == [freeSpans EXCEPT ![k] = Tail(@)]
     IN  /\ asked' = [asked EXCEPT ![b] = n]
         /\ IF m > n
            THEN /\ spans'     = Split(b, n, m)
                 /\ freeSpans' = [popped EXCEPT ![m - n] = <<b + n>> \o @]
            ELSE /\ freeSpans' = popped
                 /\ UNCHANGED spans
  /\ UNCHANGED systemAllocs

(* The system answers with any run of pages it has not mapped yet.         *)
AllocateSystem(n, b) ==
  /\ Fits(n) = {}
  /\ Run(b, n) \subseteq Page
  /\ \A a \in systemAllocs : Run(b, n) \cap Run(a[1], a[2]) = {}
  /\ systemAllocs' = systemAllocs \cup {<<b, n>>}
  /\ spans'        = [spans EXCEPT ![b] = n]
  /\ asked'        = [asked EXCEPT ![b] = n]
  /\ UNCHANGED freeSpans

-----------------------------------------------------------------------------
(* removeFromFreeList looks only at the list of the span's own length.     *)
InList(b) == spans[b] > 0 /\ b \in ToSet(freeSpans[spans[b]])

Without(list, b) == Kept(list, {i \in DOMAIN list : list[i] # b})

Unlinked(lists, b) == [lists EXCEPT ![spans[b]] = Without(@, b)]

(* The predecessor of b in spanMap_, which is ordered by address.          *)
Before(b) == {a \in 1 .. b - 1 : spans[a] > 0}

(* Faulty: any free predecessor is merged, adjacent or not.                *)
MergesLeftAny(b) ==
  /\ Before(b) # {}
  /\ InList(Max(Before(b)))

MergesLeft(b) ==
  /\ Before(b) # {}
  /\ LET a == Max(Before(b)) IN a + spans[a] = b /\ InList(a)

MergesRight(b, n) == b + n \in Page /\ InList(b + n)

(* The free neighbours of the span leave their lists and the map; what     *)
(* remains is one span, at the front of its list.                          *)
DeallocateSpan(b) ==
  /\ asked[b] > 0
  /\ spans[b] > 0
  /\ LET n     == asked[b]
         right == MergesRight(b, n)
         left  == MergesLeft(b)
         m     == n + (IF right THEN spans[b + n] ELSE 0)
         a     == IF left THEN Max(Before(b)) ELSE b
         whole == m + (IF left THEN spans[a] ELSE 0)
         l1    == IF right THEN Unlinked(freeSpans, b + n) ELSE freeSpans
         l2    == IF left THEN Unlinked(l1, a) ELSE l1
     IN  /\ spans'     = [p \in Page |-> IF p = a THEN whole
                                         ELSE IF p = b \/ (right /\ p = b + n) THEN 0
                                         ELSE spans[p]]
         /\ freeSpans' = [l2 EXCEPT ![whole] = <<a>> \o @]
  /\ asked' = [asked EXCEPT ![b] = 0]
  /\ UNCHANGED systemAllocs

Next ==
  \/ \E n \in 1 .. MaxRequest : AllocateCached(n) \/ \E b \in Page : AllocateSystem(n, b)
  \/ \E b \in Page : DeallocateSpan(b)

Spec == Init /\ [][Next]_vars

-----------------------------------------------------------------------------
Free == {b \in Page : InList(b)}

(* The spans of spanMap_ cut the mapped memory into runs without gaps or   *)
(* overlaps; each is in use with the length its holder asked for, or once  *)
(* in the list of its length; and two free spans are never neighbours.     *)
SpansExact ==
  /\ \A p \in Page : Cardinality({b \in Page : p \in Run(b, spans[b])})
                     = Cardinality({a \in systemAllocs : p \in Run(a[1], a[2])})
  /\ \A b \in Page : spans[b] > 0 => asked[b] = (IF b \in Free THEN 0 ELSE spans[b])
  /\ \A k \in Page : /\ IsInjective(freeSpans[k])
                     /\ \A b \in ToSet(freeSpans[k]) : spans[b] = k
  /\ \A b \in Free : b + spans[b] \notin Free

(* v2's PageCache, too, hands out disjoint runs of pages only, although it *)
(* merges spans of different system allocations.                           *)
Pool == INSTANCE SpanPool WITH live <- asked

V2ImplementsSpanPool == Pool!Spec
=============================================================================
