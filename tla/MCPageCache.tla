---------------------------- MODULE MCPageCache ----------------------------
(***************************************************************************)
(* The page caches of v3 and v2 in one run, on address spaces of the same  *)
(* size.  They share no state: each behaviour uses the one named by part.  *)
(***************************************************************************)
EXTENDS PageCache

CONSTANT Parts
VARIABLES part, spans, freeSpansV2, systemAllocsV2, asked

V2 == INSTANCE PageCacheV2 WITH freeSpans <- freeSpansV2, systemAllocs <- systemAllocsV2

v2Vars == <<spans, freeSpansV2, systemAllocsV2, asked>>

PartInit == part \in Parts /\ Init /\ V2!Init

PartNext ==
  /\ \/ part = "v3" /\ Next /\ UNCHANGED v2Vars
     \/ part = "v2" /\ V2!Next /\ UNCHANGED vars
  /\ UNCHANGED part

PartSpec == PartInit /\ [][PartNext]_<<part, vars, v2Vars>>

-----------------------------------------------------------------------------
(* v2's allocateSpan and deallocateSpan keep spanMap_ and the lists exact. *)
SpansExact == V2!SpansExact

(* v2's PageCache hands out disjoint runs of pages only.                   *)
V2ImplementsSpanPool == V2!V2ImplementsSpanPool
=============================================================================
