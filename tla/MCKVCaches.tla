----------------------------- MODULE MCKVCaches -----------------------------
(***************************************************************************)
(* The two key/value caches in one run: PagedKV and the dense KVCache.     *)
(* They share no state: each behaviour uses the one named by part.         *)
(***************************************************************************)
EXTENDS PagedKV

CONSTANTS Layers, Capacity, Tensors, Values, MaxOps, Own
VARIABLES part, mem, keys, values, valid, ops, appended, torn

Dense == INSTANCE KVCache

ASSUME DenseAssumption == Dense!SizesAssumption /\ Dense!ContentsAssumption

denseVars == <<mem, keys, values, valid, ops, appended, torn>>

PartInit == part \in {"paged", "dense"} /\ Init /\ Dense!Init

PartNext ==
  /\ \/ part = "paged" /\ Next /\ UNCHANGED denseVars
     \/ part = "dense" /\ Dense!Next /\ UNCHANGED vars
  /\ UNCHANGED part

PartSpec == PartInit /\ [][PartNext]_<<part, vars, denseVars>>

-----------------------------------------------------------------------------
(* KVCache::get returns what the last append of each token was given.      *)
GetExact == Dense!GetExact
=============================================================================
