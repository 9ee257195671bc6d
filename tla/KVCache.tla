------------------------------ MODULE KVCache ------------------------------
(***************************************************************************)
(* gpuforge::KVCache (src/kv_cache.cpp): one key and one value tensor per  *)
(* layer and token, kept for callers that reuse their own tensors.         *)
(*                                                                         *)
(* A copied Tensor shares its storage with the original; only clone()      *)
(* makes storage of its own.  A stored tensor is therefore either a clone  *)
(* with the contents it was made from, or an alias of a caller's tensor,   *)
(* whose contents change with it.  Contents are single values.             *)
(*                                                                         *)
(* append, get, used and reset hold mu_, so each is a single step.  The    *)
(* key is replaced before the value is cloned: when that clone throws      *)
(* bad_alloc the entry keeps its old value and its old valid flag.  Calls  *)
(* with a layer, token, range or shape out of bounds throw at once.        *)
(***************************************************************************)
EXTENDS Integers, Sequences, FiniteSets, FiniteSetsExt, SequencesExt

CONSTANTS Layers, Capacity,  \* layers_, capacity_
          Tensors,           \* tensors callers own
          Values,            \* contents other than zeros
          MaxOps,            \* bound: append and reset calls
          Own                \* owner of storage nobody else refers to

(* Assumptions about the constants.                                        *)
SizesAssumption    == Layers \in Nat /\ Capacity \in Nat
ContentsAssumption == Values \subseteq Nat \ {0} /\ Values # {} /\ Own \notin Tensors

Zero  == 0
Layer == 0 .. Layers - 1
Token == 0 .. Capacity - 1
Index == 0 .. Layers * Capacity - 1

VARIABLES mem,      \* mem[x]: contents of the caller's tensor x
          keys,     \* keys_
          values,   \* values_
          valid,    \* valid_
          ops,
          appended, \* appended[l, n]: contents of the last append that returned
                    \* since reset, zeros if none
          torn      \* entries an append that threw had begun to replace
vars == <<mem, keys, values, valid, ops, appended, torn>>

Zeros == [owner |-> Own, data |-> Zero]

Init ==
  /\ mem      = [x \in Tensors |-> Min(Values)]
  /\ keys     = [i \in Index |-> Zeros]
  /\ values   = [i \in Index |-> Zeros]
  /\ valid    = [i \in Index |-> FALSE]
  /\ ops      = 0
  /\ appended = [e \in Layer \X Token |-> <<Zero, Zero>>]
  /\ torn     = {}

(* What is read from a stored tensor.                                      *)
Data(c) == IF c.owner = Own THEN c.data ELSE mem[c.owner]

(* Faulty: the tensor is copied, which shares the storage.                 *)
clone_shared(x) == [owner |-> x, data |-> mem[x]]

(* Tensor::clone                                                           *)
clone(x) == [owner |-> Own, data |-> mem[x]]

IndexOf(layer, token) == layer * Capacity + token

-----------------------------------------------------------------------------
(* The owner of a tensor writes to it (fill, at, data).                    *)
Fill(x, v) ==
  /\ mem[x] # v
  /\ mem' = [mem EXCEPT ![x] = v]
  /\ UNCHANGED <<keys, values, valid, ops, appended, torn>>

append(layer, token, key, value) ==
  LET i == IndexOf(layer, token)
  IN  /\ ops < MaxOps /\ ops' = ops + 1
      /\ keys'     = [keys EXCEPT ![i] = clone(key)]
      /\ values'   = [values EXCEPT ![i] = clone(value)]
      /\ valid'    = [valid EXCEPT ![i] = TRUE]
      /\ appended' = [appended EXCEPT ![<<layer, token>>] = <<mem[key], mem[value]>>]
      /\ torn'     = torn \ {<<layer, token>>}
      /\ UNCHANGED mem

(* value.clone() throws.  (When key.clone() throws nothing has changed.)   *)
AppendThrows(layer, token, key) ==
  LET i == IndexOf(layer, token)
  IN  /\ ops < MaxOps /\ ops' = ops + 1
      /\ keys' = [keys EXCEPT ![i] = clone(key)]
      /\ torn' = IF valid[i] THEN torn \cup {<<layer, token>>} ELSE torn
      /\ UNCHANGED <<mem, values, valid, appended>>

reset ==
  /\ ops < MaxOps /\ ops' = ops + 1
  /\ valid'    = [i \in Index |-> FALSE]
  /\ appended' = [e \in Layer \X Token |-> <<Zero, Zero>>]
  /\ torn'     = {}
  /\ UNCHANGED <<mem, keys, values>>

(* get: one pair per token of the range, zeros for tokens without entry.   *)
get(layer, begin, end) ==
  [n \in 1 .. end - begin |->
     LET i == IndexOf(layer, begin + n - 1)
     IN  IF valid[i] THEN <<Data(keys[i]), Data(values[i])>> ELSE <<Zero, Zero>>]

used == Cardinality({i \in Index : valid[i]})

Next ==
  \/ \E x \in Tensors, v \in Values : Fill(x, v)
  \/ \E layer \in Layer, token \in Token, x \in Tensors :
       \/ AppendThrows(layer, token, x)
       \/ \E y \in Tensors : append(layer, token, x, y)
  \/ reset

Spec == Init /\ [][Next]_vars

-----------------------------------------------------------------------------
(* KVCache::get returns, for every range, what was in the tensors when     *)
(* append returned, whatever their owner did with them afterwards and      *)
(* whatever else was appended or reset; used() counts those tokens.  An    *)
(* entry whose replacement threw half way is the only exception.           *)
GetExact ==
  /\ \A layer \in Layer, begin \in Token : \A end \in begin .. Capacity :
       \A n \in 1 .. end - begin :
         <<layer, begin + n - 1>> \notin torn =>
           get(layer, begin, end)[n] = appended[<<layer, begin + n - 1>>]
  /\ used = Cardinality({e \in Layer \X Token : appended[e] # <<Zero, Zero>>})
=============================================================================
