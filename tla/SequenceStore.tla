--------------------------- MODULE SequenceStore ---------------------------
(***************************************************************************)
(* What gpuforge::PagedKV promises to its callers: one growing byte string *)
(* per sequence.  An append takes effect completely or is refused and      *)
(* changes nothing, unless it runs out of memory on its way: then some     *)
(* beginning of its payload stays.  release_sequence empties one string    *)
(* and no other.                                                           *)
(* Nothing is said about pages: PagedKV is shown to implement this module. *)
(***************************************************************************)
EXTENDS Integers, Sequences

CONSTANTS SeqIds,    \* sequence numbers callers use
          NoSeq,     \* no append is running
          Payloads   \* byte strings a single append may carry

VARIABLES content,   \* content[s] : the bytes appends have left in s
          pending,   \* the append that was accepted and has not returned
          outcome    \* result of the last append call

vars == <<content, pending, outcome>>

Idle == [seq |-> NoSeq, data |-> << >>]

Init ==
  /\ content = [s \in SeqIds |-> << >>]
  /\ pending = Idle
  /\ outcome = "none"

Accept(s, d) ==
  /\ pending = Idle
  /\ pending' = [seq |-> s, data |-> d]
  /\ outcome' = "none"
  /\ UNCHANGED content

(* What becomes visible is the very payload that was accepted.             *)
Complete ==
  /\ pending # Idle
  /\ content' = [content EXCEPT ![pending.seq] = @ \o pending.data]
  /\ pending' = Idle
  /\ outcome' = "ok"

(* An accepted append throws when it has stored k bytes, not all of them.  *)
Abandon ==
  /\ pending # Idle
  /\ \E k \in 0 .. Len(pending.data) - 1 :
       content' = [content EXCEPT ![pending.seq] = @ \o SubSeq(pending.data, 1, k)]
  /\ pending' = Idle
  /\ outcome' = "bad_alloc"

Refuse ==
  /\ pending = Idle
  /\ outcome' = "bad_alloc"
  /\ UNCHANGED <<content, pending>>

Clear(s) ==
  /\ pending = Idle
  /\ content' = [content EXCEPT ![s] = << >>]
  /\ UNCHANGED <<pending, outcome>>

Next ==
  \/ Complete
  \/ Abandon
  \/ Refuse
  \/ \E s \in SeqIds : Clear(s) \/ \E d \in Payloads : Accept(s, d)

Spec == Init /\ [][Next]_vars
=============================================================================
