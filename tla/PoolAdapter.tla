---------------------------- MODULE PoolAdapter ----------------------------
(***************************************************************************)
(* gpuforge::MemoryPool (src/memory.cpp): a capacity-limited account of    *)
(* blocks taken from the process-wide Kama pool, which other code uses     *)
(* directly as well.  allocate and release hold mu_, so each is one step.  *)
(* Any pointer may be passed to release: live, released before, or foreign.*)
(*                                                                         *)
(* size_t has Width bits.  The Kama pool is external here: it hands out    *)
(* any address that is not in use, or fails.                               *)
(***************************************************************************)
EXTENDS Integers, FiniteSets, FiniteSetsExt

CONSTANTS Addresses,  \* what the Kama pool may hand out
          Sizes,      \* sizes callers ask for
          Capacity,   \* capacity_
          Width

ASSUME CapacityAssumption == /\ Width \in Nat
                             /\ Capacity \in 0 .. 2 ^ Width - 1
                             /\ Sizes \subseteq 0 .. 2 ^ Width - 1

VARIABLES allocations,  \* allocations_: sizes by address
          used_bytes,   \* used_bytes_
          kama,         \* external: addresses the Kama pool has handed out
          taken,        \* those that direct users of the Kama pool hold
          leaked        \* history: those of allocate calls that threw later

vars == <<allocations, used_bytes, kama, taken, leaked>>

Init ==
  /\ allocations = << >>
  /\ used_bytes  = 0
  /\ kama        = {}
  /\ taken       = {}
  /\ leaked      = {}

-----------------------------------------------------------------------------
available == Capacity - Min({Capacity, used_bytes})

(* Faulty: the sum is compared, and wraps around.                          *)
FitsSum(n) == (used_bytes + n) % (2 ^ Width) <= Capacity

Fits(n) == n <= available

(* allocate(): nothing changes when n is 0 or too large (bad_alloc) or the *)
(* Kama pool fails.                                                        *)
allocate(n) ==
  /\ n # 0 /\ Fits(n)
  /\ \E p \in Addresses \ kama :
       /\ kama' = kama \cup {p}
       /\ allocations' = [q \in DOMAIN allocations \cup {p} |-> IF q = p THEN n ELSE allocations[q]]
  /\ used_bytes' = (used_bytes + n) % (2 ^ Width)
  /\ UNCHANGED <<taken, leaked>>

(* allocations_.emplace finds no memory: the Kama pool's block is neither  *)
(* entered nor given back.                                                 *)
allocate_throws(n) ==
  /\ n # 0 /\ Fits(n)
  /\ \E p \in Addresses \ kama : kama' = kama \cup {p} /\ leaked' = leaked \cup {p}
  /\ UNCHANGED <<allocations, used_bytes, taken>>

(* Faulty: a pointer that is not in the table is passed on to Kama.        *)
release_unchecked(p) ==
  /\ p \in kama
  /\ used_bytes' = IF p \in DOMAIN allocations THEN used_bytes - allocations[p] ELSE used_bytes
  /\ allocations' = [q \in DOMAIN allocations \ {p} |-> allocations[q]]
  /\ kama' = kama \ {p}
  /\ UNCHANGED <<taken, leaked>>

(* release(): a pointer that is not in the table is ignored.               *)
release(p) ==
  /\ p \in DOMAIN allocations
  /\ used_bytes' = used_bytes - allocations[p]
  /\ allocations' = [q \in DOMAIN allocations \ {p} |-> allocations[q]]
  /\ kama' = kama \ {p}
  /\ UNCHANGED <<taken, leaked>>

(* Direct users of the Kama pool.                                          *)
OtherAllocate(p) ==
  /\ p \notin kama
  /\ kama' = kama \cup {p} /\ taken' = taken \cup {p}
  /\ UNCHANGED <<allocations, used_bytes, leaked>>
OtherFree(p) ==
  /\ p \in taken
  /\ kama' = kama \ {p} /\ taken' = taken \ {p}
  /\ UNCHANGED <<allocations, used_bytes, leaked>>

Next ==
  \/ \E n \in Sizes : allocate(n) \/ allocate_throws(n)
  \/ \E p \in Addresses : release(p) \/ OtherAllocate(p) \/ OtherFree(p)

Spec == Init /\ [][Next]_vars

-----------------------------------------------------------------------------
(* The bytes of the blocks that are out, one by one.                       *)
BytesOut == UNION {{p} \X (1 .. allocations[p]) : p \in DOMAIN allocations}

(* used() counts the bytes that are out, each once, and never passes the   *)
(* capacity, whatever sizes were asked for, up to the largest size_t.      *)
UsedExact ==
  /\ used_bytes = Cardinality(BytesOut)
  /\ used_bytes <= Capacity

(* Nobody's block is touched: what is in use in the Kama pool is what the  *)
(* table and the direct users hold, each block held once, and what was     *)
(* leaked by an allocate that found no memory for its entry.  Nothing else *)
(* is lost, and release of a foreign, stale or leaked pointer frees none.  *)
BlocksHeldOnce ==
  /\ kama = DOMAIN allocations \cup taken \cup leaked
  /\ DOMAIN allocations \cap taken = {}
  /\ leaked \cap (DOMAIN allocations \cup taken) = {}
=============================================================================
