----------------------------- MODULE MCKernels -----------------------------
(***************************************************************************)
(* Three small parts in one run: the slot pool of v1, the tuner that       *)
(* chooses a configuration for a matrix multiplication, and the kernels,   *)
(* which do not read that configuration.  They share no state; each        *)
(* behaviour is about the one named by part.                               *)
(***************************************************************************)
EXTENDS SlotPool, FiniteSetsExt

CONSTANTS Keys, KeyOrder, Tiles, WarpCounts, Latencies, Grain, MaxEntries
CONSTANTS kGemmTile, Fragment, kAttentionBlock, MaxKeys, Dims, AttentionDims, Masked, Pad

VARIABLES part,
          db, file, stage, key, rest, best, served, measured,
          kernel, dims, waiting, block, lhs_tile, rhs_tile, thread, output, result

Tuner  == INSTANCE Tuning WITH pc <- stage
Device == INSTANCE Kernels

ASSUME TunerAssumption ==
  Tuner!GrainAssumption /\ Tuner!KeyOrderAssumption /\ Tuner!LatencyAssumption

tunerVars  == <<db, file, stage, key, rest, best, served, measured>>
deviceVars == <<kernel, dims, waiting, block, lhs_tile, rhs_tile, thread, output, result>>

(* Three configurations, two (with and without tensor cores), none.        *)
SmallKeys  == {<<8, 8, 16>>, <<1, 2, 3>>, <<32, 8, 3>>}
SmallOrder == <<<<1, 2, 3>>, <<8, 8, 16>>, <<32, 8, 3>>>>

(* Rows, columns and inner dimension: partial tiles in each direction, a   *)
(* single product, an empty sum, and multiples of a fragment.              *)
SmallDims == {<<3, 1, 3>>, <<2, 2, 4>>, <<2, 3, 1>>, <<1, 2, 0>>, <<3, 3, 3>>}

(* Several thread blocks with a partial one, fewer and more keys than      *)
(* queries, the longest row of scores and one that is refused.             *)
SmallAttention ==
  {<<3, 1, 2>> \o <<k, c>> : k \in {2, 4}, c \in BOOLEAN} \cup {<<1, 2, 1, 5, FALSE>>}

PartInit ==
  /\ part \in {"slots", "tuner", "device"}
  /\ Init /\ Tuner!Init /\ Device!Init

(* The call has returned.                                                  *)
Returned == result # << >> /\ UNCHANGED deviceVars

PartNext ==
  /\ \/ part = "slots" /\ Next /\ UNCHANGED <<tunerVars, deviceVars>>
     \/ part = "tuner" /\ Tuner!Next /\ UNCHANGED <<vars, deviceVars>>
     \/ part = "device" /\ (Device!Next \/ Returned) /\ UNCHANGED <<vars, tunerVars>>
  /\ UNCHANGED part

PartSpec ==
  PartInit /\ [][PartNext]_<<part, vars, tunerVars, deviceVars>> /\ Device!Fairness

-----------------------------------------------------------------------------
(* run() answers with the fastest configuration it has measured.           *)
ServedIsBest == Tuner!ServedIsBest

(* gemm_cuda, gemm_tensorcore and attention_cuda return, with the sums of  *)
(* the functions on the CPU.                                               *)
KernelsExact == Device!KernelsExact
=============================================================================
