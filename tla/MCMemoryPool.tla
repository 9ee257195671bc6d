---------------------------- MODULE MCMemoryPool ----------------------------
(***************************************************************************)
(* The pool interfaces in one run: the adapter on the Kama pool's          *)
(* counters, and the size-class tables.  They share no state here; each    *)
(* behaviour is about the one named by `part`.                             *)
(***************************************************************************)
EXTENDS MemoryPool

CONSTANTS ALIGNMENT, MAX_BYTES, MaxSizeClasses, SmallLimit, PageSize

VARIABLES part,
          loop, sizes, size, align, entry, index

Table == INSTANCE SizeClass WITH pc <- loop

ASSUME SizesAssumption == Table!SizesAssumption
ASSUME PowersAssumption == Table!PowersAssumption

tableVars == <<loop, sizes, size, align, entry, index>>

PartInit ==
  /\ part \in {"adapter", "table"}
  /\ PoolInit /\ Table!Init

(* The compiler has evaluated the last entry of the index map.             *)
TablesDone == loop = "index" /\ entry = MAX_BYTES \div ALIGNMENT /\ UNCHANGED tableVars

PartNext ==
  /\ \/ part = "adapter" /\ PoolNext /\ UNCHANGED tableVars
     \/ part = "table" /\ (Table!Next \/ TablesDone) /\ UNCHANGED poolVars
  /\ UNCHANGED part

PartSpec == PartInit /\ [][PartNext]_<<part, poolVars, tableVars>>

-----------------------------------------------------------------------------
(* SizeClass::getIndex answers with the smallest class that holds the      *)
(* request, in v3 and in v2.                                               *)
IndexMinimal == Table!IndexMinimal

(* allocateAligned, createSpan, getBatchNum and maxCachedBlocks fit the    *)
(* size-class table.                                                       *)
PoliciesFit == Table!PoliciesFit
=============================================================================
