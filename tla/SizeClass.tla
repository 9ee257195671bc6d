----------------------------- MODULE SizeClass -----------------------------
(***************************************************************************)
(* Size classes of Kama_memoryPool v3 (Common.h) and what the thread cache *)
(* and the central cache derive from them.                                 *)
(*                                                                         *)
(* makeSizeClassTable, makeSmallIndexMap and makeIndexMap are loops the    *)
(* compiler evaluates; the second and third carry `index` from one         *)
(* iteration to the next.  Here each is run one iteration per step, for    *)
(* the constants of the build, so that every entry of the table and of     *)
(* both maps is a state: after the iteration for entry, map[entry] = index.*)
(***************************************************************************)
EXTENDS Integers, Sequences, FiniteSetsExt

CONSTANTS ALIGNMENT,        \* kAlignment
          MAX_BYTES,        \* kMaxBytes
          MaxSizeClasses,   \* kMaxSizeClasses
          SmallLimit,       \* last entry of the small index map
          PageSize          \* systemPageSize()

(* Assumption about the constants; the maps hold uint8_t.                  *)
SizesAssumption ==
  /\ ALIGNMENT \in Nat \ {0} /\ MAX_BYTES \in Nat /\ MaxSizeClasses \in 1 .. 256
  /\ SmallLimit \in 0 .. MAX_BYTES /\ PageSize \in Nat \ {0}

VARIABLES pc,     \* which of the three loops runs
          sizes,  \* kSizeClassTable.sizes[0 .. count - 1], as a sequence
          size,   \* size of makeSizeClassTable
          align,  \* align of makeSizeClassTable
          entry,  \* entry the map loops have just computed, -1 before the first
          index   \* class found for it

vars == <<pc, sizes, size, align, entry, index>>

Init ==
  /\ pc    = "table"
  /\ sizes = << >>
  /\ size  = 0
  /\ align = ALIGNMENT
  /\ entry = -1
  /\ index = 0

(* getSize, with the code's index from 0.                                  *)
getSize(i) == sizes[i + 1]

-----------------------------------------------------------------------------
DoubleSpacing(s) == s >= align * 8

(* One iteration of makeSizeClassTable.                                    *)
TableEntry ==
  /\ pc = "table"
  /\ Len(sizes) < MaxSizeClasses /\ size + align <= MAX_BYTES
  /\ size'  = size + align
  /\ sizes' = Append(sizes, size + align)
  /\ align' = IF DoubleSpacing(size + align) THEN align * 2 ELSE align
  /\ UNCHANGED <<pc, entry, index>>

(* The static assertions: without them there is no program.                *)
StaticAsserts == sizes # << >> /\ getSize(0) = ALIGNMENT /\ getSize(Len(sizes) - 1) = MAX_BYTES

TableDone ==
  /\ pc = "table"
  /\ ~(Len(sizes) < MaxSizeClasses /\ size + align <= MAX_BYTES)
  /\ StaticAsserts
  /\ pc' = "small"
  /\ UNCHANGED <<sizes, size, align, entry, index>>

(* Faulty: kSizeClassTable.sizes[index] <= bytes.                          *)
AdvancedPast(bytes) ==
  Min({i \in index .. Len(sizes) - 1 : i + 1 >= Len(sizes) \/ getSize(i) > bytes})

(* The while loop inside both map loops.                                   *)
Advanced(bytes) ==
  Min({i \in index .. Len(sizes) - 1 : i + 1 >= Len(sizes) \/ getSize(i) >= bytes})

SmallBytes(k) == IF k = 0 THEN ALIGNMENT ELSE k
UnitBytes(k)  == IF k = 0 THEN ALIGNMENT ELSE k * ALIGNMENT

SmallEntry ==
  /\ pc = "small"
  /\ entry < SmallLimit
  /\ entry' = entry + 1
  /\ index' = Advanced(SmallBytes(entry + 1))
  /\ UNCHANGED <<pc, sizes, size, align>>

SmallDone ==
  /\ pc = "small"
  /\ entry = SmallLimit
  /\ pc'    = "index"
  /\ entry' = -1
  /\ index' = 0
  /\ UNCHANGED <<sizes, size, align>>

IndexEntry ==
  /\ pc = "index"
  /\ entry < MAX_BYTES \div ALIGNMENT
  /\ entry' = entry + 1
  /\ index' = Advanced(UnitBytes(entry + 1))
  /\ UNCHANGED <<pc, sizes, size, align>>

Next == TableEntry \/ TableDone \/ SmallEntry \/ SmallDone \/ IndexEntry

Spec == Init /\ [][Next]_vars

-----------------------------------------------------------------------------
(* Sizes the caches derive from a class.                                   *)

(* Faulty: getBatchNum without its caps.                                   *)
getBatchNumUncapped(s) == Max({1, 65536 \div Max({s, ALIGNMENT})})

(* ThreadCache::getBatchNum.                                               *)
getBatchNum(s) ==
  LET k == Max({1, 65536 \div Max({s, ALIGNMENT})})
      cap == IF s <= 32 THEN 512 ELSE IF s <= 64 THEN 256 ELSE IF s <= 256 THEN 128
             ELSE IF s <= 1024 THEN 32 ELSE 16
  IN  Max({1, Min({k, cap})})

(* ThreadCache::maxCachedBlocks.                                           *)
maxCachedBlocks(s) ==
  IF s <= 32 THEN 4096 ELSE IF s <= 64 THEN 2048 ELSE IF s <= 256 THEN 1024
  ELSE IF s <= 1024 THEN 256 ELSE IF s <= 4096 THEN 512
  ELSE Min({Max({1, 262144 \div Max({s, ALIGNMENT})}), 128})

(* CentralCache::createSpan: pages asked of the page cache.                *)
spanPages(s) ==
  LET target == Max({PageSize, IF s <= 256 THEN 32768 ELSE IF s <= 1024 THEN 131072
                               ELSE IF s <= 4096 THEN 524288 ELSE 2097152})
      bytes  == IF s > target THEN ((s + PageSize - 1) \div PageSize) * PageSize ELSE target
  IN  Max({1, bytes \div PageSize})

(* ThreadCache::allocateAligned passes multiples of the alignment on.      *)
PowersOfTwo ==
  {1, 2, 4, 8, 16, 32, 64, 128, 256, 512, 1024, 2048, 4096, 8192, 16384, 32768, 65536,
   131072, 262144, 524288, 1048576}

(* Assumption: kAlignment is a power of two, and so is a page.             *)
PowersAssumption == ALIGNMENT \in PowersOfTwo /\ PageSize \in PowersOfTwo

-----------------------------------------------------------------------------
(* Requests an entry of the map answers: getIndex reads the small map up   *)
(* to SmallLimit and the unit map, rounded up to ALIGNMENT, beyond.        *)
Requests ==
  CASE pc = "small" /\ entry >= 0 -> {SmallBytes(entry)}
    [] pc = "index" /\ entry >= 0 ->
         {b \in (UnitBytes(entry) - ALIGNMENT + 1) .. UnitBytes(entry) : b > SmallLimit}
    [] OTHER -> {}

(* SizeClass::getIndex of v2: beyond SmallLimit a binary search takes the  *)
(* place of the unit map.                                                  *)
getIndexV2(bytes) ==
  LET find[r \in (0 .. Len(sizes)) \X (0 .. Len(sizes))] ==   \* r = <<lo, hi>>
        LET mid == (r[1] + r[2]) \div 2
        IN  IF r[1] >= r[2] THEN r[1]
            ELSE IF getSize(mid) < bytes THEN find[<<mid + 1, r[2]>>] ELSE find[<<r[1], mid>>]
  IN  find[<<0, Len(sizes)>>]

(* getIndex finds, for every request up to MAX_BYTES, the smallest class   *)
(* that holds it: the `index` carried along in the map loops never runs    *)
(* ahead and never stops short, and v2's search agrees with v3's map.      *)
IndexMinimal ==
  \A b \in Requests :
    /\ index \in 0 .. Len(sizes) - 1
    /\ getSize(index) >= b
    /\ \A i \in 0 .. index - 1 : getSize(i) < b
    /\ pc = "index" => getIndexV2(b) = index

(* The size of a class is a multiple of the alignment that was asked for.  *)
AlignmentKept ==
  pc = "index" /\ entry > 0 =>
    \A a \in PowersOfTwo :
      a <= PageSize /\ UnitBytes(entry) % a = 0 => getSize(index) % a = 0

(* A span of the class added last serves at least one batch, and a refill  *)
(* does not overflow the cache it refills.                                 *)
SpanServesBatch ==
  sizes # << >> =>
    LET s == sizes[Len(sizes)]
    IN  /\ (spanPages(s) * PageSize) \div s >= 1
        /\ (spanPages(s) * PageSize) \div s >= getBatchNum(s)
        /\ getBatchNum(s) - 1 <= maxCachedBlocks(s)

(* The policies of the caches fit the table.  allocateAligned only rounds  *)
(* the size up to the alignment and relies on the class size being a       *)
(* multiple of it too, because blocks follow each other from the start of  *)
(* a span, for every alignment up to the page size; and the span sizes of  *)
(* createSpan, the batches of getBatchNum and the limits of                *)
(* maxCachedBlocks suit each other for every class.                        *)
PoliciesFit == AlignmentKept /\ SpanServesBatch
=============================================================================
