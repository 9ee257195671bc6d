--------------------------- MODULE SlotPoolProofs ---------------------------
(***************************************************************************)
(* Proofs about two of the parts of MCKernels.                             *)
(*                                                                         *)
(* The slot pool of v1, for any number of threads, any object and block    *)
(* size and any addresses: the lock-free list loses no slot and hands none *)
(* out twice, and objects do not overlap.                                  *)
(*                                                                         *)
(* The tuner, for any keys, configurations, latencies and precision: what  *)
(* it answers is the fastest it has measured, whatever was lost of the     *)
(* file it keeps.                                                          *)
(***************************************************************************)
EXTENDS MCKernels, SelectionProofs

-----------------------------------------------------------------------------
(* Addresses.  The slots of a block lie on a grid.                         *)

OnGrid(f, d, x) == \E k \in Nat : x = f + k * d

LEMMA DivMod ==
  ASSUME NEW i \in Nat, NEW d \in Nat \ {0}
  PROVE  /\ i \div d \in Nat /\ i % d \in 0 .. d - 1
         /\ i = (i \div d) * d + (i % d)
BY Z3

LEMMA DivUnique ==
  ASSUME NEW q \in Nat, NEW d \in Nat \ {0}, NEW k \in Nat, NEW r \in 0 .. d - 1,
         q * d = k * d + r
  PROVE  r = 0
<1>1. CASE q <= k
  <2>1. q * d <= k * d
    BY <1>1
  <2>2. q * d \in Nat /\ k * d \in Nat
    OBVIOUS
  <2> QED BY <2>1, <2>2
<1>2. CASE q > k
  <2>1. q >= k + 1
    BY <1>2
  <2>2. q * d >= (k + 1) * d
    BY <2>1
  <2>3. (k + 1) * d = k * d + d
    OBVIOUS
  <2>4. q * d \in Nat /\ k * d \in Nat
    OBVIOUS
  <2> QED BY <2>2, <2>3, <2>4
<1> QED BY <1>1, <1>2

LEMMA GridMod ==
  ASSUME NEW f \in Nat, NEW d \in Nat \ {0}, NEW x \in Nat, x >= f
  PROVE  (x - f) % d = 0 <=> OnGrid(f, d, x)
<1> DEFINE i == x - f
           q == i \div d
           r == i % d
<1>1. i \in Nat /\ x = f + i
  OBVIOUS
<1> HIDE DEF i
<1>2. q \in Nat /\ r \in 0 .. d - 1 /\ i = q * d + r
  BY <1>1, DivMod
<1> HIDE DEF q, r
<1>3. r = 0 => OnGrid(f, d, x)
  <2>1. q * d \in Nat
    BY <1>2
  <2>2. r = 0 => x = f + q * d
    BY <1>1, <1>2, <2>1
  <2> QED BY <1>2, <2>2 DEF OnGrid
<1>4. OnGrid(f, d, x) => r = 0
  <2> SUFFICES ASSUME NEW k \in Nat, x = f + k * d PROVE r = 0
    BY DEF OnGrid
  <2>1. k * d \in Nat /\ q * d \in Nat
    BY <1>2
  <2>2. k * d = q * d + r
    BY <1>1, <1>2, <2>1
  <2> QED BY <1>2, <2>2, DivUnique
<1> QED BY <1>3, <1>4 DEF i, r

LEMMA GridStep ==
  ASSUME NEW f \in Nat, NEW d \in Nat \ {0}
  PROVE  /\ OnGrid(f, d, f)
         /\ \A x : OnGrid(f, d, x) => x \in Nat /\ x >= f /\ OnGrid(f, d, x + d)
         /\ \A x, y : OnGrid(f, d, x) /\ OnGrid(f, d, y) /\ x < y => x + d <= y
<1>1. OnGrid(f, d, f)
  <2>1. f = f + 0 * d
    OBVIOUS
  <2> QED BY <2>1 DEF OnGrid
<1>2. ASSUME NEW x, OnGrid(f, d, x)
      PROVE  x \in Nat /\ x >= f /\ OnGrid(f, d, x + d)
  <2>1. PICK k \in Nat : x = f + k * d
    BY <1>2 DEF OnGrid
  <2>2. k * d \in Nat
    OBVIOUS
  <2>3. (k + 1) * d = k * d + d
    OBVIOUS
  <2>4. x + d = f + (k + 1) * d
    BY <2>1, <2>2, <2>3
  <2>5. k + 1 \in Nat
    OBVIOUS
  <2> QED BY <2>1, <2>2, <2>4, <2>5 DEF OnGrid
<1>3. ASSUME NEW x, NEW y, OnGrid(f, d, x), OnGrid(f, d, y), x < y
      PROVE  x + d <= y
  <2>1. PICK k \in Nat : x = f + k * d
    BY <1>3 DEF OnGrid
  <2>2. PICK l \in Nat : y = f + l * d
    BY <1>3 DEF OnGrid
  <2>3. k * d \in Nat /\ l * d \in Nat
    OBVIOUS
  <2>4. k * d < l * d
    BY <1>3, <2>1, <2>2, <2>3
  <2>5. k < l
    <3>1. ASSUME l <= k PROVE l * d <= k * d
      BY <3>1
    <3> QED BY <2>3, <2>4, <3>1
  <2>6. (k + 1) * d <= l * d
    <3>1. k + 1 <= l
      BY <2>5
    <3> QED BY <3>1
  <2>7. (k + 1) * d = k * d + d
    OBVIOUS
  <2> QED BY <2>1, <2>2, <2>3, <2>6, <2>7
<1> QED BY <1>1, <1>2, <1>3

LEMMA SlotSizeFacts ==
  ASSUME PoolAssumptions, size \in Requests
  PROVE  /\ SlotSize \in Nat \ {0} /\ size \in Nat \ {0} /\ size <= SlotSize
         /\ SlotSize <= size + 7 /\ SlotSize >= 8
         /\ (SlotSize \div SLOT_BASE_SIZE) * SLOT_BASE_SIZE = SlotSize
<1>1. size \in Nat /\ size >= 1
  BY DEF PoolAssumptions, RequestsAssumption
<1> DEFINE q == (size + 7) \div 8
<1>2. q \in Nat /\ q * 8 <= size + 7 /\ size + 7 <= q * 8 + 7
  BY <1>1
<1>3. SlotSize = q * 8
  BY <1>1, <1>2 DEF SlotSize, SlotSizeOf, PoolIndex, SLOT_BASE_SIZE
<1> HIDE DEF q
<1>4. (q * 8) \div 8 = q
  BY <1>2
<1> QED BY <1>1, <1>2, <1>3, <1>4 DEF SLOT_BASE_SIZE

LEMMA BlockFacts ==
  ASSUME PoolAssumptions, size \in Requests, NEW b \in Bases
  PROVE  /\ b \in Nat /\ BlockSize \in Nat /\ LastSlot(b) \in Nat /\ FirstSlot(b) \in Nat
         /\ b + SLOT_BASE_SIZE < FirstSlot(b) /\ FirstSlot(b) < LastSlot(b)
         /\ LastSlot(b) = b + BlockSize - SlotSize + 1
<1>1. /\ b \in Nat /\ BlockSize \in Nat /\ 2 * (size + 8) + 8 <= BlockSize
  BY DEF PoolAssumptions, BlocksAssumption, BlockSizeAssumption, SLOT_BASE_SIZE
<1>2. SlotSize \in Nat \ {0} /\ SlotSize <= size + 7 /\ size \in Nat
  BY SlotSizeFacts
<1> DEFINE d == SlotSize
           r == (b + 8) % d
<1>3. r \in 0 .. d - 1
  <2>1. b + 8 \in Nat /\ d \in Nat \ {0}
    BY <1>1, <1>2
  <2> HIDE DEF d
  <2> QED BY <2>1, DivMod
<1>4. FirstSlot(b) = b + 8 + (d - r)
  BY DEF FirstSlot, padPointer, SLOT_BASE_SIZE
<1>5. LastSlot(b) = b + BlockSize - d + 1
  BY DEF LastSlot
<1>6. d \in Nat /\ d <= size + 7
  BY <1>2
<1>7. FirstSlot(b) \in Nat /\ b + 8 < FirstSlot(b) /\ FirstSlot(b) <= b + 8 + d
  <2> HIDE DEF d, r
  <2> QED BY <1>1, <1>3, <1>4, <1>6
<1>8. LastSlot(b) \in Nat /\ FirstSlot(b) < LastSlot(b)
  <2> HIDE DEF d, r
  <2> QED BY <1>1, <1>2, <1>5, <1>6, <1>7
<1> QED BY <1>1, <1>5, <1>7, <1>8 DEF SLOT_BASE_SIZE

LEMMA SlotsFacts ==
  ASSUME PoolAssumptions, size \in Requests, NEW b \in Bases, NEW x
  PROVE  x \in SlotsOf(b) <=> OnGrid(FirstSlot(b), SlotSize, x) /\ x < LastSlot(b)
<1>1. /\ FirstSlot(b) \in Nat /\ LastSlot(b) \in Nat /\ SlotSize \in Nat \ {0}
  BY BlockFacts, SlotSizeFacts
<1>2. OnGrid(FirstSlot(b), SlotSize, x) => x \in Nat /\ x >= FirstSlot(b)
  BY <1>1, GridStep
<1>3. x \in FirstSlot(b) .. LastSlot(b) - 1 <=>
        x \in Nat /\ x >= FirstSlot(b) /\ x < LastSlot(b)
  BY <1>1
<1>4. x \in Nat /\ x >= FirstSlot(b) =>
        ((x - FirstSlot(b)) % SlotSize = 0 <=> OnGrid(FirstSlot(b), SlotSize, x))
  BY <1>1, GridMod
<1> QED BY <1>2, <1>3, <1>4 DEF SlotsOf

(* Slots of one block or of two do not overlap, and lie in their block.    *)
LEMMA SlotsApart ==
  ASSUME PoolAssumptions, size \in Requests, NEW b \in Bases, NEW c \in Bases,
         NEW x \in SlotsOf(b), NEW y \in SlotsOf(c)
  PROVE  /\ x \in Nat /\ y \in Nat
         /\ b + SLOT_BASE_SIZE < x /\ x + SlotSize <= b + BlockSize
         /\ x = y => b = c
         /\ x # y => x + SlotSize <= y \/ y + SlotSize <= x
<1>1. SlotSize \in Nat \ {0}
  BY SlotSizeFacts
<1>2. ASSUME NEW e \in Bases, NEW z \in SlotsOf(e)
      PROVE  z \in Nat /\ e + SLOT_BASE_SIZE < z /\ z + SlotSize <= e + BlockSize
  <2>1. OnGrid(FirstSlot(e), SlotSize, z) /\ z < LastSlot(e)
    BY SlotsFacts
  <2>2. z \in Nat /\ z >= FirstSlot(e)
    BY <1>1, <2>1, BlockFacts, GridStep
  <2>3. /\ e \in Nat /\ BlockSize \in Nat /\ LastSlot(e) \in Nat /\ FirstSlot(e) \in Nat
        /\ e + SLOT_BASE_SIZE < FirstSlot(e) /\ LastSlot(e) = e + BlockSize - SlotSize + 1
    BY BlockFacts
  <2> QED BY <1>1, <2>1, <2>2, <2>3 DEF SLOT_BASE_SIZE
<1>3. b \in Nat /\ c \in Nat /\ BlockSize \in Nat
  BY BlockFacts
<1>4. b < c \/ b > c \/ b = c
  BY <1>3
<1>5. CASE b < c
  <2>1. b + BlockSize <= c
    BY <1>5 DEF PoolAssumptions, BlocksAssumption
  <2> QED BY <1>1, <1>2, <1>3, <2>1 DEF SLOT_BASE_SIZE
<1>6. CASE b > c
  <2>1. c + BlockSize <= b
    BY <1>3, <1>6 DEF PoolAssumptions, BlocksAssumption
  <2> QED BY <1>1, <1>2, <1>3, <2>1 DEF SLOT_BASE_SIZE
<1>7. CASE b = c
  <2>1. OnGrid(FirstSlot(b), SlotSize, x) /\ OnGrid(FirstSlot(b), SlotSize, y)
    BY <1>7, SlotsFacts
  <2>2. x \in Nat /\ y \in Nat
    BY <1>2
  <2>3. x < y => x + SlotSize <= y
    BY <1>1, <2>1, BlockFacts, GridStep
  <2>4. y < x => y + SlotSize <= x
    BY <1>1, <2>1, BlockFacts, GridStep
  <2> QED BY <1>2, <1>7, <2>2, <2>3, <2>4
<1> QED BY <1>4, <1>5, <1>6, <1>7

-----------------------------------------------------------------------------
(* Blocks.  The slots that were carved are those next is defined for.      *)

BlocksInv ==
  /\ size \in Requests
  /\ blocks \in Seq(Bases) /\ IsInjective(blocks)
  /\ curSlot \in Nat /\ lastSlot \in Nat
  /\ blocks = << >> => curSlot = 0 /\ lastSlot = 0
  /\ blocks # << >> => /\ lastSlot = LastSlot(Head(blocks))
                       /\ OnGrid(FirstSlot(Head(blocks)), SlotSize, curSlot)
  /\ DOMAIN next = Carved
  /\ IsFiniteSet(DOMAIN next)

LEMMA CarvedMembers ==
  ASSUME blocks # << >>, NEW x
  PROVE  x \in Carved <=> \/ \E b \in ToSet(Tail(blocks)) : x \in SlotsOf(b)
                          \/ x \in SlotsOf(Head(blocks)) /\ x < curSlot
<1> DEFINE A == UNION {SlotsOf(b) : b \in ToSet(Tail(blocks))}
           B == {s \in SlotsOf(Head(blocks)) : s < curSlot}
<1>1. Carved = A \cup B
  BY DEF Carved
<1>2. x \in A <=> \E b \in ToSet(Tail(blocks)) : x \in SlotsOf(b)
  OBVIOUS
<1>3. x \in B <=> x \in SlotsOf(Head(blocks)) /\ x < curSlot
  OBVIOUS
<1> HIDE DEF A, B
<1> QED BY Zenon, <1>1, <1>2, <1>3

LEMMA CarvedAfter ==
  ASSUME blocks' # << >>, NEW h, h = Head(blocks)', NEW q, q = Tail(blocks)', NEW x
  PROVE  x \in Carved' <=> \/ \E b \in ToSet(q) : x \in SlotsOf(b)'
                           \/ x \in SlotsOf(h)' /\ x < curSlot'
<1> DEFINE A == UNION {SlotsOf(b)' : b \in ToSet(q)}
           B == {s \in SlotsOf(h)' : s < curSlot'}
<1>1. Carved' = A \cup B
  BY DEF Carved
<1>2. x \in A <=> \E b \in ToSet(q) : x \in SlotsOf(b)'
  OBVIOUS
<1>3. x \in B <=> x \in SlotsOf(h)' /\ x < curSlot'
  OBVIOUS
<1> HIDE DEF A, B
<1> QED BY Zenon, <1>1, <1>2, <1>3

LEMMA CarvedSlot ==
  ASSUME BlocksInv, NEW x \in Carved
  PROVE  \E b \in ToSet(blocks) : b \in Bases /\ x \in SlotsOf(b)
<1>1. blocks # << >>
  BY DEF Carved
<1>2. Head(blocks) \in ToSet(blocks) /\ ToSet(Tail(blocks)) \subseteq ToSet(blocks)
  BY <1>1, TailSet DEF BlocksInv
<1>3. ToSet(blocks) \subseteq Bases
  BY SetOf DEF BlocksInv
<1> QED BY <1>1, <1>2, <1>3, CarvedMembers

LEMMA SlotsSame ==
  ASSUME size' = size
  PROVE  /\ SlotSize' = SlotSize /\ \A b \in Bases : FirstSlot(b)' = FirstSlot(b)
         /\ \A b \in Bases : LastSlot(b)' = LastSlot(b) /\ SlotsOf(b)' = SlotsOf(b)
<1>1. SlotSize' = SlotSize
  BY DEF SlotSize, SlotSizeOf, PoolIndex
<1>2. ASSUME NEW b \in Bases
      PROVE  FirstSlot(b)' = FirstSlot(b) /\ LastSlot(b)' = LastSlot(b)
  BY <1>1 DEF FirstSlot, padPointer, LastSlot
<1>3. ASSUME NEW b \in Bases
      PROVE  SlotsOf(b)' = SlotsOf(b)
  BY <1>1, <1>2 DEF SlotsOf
<1> QED BY <1>1, <1>2, <1>3

(* The critical section of mutexForBlock_ carves a slot nobody has had.    *)
LEMMA CarvesNew ==
  ASSUME PoolAssumptions, BlocksInv, NEW t \in Threads, TakeSlot(t)
  PROVE  \E s \in Nat \ DOMAIN next : Return(t, s) /\ BlocksInv'
<1>b. /\ size \in Requests /\ blocks \in Seq(Bases) /\ IsInjective(blocks)
      /\ curSlot \in Nat /\ lastSlot \in Nat /\ DOMAIN next = Carved /\ IsFiniteSet(DOMAIN next)
      /\ blocks = << >> => curSlot = 0 /\ lastSlot = 0
      /\ blocks # << >> => /\ lastSlot = LastSlot(Head(blocks))
                           /\ OnGrid(FirstSlot(Head(blocks)), SlotSize, curSlot)
  BY DEF BlocksInv
<1>d. SlotSize \in Nat \ {0} /\ (SlotSize \div SLOT_BASE_SIZE) * SLOT_BASE_SIZE = SlotSize
  BY <1>b, SlotSizeFacts
<1>c. size' = size
  BY DEF TakeSlot, Carve
<1>s. /\ SlotSize' = SlotSize /\ \A b \in Bases : FirstSlot(b)' = FirstSlot(b)
      /\ \A b \in Bases : LastSlot(b)' = LastSlot(b) /\ SlotsOf(b)' = SlotsOf(b)
  BY <1>c, SlotsSame
<1>f. \A s : DOMAIN [x \in DOMAIN next \cup {s} |-> IF x = s THEN Null ELSE next[x]] = DOMAIN next \cup {s}
  OBVIOUS
<1>r. \A s \in Nat : Return(t, s) => DOMAIN next' = DOMAIN next \cup {s} /\ IsFiniteSet(DOMAIN next')
  BY <1>b, <1>f, FS_AddElement DEF Return
<1>1. CASE ~Exhausted
  <2>1. curSlot < lastSlot /\ blocks # << >>
    BY <1>1, <1>b DEF Exhausted
  <2>h. PICK h \in Bases : h = Head(blocks)
    BY <1>b, <2>1, TailSet
  <2>2. /\ Return(t, curSlot) /\ curSlot' = curSlot + SlotSize
        /\ blocks' = blocks /\ lastSlot' = lastSlot
    BY <1>1, <1>d DEF TakeSlot, Carve
  <2>3. /\ h \in Bases /\ lastSlot = LastSlot(h) /\ OnGrid(FirstSlot(h), SlotSize, curSlot)
        /\ h \in ToSet(blocks) /\ ToSet(Tail(blocks)) = ToSet(blocks) \ {h}
        /\ ToSet(blocks) \subseteq Bases
    BY <1>b, <2>h, <2>1, TailSet, SetOf
  <2>4. /\ FirstSlot(h) \in Nat /\ LastSlot(h) \in Nat
    BY <1>b, <2>3, BlockFacts
  <2>5. curSlot \in SlotsOf(h)
    BY <1>b, <2>1, <2>3, SlotsFacts
  <2>6. \A x : x \in Carved <=> \/ \E b \in ToSet(Tail(blocks)) : x \in SlotsOf(b)
                                \/ x \in SlotsOf(h) /\ x < curSlot
    BY <2>h, <2>1, CarvedMembers
  <2>7. \A x : x \in Carved' <=> \/ \E b \in ToSet(Tail(blocks)) : x \in SlotsOf(b)
                                 \/ x \in SlotsOf(h) /\ x < curSlot'
    <3>1. \A x : x \in Carved' <=> \/ \E b \in ToSet(Tail(blocks)) : x \in SlotsOf(b)'
                                   \/ x \in SlotsOf(h)' /\ x < curSlot'
      <4>1. blocks # << >> /\ Tail(blocks)' = Tail(blocks) /\ Head(blocks)' = h
        BY <2>h, <2>1, <2>2
      <4> QED BY <2>2, <4>1, CarvedAfter
    <3> QED BY <1>s, <2>3, <3>1
  <2>8. \A x \in SlotsOf(h) : x < curSlot' <=> x < curSlot \/ x = curSlot
    <3> TAKE x \in SlotsOf(h)
    <3>1. x \in Nat /\ OnGrid(FirstSlot(h), SlotSize, x)
      BY <1>b, <2>3, SlotsFacts, SlotsApart
    <3>2. curSlot < x => curSlot + SlotSize <= x
      BY <1>d, <2>3, <2>4, <3>1, GridStep
    <3> QED BY <1>b, <1>d, <2>2, <3>1, <3>2
  <2>9. Carved' = Carved \cup {curSlot}
    BY <2>5, <2>6, <2>7, <2>8
  <2>10. curSlot \notin Carved
    <3>1. ~(curSlot < curSlot)
      BY <1>b
    <3>2. ASSUME NEW b \in ToSet(Tail(blocks)), curSlot \in SlotsOf(b) PROVE FALSE
      <4>1. b \in Bases /\ b # h
        BY <2>3
      <4> QED BY <1>b, <2>3, <2>5, <3>2, <4>1, SlotsApart
    <3> QED BY <2>6, <3>1, <3>2
  <2>11. OnGrid(FirstSlot(h), SlotSize, curSlot')
    BY <1>d, <2>2, <2>3, <2>4, GridStep
  <2>12. BlocksInv'
    <3>1. LastSlot(h)' = lastSlot /\ OnGrid(FirstSlot(h)', SlotSize', curSlot') /\ blocks' # << >>
      BY <1>s, <2>1, <2>2, <2>3, <2>11
    <3>2. Head(blocks)' = h
      BY <2>h, <2>2
    <3>3. DOMAIN next' = Carved' /\ IsFiniteSet(DOMAIN next')
      BY <1>b, <1>r, <2>2, <2>9
    <3>4. curSlot' \in Nat /\ lastSlot' \in Nat /\ size' \in Requests
      BY <1>b, <1>c, <1>d, <2>2
    <3> QED BY <1>b, <2>2, <3>1, <3>2, <3>3, <3>4 DEF BlocksInv
  <2> QED BY <1>b, <2>2, <2>10, <2>12
<1>2. CASE Exhausted
  <2>1. PICK b \in Bases \ ToSet(blocks) :
          blocks' = <<b>> \o blocks /\ lastSlot' = LastSlot(b) /\ Carve(t, FirstSlot(b))
    BY <1>2 DEF TakeSlot
  <2> DEFINE s == FirstSlot(b)
  <2>2. s \in Nat /\ LastSlot(b) \in Nat /\ s < LastSlot(b) /\ b \in Bases
    BY <1>b, BlockFacts
  <2>3. Return(t, s) /\ curSlot' = s + SlotSize
    BY <1>d, <2>1 DEF Carve
  <2>4. /\ blocks' \in Seq(Bases) /\ IsInjective(blocks') /\ blocks' # << >>
        /\ Head(blocks') = b /\ Tail(blocks') = blocks
    <3>1. blocks' \in Seq(Bases) /\ IsInjective(blocks') /\ Len(blocks') = Len(blocks) + 1
      BY <1>b, <2>1, ConsSet
    <3>2. Len(blocks) \in Nat /\ Head(blocks') = b /\ Tail(blocks') = blocks
      BY <1>b, <2>1
    <3> QED BY <3>1, <3>2
  <2>5. OnGrid(s, SlotSize, s) /\ OnGrid(s, SlotSize, s + SlotSize)
        /\ \A x, y : OnGrid(s, SlotSize, x) /\ OnGrid(s, SlotSize, y) /\ x < y => x + SlotSize <= y
    BY <1>d, <2>2, GridStep
  <2>6. ToSet(blocks) \subseteq Bases
    BY <1>b, SetOf
  <2>7. s \in SlotsOf(b)
    BY <1>b, <2>2, <2>5, SlotsFacts
  <2>8. \A x \in SlotsOf(b) : x < curSlot' <=> x = s
    <3> TAKE x \in SlotsOf(b)
    <3>1. OnGrid(s, SlotSize, x) /\ x \in Nat
      BY <1>b, SlotsFacts, SlotsApart
    <3>2. x >= s
      BY <1>d, <2>2, <3>1, GridStep
    <3>3. s < x => s + SlotSize <= x
      BY <2>5, <3>1
    <3> HIDE DEF s
    <3> QED BY <1>d, <2>2, <2>3, <3>1, <3>2, <3>3
  <2>9. \A x : x \in Carved <=> \E c \in ToSet(blocks) : x \in SlotsOf(c)
    <3>1. CASE blocks = << >>
      <4>1. ToSet(blocks) = {}
        BY <1>b, <3>1, SetOf
      <4> QED BY <3>1, <4>1 DEF Carved
    <3>2. CASE blocks # << >>
      <4> DEFINE h == Head(blocks)
      <4>1. /\ h \in ToSet(blocks) /\ ToSet(Tail(blocks)) = ToSet(blocks) \ {h}
            /\ LastSlot(h) = lastSlot /\ h \in Bases
        BY <1>b, <3>2, TailSet
      <4>2. lastSlot <= curSlot
        BY <1>2, <1>b DEF Exhausted
      <4>3. \A x \in SlotsOf(h) : x < curSlot
        <5> TAKE x \in SlotsOf(h)
        <5>1. x \in Nat /\ x < LastSlot(h)
          BY <1>b, <4>1, SlotsFacts, SlotsApart
        <5> QED BY <1>b, <4>1, <4>2, <5>1
      <4>4. \A x : x \in Carved <=> \/ \E c \in ToSet(Tail(blocks)) : x \in SlotsOf(c)
                                    \/ x \in SlotsOf(h) /\ x < curSlot
        BY <3>2, CarvedMembers
      <4> HIDE DEF h
      <4> QED BY <4>1, <4>3, <4>4
    <3> QED BY <3>1, <3>2
  <2>10. \A x : x \in Carved' <=> \/ \E c \in ToSet(blocks) : x \in SlotsOf(c)
                                  \/ x \in SlotsOf(b) /\ x < curSlot'
    <3>1. \A x : x \in Carved' <=> \/ \E c \in ToSet(blocks) : x \in SlotsOf(c)'
                                   \/ x \in SlotsOf(b)' /\ x < curSlot'
      BY <2>4, CarvedAfter
    <3> QED BY <1>s, <2>6, <3>1
  <2>11. Carved' = Carved \cup {s}
    BY <2>7, <2>8, <2>9, <2>10
  <2>12. s \notin Carved
    <3>1. ASSUME NEW c \in ToSet(blocks), s \in SlotsOf(c) PROVE FALSE
      <4>1. c \in Bases /\ c # b
        BY <2>6
      <4> QED BY <1>b, <2>2, <2>7, <3>1, <4>1, SlotsApart
    <3> QED BY <2>9, <3>1
  <2>13. BlocksInv'
    <3>1. lastSlot' = LastSlot(b)' /\ OnGrid(FirstSlot(b)', SlotSize', curSlot')
      BY <1>s, <2>1, <2>3, <2>5
    <3>3. DOMAIN next' = Carved' /\ IsFiniteSet(DOMAIN next')
      BY <1>b, <1>r, <2>2, <2>3, <2>11
    <3>4. curSlot' \in Nat /\ lastSlot' \in Nat /\ size' \in Requests
      BY <1>b, <1>c, <1>d, <2>1, <2>2, <2>3
    <3> QED BY <2>4, <3>1, <3>3, <3>4 DEF BlocksInv
  <2> QED BY <1>b, <2>2, <2>3, <2>12, <2>13
<1> QED BY <1>1, <1>2

-----------------------------------------------------------------------------
(* The inductive invariant.                                                *)

Word == DOMAIN next \cup {Null}
Tops == [ptr : Word, tag : Nat]
Steps == {"idle", "popNext", "popSwap", "block", "pushNext", "pushSwap"}

TypeInv ==
  /\ DOMAIN next \subseteq Nat
  /\ next \in [DOMAIN next -> Word]
  /\ freeList \in Tops
  /\ held \in [Threads -> SUBSET DOMAIN next]
  /\ pc \in [Threads -> Steps]
  /\ old \in [Threads -> Tops]
  /\ new \in [Threads -> Word]
  /\ slot \in [Threads -> Word]

(* What a call knows.  Its copy of the head is older than the head or the  *)
(* same; a pop that read next while its copy was the head holds the slot   *)
(* after the head, and does so until the version number moves on.          *)
Looping == {"popNext", "popSwap", "pushNext", "pushSwap"}

CallInv ==
  \A t \in Threads :
    /\ pc[t] \in Looping => /\ old[t].tag <= freeList.tag
                            /\ old[t].tag = freeList.tag => old[t] = freeList
    /\ pc[t] = "popSwap" => old[t].ptr # Null
    /\ pc[t] = "popSwap" /\ old[t] = freeList => new[t] = next[old[t].ptr]
    /\ pc[t] = "pushSwap" => next[slot[t]] = old[t].ptr
    /\ pc[t] \in {"pushNext", "pushSwap"} => slot[t] # Null

(* The list, as a sequence q, and the places of the slots.                 *)
At(q, i) == IF i \in DOMAIN q THEN q[i] ELSE Null

IsPath(q) ==
  /\ q \in Seq(DOMAIN next) /\ IsInjective(q)
  /\ freeList.ptr = At(q, 1)
  /\ \A i \in DOMAIN q : next[q[i]] = At(q, i + 1)

Placed(q) ==
  /\ DOMAIN next = ToSet(q) \cup UNION {With(t) : t \in Threads}
  /\ \A t \in Threads : ToSet(q) \cap With(t) = {} /\ held[t] \cap Returning(t) = {}
  /\ \A t, u \in Threads : t # u => With(t) \cap With(u) = {}

ListInv == TypeInv /\ CallInv /\ \E q : IsPath(q) /\ Placed(q)

(* Placed, with one quantifier per slot.                                   *)
LEMMA PlacedIs ==
  ASSUME NEW q
  PROVE  Placed(q) <=>
           /\ \A x : x \in DOMAIN next <=> x \in ToSet(q) \/ \E t \in Threads : x \in With(t)
           /\ \A t \in Threads : \A x \in With(t) :
                x \notin ToSet(q) /\ \A u \in Threads : x \in With(u) => t = u
           /\ \A t \in Threads : \A x \in held[t] : x \notin Returning(t)
<1>1. \A x : x \in UNION {With(t) : t \in Threads} <=> \E t \in Threads : x \in With(t)
  OBVIOUS
<1>2. DOMAIN next = ToSet(q) \cup UNION {With(t) : t \in Threads} <=>
        \A x : x \in DOMAIN next <=> x \in ToSet(q) \/ \E t \in Threads : x \in With(t)
  <2> DEFINE W == UNION {With(t) : t \in Threads}
  <2>1. \A x : x \in W <=> \E t \in Threads : x \in With(t)
    BY <1>1
  <2> HIDE DEF W
  <2>2. DOMAIN next = ToSet(q) \cup W <=> \A x : x \in DOMAIN next <=> x \in ToSet(q) \/ x \in W
    OBVIOUS
  <2> QED BY <2>1, <2>2 DEF W
<1>3. (\A t \in Threads : ToSet(q) \cap With(t) = {} /\ held[t] \cap Returning(t) = {}) <=>
        /\ \A t \in Threads : \A x \in With(t) : x \notin ToSet(q)
        /\ \A t \in Threads : \A x \in held[t] : x \notin Returning(t)
  OBVIOUS
<1>4. (\A t, u \in Threads : t # u => With(t) \cap With(u) = {}) <=>
        \A t \in Threads : \A x \in With(t) : \A u \in Threads : x \in With(u) => t = u
  OBVIOUS
<1> HIDE DEF With
<1> QED BY Zenon, <1>2, <1>3, <1>4 DEF Placed

-----------------------------------------------------------------------------
(* Steps.                                                                  *)

CallOk(t) ==
  /\ pc[t] \in Looping => /\ old[t].tag <= freeList.tag
                          /\ old[t].tag = freeList.tag => old[t] = freeList
  /\ pc[t] = "popSwap" => old[t].ptr # Null
  /\ pc[t] = "popSwap" /\ old[t] = freeList => new[t] = next[old[t].ptr]
  /\ pc[t] = "pushSwap" => next[slot[t]] = old[t].ptr
  /\ pc[t] \in {"pushNext", "pushSwap"} => slot[t] # Null

(* Only thread t takes a step of its call.                                 *)
OnlyCall(t) ==
  \A u \in Threads : u # t =>
    pc'[u] = pc[u] /\ old'[u] = old[u] /\ new'[u] = new[u] /\ slot'[u] = slot[u]

(* The other calls stay as they should be when the head does not change,   *)
(* or gets a new version number, and their slots are left alone.           *)
LEMMA OthersKept ==
  ASSUME TypeInv, CallInv, NEW t \in Threads, OnlyCall(t), CallOk(t)',
         freeList' \in [ptr : Word', tag : Nat],
         freeList' = freeList \/ freeList'.tag = freeList.tag + 1,
         freeList' = freeList /\ freeList.ptr # Null => next'[freeList.ptr] = next[freeList.ptr],
         \A u \in Threads : u # t /\ pc[u] = "pushSwap" => next'[slot[u]] = next[slot[u]]
  PROVE  CallInv'
<1> SUFFICES ASSUME NEW u \in Threads PROVE CallOk(u)'
  BY DEF CallInv, CallOk
<1>1. CASE u = t
  BY <1>1
<1>2. CASE u # t
  <2>1. pc'[u] = pc[u] /\ old'[u] = old[u] /\ new'[u] = new[u] /\ slot'[u] = slot[u]
    BY <1>2 DEF OnlyCall
  <2>2. CallOk(u)
    BY DEF CallInv, CallOk
  <2>3. old[u].tag \in Nat /\ freeList.tag \in Nat
    BY DEF TypeInv, Tops
  <2>4. CASE freeList' = freeList
    <3>1. pc[u] = "popSwap" /\ old[u] = freeList => next'[old[u].ptr] = next[old[u].ptr]
      BY <2>2, <2>4 DEF CallOk
    <3> QED BY <1>2, <2>1, <2>2, <2>4, <3>1 DEF CallOk
  <2>5. CASE freeList'.tag = freeList.tag + 1
    <3>1. pc[u] \in Looping => old[u].tag <= freeList'.tag /\ old[u].tag # freeList'.tag
      BY <2>2, <2>3, <2>5 DEF CallOk
    <3>2. "popSwap" \in Looping
      BY DEF Looping
    <3>3. pc[u] = "popSwap" => old[u] # freeList'
      BY <3>1, <3>2
    <3> QED BY <1>2, <2>1, <2>2, <3>1, <3>3 DEF CallOk
  <2> QED BY <2>4, <2>5
<1> QED BY <1>1, <1>2

(* The list and the places stay.                                           *)
LEMMA PathKept ==
  ASSUME NEW q, IsPath(q), Placed(q), DOMAIN next' = DOMAIN next, freeList' = freeList,
         \A x \in ToSet(q) : next'[x] = next[x],
         \A t \in Threads : With(t)' = With(t),
         \A t \in Threads : held'[t] \cap Returning(t)' = {}
  PROVE  IsPath(q)' /\ Placed(q)'
<1>1. \A i \in DOMAIN q : q[i] \in ToSet(q)
  BY SetOf DEF IsPath
<1>2. IsPath(q)'
  BY <1>1 DEF IsPath, At
<1>3. {With(t)' : t \in Threads} = {With(t) : t \in Threads}
  OBVIOUS
<1>4. Placed(q)'
  BY <1>3 DEF Placed
<1> QED BY <1>2, <1>4

LEMMA WithSame ==
  ASSUME held' = held, slot' = slot, NEW t \in Threads, TypeInv,
         pc' = [pc EXCEPT ![t] = pc'[t]],
         pc'[t] \in {"pushNext", "pushSwap"} <=> pc[t] \in {"pushNext", "pushSwap"}
  PROVE  \A u \in Threads : With(u)' = With(u) /\ Returning(u)' = Returning(u)
<1> SUFFICES ASSUME NEW u \in Threads PROVE Returning(u)' = Returning(u)
  BY DEF With
<1>1. u # t => pc'[u] = pc[u]
  BY DEF TypeInv
<1> QED BY <1>1 DEF Returning

LEMMA PopLoadKeeps ==
  ASSUME ListInv, NEW t \in Threads,
         pc[t] \in {"idle", "popSwap"}, Reload(t), Goto(t, "popNext"),
         UNCHANGED <<next, held, new, slot>>
  PROVE  ListInv'
<1>1. TypeInv /\ CallInv
  BY DEF ListInv
<1>2. PICK q : IsPath(q) /\ Placed(q)
  BY DEF ListInv
<1>3. /\ pc'[t] = "popNext" /\ old'[t] = freeList /\ pc' = [pc EXCEPT ![t] = pc'[t]]
      /\ freeList' = freeList /\ next' = next /\ held' = held /\ new' = new /\ slot' = slot
  BY <1>1 DEF Goto, Reload, TypeInv
<1>4. OnlyCall(t)
  BY <1>1 DEF Goto, Reload, OnlyCall, TypeInv
<1>5. TypeInv'
  BY <1>1, <1>3 DEF TypeInv, Word, Tops, Goto, Reload, Steps
<1>6. CallOk(t)'
  BY <1>1, <1>3 DEF CallOk, TypeInv, Tops
<1>7. CallInv'
  BY <1>1, <1>3, <1>4, <1>6, OthersKept DEF TypeInv, Tops, Word
<1>8. \A u \in Threads : With(u)' = With(u) /\ Returning(u)' = Returning(u)
  BY <1>1, <1>3, WithSame
<1>9. IsPath(q)' /\ Placed(q)'
  BY <1>2, <1>3, <1>8, PathKept DEF Placed
<1> QED BY <1>5, <1>7, <1>9 DEF ListInv

LEMMA NotInUse ==
  ASSUME NEW q, IsPath(q), Placed(q), NEW s \in ToSet(q)
  PROVE  ~InUse(s)
<1> SUFFICES ASSUME NEW t \in Threads, s \in held[t] \/ (pc[t] = "pushNext" /\ slot[t] = s)
             PROVE  FALSE
  BY DEF InUse
<1>1. s \in With(t)
  BY DEF With, Returning
<1> QED BY <1>1 DEF Placed

LEMMA PopNextKeeps ==
  ASSUME ListInv, NEW t \in Threads, PopNext(t)
  PROVE  ListInv'
<1>1. TypeInv /\ CallInv
  BY DEF ListInv
<1>2. PICK q : IsPath(q) /\ Placed(q)
  BY DEF ListInv
<1>3. /\ pc[t] = "popNext" /\ pc'[t] \in {"block", "popSwap"} /\ pc' = [pc EXCEPT ![t] = pc'[t]]
      /\ freeList' = freeList /\ next' = next /\ held' = held /\ old' = old /\ slot' = slot
  BY <1>1 DEF PopNext, Goto, TypeInv
<1>4. OnlyCall(t)
  BY <1>1, <1>3 DEF PopNext, OnlyCall, TypeInv
<1>5. \A s \in DOMAIN next : Words(s) \subseteq Word
  BY <1>1 DEF Words, Word, TypeInv
<1>6. /\ new' \in [Threads -> Word]
      /\ pc'[t] = "popSwap" => old[t].ptr # Null /\ new'[t] \in Words(old[t].ptr)
  <2>1. CASE old[t].ptr = Null
    BY <1>1, <2>1 DEF PopNext, Goto, TypeInv
  <2>2. CASE old[t].ptr # Null
    <3>1. old[t].ptr \in DOMAIN next
      BY <1>1, <2>2 DEF TypeInv, Tops, Word
    <3> QED BY <1>1, <1>5, <2>2, <3>1 DEF PopNext, TypeInv
  <2> QED BY <2>1, <2>2
<1>7. TypeInv'
  BY <1>1, <1>3, <1>6 DEF TypeInv, Word, Tops, Steps
<1>8. CallOk(t)'
  <2>1. old[t].tag <= freeList.tag /\ (old[t].tag = freeList.tag => old[t] = freeList)
    BY <1>1, <1>3 DEF CallInv, Looping
  <2>2. pc'[t] = "popSwap" /\ old[t] = freeList => new'[t] = next[old[t].ptr]
    <3> SUFFICES ASSUME pc'[t] = "popSwap", old[t] = freeList PROVE new'[t] = next[old[t].ptr]
      OBVIOUS
    <3>1. freeList.ptr # Null /\ freeList.ptr = At(q, 1)
      BY <1>2, <1>6 DEF IsPath
    <3>2. freeList.ptr \in ToSet(q)
      BY <1>2, <3>1, SetOf DEF At, IsPath
    <3>3. ~InUse(freeList.ptr)
      BY <1>2, <3>2, NotInUse
    <3> QED BY <1>6, <3>3 DEF Words
  <2> QED BY <1>3, <1>6, <2>1, <2>2 DEF CallOk
<1>9. CallInv'
  BY <1>1, <1>3, <1>4, <1>8, OthersKept DEF TypeInv, Tops, Word
<1>10. \A u \in Threads : With(u)' = With(u) /\ Returning(u)' = Returning(u)
  BY <1>1, <1>3, WithSame
<1>11. IsPath(q)' /\ Placed(q)'
  BY <1>2, <1>3, <1>10, PathKept DEF Placed
<1> QED BY <1>7, <1>9, <1>11 DEF ListInv

LEMMA TakeSlotFailsKeeps ==
  ASSUME ListInv, NEW t \in Threads, TakeSlotFails(t)
  PROVE  ListInv'
<1>1. TypeInv /\ CallInv
  BY DEF ListInv
<1>2. PICK q : IsPath(q) /\ Placed(q)
  BY DEF ListInv
<1>3. /\ pc[t] = "block" /\ pc'[t] = "idle"
      /\ freeList' = freeList /\ next' = next /\ held' = held
  BY <1>1 DEF TakeSlotFails, Finish, Goto, TypeInv
<1>4. OnlyCall(t)
  BY <1>1 DEF TakeSlotFails, Finish, Goto, OnlyCall, TypeInv
<1>5. TypeInv'
  BY <1>1, <1>3 DEF TakeSlotFails, Finish, Goto, TypeInv, Word, Tops, Steps, NoHead
<1>6. CallOk(t)'
  BY <1>3 DEF CallOk, Looping
<1>7. CallInv'
  BY <1>1, <1>3, <1>4, <1>6, OthersKept DEF TypeInv, Tops, Word
<1>8. \A u \in Threads : With(u)' = With(u) /\ Returning(u)' = Returning(u)
  BY <1>3, <1>4 DEF With, Returning, OnlyCall
<1>9. IsPath(q)' /\ Placed(q)'
  BY <1>2, <1>3, <1>8, PathKept DEF Placed
<1> QED BY <1>5, <1>7, <1>9 DEF ListInv

LEMMA PushReloadKeeps ==
  ASSUME ListInv, NEW t \in Threads,
         pc[t] = "pushSwap", Reload(t), Goto(t, "pushNext"),
         UNCHANGED <<next, held, new, slot>>
  PROVE  ListInv'
<1>1. TypeInv /\ CallInv
  BY DEF ListInv
<1>2. PICK q : IsPath(q) /\ Placed(q)
  BY DEF ListInv
<1>3. /\ pc'[t] = "pushNext" /\ old'[t] = freeList /\ pc' = [pc EXCEPT ![t] = pc'[t]]
      /\ freeList' = freeList /\ next' = next /\ held' = held /\ new' = new /\ slot' = slot
  BY <1>1 DEF Goto, Reload, TypeInv
<1>4. OnlyCall(t)
  BY <1>1 DEF Goto, Reload, OnlyCall, TypeInv
<1>5. TypeInv'
  BY <1>1, <1>3 DEF TypeInv, Word, Tops, Goto, Reload, Steps
<1>6. CallOk(t)'
  <2>1. slot[t] # Null
    BY <1>1 DEF CallInv
  <2> QED BY <1>1, <1>3, <2>1 DEF CallOk, TypeInv, Tops
<1>7. CallInv'
  BY <1>1, <1>3, <1>4, <1>6, OthersKept DEF TypeInv, Tops, Word
<1>8. \A u \in Threads : With(u)' = With(u) /\ Returning(u)' = Returning(u)
  BY <1>1, <1>3, WithSame
<1>9. IsPath(q)' /\ Placed(q)'
  BY <1>2, <1>3, <1>8, PathKept DEF Placed
<1> QED BY <1>5, <1>7, <1>9 DEF ListInv

LEMMA PushLoadKeeps ==
  ASSUME PoolAssumptions, ListInv, NEW t \in Threads, NEW s \in held[t], PushLoad(t, s)
  PROVE  ListInv'
<1>1. TypeInv /\ CallInv
  BY DEF ListInv
<1>2. PICK q : IsPath(q) /\ Placed(q)
  BY DEF ListInv
<1>3. /\ pc[t] = "idle" /\ pc'[t] = "pushNext" /\ old'[t] = freeList /\ slot'[t] = s
      /\ held' = [held EXCEPT ![t] = @ \ {s}]
      /\ freeList' = freeList /\ next' = next /\ new' = new
  BY <1>1 DEF PushLoad, Goto, Reload, TypeInv
<1>4. OnlyCall(t)
  BY <1>1 DEF PushLoad, Goto, Reload, OnlyCall, TypeInv
<1>5. s \in DOMAIN next /\ s # Null
  BY <1>1 DEF TypeInv, PoolAssumptions, NullAssumption
<1>6. TypeInv'
  <2>1. held' \in [Threads -> SUBSET DOMAIN next]
    BY <1>1, <1>3 DEF TypeInv
  <2>2. slot' \in [Threads -> Word] /\ old' \in [Threads -> Tops] /\ pc' \in [Threads -> Steps]
    BY <1>1, <1>5 DEF TypeInv, PushLoad, Goto, Reload, Word, Steps
  <2> QED BY <1>1, <1>3, <2>1, <2>2 DEF TypeInv, Word, Tops
<1>7. CallOk(t)'
  BY <1>1, <1>3, <1>5 DEF CallOk, TypeInv, Tops
<1>8. CallInv'
  BY <1>1, <1>3, <1>4, <1>7, OthersKept DEF TypeInv, Tops, Word
<1>9. \A u \in Threads : With(u)' = With(u) /\ held'[u] \cap Returning(u)' = {}
  <2> TAKE u \in Threads
  <2>1. CASE u = t
    <3>1. held'[t] = held[t] \ {s} /\ Returning(t)' = {s} /\ Returning(t) = {}
      BY <1>1, <1>3 DEF Returning, TypeInv
    <3> QED BY <2>1, <3>1 DEF With
  <2>2. CASE u # t
    <3>1. held'[u] = held[u] /\ Returning(u)' = Returning(u)
      BY <1>1, <1>3, <1>4, <2>2 DEF Returning, TypeInv, OnlyCall
    <3>2. held[u] \cap Returning(u) = {}
      BY <1>2 DEF Placed
    <3> QED BY <3>1, <3>2 DEF With
  <2> QED BY <2>1, <2>2
<1>10. IsPath(q)' /\ Placed(q)'
  BY <1>2, <1>3, <1>9, PathKept
<1> QED BY <1>6, <1>8, <1>10 DEF ListInv

LEMMA PushNextKeeps ==
  ASSUME ListInv, NEW t \in Threads, PushNext(t)
  PROVE  ListInv'
<1>1. TypeInv /\ CallInv
  BY DEF ListInv
<1>2. PICK q : IsPath(q) /\ Placed(q)
  BY DEF ListInv
<1>3. /\ pc[t] = "pushNext" /\ pc'[t] = "pushSwap" /\ pc' = [pc EXCEPT ![t] = pc'[t]]
      /\ next' = [next EXCEPT ![slot[t]] = old[t].ptr]
      /\ freeList' = freeList /\ held' = held /\ old' = old /\ new' = new /\ slot' = slot
  BY <1>1 DEF PushNext, Goto, TypeInv, callVars
<1>4. OnlyCall(t)
  BY <1>1, <1>3 DEF OnlyCall, TypeInv
<1>5. slot[t] \in DOMAIN next /\ slot[t] # Null /\ old[t].ptr \in Word
  BY <1>1, <1>3 DEF CallInv, TypeInv, Word, Tops
<1>6. DOMAIN next' = DOMAIN next /\ next'[slot[t]] = old[t].ptr
      /\ \A x \in DOMAIN next : x # slot[t] => next'[x] = next[x]
  BY <1>1, <1>3, <1>5 DEF TypeInv
<1>7. TypeInv'
  <2>1. next' \in [DOMAIN next -> Word]
    BY <1>1, <1>3, <1>5 DEF TypeInv
  <2>2. pc' \in [Threads -> Steps]
    BY <1>1, <1>3 DEF TypeInv, Steps
  <2> QED BY <1>1, <1>3, <1>6, <2>1, <2>2 DEF TypeInv, Word, Tops
<1>8. CallOk(t)'
  <2>1. old[t].tag <= freeList.tag /\ (old[t].tag = freeList.tag => old[t] = freeList)
    BY <1>1, <1>3 DEF CallInv, Looping
  <2> QED BY <1>3, <1>5, <1>6, <2>1 DEF CallOk
<1>9. slot[t] \in With(t)
  BY <1>3 DEF With, Returning
<1>10. \A x \in ToSet(q) : x \in DOMAIN next /\ x # slot[t]
  <2>1. ToSet(q) \subseteq DOMAIN next
    BY <1>2, SetOf DEF IsPath
  <2> QED BY <1>2, <1>9, <2>1 DEF Placed
<1>11. CallInv'
  <2>1. freeList.ptr # Null => freeList.ptr \in ToSet(q)
    BY <1>2, SetOf DEF IsPath, At
  <2>2. \A u \in Threads : u # t /\ pc[u] = "pushSwap" => slot[u] \in DOMAIN next /\ slot[u] # slot[t]
    <3> TAKE u \in Threads
    <3> SUFFICES ASSUME u # t, pc[u] = "pushSwap"
                 PROVE  slot[u] \in DOMAIN next /\ slot[u] # slot[t]
      OBVIOUS
    <3>1. slot[u] \in With(u)
      BY DEF With, Returning
    <3>2. slot[u] \in DOMAIN next
      BY <1>1 DEF CallInv, TypeInv, Word
    <3> QED BY <1>2, <1>9, <3>1, <3>2 DEF Placed
  <2>3. freeList' \in [ptr : Word', tag : Nat]
    BY <1>7 DEF TypeInv, Tops
  <2>4. freeList.ptr # Null => next'[freeList.ptr] = next[freeList.ptr]
    BY <1>6, <1>10, <2>1
  <2>5. \A u \in Threads : u # t /\ pc[u] = "pushSwap" => next'[slot[u]] = next[slot[u]]
    BY <1>6, <2>2
  <2> QED BY <1>1, <1>3, <1>4, <1>8, <2>3, <2>4, <2>5, OthersKept
<1>12. \A u \in Threads : With(u)' = With(u) /\ Returning(u)' = Returning(u)
  BY <1>1, <1>3, WithSame
<1>13. IsPath(q)' /\ Placed(q)'
  <2>1. \A u \in Threads : held'[u] \cap Returning(u)' = {}
    BY <1>2, <1>3, <1>12 DEF Placed
  <2>2. \A x \in ToSet(q) : next'[x] = next[x]
    BY <1>6, <1>10
  <2> QED BY <1>2, <1>3, <1>6, <1>12, <2>1, <2>2, PathKept
<1> QED BY <1>7, <1>11, <1>13 DEF ListInv

LEMMA ConsAt ==
  ASSUME NEW X, NEW q \in Seq(X), NEW s \in X
  PROVE  /\ DOMAIN (<<s>> \o q) = 1 .. Len(q) + 1 /\ DOMAIN q = 1 .. Len(q) /\ Len(q) \in Nat
         /\ (<<s>> \o q)[1] = s
         /\ \A i \in 1 .. Len(q) : (<<s>> \o q)[i + 1] = q[i]
OBVIOUS

(* A successful exchange of pushFreeList: the slot becomes the first.      *)
LEMMA PushSwappedKeeps ==
  ASSUME ListInv, NEW t \in Threads, pc[t] = "pushSwap", Swapped(t, slot[t]), Finish(t),
         UNCHANGED <<next, held>>
  PROVE  ListInv'
<1>1. TypeInv /\ CallInv
  BY DEF ListInv
<1>2. PICK q : IsPath(q) /\ Placed(q)
  BY DEF ListInv
<1>s. PICK s : s = slot[t]
  OBVIOUS
<1>r. PICK r : r = <<s>> \o q
  OBVIOUS
<1>3. /\ pc'[t] = "idle" /\ freeList = old[t] /\ freeList' = [ptr |-> s, tag |-> freeList.tag + 1]
      /\ next' = next /\ held' = held
  BY <1>1, <1>s DEF Swapped, NewHead, Finish, Goto, TypeInv
<1>4. OnlyCall(t)
  BY <1>1 DEF Finish, Goto, OnlyCall, TypeInv
<1>5. s \in DOMAIN next /\ s # Null /\ next[s] = freeList.ptr
  BY <1>1, <1>3, <1>s DEF CallInv, TypeInv, Word
<1>6. freeList' \in Tops
  BY <1>1, <1>3, <1>5 DEF TypeInv, Tops, Word
<1>7. TypeInv'
  <2>1. /\ old' \in [Threads -> Tops] /\ new' \in [Threads -> Word]
        /\ slot' \in [Threads -> Word] /\ pc' \in [Threads -> Steps]
    BY <1>1 DEF TypeInv, Finish, Goto, Tops, Word, Steps, NoHead
  <2> QED BY <1>1, <1>3, <1>6, <2>1 DEF TypeInv, Word, Tops
<1>8. CallOk(t)'
  BY <1>3 DEF CallOk, Looping
<1>9. CallInv'
  <2>1. freeList' \in [ptr : Word', tag : Nat] /\ freeList'.tag = freeList.tag + 1
    BY <1>3, <1>6 DEF Tops, Word
  <2> QED BY <1>1, <1>3, <1>4, <1>8, <2>1, OthersKept
<1>10. Returning(t) = {s} /\ Returning(t)' = {} /\ s \in With(t)
       /\ \A u \in Threads : u # t => With(u)' = With(u) /\ Returning(u)' = Returning(u)
  BY <1>3, <1>4, <1>s DEF Returning, With, OnlyCall
<1>11. With(t)' = With(t) \ {s}
  BY <1>2, <1>3, <1>10 DEF With, Placed
<1>12. q \in Seq(DOMAIN next) /\ IsInjective(q) /\ s \notin ToSet(q)
  BY <1>2, <1>10 DEF IsPath, Placed
<1>13. r \in Seq(DOMAIN next) /\ IsInjective(r) /\ ToSet(r) = ToSet(q) \cup {s}
  BY <1>5, <1>12, <1>r, ConsSet
<1>14. /\ DOMAIN r = 1 .. Len(q) + 1 /\ DOMAIN q = 1 .. Len(q) /\ Len(q) \in Nat
       /\ r[1] = s /\ \A i \in 1 .. Len(q) : r[i + 1] = q[i]
  BY <1>5, <1>12, <1>r, ConsAt
<1>15. IsPath(r)'
  <2>1. freeList'.ptr = At(r, 1)
    BY <1>3, <1>14 DEF At
  <2>2. \A i \in 1 .. Len(q) + 1 : At(r, i + 1) = At(q, i)
    BY <1>14 DEF At
  <2>3. ASSUME NEW i \in DOMAIN r PROVE next[r[i]] = At(r, i + 1)
    <3>1. i \in Nat /\ 1 <= i /\ i <= Len(q) + 1
      BY <1>14
    <3>2. CASE i = 1
      BY <1>2, <1>5, <1>14, <2>2, <3>1, <3>2 DEF IsPath
    <3>3. CASE i # 1
      <4> DEFINE j == i - 1
      <4>1. j \in 1 .. Len(q) /\ i = j + 1
        BY <1>14, <3>1, <3>3
      <4> HIDE DEF j
      <4>2. r[i] = q[j] /\ next[q[j]] = At(q, i)
        BY <1>2, <1>14, <4>1 DEF IsPath
      <4> QED BY <1>14, <2>2, <4>2
    <3> QED BY <3>2, <3>3
  <2> QED BY <1>3, <1>13, <2>1, <2>3 DEF IsPath, At
<1>16. Placed(r)'
  <2>1. \A x : x \in DOMAIN next' <=> x \in ToSet(r) \/ \E u \in Threads : x \in With(u)'
    <3>1. \A x : x \in DOMAIN next <=> x \in ToSet(q) \/ \E u \in Threads : x \in With(u)
      BY <1>2, PlacedIs
    <3> QED BY <1>3, <1>10, <1>11, <1>13, <3>1
  <2>2. \A u \in Threads : \A x \in With(u) :
          x \notin ToSet(q) /\ \A v \in Threads : x \in With(v) => u = v
    BY <1>2, PlacedIs
  <2>3. ASSUME NEW u \in Threads
        PROVE  ToSet(r) \cap With(u)' = {} /\ held'[u] \cap Returning(u)' = {}
    <3>1. held[u] \cap Returning(u) = {}
      BY <1>2 DEF Placed
    <3>2. CASE u = t
      BY <1>10, <1>11, <1>13, <2>2, <3>2
    <3>3. CASE u # t
      BY <1>3, <1>10, <1>13, <2>2, <3>1, <3>3
    <3> QED BY <3>2, <3>3
  <2>4. ASSUME NEW u \in Threads, NEW v \in Threads, u # v
        PROVE  With(u)' \cap With(v)' = {}
    BY <1>10, <1>11, <2>2, <2>4
  <2>5. DOMAIN next' = ToSet(r) \cup UNION {With(u)' : u \in Threads}
    <3> DEFINE W == UNION {With(u)' : u \in Threads}
    <3>1. \A x : x \in W <=> \E u \in Threads : x \in With(u)'
      OBVIOUS
    <3> HIDE DEF W
    <3>2. DOMAIN next' = ToSet(r) \cup W
      BY <2>1, <3>1
    <3> QED BY <3>2 DEF W
  <2> QED BY <2>3, <2>4, <2>5 DEF Placed
<1> QED BY <1>7, <1>9, <1>15, <1>16 DEF ListInv

LEMMA TailAt ==
  ASSUME NEW X, NEW q \in Seq(X), q # << >>
  PROVE  /\ DOMAIN Tail(q) = 1 .. Len(q) - 1 /\ DOMAIN q = 1 .. Len(q) /\ Len(q) \in Nat
         /\ Len(q) >= 1 /\ Head(q) = q[1]
         /\ \A i \in 1 .. Len(q) - 1 : Tail(q)[i] = q[i + 1]
OBVIOUS

(* A slot becomes one of thread t; r is what is left of the list.          *)
LEMMA PlaceGrows ==
  ASSUME NEW q, NEW r, NEW t \in Threads, NEW s, Placed(q),
         DOMAIN next' = DOMAIN next \cup {s}, ToSet(r) = ToSet(q) \ {s},
         s \in ToSet(q) \/ s \notin DOMAIN next,
         held'[t] = held[t] \cup {s}, Returning(t)' = {}, Returning(t) = {},
         \A u \in Threads : u # t => held'[u] = held[u] /\ Returning(u)' = Returning(u)
  PROVE  Placed(r)'
<1>1. /\ \A x : x \in DOMAIN next <=> x \in ToSet(q) \/ \E u \in Threads : x \in With(u)
      /\ \A u \in Threads : \A x \in With(u) :
           x \notin ToSet(q) /\ \A v \in Threads : x \in With(v) => u = v
      /\ \A u \in Threads : \A x \in held[u] : x \notin Returning(u)
  BY PlacedIs
<1>2. With(t)' = With(t) \cup {s} /\ \A u \in Threads : u # t => With(u)' = With(u)
  BY DEF With
<1>3. \A u \in Threads : s \notin With(u)
  BY <1>1
<1>4. ASSUME NEW u \in Threads
      PROVE  ToSet(r) \cap With(u)' = {} /\ held'[u] \cap Returning(u)' = {}
  <2>1. CASE u = t
    BY <1>1, <1>2, <2>1
  <2>2. CASE u # t
    BY <1>1, <1>2, <2>2
  <2> QED BY <2>1, <2>2
<1>5. ASSUME NEW u \in Threads, NEW v \in Threads, u # v
      PROVE  With(u)' \cap With(v)' = {}
  BY <1>1, <1>2, <1>3, <1>5
<1>6. DOMAIN next' = ToSet(r) \cup UNION {With(u)' : u \in Threads}
  <2> DEFINE W == UNION {With(u)' : u \in Threads}
  <2>1. \A x : x \in W <=> \E u \in Threads : x \in With(u)'
    OBVIOUS
  <2> HIDE DEF W
  <2>2. DOMAIN next' = ToSet(r) \cup W
    BY <1>1, <1>2, <2>1
  <2> QED BY <2>2 DEF W
<1> QED BY <1>4, <1>5, <1>6 DEF Placed

(* A call that returns slot s: the parts of the invariant but the list.    *)
LEMMA ReturnFacts ==
  ASSUME TypeInv, NEW t \in Threads, NEW s \in Nat, Return(t, s)
  PROVE  /\ DOMAIN next' = DOMAIN next \cup {s} /\ next'[s] = Null
         /\ \A x \in DOMAIN next : x # s => next'[x] = next[x]
         /\ next' \in [DOMAIN next' -> Word] /\ DOMAIN next' \subseteq Nat
         /\ held'[t] = held[t] \cup {s} /\ \A u \in Threads : u # t => held'[u] = held[u]
         /\ held' \in [Threads -> SUBSET DOMAIN next']
         /\ OnlyCall(t) /\ pc'[t] = "idle"
         /\ pc' \in [Threads -> Steps] /\ old' \in [Threads -> [ptr : Word', tag : Nat]]
         /\ new' \in [Threads -> Word'] /\ slot' \in [Threads -> Word']
         /\ Word' = Word \cup {s}
<1>1. next' = [x \in DOMAIN next \cup {s} |-> IF x = s THEN Null ELSE next[x]]
  BY DEF Return
<1>2. /\ DOMAIN next' = DOMAIN next \cup {s} /\ next'[s] = Null
      /\ \A x \in DOMAIN next : x # s => next'[x] = next[x]
  BY <1>1
<1>3. next' \in [DOMAIN next' -> Word] /\ DOMAIN next' \subseteq Nat
  <2>1. \A x \in DOMAIN next \cup {s} : (IF x = s THEN Null ELSE next[x]) \in Word
    BY DEF TypeInv, Word
  <2> QED BY <1>1, <1>2, <2>1 DEF TypeInv
<1>4. Word' = Word \cup {s}
  BY <1>2 DEF Word
<1>5. held' = [held EXCEPT ![t] = @ \cup {s}]
  BY DEF Return
<1>6. /\ held'[t] = held[t] \cup {s} /\ \A u \in Threads : u # t => held'[u] = held[u]
  BY <1>5 DEF TypeInv
<1>7. held' \in [Threads -> SUBSET DOMAIN next']
  BY <1>2, <1>5 DEF TypeInv
<1>8. OnlyCall(t) /\ pc'[t] = "idle" /\ pc' \in [Threads -> Steps]
  BY DEF Return, Finish, Goto, OnlyCall, TypeInv, Steps
<1>9. old' \in [Threads -> Tops] /\ new' \in [Threads -> Word] /\ slot' \in [Threads -> Word]
  BY DEF Return, Finish, Goto, TypeInv, Tops, Word, NoHead
<1>10. old' \in [Threads -> [ptr : Word', tag : Nat]]
       /\ new' \in [Threads -> Word'] /\ slot' \in [Threads -> Word']
  BY <1>4, <1>9 DEF Tops
<1> QED BY <1>2, <1>3, <1>4, <1>6, <1>7, <1>8, <1>10

(* A successful exchange of popFreeList: the first slot leaves.            *)
LEMMA PopSwappedKeeps ==
  ASSUME PoolAssumptions, ListInv, NEW t \in Threads, pc[t] = "popSwap",
         Swapped(t, new[t]), Return(t, old[t].ptr)
  PROVE  ListInv'
<1>1. TypeInv /\ CallInv
  BY DEF ListInv
<1>2. PICK q : IsPath(q) /\ Placed(q)
  BY DEF ListInv
<1> DEFINE s == old[t].ptr
           r == Tail(q)
<1>3. freeList = old[t] /\ freeList' = [ptr |-> new[t], tag |-> freeList.tag + 1]
  BY DEF Swapped, NewHead
<1>4. s # Null /\ new[t] = next[s] /\ s = At(q, 1)
  BY <1>1, <1>2, <1>3 DEF CallInv, IsPath
<1>5. q # << >> /\ q \in Seq(DOMAIN next) /\ IsInjective(q)
  BY <1>2, <1>4 DEF At, IsPath
<1>6. /\ DOMAIN r = 1 .. Len(q) - 1 /\ DOMAIN q = 1 .. Len(q) /\ Len(q) \in Nat
      /\ Len(q) >= 1 /\ Head(q) = q[1] /\ \A i \in 1 .. Len(q) - 1 : r[i] = q[i + 1]
  BY <1>5, TailAt
<1>7. s = q[1]
  BY <1>4, <1>6 DEF At
<1>8. /\ r \in Seq(DOMAIN next) /\ IsInjective(r) /\ ToSet(r) = ToSet(q) \ {s}
      /\ s \in ToSet(q) /\ s \in DOMAIN next
  BY <1>5, <1>6, <1>7, TailSet
<1> HIDE DEF r
<1>9. s \in Nat /\ freeList.tag \in Nat
  BY <1>1, <1>8 DEF TypeInv, Tops
<1>10. /\ DOMAIN next' = DOMAIN next \cup {s} /\ next'[s] = Null
       /\ \A x \in DOMAIN next : x # s => next'[x] = next[x]
       /\ next' \in [DOMAIN next' -> Word] /\ DOMAIN next' \subseteq Nat
       /\ held'[t] = held[t] \cup {s} /\ \A u \in Threads : u # t => held'[u] = held[u]
       /\ held' \in [Threads -> SUBSET DOMAIN next']
       /\ OnlyCall(t) /\ pc'[t] = "idle"
       /\ pc' \in [Threads -> Steps] /\ old' \in [Threads -> [ptr : Word', tag : Nat]]
       /\ new' \in [Threads -> Word'] /\ slot' \in [Threads -> Word']
       /\ Word' = Word \cup {s}
  BY <1>1, <1>9, ReturnFacts
<1> HIDE DEF s
<1>11. freeList' \in [ptr : Word', tag : Nat]
  BY <1>1, <1>3, <1>9, <1>10 DEF TypeInv
<1>12. TypeInv'
  BY <1>10, <1>11 DEF TypeInv, Tops
<1>13. CallOk(t)'
  BY <1>10 DEF CallOk, Looping
<1>14. CallInv'
  <2>1. freeList'.tag = freeList.tag + 1 /\ freeList' # freeList
    BY <1>3, <1>9
  <2>2. \A u \in Threads : u # t /\ pc[u] = "pushSwap" => next'[slot[u]] = next[slot[u]]
    <3> TAKE u \in Threads
    <3> SUFFICES ASSUME pc[u] = "pushSwap" PROVE next'[slot[u]] = next[slot[u]]
      OBVIOUS
    <3>1. slot[u] \in With(u)
      BY DEF With, Returning
    <3>2. slot[u] \in DOMAIN next
      BY <1>1 DEF CallInv, TypeInv, Word
    <3>3. slot[u] # s
      BY <1>2, <1>8, <3>1 DEF Placed
    <3> QED BY <1>10, <3>2, <3>3
  <2> QED BY <1>1, <1>10, <1>11, <1>13, <2>1, <2>2, OthersKept
<1>15. IsPath(r)'
  <2>1. freeList'.ptr = At(r, 1)
    <3>1. next[s] = At(q, 2)
      BY <1>2, <1>6, <1>7 DEF IsPath
    <3>2. At(q, 2) = At(r, 1)
      BY <1>6 DEF At
    <3> QED BY <1>3, <1>4, <3>1, <3>2 DEF s
  <2>2. ASSUME NEW i \in DOMAIN r PROVE next'[r[i]] = At(r, i + 1)
    <3>1. i \in Nat /\ 1 <= i /\ i + 1 <= Len(q)
      BY <1>6
    <3>2. r[i] = q[i + 1] /\ i + 1 \in DOMAIN q
      BY <1>6, <3>1
    <3>3. next[r[i]] = At(q, i + 1 + 1)
      BY <1>2, <3>2 DEF IsPath
    <3>4. At(q, i + 1 + 1) = At(r, i + 1)
      BY <1>6, <3>1 DEF At
    <3>5. r[i] \in DOMAIN next /\ r[i] # s
      <4>1. r[i] \in ToSet(r)
        BY <1>8, SetOf
      <4>2. ToSet(r) \subseteq DOMAIN next
        BY <1>8, SetOf
      <4> QED BY <1>8, <4>1, <4>2
    <3> QED BY <1>10, <3>3, <3>4, <3>5
  <2>3. r \in Seq(DOMAIN next')
    BY <1>8, <1>10
  <2> QED BY <1>8, <2>1, <2>2, <2>3 DEF IsPath, At
<1>16. Placed(r)'
  <2>1. Returning(t)' = {} /\ Returning(t) = {}
        /\ \A u \in Threads : u # t => Returning(u)' = Returning(u)
    BY <1>10 DEF Returning, OnlyCall
  <2> QED BY <1>2, <1>8, <1>10, <2>1, PlaceGrows
<1> QED BY <1>12, <1>14, <1>15, <1>16 DEF ListInv

(* A slot that was just carved goes to the caller.                         *)
LEMMA CarvedKeeps ==
  ASSUME PoolAssumptions, ListInv, NEW t \in Threads, pc[t] = "block",
         NEW s \in Nat \ DOMAIN next, Return(t, s), freeList' = freeList
  PROVE  ListInv'
<1>1. TypeInv /\ CallInv
  BY DEF ListInv
<1>2. PICK q : IsPath(q) /\ Placed(q)
  BY DEF ListInv
<1>3. /\ DOMAIN next' = DOMAIN next \cup {s}
      /\ \A x \in DOMAIN next : x # s => next'[x] = next[x]
      /\ next' \in [DOMAIN next' -> Word] /\ DOMAIN next' \subseteq Nat
      /\ held'[t] = held[t] \cup {s} /\ \A u \in Threads : u # t => held'[u] = held[u]
      /\ held' \in [Threads -> SUBSET DOMAIN next']
      /\ OnlyCall(t) /\ pc'[t] = "idle"
      /\ pc' \in [Threads -> Steps] /\ old' \in [Threads -> [ptr : Word', tag : Nat]]
      /\ new' \in [Threads -> Word'] /\ slot' \in [Threads -> Word']
      /\ Word' = Word \cup {s}
  BY <1>1, ReturnFacts
<1>4. \A x \in DOMAIN next : next'[x] = next[x]
  BY <1>3
<1>5. freeList' \in [ptr : Word', tag : Nat]
  BY <1>1, <1>3 DEF TypeInv, Tops
<1>6. TypeInv'
  BY <1>3, <1>5 DEF TypeInv, Tops
<1>7. CallOk(t)'
  BY <1>3 DEF CallOk, Looping
<1>8. CallInv'
  <2>1. freeList.ptr # Null => next'[freeList.ptr] = next[freeList.ptr]
    BY <1>1, <1>4 DEF TypeInv, Tops, Word
  <2>2. \A u \in Threads : u # t /\ pc[u] = "pushSwap" => next'[slot[u]] = next[slot[u]]
    BY <1>1, <1>4 DEF CallInv, TypeInv, Word
  <2> QED BY <1>1, <1>3, <1>5, <1>7, <2>1, <2>2, OthersKept
<1>9. ToSet(q) \subseteq DOMAIN next /\ \A i \in DOMAIN q : q[i] \in DOMAIN next
  BY <1>2, SetOf DEF IsPath
<1>10. IsPath(q)'
  <2>1. q \in Seq(DOMAIN next')
    BY <1>2, <1>3 DEF IsPath
  <2> QED BY <1>2, <1>4, <1>9, <2>1 DEF IsPath, At
<1>11. Placed(q)'
  <2>1. Returning(t)' = {} /\ Returning(t) = {}
        /\ \A u \in Threads : u # t => Returning(u)' = Returning(u)
    BY <1>3 DEF Returning, OnlyCall
  <2>2. ToSet(q) = ToSet(q) \ {s}
    BY <1>9
  <2> QED BY <1>2, <1>3, <2>1, <2>2, PlaceGrows
<1> QED BY <1>6, <1>8, <1>10, <1>11 DEF ListInv

-----------------------------------------------------------------------------
(* The pool, until it is destroyed.                                        *)

SlotInv ==
  \/ BlocksInv /\ ListInv
  \/ /\ \A t \in Threads : pc[t] = "gone" /\ held[t] = {}
     /\ DOMAIN pc = Threads

LEMMA SlotInvInit ==
  ASSUME PoolAssumptions, Init
  PROVE  SlotInv
<1>1. /\ size \in Requests /\ blocks = << >> /\ curSlot = 0 /\ lastSlot = 0 /\ freeList = NoHead
      /\ next = [s \in {} |-> Null] /\ held = [t \in Threads |-> {}]
      /\ pc = [t \in Threads |-> "idle"] /\ old = [t \in Threads |-> NoHead]
      /\ new = [t \in Threads |-> Null] /\ slot = [t \in Threads |-> Null]
  BY DEF Init
<1>2. DOMAIN next = {} /\ IsFiniteSet({}) /\ Carved = {}
  BY <1>1, FS_EmptySet DEF Carved
<1>3. BlocksInv
  BY <1>1, <1>2 DEF BlocksInv, IsInjective
<1>4. TypeInv
  <2>1. next \in [DOMAIN next -> Word]
    BY <1>1, <1>2
  <2> QED BY <1>1, <1>2, <2>1 DEF TypeInv, Word, Tops, Steps, NoHead
<1>5. CallInv
  BY <1>1 DEF CallInv, Looping
<1>6. IsPath(<< >>)
  BY <1>1 DEF IsPath, At, IsInjective, NoHead
<1>7. Placed(<< >>)
  <2>1. \A t \in Threads : With(t) = {} /\ Returning(t) = {} /\ held[t] = {}
    BY <1>1 DEF With, Returning
  <2>2. ToSet(<< >>) = {}
    BY DEF ToSet
  <2> QED BY <1>2, <2>1, <2>2 DEF Placed
<1> QED BY <1>3, <1>4, <1>5, <1>6, <1>7 DEF SlotInv, ListInv

(* Only TakeSlot touches the blocks.                                       *)
LEMMA BlocksKept ==
  ASSUME BlocksInv, UNCHANGED blockVars, DOMAIN next' = DOMAIN next
  PROVE  BlocksInv'
<1>1. size' = size /\ blocks' = blocks /\ curSlot' = curSlot /\ lastSlot' = lastSlot
  BY DEF blockVars
<1>2. /\ SlotSize' = SlotSize /\ \A b \in Bases : FirstSlot(b)' = FirstSlot(b)
      /\ \A b \in Bases : LastSlot(b)' = LastSlot(b) /\ SlotsOf(b)' = SlotsOf(b)
  BY <1>1, SlotsSame
<1>3. blocks \in Seq(Bases) /\ IsInjective(blocks)
  BY DEF BlocksInv
<1>4. CASE blocks = << >>
  <2>1. Carved' = Carved
    BY <1>1, <1>4 DEF Carved
  <2> QED BY <1>1, <1>4, <2>1 DEF BlocksInv
<1>5. CASE blocks # << >>
  <2>1. PICK h \in Bases : h = Head(blocks)
    BY <1>3, <1>5, TailSet
  <2>2. PICK q : q = Tail(blocks)
    OBVIOUS
  <2>3. blocks' # << >> /\ h = Head(blocks)' /\ q = Tail(blocks)'
    BY <1>1, <1>5, <2>1, <2>2
  <2>4. ToSet(q) \subseteq Bases
    BY <1>3, <1>5, <2>2, TailSet, SetOf
  <2>5. \A x : x \in Carved' <=> \/ \E b \in ToSet(q) : x \in SlotsOf(b)'
                                 \/ x \in SlotsOf(h)' /\ x < curSlot'
    BY <2>3, CarvedAfter
  <2>6. \A x : x \in Carved <=> \/ \E b \in ToSet(q) : x \in SlotsOf(b)
                                \/ x \in SlotsOf(h) /\ x < curSlot
    BY <1>5, <2>1, <2>2, CarvedMembers
  <2>7. \A x : x \in Carved' <=> x \in Carved
    BY <1>1, <1>2, <2>4, <2>5, <2>6
  <2>8. Carved' = Carved
    BY <2>7 DEF Carved
  <2>9. LastSlot(h)' = lastSlot /\ OnGrid(FirstSlot(h)', SlotSize', curSlot)
    BY <1>2, <1>5, <2>1 DEF BlocksInv
  <2>10. DOMAIN next' = Carved' /\ IsFiniteSet(DOMAIN next')
    BY <2>8 DEF BlocksInv
  <2>11. LastSlot(Head(blocks))' = lastSlot /\ OnGrid(FirstSlot(Head(blocks))', SlotSize', curSlot)
    BY <2>3, <2>9
  <2> QED BY <1>1, <1>5, <2>10, <2>11 DEF BlocksInv
<1> QED BY <1>4, <1>5

(* All other steps of a call leave the carved slots as they are.           *)
LEMMA CallKeepsSlots ==
  ASSUME ListInv, NEW t \in Threads,
         \/ PopLoad(t) \/ PopNext(t) \/ PopSwap(t) \/ TakeSlotFails(t)
         \/ PushNext(t) \/ PushSwap(t) \/ \E s \in held[t] : PushLoad(t, s)
  PROVE  UNCHANGED blockVars /\ DOMAIN next' = DOMAIN next
<1>1. TypeInv /\ CallInv
  BY DEF ListInv
<1>2. CASE next' = next
  BY <1>2 DEF PopLoad, PopNext, PopSwap, TakeSlotFails, PushNext, PushSwap, PushLoad
<1>3. CASE PopSwap(t) /\ Return(t, old[t].ptr)
  <2>1. pc[t] = "popSwap" /\ UNCHANGED blockVars
    BY <1>3 DEF PopSwap
  <2>2. old[t].ptr \in DOMAIN next
    BY <1>1, <2>1 DEF CallInv, TypeInv, Tops, Word
  <2>3. DOMAIN next' = DOMAIN next \cup {old[t].ptr}
    BY <1>3 DEF Return
  <2> QED BY <2>1, <2>2, <2>3
<1>4. CASE PushNext(t)
  <2>1. next' = [next EXCEPT ![slot[t]] = old[t].ptr] /\ UNCHANGED blockVars
    BY <1>4 DEF PushNext
  <2> QED BY <1>1, <2>1 DEF TypeInv
<1> QED BY <1>2, <1>3, <1>4
        DEF PopLoad, PopNext, PopSwap, TakeSlotFails, PushNext, PushSwap, PushLoad

LEMMA CallKeeps ==
  ASSUME PoolAssumptions, BlocksInv, ListInv, NEW t \in Threads, Call(t)
  PROVE  BlocksInv' /\ ListInv'
<1>1. CASE TakeSlot(t)
  <2>1. PICK s \in Nat \ DOMAIN next : Return(t, s) /\ BlocksInv'
    BY <1>1, CarvesNew
  <2>2. pc[t] = "block" /\ freeList' = freeList
    BY <1>1 DEF TakeSlot, Carve
  <2> QED BY <2>1, <2>2, CarvedKeeps
<1>2. CASE \/ PopLoad(t) \/ PopNext(t) \/ PopSwap(t) \/ TakeSlotFails(t)
           \/ PushNext(t) \/ PushSwap(t) \/ \E s \in held[t] : PushLoad(t, s)
  <2>1. BlocksInv'
    BY <1>2, CallKeepsSlots, BlocksKept
  <2>2. CASE PopLoad(t)
    BY <2>1, <2>2, PopLoadKeeps DEF PopLoad
  <2>3. CASE PopNext(t)
    BY <2>1, <2>3, PopNextKeeps
  <2>4. CASE PopSwap(t)
    <3>1. CASE Swapped(t, new[t]) /\ Return(t, old[t].ptr)
      BY <2>1, <2>4, <3>1, PopSwappedKeeps DEF PopSwap
    <3>2. CASE Reload(t) /\ Goto(t, "popNext") /\ UNCHANGED <<next, held, new, slot>>
      BY <2>1, <2>4, <3>2, PopLoadKeeps DEF PopSwap
    <3> QED BY <2>4, <3>1, <3>2 DEF PopSwap
  <2>5. CASE TakeSlotFails(t)
    BY <2>1, <2>5, TakeSlotFailsKeeps
  <2>6. CASE PushNext(t)
    BY <2>1, <2>6, PushNextKeeps
  <2>7. CASE PushSwap(t)
    <3>1. CASE Swapped(t, slot[t]) /\ Finish(t)
      BY <2>1, <2>7, <3>1, PushSwappedKeeps DEF PushSwap
    <3>2. CASE Reload(t) /\ Goto(t, "pushNext") /\ UNCHANGED <<new, slot>>
      BY <2>1, <2>7, <3>2, PushReloadKeeps DEF PushSwap
    <3> QED BY <2>7, <3>1, <3>2 DEF PushSwap
  <2>8. CASE \E s \in held[t] : PushLoad(t, s)
    BY <2>1, <2>8, PushLoadKeeps
  <2> QED BY <1>2, <2>1, <2>2, <2>3, <2>4, <2>5, <2>6, <2>7, <2>8
<1> QED BY <1>1, <1>2 DEF Call

LEMMA SlotInvInductive ==
  ASSUME PoolAssumptions, SlotInv, [Next]_vars
  PROVE  SlotInv'
<1>1. CASE UNCHANGED vars
  <2>1. UNCHANGED blockVars /\ UNCHANGED <<freeList, next, held, pc, old, new, slot>>
    BY <1>1 DEF vars, blockVars
  <2>2. CASE BlocksInv /\ ListInv
    <3>1. BlocksInv'
      BY <2>1, <2>2, BlocksKept
    <3>2. PICK q : IsPath(q) /\ Placed(q)
      BY <2>2 DEF ListInv
    <3>3. IsPath(q)' /\ Placed(q)'
      BY <2>1, <3>2 DEF IsPath, Placed, At, With, Returning
    <3>4. TypeInv' /\ CallInv'
      BY <2>1, <2>2 DEF ListInv, TypeInv, CallInv, Word, Tops
    <3> QED BY <3>1, <3>3, <3>4 DEF SlotInv, ListInv
  <2>3. CASE (\A t \in Threads : pc[t] = "gone" /\ held[t] = {}) /\ DOMAIN pc = Threads
    BY <2>1, <2>3 DEF SlotInv
  <2> QED BY <2>2, <2>3 DEF SlotInv
<1>2. CASE \E t \in Threads : Call(t)
  <2>1. PICK t \in Threads : Call(t)
    BY <1>2
  <2>2. pc[t] # "gone"
    BY <2>1 DEF Call, PopLoad, PopNext, PopSwap, TakeSlot, TakeSlotFails, PushNext, PushSwap, PushLoad
  <2>3. BlocksInv /\ ListInv
    BY <2>2 DEF SlotInv
  <2> QED BY <2>1, <2>3, CallKeeps DEF SlotInv
<1>3. CASE Destroy
  BY <1>3 DEF Destroy, SlotInv
<1>4. CASE Gone
  BY <1>1, <1>4 DEF Gone
<1> QED BY <1>1, <1>2, <1>3, <1>4 DEF Next

LEMMA SlotInvHolds ==
  ASSUME PoolAssumptions
  PROVE  Spec => []SlotInv
<1>1. Init => SlotInv
  BY SlotInvInit
<1>2. SlotInv /\ [Next]_vars => SlotInv'
  BY SlotInvInductive
<1> QED BY <1>1, <1>2, PTL DEF Spec

-----------------------------------------------------------------------------
(* What the properties say of the list, they say of its sequence.          *)

LEMMA ListFollowsPath ==
  ASSUME NullAssumption, TypeInv, NEW q, IsPath(q)
  PROVE  \A n \in Nat : ListAt[n] = At(q, n + 1)
<1> DEFINE F(f) == [n \in Nat |-> IF n = 0 THEN freeList.ptr
                                  ELSE IF f[n - 1] = Null THEN Null ELSE next[f[n - 1]]]
           g == [n \in Nat |-> At(q, n + 1)]
<1>1. DOMAIN q = 1 .. Len(q) /\ Len(q) \in Nat /\ \A i \in DOMAIN q : q[i] \in DOMAIN next /\ q[i] # Null
  BY SetOf DEF IsPath, TypeInv, NullAssumption
<1>2. ASSUME NEW n \in Nat, n # 0
      PROVE  At(q, n + 1) = IF At(q, n) = Null THEN Null ELSE next[At(q, n)]
  <2>1. CASE n \in DOMAIN q
    BY <1>1, <2>1 DEF At, IsPath
  <2>2. CASE n \notin DOMAIN q
    <3>1. n + 1 \notin DOMAIN q
      BY <1>1, <1>2, <2>2
    <3> QED BY <2>2, <3>1 DEF At
  <2> QED BY <2>1, <2>2
<1>3. g = F(g)
  <2>1. ASSUME NEW n \in Nat
        PROVE  g[n] = IF n = 0 THEN freeList.ptr
                      ELSE IF g[n - 1] = Null THEN Null ELSE next[g[n - 1]]
    <3>1. CASE n = 0
      <4>1. g[n] = At(q, 1)
        BY <3>1
      <4> QED BY <3>1, <4>1 DEF IsPath
    <3>2. CASE n # 0
      <4>1. n - 1 \in Nat /\ (n - 1) + 1 = n
        BY <3>2
      <4>2. g[n] = At(q, n + 1) /\ g[n - 1] = At(q, n)
        BY <4>1
      <4> HIDE DEF g
      <4> QED BY <1>2, <3>2, <4>2
    <3> QED BY <3>1, <3>2
  <2>2. g = [n \in Nat |-> g[n]]
    OBVIOUS
  <2> HIDE DEF g
  <2> QED BY <2>1, <2>2
<1>4. ListAt = CHOOSE f : f = F(f)
  BY DEF ListAt
<1> HIDE DEF g
<1>5. ListAt = F(ListAt)
  <2> HIDE DEF F
  <2> QED BY <1>3, <1>4
<1>6. \A n \in Nat : ListAt[n] = IF n = 0 THEN freeList.ptr
                                 ELSE IF ListAt[n - 1] = Null THEN Null ELSE next[ListAt[n - 1]]
  BY <1>5
<1>7. \A n \in Nat : g[n] = IF n = 0 THEN freeList.ptr
                            ELSE IF g[n - 1] = Null THEN Null ELSE next[g[n - 1]]
  BY <1>3
<1>8. \A n \in Nat : ListAt[n] = g[n]
  <2> DEFINE S == {n \in Nat : ListAt[n] # g[n]}
  <2> SUFFICES ASSUME S # {} PROVE FALSE
    OBVIOUS
  <2>1. S \subseteq Nat
    OBVIOUS
  <2>2. PICK n \in S : \A m \in S : n <= m
    BY <2>1, LeastOf
  <2>3. n \in Nat /\ ListAt[n] # g[n]
    BY <2>2
  <2>4. n # 0
    BY <1>6, <1>7, <2>3
  <2>5. n - 1 \in Nat /\ n - 1 \notin S
    BY <2>2, <2>3, <2>4
  <2>6. ListAt[n - 1] = g[n - 1]
    BY <2>5
  <2> QED BY <1>6, <1>7, <2>3, <2>4, <2>6
<1> QED BY <1>8 DEF g

LEMMA InvConserved ==
  ASSUME PoolAssumptions, SlotInv
  PROVE  SlotsConserved
<1> SUFFICES ASSUME \A t \in Threads : pc[t] # "gone"
             PROVE  LET all    == Carved
                        listed == ListedUpTo(Cardinality(all))
                    IN  /\ ListAt[Cardinality(all)] = Null
                        /\ all = listed \cup UNION {With(t) : t \in Threads}
                        /\ \A t \in Threads : listed \cap With(t) = {} /\ held[t] \cap Returning(t) = {}
                        /\ \A t, u \in Threads : t # u => With(t) \cap With(u) = {}
  BY DEF SlotsConserved
<1>1. BlocksInv /\ TypeInv
  BY DEF SlotInv, PoolAssumptions, ThreadsAssumption, ListInv
<1>2. PICK q : IsPath(q) /\ Placed(q)
  BY DEF SlotInv, PoolAssumptions, ThreadsAssumption, ListInv
<1> DEFINE n == Cardinality(Carved)
<1>3. Carved = DOMAIN next /\ IsFiniteSet(DOMAIN next)
  BY <1>1 DEF BlocksInv
<1>4. q \in Seq(DOMAIN next) /\ IsInjective(q) /\ ToSet(q) \subseteq DOMAIN next
  BY <1>2, SetOf DEF IsPath
<1>5. Len(q) <= n /\ n \in Nat /\ Len(q) \in Nat /\ DOMAIN q = 1 .. Len(q)
  <2>1. Cardinality(ToSet(q)) = Len(q)
    BY <1>4, SetCount
  <2>2. Cardinality(ToSet(q)) <= Cardinality(DOMAIN next)
    BY <1>3, <1>4, FS_Subset
  <2>3. n \in Nat
    BY <1>3, FS_CardinalityType
  <2> QED BY <1>3, <1>4, <2>1, <2>2, <2>3, SetOf
<1> HIDE DEF n
<1>6. \A i \in Nat : ListAt[i] = At(q, i + 1)
  BY <1>1, <1>2, ListFollowsPath DEF PoolAssumptions
<1>7. ListAt[n] = Null
  BY <1>5, <1>6 DEF At
<1>8. ListedUpTo(n) = ToSet(q)
  <2>1. \A x : x \in ListedUpTo(n) <=> x # Null /\ \E i \in 0 .. n : x = At(q, i + 1)
    <3>1. \A i \in 0 .. n : ListAt[i] = At(q, i + 1)
      BY <1>5, <1>6
    <3>2. ListedUpTo(n) = {ListAt[i] : i \in 0 .. n} \ {Null}
      BY DEF ListedUpTo
    <3>3. \A x : x \in ListedUpTo(n) <=> x # Null /\ \E i \in 0 .. n : x = ListAt[i]
      BY <3>2
    <3> QED BY <3>1, <3>3
  <2>2. \A i \in 1 .. Len(q) : q[i] # Null
    BY <1>1, <1>4 DEF TypeInv, PoolAssumptions, NullAssumption
  <2>3. ASSUME NEW x, x # Null, NEW i \in 0 .. n, x = At(q, i + 1)
        PROVE  x \in ToSet(q)
    BY <1>4, <1>5, <2>3, SetOf DEF At
  <2>4. ASSUME NEW x \in ToSet(q)
        PROVE  x # Null /\ \E i \in 0 .. n : x = At(q, i + 1)
    <3>1. PICK j \in 1 .. Len(q) : q[j] = x
      BY <1>4, SetOf
    <3> DEFINE i == j - 1
    <3>2. i \in 0 .. n /\ i + 1 = j
      BY <1>5
    <3>3. x = At(q, i + 1)
      BY <1>5, <3>1, <3>2 DEF At
    <3> HIDE DEF i
    <3> QED BY <2>2, <3>1, <3>2, <3>3
  <2> QED BY <2>1, <2>3, <2>4
<1> QED BY <1>2, <1>3, <1>7, <1>8 DEF Placed, n

LEMMA InvFit ==
  ASSUME PoolAssumptions, SlotInv
  PROVE  SlotsFit
<1> SUFFICES ASSUME NEW t \in Threads, NEW s \in held[t]
             PROVE  /\ \E b \in ToSet(blocks) : b + SLOT_BASE_SIZE <= s /\ s + size <= b + BlockSize
                    /\ \A r \in Carved \ {s} : r + size <= s \/ s + size <= r
  <2>1. \A s \in UNION {held[t] : t \in Threads} : \E t \in Threads : s \in held[t]
    OBVIOUS
  <2> QED BY <2>1 DEF SlotsFit
<1>1. BlocksInv /\ TypeInv
  BY DEF SlotInv, ListInv
<1>2. size \in Requests /\ DOMAIN next = Carved
  BY <1>1 DEF BlocksInv
<1>3. s \in Carved
  BY <1>1, <1>2 DEF TypeInv
<1>4. SlotSize \in Nat /\ size \in Nat /\ size <= SlotSize
  BY <1>2, SlotSizeFacts
<1>5. PICK b \in ToSet(blocks) : b \in Bases /\ s \in SlotsOf(b)
  BY <1>1, <1>3, CarvedSlot
<1>6. /\ s \in Nat /\ b \in Nat /\ BlockSize \in Nat
      /\ b + SLOT_BASE_SIZE < s /\ s + SlotSize <= b + BlockSize
  BY <1>2, <1>5, SlotsApart, BlockFacts
<1>7. b + SLOT_BASE_SIZE <= s /\ s + size <= b + BlockSize
  BY <1>4, <1>6 DEF SLOT_BASE_SIZE
<1>8. ASSUME NEW r \in Carved \ {s} PROVE r + size <= s \/ s + size <= r
  <2>1. PICK c \in ToSet(blocks) : c \in Bases /\ r \in SlotsOf(c)
    BY <1>1, CarvedSlot
  <2>2. r \in Nat /\ (r + SlotSize <= s \/ s + SlotSize <= r)
    BY <1>2, <1>5, <2>1, SlotsApart
  <2> QED BY <1>4, <1>6, <2>2
<1> QED BY <1>5, <1>7, <1>8

(* However the loops of popFreeList and pushFreeList interleave, spurious  *)
(* failures and outdated heads included, no slot is lost or handed out     *)
(* twice: what the version number in TaggedPtr is for.                     *)
THEOREM SlotListCorrect == Spec => []SlotsConserved
<1>1. PoolAssumptions
  BY SlotPoolAssumption
<1>2. SlotInv => SlotsConserved
  BY <1>1, InvConserved
<1>3. Spec => []SlotInv
  BY <1>1, SlotInvHolds
<1> QED BY <1>2, <1>3, PTL

(* Objects lie in their blocks and do not overlap, for every object and    *)
(* block size with room for a padded slot.                                 *)
THEOREM SlotLayoutCorrect == Spec => []SlotsFit
<1>1. PoolAssumptions
  BY SlotPoolAssumption
<1>2. SlotInv => SlotsFit
  BY <1>1, InvFit
<1>3. Spec => []SlotInv
  BY <1>1, SlotInvHolds
<1> QED BY <1>2, <1>3, PTL

-----------------------------------------------------------------------------
(* The tuner.                                                              *)

(* What the tuner's operators on sequences and sets are.                   *)
LEMMA TunerSame ==
  /\ \A s : Tuner!ToSet(s) = ToSet(s)
  /\ \A S : Tuner!Cardinality(S) = Cardinality(S)
BY DEF Tuner!ToSet, ToSet, Tuner!Cardinality, Cardinality

(* Printing keeps the order of latencies, and printing twice changes       *)
(* nothing more.                                                           *)
LEMMA PrintedFacts ==
  ASSUME NEW x \in Nat, NEW y \in Nat, x <= y
  PROVE  /\ Tuner!Printed(x) \in Nat /\ Tuner!Printed(x) <= Tuner!Printed(y)
         /\ Tuner!Printed(Tuner!Printed(x)) = Tuner!Printed(x)
<1>1. Grain \in Nat \ {0}
  BY TunerAssumption DEF Tuner!GrainAssumption
<1> DEFINE a == x \div Grain
           b == y \div Grain
           k == (a * Grain) \div Grain
<1>2. /\ a \in Nat /\ b \in Nat /\ x % Grain \in 0 .. Grain - 1 /\ y % Grain \in 0 .. Grain - 1
      /\ x = a * Grain + (x % Grain) /\ y = b * Grain + (y % Grain)
  BY <1>1, DivMod
<1> HIDE DEF a, b
<1>3. a * Grain \in Nat /\ b * Grain \in Nat
  BY <1>1, <1>2
<1>4. a * Grain <= b * Grain
  <2> SUFFICES ASSUME b < a PROVE FALSE
    BY <1>1, <1>2
  <2>1. b + 1 <= a
    BY <1>2
  <2>2. (b + 1) * Grain <= a * Grain
    BY <1>1, <1>2, <2>1
  <2>3. (b + 1) * Grain = b * Grain + Grain
    BY <1>1, <1>2
  <2> QED BY <1>1, <1>2, <1>3, <2>2, <2>3
<1>5. k * Grain = a * Grain
  <2>1. k \in Nat /\ (a * Grain) % Grain \in 0 .. Grain - 1 /\ a * Grain = k * Grain + ((a * Grain) % Grain)
    BY <1>1, <1>3, DivMod
  <2> HIDE DEF k
  <2>2. (a * Grain) % Grain = 0
    BY <1>1, <1>2, <2>1, DivUnique
  <2> QED BY <1>1, <2>1, <2>2
<1> QED BY <1>3, <1>4, <1>5 DEF Tuner!Printed, a, b

(* A list of any elements.                                                 *)
IsList(s) == s \in Seq(ToSet(s))

LEMMA ListOf ==
  ASSUME NEW X, NEW s \in Seq(X)
  PROVE  IsList(s)
<1>1. s \in [1 .. Len(s) -> ToSet(s)] /\ Len(s) \in Nat
  BY SetOf
<1> QED BY <1>1 DEF IsList

LEMMA ListFacts ==
  ASSUME NEW s, IsList(s)
  PROVE  /\ Len(s) \in Nat /\ DOMAIN s = 1 .. Len(s) /\ (s = << >> <=> Len(s) = 0)
         /\ \A x : x \in ToSet(s) <=> \E i \in 1 .. Len(s) : s[i] = x
         /\ s # << >> => /\ Head(s) = s[1] /\ Head(s) \in ToSet(s)
                         /\ IsList(Tail(s)) /\ Len(Tail(s)) = Len(s) - 1
                         /\ \A i \in 1 .. Len(Tail(s)) : Tail(s)[i] = s[i + 1]
                         /\ ToSet(s) = ToSet(Tail(s)) \cup {Head(s)}
<1>1. s \in Seq(ToSet(s))
  BY DEF IsList
<1>2. /\ Len(s) \in Nat /\ DOMAIN s = 1 .. Len(s) /\ (s = << >> <=> Len(s) = 0)
      /\ \A x : x \in ToSet(s) <=> \E i \in 1 .. Len(s) : s[i] = x
  BY <1>1, SetOf
<1>3. ASSUME s # << >>
      PROVE  /\ Head(s) = s[1] /\ Head(s) \in ToSet(s)
             /\ IsList(Tail(s)) /\ Len(Tail(s)) = Len(s) - 1
             /\ \A i \in 1 .. Len(Tail(s)) : Tail(s)[i] = s[i + 1]
             /\ ToSet(s) = ToSet(Tail(s)) \cup {Head(s)}
  <2>1. /\ Head(s) = s[1] /\ Tail(s) \in Seq(ToSet(s)) /\ Len(Tail(s)) = Len(s) - 1
        /\ \A i \in 1 .. Len(Tail(s)) : Tail(s)[i] = s[i + 1]
    BY <1>1, <1>3
  <2>2. IsList(Tail(s)) /\ \A x : x \in ToSet(Tail(s)) <=> \E i \in 1 .. Len(Tail(s)) : Tail(s)[i] = x
    BY <2>1, ListOf, SetOf
  <2>3. Len(s) >= 1
    BY <1>2, <1>3
  <2>4. ASSUME NEW x PROVE x \in ToSet(s) <=> x \in ToSet(Tail(s)) \/ x = s[1]
    <3>1. ASSUME NEW i \in 1 .. Len(s), s[i] = x PROVE x \in ToSet(Tail(s)) \/ x = s[1]
      <4>1. i = 1 \/ (i - 1 \in 1 .. Len(Tail(s)) /\ Tail(s)[i - 1] = s[i])
        BY <1>2, <2>1
      <4> QED BY <2>2, <3>1, <4>1
    <3>2. ASSUME NEW i \in 1 .. Len(Tail(s)), Tail(s)[i] = x PROVE x \in ToSet(s)
      <4>1. i + 1 \in 1 .. Len(s) /\ s[i + 1] = x
        BY <1>2, <2>1, <3>2
      <4> QED BY <1>2, <4>1
    <3>3. s[1] \in ToSet(s)
      BY <1>2, <2>3
    <3> QED BY <1>2, <2>2, <3>1, <3>2, <3>3
  <2>5. s[1] \in ToSet(s)
    BY <1>2, <2>3
  <2> QED BY <2>1, <2>2, <2>4, <2>5
<1> QED BY <1>2, <1>3

(* record() keeps the list sorted: its first result is the fastest.        *)
LEMMA Recorded ==
  ASSUME NEW entries, IsList(entries), NEW r,
         \A e \in ToSet(entries) \cup {r} : e.latency \in Nat,
         NEW out \in Tuner!record(entries, r)
  PROVE  /\ IsList(out) /\ out # << >> /\ ToSet(out) \subseteq ToSet(entries) \cup {r}
         /\ \A e \in ToSet(entries) \cup {r} : Head(out).latency <= e.latency
<1> DEFINE S == ToSet(entries) \cup {r}
           n == Cardinality(S)
<1>0. MaxEntries \in Nat \ {0}
  BY TunerAssumption DEF Tuner!GrainAssumption
<1>1. IsFiniteSet(S)
  <2>1. /\ entries \in [1 .. Len(entries) -> ToSet(entries)] /\ Len(entries) \in Nat
        /\ \A x \in ToSet(entries) : \E i \in 1 .. Len(entries) : entries[i] = x
    BY ListFacts DEF IsList
  <2>2. entries \in Surjection(1 .. Len(entries), ToSet(entries)) /\ IsFiniteSet(1 .. Len(entries))
    BY <2>1, FS_Interval DEF Surjection
  <2> QED BY <2>2, FS_Surjection, FS_AddElement
<1>2. n \in Nat /\ n >= 1
  <2>1. n \in Nat /\ S # {}
    BY <1>1, FS_CardinalityType
  <2>2. n # 0
    BY <1>1, <2>1, FS_EmptySet
  <2> QED BY <2>1, <2>2
<1> HIDE DEF n
<1>3. PICK s \in Tuner!SetToSeqs(S) : Tuner!Sorted(s) /\ out = SubSeq(s, 1, Tuner!Min({MaxEntries, Len(s)}))
  BY TunerSame DEF Tuner!record
<1>4. s \in [1 .. n -> S] /\ \A i, j \in 1 .. n : i # j => s[i] # s[j]
  BY <1>3, TunerSame DEF Tuner!SetToSeqs, n
<1>5. s \in Seq(S) /\ Len(s) = n
  BY <1>2, <1>4
<1>6. \A e \in S : \E i \in 1 .. n : s[i] = e
  <2>1. s \in Injection(1 .. n, S)
    BY <1>4 DEF Injection, IsInjective
  <2>2. Cardinality(1 .. n) = n
    BY <1>2, FS_Interval
  <2>3. s \in Surjection(1 .. n, S)
    BY <1>1, <2>1, <2>2, FS_Injection DEF n
  <2> QED BY <2>3 DEF Surjection
<1> DEFINE m == Tuner!Min({MaxEntries, Len(s)})
<1>7. m \in 1 .. n
  <2>1. m = Tuner!Min({MaxEntries, n})
    BY <1>5
  <2>2. \E x \in {MaxEntries, n} : \A y \in {MaxEntries, n} : x =< y
    <3>1. CASE MaxEntries <= n
      BY <1>0, <1>2, <3>1
    <3>2. CASE n <= MaxEntries
      BY <1>0, <1>2, <3>2
    <3> QED BY <1>0, <1>2, <3>1, <3>2
  <2>3. m \in {MaxEntries, n} /\ m <= n
    BY <2>1, <2>2 DEF Tuner!Min
  <2> QED BY <1>0, <1>2, <2>3
<1> HIDE DEF m, S
<1>8. out \in Seq(S) /\ Len(out) = m /\ \A i \in 1 .. m : out[i] = s[i]
  <2>1. out = SubSeq(s, 1, m) /\ m \in Nat /\ m <= Len(s)
    BY <1>2, <1>3, <1>5, <1>7 DEF m
  <2>2. Len(out) = m /\ \A i \in 1 .. m : out[i] = s[i]
    BY <1>5, <2>1
  <2> QED BY <1>5, <2>1, <2>2
<1>9. IsList(out) /\ out # << >> /\ Head(out) = s[1]
  BY <1>7, <1>8, ListOf
<1>10. ToSet(out) \subseteq S
  BY <1>8, SetOf
<1>11. \A e \in S : s[1].latency <= e.latency
  <2> TAKE e \in S
  <2>1. PICK i \in 1 .. n : s[i] = e
    BY <1>6
  <2>2. DOMAIN s = 1 .. n /\ 1 \in 1 .. n
    BY <1>2, <1>4
  <2>3. 1 < i => s[1].latency <= s[i].latency
    BY <1>3, <2>2 DEF Tuner!Sorted
  <2>4. e.latency \in Nat
    BY DEF S
  <2> QED BY <2>1, <2>3, <2>4
<1> QED BY <1>9, <1>10, <1>11 DEF S

(* r is one of the measurements M, as measured or as printed; and none of  *)
(* M is faster, as far as printing tells.                                  *)
Known(M, r) == \E m \in M : m.config = r.config /\ r.latency \in {m.latency, Tuner!Printed(m.latency)}
Fastest(M, r) == \A m \in M : Tuner!Printed(r.latency) <= Tuner!Printed(m.latency)

(* Lines of a file: each is known, and the first line of each key that is  *)
(* not in K is the fastest.                                                *)
Lined(M, s) == IsList(s) /\ \A l \in ToSet(s) : l.key \in Keys /\ Known(M[l.key], l)
BestFirst(M, s, K) ==
  \A i \in DOMAIN s : \/ s[i].key \in K
                      \/ \E j \in 1 .. i : s[j].key = s[i].key /\ Fastest(M[s[j].key], s[j])
KeysOf(s) == {l.key : l \in ToSet(s)}

Timed(M) == \A m \in M : m.latency \in Nat

LEMMA KnownFacts ==
  ASSUME NEW M, Timed(M), NEW r, Known(M, r)
  PROVE  r.latency \in Nat /\ Tuner!Printed(r.latency) \in Nat
<1>1. PICK m \in M : r.latency \in {m.latency, Tuner!Printed(m.latency)}
  BY DEF Known
<1>2. m.latency \in Nat
  BY DEF Timed
<1>3. r.latency \in Nat
  BY <1>1, <1>2, PrintedFacts
<1> QED BY <1>3, PrintedFacts

(* The first of some results is the fastest if it is not slower than one   *)
(* that was.                                                               *)
LEMMA FasterStill ==
  ASSUME NEW M, Timed(M), NEW q, Known(M, q), Fastest(M, q),
         NEW r, Known(M, r), r.latency <= q.latency
  PROVE  Fastest(M, r)
<1>1. r.latency \in Nat /\ q.latency \in Nat
  BY KnownFacts
<1>2. Tuner!Printed(r.latency) <= Tuner!Printed(q.latency)
  BY <1>1, PrintedFacts
<1>3. \A m \in M : m.latency \in Nat
  BY DEF Timed
<1>4. ASSUME NEW m \in M PROVE Tuner!Printed(r.latency) <= Tuner!Printed(m.latency)
  <2>1. Tuner!Printed(q.latency) <= Tuner!Printed(m.latency)
    BY DEF Fastest
  <2>2. /\ Tuner!Printed(r.latency) \in Nat /\ Tuner!Printed(q.latency) \in Nat
        /\ Tuner!Printed(m.latency) \in Nat
    BY <1>1, <1>3, PrintedFacts
  <2> QED BY <1>2, <2>1, <2>2
<1> QED BY <1>4 DEF Fastest

LEMMA NextIsBest ==
  ASSUME NEW M, NEW K, NEW s, IsList(s), s # << >>, BestFirst(M, s, K)
  PROVE  /\ Head(s).key \in K \/ Fastest(M[Head(s).key], Head(s))
         /\ BestFirst(M, Tail(s), K \cup {Head(s).key})
<1> DEFINE t == Tail(s)
           h == Head(s)
<1>1. /\ Len(s) \in Nat /\ DOMAIN s = 1 .. Len(s) /\ Len(s) # 0 /\ h = s[1]
      /\ DOMAIN t = 1 .. Len(s) - 1 /\ \A i \in 1 .. Len(s) - 1 : t[i] = s[i + 1]
  BY ListFacts
<1>2. 1 \in DOMAIN s
  BY <1>1
<1> HIDE DEF h, t
<1>3. h.key \in K \/ Fastest(M[h.key], h)
  <2>1. h.key \in K \/ \E j \in 1 .. 1 : s[j].key = h.key /\ Fastest(M[s[j].key], s[j])
    BY <1>1, <1>2 DEF BestFirst
  <2> QED BY <1>1, <2>1
<1>4. ASSUME NEW i \in 1 .. Len(s) - 1
      PROVE  \/ t[i].key \in K \cup {h.key}
             \/ \E j \in 1 .. i : t[j].key = t[i].key /\ Fastest(M[t[j].key], t[j])
  <2>1. i + 1 \in DOMAIN s /\ t[i] = s[i + 1] /\ i \in Nat
    BY <1>1
  <2>2. CASE s[i + 1].key \in K
    BY <2>1, <2>2
  <2>3. CASE s[i + 1].key \notin K
    <3>1. PICK j \in 1 .. i + 1 : s[j].key = s[i + 1].key /\ Fastest(M[s[j].key], s[j])
      BY <2>1, <2>3 DEF BestFirst
    <3>2. CASE j = 1
      BY <1>1, <2>1, <3>1, <3>2
    <3>3. CASE j # 1
      <4>1. j - 1 \in 1 .. i /\ t[j - 1] = s[j]
        <5>1. j - 1 \in 1 .. i /\ j - 1 \in 1 .. Len(s) - 1 /\ (j - 1) + 1 = j
          BY <1>1, <2>1, <3>3
        <5> QED BY <1>1, <5>1
      <4> QED BY <2>1, <3>1, <4>1
    <3> QED BY <3>2, <3>3
  <2> QED BY <2>2, <2>3
<1> QED BY <1>1, <1>3, <1>4 DEF BestFirst, h, t

LEMMA BestFirstJoin ==
  ASSUME NEW M, NEW X, NEW s \in Seq(X), NEW t \in Seq(X),
         BestFirst(M, s, {}), BestFirst(M, t, {})
  PROVE  s \o t \in Seq(X) /\ BestFirst(M, s \o t, {})
<1> DEFINE w == s \o t
           n == Len(s)
<1>1. /\ w \in Seq(X) /\ DOMAIN w = 1 .. n + Len(t) /\ n \in Nat /\ Len(t) \in Nat
      /\ DOMAIN s = 1 .. n /\ DOMAIN t = 1 .. Len(t)
  OBVIOUS
<1>2. \A i \in Nat : i >= 1 /\ i <= n + Len(t) => w[i] = IF i <= n THEN s[i] ELSE t[i - n]
  BY ConcatAt
<1> HIDE DEF w, n
<1>3. ASSUME NEW i \in 1 .. n + Len(t)
      PROVE  \E j \in 1 .. i : w[j].key = w[i].key /\ Fastest(M[w[j].key], w[j])
  <2>0. i \in Nat /\ i >= 1 /\ i <= n + Len(t)
    BY <1>1
  <2>1. CASE i <= n
    <3>1. i \in DOMAIN s /\ w[i] = s[i]
      BY <1>1, <1>2, <2>0, <2>1
    <3>2. PICK j \in 1 .. i : s[j].key = s[i].key /\ Fastest(M[s[j].key], s[j])
      BY <3>1 DEF BestFirst
    <3>3. w[j] = s[j]
      BY <1>1, <1>2, <2>0, <2>1
    <3> QED BY <3>1, <3>2, <3>3
  <2>2. CASE i > n
    <3>1. i - n \in DOMAIN t /\ w[i] = t[i - n]
      BY <1>1, <1>2, <2>0, <2>2
    <3>2. PICK j \in 1 .. i - n : t[j].key = t[i - n].key /\ Fastest(M[t[j].key], t[j])
      BY <3>1 DEF BestFirst
    <3>3. j + n \in 1 .. i /\ ~(j + n <= n) /\ (j + n) - n = j
      BY <1>1, <2>0, <2>2
    <3>4. w[j + n] = t[j]
      BY <1>1, <1>2, <2>0, <3>3
    <3>5. w[j + n].key = w[i].key /\ Fastest(M[w[j + n].key], w[j + n])
      BY <3>1, <3>2, <3>4
    <3> QED BY <3>3, <3>5
  <2>3. i <= n \/ i > n
    BY <1>1, <2>0
  <2> QED BY <2>1, <2>2, <2>3
<1> QED BY <1>1, <1>3 DEF BestFirst, w, n

LEMMA BestFirstAppend ==
  ASSUME NEW M, NEW s, Lined(M, s), BestFirst(M, s, {}), NEW l,
         l.key \in Keys, Known(M[l.key], l), l.key \in KeysOf(s) \/ Fastest(M[l.key], l)
  PROVE  /\ Lined(M, Append(s, l)) /\ BestFirst(M, Append(s, l), {})
         /\ ToSet(Append(s, l)) = ToSet(s) \cup {l}
<1> DEFINE t == Append(s, l)
           n == Len(s)
           X == ToSet(s) \cup {l}
<1>1. s \in Seq(X) /\ l \in X
  BY DEF Lined, IsList
<1>2. /\ t \in Seq(X) /\ n \in Nat /\ Len(t) = n + 1 /\ t[n + 1] = l /\ DOMAIN t = 1 .. n + 1
      /\ \A i \in 1 .. n : t[i] = s[i]
  BY <1>1
<1>3. DOMAIN s = 1 .. n /\ \A x : x \in ToSet(s) <=> \E i \in 1 .. n : s[i] = x
  BY <1>1, SetOf
<1>4. \A x : x \in ToSet(t) <=> \E i \in 1 .. n + 1 : t[i] = x
  BY <1>2, SetOf
<1> HIDE DEF t, n
<1>5. ToSet(t) = ToSet(s) \cup {l}
  <2>1. n + 1 \in 1 .. n + 1
    BY <1>2
  <2>2. \A i \in 1 .. n : i \in 1 .. n + 1
    BY <1>2
  <2>3. \A i \in 1 .. n + 1 : i \in 1 .. n \/ i = n + 1
    BY <1>2
  <2>4. ASSUME NEW x PROVE x \in ToSet(t) <=> x \in ToSet(s) \cup {l}
    BY <1>2, <1>3, <1>4, <2>1, <2>2, <2>3
  <2> QED BY <2>4
<1>6. Lined(M, t)
  BY <1>2, <1>5, ListOf DEF Lined
<1>7. ASSUME NEW i \in 1 .. n + 1
      PROVE  \E j \in 1 .. i : t[j].key = t[i].key /\ Fastest(M[t[j].key], t[j])
  <2>0. ASSUME NEW k \in 1 .. n
        PROVE  \E j \in 1 .. k : t[j].key = s[k].key /\ Fastest(M[t[j].key], t[j])
    <3>1. PICK j \in 1 .. k : s[j].key = s[k].key /\ Fastest(M[s[j].key], s[j])
      BY <1>3 DEF BestFirst
    <3>2. t[j] = s[j]
      BY <1>2
    <3> QED BY <3>1, <3>2
  <2>1. CASE i <= n
    <3>1. i \in 1 .. n /\ t[i] = s[i]
      BY <1>2, <2>1
    <3> QED BY <2>0, <3>1
  <2>2. CASE i = n + 1 /\ l.key \in KeysOf(s)
    <3>1. PICK k \in 1 .. n : s[k].key = l.key
      BY <1>3, <2>2 DEF KeysOf
    <3>2. PICK j \in 1 .. k : t[j].key = s[k].key /\ Fastest(M[t[j].key], t[j])
      BY <2>0
    <3>3. j \in 1 .. i
      BY <1>2, <2>2
    <3> QED BY <1>2, <2>2, <3>1, <3>2, <3>3
  <2>3. CASE i = n + 1 /\ Fastest(M[l.key], l)
    <3>1. i \in 1 .. i
      BY <1>2
    <3> QED BY <1>2, <2>3, <3>1
  <2> QED BY <1>2, <2>1, <2>2, <2>3
<1> QED BY <1>2, <1>5, <1>6, <1>7 DEF BestFirst, t, n

(* Measurements of a key without lines change nothing.                     *)
LEMMA OtherKeys ==
  ASSUME NEW M, NEW N, NEW k, \A c \in Keys : c # k => N[c] = M[c],
         NEW s, Lined(M, s), \A l \in ToSet(s) : l.key # k
  PROVE  Lined(N, s) /\ \A K : BestFirst(M, s, K) => BestFirst(N, s, K)
<1>1. IsList(s) /\ \A l \in ToSet(s) : l.key \in Keys /\ N[l.key] = M[l.key] /\ Known(M[l.key], l)
  BY DEF Lined
<1>2. Lined(N, s)
  BY <1>1 DEF Lined
<1>3. /\ Len(s) \in Nat /\ DOMAIN s = 1 .. Len(s)
      /\ \A i \in 1 .. Len(s) : s[i] \in ToSet(s)
  BY <1>1, ListFacts
<1>4. ASSUME NEW K, BestFirst(M, s, K), NEW i \in DOMAIN s, s[i].key \notin K
      PROVE  \E j \in 1 .. i : s[j].key = s[i].key /\ Fastest(N[s[j].key], s[j])
  <2>1. PICK j \in 1 .. i : s[j].key = s[i].key /\ Fastest(M[s[j].key], s[j])
    BY <1>4 DEF BestFirst
  <2>2. j \in 1 .. Len(s)
    BY <1>3
  <2> QED BY <1>1, <1>3, <2>1, <2>2
<1> QED BY <1>2, <1>4 DEF BestFirst

(* A list of sequences of a set closed under concatenation flattens into   *)
(* the set.                                                                *)
LEMMA Flattened ==
  ASSUME NEW G, \A s, t \in G : s \o t \in G, NEW seqs \in Seq(G), seqs # << >>
  PROVE  Tuner!FlattenSeq(seqs) \in G
<1> DEFINE N == Len(seqs)
           Next1(g, i) == IF i = 1 THEN seqs[i] ELSE g[i - 1] \o seqs[i]
           Upto(n) == \E g \in [1 .. n -> G] : \A i \in 1 .. n : g[i] = Next1(g, i)
           T == {n \in 1 .. N : Upto(n)}
           R == {N - n : n \in T}
           h == CHOOSE f : f = [i \in 1 .. N |-> IF i = 1 THEN seqs[i] ELSE f[i - 1] \o seqs[i]]
<1>1. N \in Nat /\ N >= 1 /\ \A i \in 1 .. N : seqs[i] \in G
  OBVIOUS
<1> HIDE DEF N
<1>2. 1 \in T
  <2> DEFINE g == [i \in 1 .. 1 |-> seqs[1]]
  <2>1. g \in [1 .. 1 -> G]
    BY <1>1
  <2>3. \A i \in 1 .. 1 : i = 1 /\ g[i] = seqs[i]
    OBVIOUS
  <2> HIDE DEF g
  <2>4. \A i \in 1 .. 1 : g[i] = Next1(g, i)
    BY <2>3
  <2>2. Upto(1)
    BY <2>1, <2>4
  <2> QED BY <1>1, <2>2
<1>3. R \subseteq Nat /\ R # {}
  <2> HIDE DEF Upto
  <2>1. \A n \in T : N - n \in Nat
    BY <1>1
  <2> HIDE DEF T
  <2> QED BY <1>2, <2>1
<1>4. PICK r \in R : \A q \in R : r <= q
  BY <1>3, LeastOf
<1>5. PICK n \in T : r = N - n
  OBVIOUS
<1>6. n = N
  <2> SUFFICES ASSUME n < N PROVE FALSE
    BY <1>1
  <2>1. PICK g \in [1 .. n -> G] : \A i \in 1 .. n : g[i] = Next1(g, i)
    OBVIOUS
  <2> DEFINE f == [i \in 1 .. n + 1 |-> IF i = n + 1 THEN g[n] \o seqs[n + 1] ELSE g[i]]
  <2>2. n \in 1 .. N /\ n + 1 \in 1 .. N /\ n \in 1 .. n
    BY <1>1
  <2>3. f \in [1 .. n + 1 -> G]
    BY <1>1, <2>2
  <2>4. ASSUME NEW i \in 1 .. n + 1 PROVE f[i] = Next1(f, i)
    <3>1. CASE i = n + 1
      <4>1. f[i] = g[n] \o seqs[i] /\ i - 1 = n /\ i # 1 /\ n \in 1 .. n + 1 /\ n # n + 1
        BY <2>2, <3>1
      <4>2. f[n] = g[n]
        BY <4>1
      <4> QED BY <4>1, <4>2
    <3>2. CASE i # n + 1
      <4>0. i \in 1 .. n /\ f[i] = g[i]
        BY <2>2, <3>2
      <4> HIDE DEF f
      <4>1. i \in 1 .. n /\ f[i] = g[i] /\ g[i] = Next1(g, i)
        BY <2>1, <4>0
      <4> USE DEF f
      <4>2. i # 1 => i - 1 \in 1 .. n /\ i - 1 # n + 1 /\ i - 1 \in 1 .. n + 1
        BY <2>2, <4>1
      <4>3. i # 1 => f[i - 1] = g[i - 1]
        BY <4>2
      <4> QED BY <4>1, <4>3
    <3> QED BY <3>1, <3>2
  <2>5. Upto(n + 1)
    BY <2>3, <2>4
  <2>6. n + 1 \in T
    BY <2>2, <2>5
  <2>7. N - (n + 1) \in R
    BY <2>6
  <2>8. r <= N - (n + 1)
    BY <1>4, <2>7
  <2> QED BY <1>1, <1>5, <2>2, <2>8
<1>7. h = [i \in 1 .. N |-> IF i = 1 THEN seqs[i] ELSE h[i - 1] \o seqs[i]]
  <2>1. PICK g \in [1 .. N -> G] : \A i \in 1 .. N : g[i] = Next1(g, i)
    BY <1>6
  <2>2. g = [i \in 1 .. N |-> IF i = 1 THEN seqs[i] ELSE g[i - 1] \o seqs[i]]
    BY <2>1
  <2> QED BY <2>2
<1> HIDE DEF h
<1>8. ASSUME NEW i \in 1 .. N PROVE h[i] = Next1(h, i)
  BY <1>7
<1>9. Tuner!FlattenSeq(seqs) = h[N]
  <2>1. Len(seqs) # 0 /\ N = Len(seqs)
    BY <1>1 DEF N
  <2> QED BY <2>1 DEF Tuner!FlattenSeq, h
<1>10. h[N] \in G
  <2> DEFINE B == {i \in 1 .. N : h[i] \notin G}
  <2>0. N \in 1 .. N
    BY <1>1
  <2>1. SUFFICES ASSUME B # {} PROVE FALSE
    BY <2>0
  <2>2. PICK i \in B : \A j \in B : i <= j
    <3>1. B \subseteq Nat
      OBVIOUS
    <3> QED BY <2>1, <3>1, LeastOf
  <2>3. CASE i = 1
    BY <1>1, <1>8, <2>3
  <2>4. CASE i # 1
    <3>1. i - 1 \in 1 .. N /\ ~(i <= i - 1)
      BY <1>1, <2>4
    <3>2. h[i - 1] \in G
      BY <2>2, <3>1
    <3>3. h[i] = h[i - 1] \o seqs[i]
      BY <1>8, <2>4
    <3> QED BY <1>1, <3>2, <3>3
  <2> QED BY <2>3, <2>4
<1> QED BY <1>9, <1>10

-----------------------------------------------------------------------------
(* The inductive invariant of the tuner.                                   *)

IsTable(f) == f = [k \in Keys |-> f[k]]

(* The database: every result is known, the first of a key is the fastest. *)
DataInv ==
  /\ IsTable(db) /\ IsTable(measured) /\ IsTable(served)
  /\ \A k \in Keys : Timed(measured[k])
  /\ \A k \in Keys : IsList(db[k]) /\ \A e \in ToSet(db[k]) : Known(measured[k], e)
  /\ \A k \in Keys : db[k] # << >> => Fastest(measured[k], Head(db[k]))

(* What run() returned.                                                    *)
ServedInv ==
  \A k \in Keys :
    /\ served[k] # {} => db[k] # << >>
    /\ \A r \in served[k] : Known(measured[k], r) /\ Fastest(measured[k], r)

(* The file, complete or cut off: the database knows its keys, but for the *)
(* lines not loaded yet.                                                   *)
FileInv ==
  /\ Lined(measured, file) /\ BestFirst(measured, file, {})
  /\ stage # "down" =>
       \A l \in ToSet(file) : \/ db[l.key] # << >>
                              \/ stage = "load" /\ l \in ToSet(rest)

InData == {k \in Keys : db[k] # << >>}

(* What each stage still has to do.                                        *)
StageInv ==
  /\ stage \in {"down", "load", "idle", "measure", "save"}
  /\ stage = "down" => \A k \in Keys : db[k] = << >>
  /\ stage = "load" => Lined(measured, rest) /\ BestFirst(measured, rest, InData)
  /\ stage = "save" => /\ Lined(measured, rest) /\ BestFirst(measured, rest, KeysOf(file))
                       /\ \A l \in ToSet(rest) : db[l.key] # << >>
  /\ stage = "measure" => served[key] = {} /\ \A l \in ToSet(file) : l.key # key

(* The measurements of the key run() works on.                             *)
BestInv ==
  stage \in {"measure", "save"} =>
    /\ key \in Keys
    /\ db[key] = << >> => measured[key] = {}
    /\ best = {} => measured[key] = {}
    /\ best \subseteq measured[key]
    /\ \A b \in best : \A m \in measured[key] : b.latency <= m.latency

TunerInv == DataInv /\ ServedInv /\ FileInv /\ StageInv /\ BestInv

LEMMA TunerInit == Tuner!Init => TunerInv
<1> SUFFICES ASSUME Tuner!Init PROVE TunerInv
  OBVIOUS
<1>1. /\ db = [k \in Keys |-> << >>] /\ file = << >> /\ stage = "down"
      /\ served = [k \in Keys |-> {}] /\ measured = [k \in Keys |-> {}]
  BY DEF Tuner!Init, Tuner!None
<1>2. IsList(<< >>) /\ ToSet(<< >>) = {} /\ \A i \in DOMAIN << >> : FALSE
  BY DEF IsList, ToSet
<1>3. DataInv
  BY <1>1, <1>2 DEF DataInv, IsTable, Timed
<1>4. ServedInv
  BY <1>1 DEF ServedInv
<1>5. FileInv
  BY <1>1, <1>2 DEF FileInv, Lined, BestFirst
<1>6. StageInv /\ BestInv
  BY <1>1 DEF StageInv, BestInv
<1> QED BY <1>3, <1>4, <1>5, <1>6 DEF TunerInv

LEMMA StartKeeps == ASSUME TunerInv, Tuner!Start PROVE TunerInv'
<1>1. /\ stage = "down" /\ stage' = "load" /\ rest' = file
      /\ db' = db /\ file' = file /\ key' = key /\ best' = best
      /\ served' = served /\ measured' = measured
  BY DEF Tuner!Start
<1>2. DataInv' /\ ServedInv'
  BY <1>1 DEF TunerInv, DataInv, ServedInv
<1>3. Lined(measured, file) /\ BestFirst(measured, file, {})
  BY DEF TunerInv, FileInv
<1>4. InData' = {}
  BY <1>1 DEF TunerInv, StageInv, InData
<1>5. FileInv'
  BY <1>1, <1>3 DEF FileInv
<1>6. StageInv'
  BY <1>1, <1>3, <1>4 DEF StageInv
<1>7. BestInv'
  BY <1>1 DEF BestInv
<1> QED BY <1>2, <1>5, <1>6, <1>7 DEF TunerInv

(* A result is recorded for a key: the measurement it comes from is among  *)
(* those made since, and the first result of the key stays the fastest.    *)
LEMMA RecordKeeps ==
  ASSUME NEW entries, IsList(entries), NEW M, Timed(M), NEW r, Known(M, r),
         \A e \in ToSet(entries) : Known(M, e),
         entries # << >> => Fastest(M, Head(entries)) \/ Fastest(M, r),
         entries = << >> => Fastest(M, r),
         NEW out \in Tuner!record(entries, r)
  PROVE  /\ IsList(out) /\ out # << >> /\ \A e \in ToSet(out) : Known(M, e)
         /\ Fastest(M, Head(out))
<1>1. \A e \in ToSet(entries) \cup {r} : Known(M, e)
  OBVIOUS
<1>2. \A e \in ToSet(entries) \cup {r} : e.latency \in Nat
  BY <1>1, KnownFacts
<1>3. /\ IsList(out) /\ out # << >> /\ ToSet(out) \subseteq ToSet(entries) \cup {r}
      /\ \A e \in ToSet(entries) \cup {r} : Head(out).latency <= e.latency
  BY <1>2, Recorded
<1>4. Head(out) \in ToSet(out)
  BY <1>3, ListFacts
<1>5. PICK q \in ToSet(entries) \cup {r} : Fastest(M, q)
  <2>1. entries # << >> => Head(entries) \in ToSet(entries)
    BY ListFacts
  <2> QED BY <2>1
<1>6. Fastest(M, Head(out))
  BY <1>1, <1>3, <1>4, <1>5, FasterStill
<1> QED BY <1>1, <1>3, <1>6

LEMMA LoadLineKeeps == ASSUME TunerInv, Tuner!LoadLine PROVE TunerInv'
<1> DEFINE l == Head(rest)
           k == l.key
           r == [config |-> l.config, latency |-> l.latency]
<1>1. /\ stage = "load" /\ rest # << >> /\ rest' = Tail(rest)
      /\ file' = file /\ stage' = stage /\ key' = key /\ best' = best
      /\ served' = served /\ measured' = measured
      /\ \E entries \in Tuner!record(db[k], r) : db' = [db EXCEPT ![k] = entries]
  BY DEF Tuner!LoadLine
<1>2. PICK out \in Tuner!record(db[k], r) : db' = [db EXCEPT ![k] = out]
  BY <1>1
<1>3. Lined(measured, rest) /\ BestFirst(measured, rest, InData)
  BY <1>1 DEF TunerInv, StageInv
<1>4. /\ IsList(rest) /\ l \in ToSet(rest) /\ IsList(Tail(rest))
      /\ ToSet(rest) = ToSet(Tail(rest)) \cup {l}
  BY <1>1, <1>3, ListFacts DEF Lined
<1>5. k \in Keys /\ Known(measured[k], l)
  BY <1>3, <1>4 DEF Lined
<1>6. (k \in InData \/ Fastest(measured[k], l)) /\ BestFirst(measured, Tail(rest), InData \cup {k})
  BY <1>1, <1>3, <1>4, NextIsBest
<1> HIDE DEF l, k
<1>7. Known(measured[k], r) /\ (Fastest(measured[k], l) => Fastest(measured[k], r))
  BY <1>5 DEF Known, Fastest
<1>8. /\ IsTable(db) /\ Timed(measured[k]) /\ IsList(db[k])
      /\ \A e \in ToSet(db[k]) : Known(measured[k], e)
      /\ db[k] # << >> => Fastest(measured[k], Head(db[k]))
  BY <1>5 DEF TunerInv, DataInv
<1>9. db[k] = << >> => Fastest(measured[k], r)
  BY <1>6, <1>7 DEF InData
<1> HIDE DEF r
<1>10. /\ IsList(out) /\ out # << >> /\ \A e \in ToSet(out) : Known(measured[k], e)
       /\ Fastest(measured[k], Head(out))
  BY <1>2, <1>7, <1>8, <1>9, RecordKeeps
<1>11. IsTable(db') /\ db'[k] = out /\ \A c \in Keys : c # k => db'[c] = db[c]
  <2>1. DOMAIN db = Keys
    BY <1>8 DEF IsTable
  <2> QED BY <1>2, <1>5, <2>1 DEF IsTable
<1>12. DataInv'
  BY <1>1, <1>10, <1>11 DEF TunerInv, DataInv
<1>13. ServedInv'
  BY <1>1, <1>10, <1>11 DEF TunerInv, ServedInv
<1>14. \A c \in Keys : db[c] # << >> => db'[c] # << >>
  BY <1>10, <1>11
<1>15. FileInv'
  <2>1. Lined(measured, file) /\ BestFirst(measured, file, {})
    BY DEF TunerInv, FileInv
  <2>2. ASSUME NEW x \in ToSet(file) PROVE db'[x.key] # << >> \/ x \in ToSet(rest')
    <3>1. x.key \in Keys
      BY <2>1 DEF Lined
    <3>2. db[x.key] # << >> \/ x \in ToSet(rest)
      BY <1>1 DEF TunerInv, FileInv
    <3>3. x = l => db'[x.key] # << >>
      BY <1>10, <1>11 DEF k
    <3>4. rest' = Tail(rest)
      BY <1>1
    <3>5. x \in ToSet(rest) => x = l \/ x \in ToSet(rest')
      BY <1>4, <3>4
    <3> QED BY <1>14, <3>1, <3>2, <3>3, <3>5
  <2> QED BY <1>1, <2>1, <2>2 DEF FileInv
<1>16. InData' = InData \cup {k}
  BY <1>5, <1>10, <1>11 DEF InData
<1>17. StageInv'
  <2>1. Lined(measured, rest')
    BY <1>1, <1>3, <1>4 DEF Lined
  <2> QED BY <1>1, <1>6, <1>16, <2>1 DEF StageInv
<1>18. BestInv'
  BY <1>1 DEF BestInv
<1> QED BY <1>12, <1>13, <1>15, <1>17, <1>18 DEF TunerInv

LEMMA LoadDoneKeeps == ASSUME TunerInv, Tuner!LoadDone PROVE TunerInv'
<1>1. /\ stage = "load" /\ rest = << >> /\ stage' = "idle"
      /\ db' = db /\ file' = file /\ key' = key /\ best' = best /\ rest' = rest
      /\ served' = served /\ measured' = measured
  BY DEF Tuner!LoadDone
<1>2. DataInv' /\ ServedInv'
  BY <1>1 DEF TunerInv, DataInv, ServedInv
<1>3. ToSet(rest) = {}
  BY <1>1 DEF ToSet
<1>4. FileInv'
  BY <1>1, <1>3 DEF TunerInv, FileInv
<1>5. StageInv' /\ BestInv'
  BY <1>1 DEF StageInv, BestInv
<1> QED BY <1>2, <1>4, <1>5 DEF TunerInv

LEMMA RunCachedKeeps == ASSUME TunerInv, NEW k \in Keys, Tuner!RunCached(k) PROVE TunerInv'
<1>1. /\ stage = "idle" /\ db[k] # << >> /\ served' = [served EXCEPT ![k] = {Head(db[k])}]
      /\ db' = db /\ file' = file /\ key' = key /\ best' = best /\ rest' = rest
      /\ stage' = stage /\ measured' = measured
  BY DEF Tuner!RunCached
<1>2. /\ IsTable(served) /\ IsList(db[k]) /\ \A e \in ToSet(db[k]) : Known(measured[k], e)
      /\ Fastest(measured[k], Head(db[k]))
  BY <1>1 DEF TunerInv, DataInv
<1>3. IsTable(served') /\ served'[k] = {Head(db[k])} /\ \A c \in Keys : c # k => served'[c] = served[c]
  <2>1. DOMAIN served = Keys
    BY <1>2 DEF IsTable
  <2> QED BY <1>1, <2>1 DEF IsTable
<1>4. Head(db[k]) \in ToSet(db[k])
  BY <1>1, <1>2, ListFacts
<1>5. DataInv'
  BY <1>1, <1>3 DEF TunerInv, DataInv
<1>6. ServedInv'
  BY <1>1, <1>2, <1>3, <1>4 DEF TunerInv, ServedInv
<1>7. FileInv'
  BY <1>1 DEF TunerInv, FileInv
<1>8. StageInv' /\ BestInv'
  BY <1>1 DEF StageInv, BestInv
<1> QED BY <1>5, <1>6, <1>7, <1>8 DEF TunerInv

LEMMA RunNewKeeps == ASSUME TunerInv, NEW k \in Keys, Tuner!RunNew(k) PROVE TunerInv'
<1>1. /\ stage = "idle" /\ db[k] = << >> /\ stage' = "measure" /\ key' = k /\ best' = {}
      /\ measured' = [measured EXCEPT ![k] = {}]
      /\ db' = db /\ file' = file /\ served' = served
  BY DEF Tuner!RunNew, Tuner!None
<1>2. IsTable(measured') /\ measured'[k] = {} /\ \A c \in Keys : c # k => measured'[c] = measured[c]
  <2>1. IsTable(measured)
    BY DEF TunerInv, DataInv
  <2> QED BY <1>1, <2>1 DEF IsTable
<1>3. ToSet(db[k]) = {}
  BY <1>1 DEF ToSet
<1>4. DataInv'
  BY <1>1, <1>2, <1>3 DEF TunerInv, DataInv, Timed
<1>5. served[k] = {}
  BY <1>1 DEF TunerInv, ServedInv
<1>6. ServedInv'
  BY <1>1, <1>2, <1>5 DEF TunerInv, ServedInv
<1>7. Lined(measured, file) /\ BestFirst(measured, file, {})
  BY DEF TunerInv, FileInv
<1>8. \A l \in ToSet(file) : db[l.key] # << >> /\ l.key # k
  BY <1>1 DEF TunerInv, FileInv
<1>9. Lined(measured', file) /\ BestFirst(measured', file, {})
  BY <1>2, <1>7, <1>8, OtherKeys
<1>10. FileInv'
  BY <1>1, <1>8, <1>9 DEF FileInv
<1>11. StageInv'
  BY <1>1, <1>5, <1>8 DEF StageInv
<1>12. BestInv'
  BY <1>1, <1>2 DEF BestInv
<1> QED BY <1>4, <1>6, <1>10, <1>11, <1>12 DEF TunerInv

LEMMA MeasureKeeps == ASSUME TunerInv, Tuner!Measure PROVE TunerInv'
<1>1. /\ stage = "measure" /\ stage' = "measure" /\ key' = key /\ file' = file /\ served' = served
      /\ \E latency \in Latencies :
           LET r == [config |-> Head(rest), latency |-> latency]
           IN  /\ \E entries \in Tuner!record(db[key], r) : db' = [db EXCEPT ![key] = entries]
               /\ best' = IF \A b \in best : latency < b.latency THEN {r} ELSE best
               /\ measured' = [measured EXCEPT ![key] = @ \cup {r}]
  BY DEF Tuner!Measure
<1>2. PICK latency \in Latencies :
        LET r == [config |-> Head(rest), latency |-> latency]
        IN  /\ \E entries \in Tuner!record(db[key], r) : db' = [db EXCEPT ![key] = entries]
            /\ best' = IF \A b \in best : latency < b.latency THEN {r} ELSE best
            /\ measured' = [measured EXCEPT ![key] = @ \cup {r}]
  BY <1>1
<1> DEFINE r == [config |-> Head(rest), latency |-> latency]
           M == measured[key]
           N == measured[key] \cup {r}
<1>3. PICK out \in Tuner!record(db[key], r) : db' = [db EXCEPT ![key] = out]
  BY <1>2
<1>4. latency \in Nat /\ r.latency = latency
  BY TunerAssumption DEF Tuner!LatencyAssumption
<1>5. /\ best' = IF \A b \in best : latency < b.latency THEN {r} ELSE best
      /\ measured' = [measured EXCEPT ![key] = M \cup {r}]
  BY <1>2
<1> HIDE DEF r
<1>6. /\ key \in Keys /\ (db[key] = << >> => M = {}) /\ (best = {} => M = {}) /\ best \subseteq M
      /\ \A b \in best : \A m \in M : b.latency <= m.latency
  BY <1>1 DEF TunerInv, BestInv
<1>7. /\ IsTable(db) /\ IsTable(measured) /\ Timed(M) /\ IsList(db[key])
      /\ \A e \in ToSet(db[key]) : Known(M, e)
      /\ db[key] # << >> => Fastest(M, Head(db[key]))
  BY <1>6 DEF TunerInv, DataInv
<1>8. /\ IsTable(db') /\ db'[key] = out /\ \A c \in Keys : c # key => db'[c] = db[c]
      /\ IsTable(measured') /\ measured'[key] = N
      /\ \A c \in Keys : c # key => measured'[c] = measured[c]
  <2>1. DOMAIN db = Keys /\ DOMAIN measured = Keys
    BY <1>7 DEF IsTable
  <2> QED BY <1>3, <1>5, <1>6, <2>1 DEF IsTable
<1>9. Timed(N) /\ Known(N, r) /\ \A e \in ToSet(db[key]) : Known(N, e)
  BY <1>4, <1>7 DEF Timed, Known
<1>10. /\ db[key] # << >> => Fastest(N, Head(db[key])) \/ Fastest(N, r)
       /\ db[key] = << >> => Fastest(N, r)
  <2>1. Tuner!Printed(r.latency) \in Nat
    BY <1>4, PrintedFacts
  <2>2. ASSUME M = {} PROVE Fastest(N, r)
    BY <2>1, <2>2 DEF Fastest
  <2>3. ASSUME db[key] # << >> PROVE Fastest(N, Head(db[key])) \/ Fastest(N, r)
    <3> DEFINE h == Head(db[key])
    <3>1. Known(M, h) /\ Fastest(M, h)
      BY <1>7, <2>3, ListFacts
    <3> HIDE DEF h
    <3>2. h.latency \in Nat /\ Tuner!Printed(h.latency) \in Nat
      BY <1>7, <3>1, KnownFacts
    <3>3. CASE Tuner!Printed(h.latency) <= Tuner!Printed(r.latency)
      <4>1. Fastest(N, h)
        BY <3>1, <3>3 DEF Fastest
      <4> QED BY <4>1 DEF h
    <3>4. CASE Tuner!Printed(r.latency) <= Tuner!Printed(h.latency)
      <4>1. \A m \in M : Tuner!Printed(m.latency) \in Nat
        BY <1>7, PrintedFacts DEF Timed
      <4>2. \A m \in M : Tuner!Printed(h.latency) <= Tuner!Printed(m.latency)
        BY <3>1 DEF Fastest
      <4>3. \A m \in M : Tuner!Printed(r.latency) <= Tuner!Printed(m.latency)
        BY <2>1, <3>2, <3>4, <4>1, <4>2
      <4>4. Fastest(N, r)
        BY <2>1, <4>3 DEF Fastest
      <4> QED BY <4>4
    <3> QED BY <2>1, <3>2, <3>3, <3>4
  <2> QED BY <1>6, <2>2, <2>3
<1>11. /\ IsList(out) /\ out # << >> /\ \A e \in ToSet(out) : Known(N, e)
       /\ Fastest(N, Head(out))
  <2> HIDE DEF N
  <2> QED BY <1>3, <1>7, <1>9, <1>10, RecordKeeps
<1>12. DataInv'
  <2> HIDE DEF N
  <2>1. IsTable(served')
    BY <1>1 DEF TunerInv, DataInv
  <2>2. ASSUME NEW c \in Keys
        PROVE  /\ Timed(measured'[c]) /\ IsList(db'[c])
               /\ \A e \in ToSet(db'[c]) : Known(measured'[c], e)
               /\ db'[c] # << >> => Fastest(measured'[c], Head(db'[c]))
    <3>1. CASE c = key
      BY <1>8, <1>9, <1>11, <3>1
    <3>2. CASE c # key
      BY <1>8, <3>2 DEF TunerInv, DataInv
    <3> QED BY <3>1, <3>2
  <2> QED BY <1>8, <2>1, <2>2 DEF DataInv
<1>13. served[key] = {} /\ \A l \in ToSet(file) : l.key # key
  BY <1>1 DEF TunerInv, StageInv
<1>14. ServedInv'
  BY <1>1, <1>8, <1>13 DEF TunerInv, ServedInv
<1>15. Lined(measured, file) /\ BestFirst(measured, file, {})
  BY DEF TunerInv, FileInv
<1>16. \A l \in ToSet(file) : l.key \in Keys /\ db[l.key] # << >>
  BY <1>1, <1>15 DEF TunerInv, FileInv, Lined
<1>17. Lined(measured', file) /\ BestFirst(measured', file, {})
  BY <1>8, <1>13, <1>15, OtherKeys
<1>18. FileInv'
  BY <1>1, <1>8, <1>13, <1>16, <1>17 DEF FileInv
<1>19. StageInv'
  BY <1>1, <1>13 DEF StageInv
<1>20. BestInv'
  <2>1. \A b \in best : b.latency \in Nat /\ \A m \in M : m.latency \in Nat
    BY <1>6, <1>7 DEF Timed
  <2>2. CASE \A b \in best : latency < b.latency
    <3>1. best' = {r}
      BY <1>5, <2>2
    <3>2. ASSUME NEW m \in M PROVE latency <= m.latency
      <4>1. PICK b \in best : TRUE
        BY <1>6
      <4> QED BY <1>4, <1>6, <2>1, <2>2, <4>1
    <3> QED BY <1>1, <1>4, <1>6, <1>8, <1>11, <3>1, <3>2 DEF BestInv
  <2>3. CASE ~ \A b \in best : latency < b.latency
    <3>1. best' = best
      BY <1>5, <2>3
    <3>2. PICK a \in best : ~(latency < a.latency)
      BY <2>3
    <3>3. ASSUME NEW b \in best PROVE b.latency <= latency
      <4>1. b.latency <= a.latency
        BY <1>6, <3>2
      <4> QED BY <1>4, <2>1, <3>2, <4>1
    <3> QED BY <1>1, <1>4, <1>6, <1>8, <1>11, <3>1, <3>2, <3>3 DEF BestInv
  <2> QED BY <2>2, <2>3
<1> QED BY <1>12, <1>14, <1>18, <1>19, <1>20 DEF TunerInv

(* serialize(): the lines of every key, the fastest first.                 *)
LEMMA Serialized ==
  ASSUME DataInv, Keys # {}
  PROVE  /\ Lined(measured, Tuner!serialize) /\ BestFirst(measured, Tuner!serialize, {})
         /\ \A l \in ToSet(Tuner!serialize) : db[l.key] # << >>
<1> DEFINE L == UNION {ToSet(Tuner!Lines(k)) : k \in Keys}
           G == {s \in Seq(L) : BestFirst(measured, s, {})}
           seqs == [i \in DOMAIN KeyOrder |-> Tuner!Lines(KeyOrder[i])]
<1>1. ASSUME NEW k \in Keys
      PROVE  /\ Tuner!Lines(k) \in Seq(L) /\ BestFirst(measured, Tuner!Lines(k), {})
             /\ \A l \in ToSet(Tuner!Lines(k)) :
                  l.key = k /\ Known(measured[k], l) /\ db[k] # << >>
  <2> DEFINE s == Tuner!Lines(k)
             n == Len(db[k])
             Line(i) == [key |-> k, config |-> db[k][i].config,
                         latency |-> Tuner!Printed(db[k][i].latency)]
  <2>1. /\ n \in Nat /\ DOMAIN db[k] = 1 .. n /\ (db[k] = << >> <=> n = 0)
        /\ \A i \in 1 .. n : db[k][i] \in ToSet(db[k])
        /\ db[k] # << >> => Head(db[k]) = db[k][1]
    BY ListFacts DEF DataInv
  <2>2. s = [i \in 1 .. n |-> Line(i)]
    BY <2>1 DEF Tuner!Lines
  <2> HIDE DEF s, n
  <2>3. \A i \in 1 .. n : s[i] = Line(i)
    BY <2>2
  <2>4. \A l \in ToSet(s) : \E i \in 1 .. n : l = Line(i)
    BY <2>2 DEF ToSet
  <2>5. ASSUME NEW i \in 1 .. n
        PROVE  /\ Line(i).key = k /\ Known(measured[k], Line(i))
               /\ db[k][i].latency \in Nat
               /\ Fastest(measured[k], db[k][i]) => Fastest(measured[k], Line(i))
    <3>1. Known(measured[k], db[k][i]) /\ Timed(measured[k])
      BY <2>1 DEF DataInv
    <3>2. PICK m \in measured[k] : /\ m.config = db[k][i].config
                                   /\ db[k][i].latency \in {m.latency, Tuner!Printed(m.latency)}
      BY <3>1 DEF Known
    <3>3. m.latency \in Nat /\ db[k][i].latency \in Nat
      BY <3>1, KnownFacts DEF Timed
    <3>4. /\ Tuner!Printed(db[k][i].latency) = Tuner!Printed(m.latency)
          /\ Tuner!Printed(Tuner!Printed(db[k][i].latency)) = Tuner!Printed(db[k][i].latency)
      BY <3>2, <3>3, PrintedFacts
    <3>5. /\ Line(i).key = k /\ Line(i).config = db[k][i].config
          /\ Line(i).latency = Tuner!Printed(db[k][i].latency)
      OBVIOUS
    <3> QED BY <3>2, <3>3, <3>4, <3>5 DEF Known, Fastest
  <2> HIDE DEF Line
  <2>6. s \in Seq(L)
    <3>1. s \in Seq(ToSet(s))
      <4>1. s \in [1 .. n -> ToSet(s)]
        BY <2>2 DEF ToSet
      <4> QED BY <2>1, <4>1
    <3>2. ToSet(s) \subseteq L
      BY DEF s
    <3> HIDE DEF L
    <3> QED BY <3>1, <3>2
  <2>7. DOMAIN s = 1 .. n
    BY <2>2
  <2>8. ASSUME NEW i \in 1 .. n
        PROVE  \E j \in 1 .. i : s[j].key = s[i].key /\ Fastest(measured[s[j].key], s[j])
    <3>1. 1 \in 1 .. i /\ 1 \in 1 .. n /\ db[k] # << >>
      BY <2>1
    <3>2. Fastest(measured[k], db[k][1])
      BY <2>1, <3>1 DEF DataInv
    <3>3. s[1].key = k /\ s[i].key = k /\ Fastest(measured[k], s[1])
      BY <2>3, <2>5, <3>1, <3>2
    <3> QED BY <3>1, <3>3
  <2>9. BestFirst(measured, s, {})
    BY <2>7, <2>8 DEF BestFirst
  <2>10. ASSUME NEW l \in ToSet(s) PROVE l.key = k /\ Known(measured[k], l) /\ db[k] # << >>
    <3>1. PICK i \in 1 .. n : l = Line(i)
      BY <2>4
    <3> QED BY <2>1, <2>5, <3>1
  <2> QED BY <2>6, <2>9, <2>10 DEF s
<1>2. ASSUME NEW l \in L PROVE l.key \in Keys /\ Known(measured[l.key], l) /\ db[l.key] # << >>
  <2>1. PICK k \in Keys : l \in ToSet(Tuner!Lines(k))
    OBVIOUS
  <2> QED BY <1>1, <2>1
<1> HIDE DEF L
<1>3. \A s, t \in G : s \o t \in G
  BY BestFirstJoin
<1>4. seqs \in Seq(G) /\ seqs # << >>
  <2>1. KeyOrder \in Seq(Keys) /\ ToSet(KeyOrder) = Keys
    BY TunerAssumption, TunerSame DEF Tuner!KeyOrderAssumption
  <2>2. /\ Len(KeyOrder) \in Nat /\ DOMAIN KeyOrder = 1 .. Len(KeyOrder) /\ Len(KeyOrder) # 0
        /\ \A i \in 1 .. Len(KeyOrder) : KeyOrder[i] \in Keys
    BY <2>1, SetOf
  <2>3. \A i \in 1 .. Len(KeyOrder) : Tuner!Lines(KeyOrder[i]) \in G
    BY <1>1, <2>2
  <2> HIDE DEF G
  <2>4. seqs \in [1 .. Len(KeyOrder) -> G]
    BY <2>2, <2>3
  <2>5. seqs \in Seq(G) /\ Len(seqs) = Len(KeyOrder)
    BY <2>2, <2>4
  <2> QED BY <2>2, <2>5
<1>5. Tuner!serialize \in G
  <2> HIDE DEF G
  <2> QED BY <1>3, <1>4, Flattened DEF Tuner!serialize
<1>6. IsList(Tuner!serialize) /\ ToSet(Tuner!serialize) \subseteq L
  BY <1>5, ListOf, SetOf
<1> QED BY <1>2, <1>5, <1>6 DEF Lined

LEMMA SaveOpenKeeps == ASSUME TunerInv, Tuner!SaveOpen PROVE TunerInv'
<1>1. /\ stage = "measure" /\ stage' = "save" /\ rest' = Tuner!serialize /\ file' = << >>
      /\ db' = db /\ key' = key /\ best' = best /\ served' = served /\ measured' = measured
  BY DEF Tuner!SaveOpen
<1>2. key \in Keys
  BY <1>1 DEF TunerInv, BestInv
<1>3. /\ Lined(measured, rest') /\ BestFirst(measured, rest', {})
      /\ \A l \in ToSet(rest') : db[l.key] # << >>
  BY <1>1, <1>2, Serialized DEF TunerInv
<1>4. IsList(<< >>) /\ ToSet(<< >>) = {} /\ \A i \in DOMAIN << >> : FALSE
  BY DEF IsList, ToSet
<1>5. DataInv' /\ ServedInv'
  BY <1>1 DEF TunerInv, DataInv, ServedInv
<1>6. FileInv'
  BY <1>1, <1>4 DEF FileInv, Lined, BestFirst
<1>7. KeysOf(file') = {}
  BY <1>1, <1>4 DEF KeysOf
<1>8. StageInv'
  BY <1>1, <1>3, <1>7 DEF StageInv
<1>9. BestInv'
  BY <1>1 DEF TunerInv, BestInv
<1> QED BY <1>5, <1>6, <1>8, <1>9 DEF TunerInv

LEMMA SaveLineKeeps == ASSUME TunerInv, Tuner!SaveLine PROVE TunerInv'
<1> DEFINE l == Head(rest)
<1>1. /\ stage = "save" /\ stage' = "save" /\ rest # << >> /\ rest' = Tail(rest)
      /\ file' = Append(file, l)
      /\ db' = db /\ key' = key /\ best' = best /\ served' = served /\ measured' = measured
  BY DEF Tuner!SaveLine
<1>2. /\ Lined(measured, rest) /\ BestFirst(measured, rest, KeysOf(file))
      /\ \A x \in ToSet(rest) : db[x.key] # << >>
  BY <1>1 DEF TunerInv, StageInv
<1>3. /\ IsList(rest) /\ l \in ToSet(rest) /\ IsList(Tail(rest))
      /\ ToSet(rest) = ToSet(Tail(rest)) \cup {l}
  BY <1>1, <1>2, ListFacts DEF Lined
<1>4. l.key \in Keys /\ Known(measured[l.key], l) /\ db[l.key] # << >>
  BY <1>2, <1>3 DEF Lined
<1>5. /\ l.key \in KeysOf(file) \/ Fastest(measured[l.key], l)
      /\ BestFirst(measured, Tail(rest), KeysOf(file) \cup {l.key})
  BY <1>1, <1>2, <1>3, NextIsBest
<1> HIDE DEF l
<1>6. /\ Lined(measured, file) /\ BestFirst(measured, file, {})
      /\ \A x \in ToSet(file) : db[x.key] # << >>
  BY <1>1 DEF TunerInv, FileInv
<1>7. /\ Lined(measured, Append(file, l)) /\ BestFirst(measured, Append(file, l), {})
      /\ ToSet(Append(file, l)) = ToSet(file) \cup {l}
  BY <1>4, <1>5, <1>6, BestFirstAppend
<1>8. DataInv' /\ ServedInv'
  BY <1>1 DEF TunerInv, DataInv, ServedInv
<1>9. FileInv'
  BY <1>1, <1>4, <1>6, <1>7 DEF FileInv
<1>10. KeysOf(file') = KeysOf(file) \cup {l.key}
  <2>1. ToSet(file') = ToSet(file) \cup {l}
    BY <1>1, <1>7
  <2> QED BY <2>1 DEF KeysOf
<1>11. StageInv'
  BY <1>1, <1>2, <1>3, <1>5, <1>10 DEF StageInv, Lined
<1>12. BestInv'
  BY <1>1 DEF TunerInv, BestInv
<1> QED BY <1>8, <1>9, <1>11, <1>12 DEF TunerInv

(* run() returns what it measured, saved or not.                           *)
LEMMA ReturnKeeps ==
  ASSUME TunerInv, Tuner!RunReturn \/ Tuner!RunReturnUnsaved
  PROVE  TunerInv'
<1>1. /\ stage \in {"measure", "save"} /\ stage' = "idle"
      /\ served' = [served EXCEPT ![key] = best]
      /\ db' = db /\ file' = file /\ key' = key /\ measured' = measured
  BY DEF Tuner!RunReturn, Tuner!RunReturnUnsaved, Tuner!Return
<1>2. /\ key \in Keys /\ (db[key] = << >> => measured[key] = {}) /\ best \subseteq measured[key]
      /\ \A b \in best : \A m \in measured[key] : b.latency <= m.latency
  BY <1>1 DEF TunerInv, BestInv
<1>3. IsTable(served') /\ served'[key] = best /\ \A c \in Keys : c # key => served'[c] = served[c]
  <2>1. DOMAIN served = Keys
    BY DEF TunerInv, DataInv, IsTable
  <2> QED BY <1>1, <1>2, <2>1 DEF IsTable
<1>4. DataInv'
  BY <1>1, <1>3 DEF TunerInv, DataInv
<1>5. ASSUME NEW b \in best PROVE Known(measured[key], b) /\ Fastest(measured[key], b)
  <2>1. \A m \in measured[key] : m.latency \in Nat
    BY <1>2 DEF TunerInv, DataInv, Timed
  <2>2. \A m \in measured[key] : Tuner!Printed(b.latency) <= Tuner!Printed(m.latency)
    BY <1>2, <2>1, PrintedFacts
  <2> QED BY <1>2, <2>2 DEF Known, Fastest
<1>6. ServedInv'
  BY <1>1, <1>2, <1>3, <1>5 DEF TunerInv, ServedInv
<1>7. FileInv'
  BY <1>1 DEF TunerInv, FileInv
<1>8. StageInv' /\ BestInv'
  BY <1>1 DEF StageInv, BestInv
<1> QED BY <1>4, <1>6, <1>7, <1>8 DEF TunerInv

LEMMA StopKeeps == ASSUME TunerInv, Tuner!Stop PROVE TunerInv'
<1>1. /\ stage' = "down" /\ db' = [k \in Keys |-> << >>] /\ served' = [k \in Keys |-> {}]
      /\ file' = file /\ key' = key /\ measured' = measured
  BY DEF Tuner!Stop, Tuner!None
<1>2. IsList(<< >>) /\ ToSet(<< >>) = {}
  BY DEF IsList, ToSet
<1>3. DataInv'
  BY <1>1, <1>2 DEF TunerInv, DataInv, IsTable
<1>4. ServedInv' /\ StageInv' /\ BestInv'
  BY <1>1 DEF ServedInv, StageInv, BestInv
<1>5. FileInv'
  BY <1>1 DEF TunerInv, FileInv
<1> QED BY <1>3, <1>4, <1>5 DEF TunerInv

LEMMA TunerNext == TunerInv /\ [Tuner!Next]_Tuner!vars => TunerInv'
<1> SUFFICES ASSUME TunerInv, [Tuner!Next]_Tuner!vars PROVE TunerInv'
  OBVIOUS
<1>1. ASSUME NEW k \in Keys, Tuner!RunCached(k) PROVE TunerInv'
  BY <1>1, RunCachedKeeps
<1>2. ASSUME NEW k \in Keys, Tuner!RunNew(k) PROVE TunerInv'
  BY <1>2, RunNewKeeps
<1>3. CASE UNCHANGED Tuner!vars
  BY <1>3 DEF Tuner!vars, TunerInv, DataInv, ServedInv, FileInv, StageInv, BestInv, InData
<1> QED BY <1>1, <1>2, <1>3, StartKeeps, LoadLineKeeps, LoadDoneKeeps, MeasureKeeps,
           SaveOpenKeeps, SaveLineKeeps, ReturnKeeps, StopKeeps
        DEF Tuner!Next

(* run() answers with a configuration measured for the key, and with the   *)
(* fastest as far as the file's precision tells, also after restarts and   *)
(* saves cut off at any line: for any keys, latencies, precision and       *)
(* number of results kept.                                                 *)
THEOREM BestIsServed == Tuner!Spec => []ServedIsBest
<1>1. TunerInv => ServedIsBest
  BY DEF TunerInv, ServedInv, Known, Fastest, ServedIsBest, Tuner!ServedIsBest
<1> QED BY <1>1, TunerInit, TunerNext, PTL DEF Tuner!Spec
=============================================================================
