------------------------------ MODULE SlotPool ------------------------------
(***************************************************************************)
(* Kama_memoryPool::MemoryPool of vendor_memorypool/v1: slots of one size, *)
(* cut from blocks under mutexForBlock_ and recycled through a lock-free   *)
(* list whose head carries a version number (freeList_, a TaggedPtr).      *)
(*                                                                         *)
(* popFreeList and pushFreeList are one step per access to shared memory:  *)
(* the load of the head, the load or store of a slot's next, and the       *)
(* compare-and-swap, which may fail spuriously.  A slot in use belongs to  *)
(* its holder, who stores what it likes in the word that held next; a pop  *)
(* that loaded an outdated head reads that word all the same.              *)
(*                                                                         *)
(* Addresses are byte addresses.  operator new answers with one of Bases   *)
(* or throws.  Requests above MAX_SLOT_SIZE and empty requests never reach *)
(* a pool (HashBucket::useMemory), nor does deallocate(nullptr).           *)
(***************************************************************************)
EXTENDS Integers, Sequences, FiniteSets, SequencesExt

CONSTANTS Threads,
          Requests,     \* request sizes; each behaviour serves one of them
          BlockSize,    \* BlockSize_
          Bases,        \* addresses operator new may answer with
          MaxTag,       \* bound: operations on the list in a behaviour
          Null          \* nullptr

SLOT_BASE_SIZE == 8     \* also sizeof(Slot) and sizeof(Slot*)
MAX_SLOT_SIZE  == 512

(* Assumptions about the constants.                                        *)
ThreadsAssumption  == Threads # {}
NullAssumption     == Null \notin Nat   \* operator new never answers nullptr
RequestsAssumption == Requests \subseteq 1 .. MAX_SLOT_SIZE
BlocksAssumption ==
  /\ \A b \in Bases : b \in Nat /\ b % (2 * SLOT_BASE_SIZE) = 0
  /\ \A b, c \in Bases : b < c => b + BlockSize <= c
BlockSizeAssumption ==   \* a block has room for a padded first slot
  BlockSize \in Nat /\ \A n \in Requests : 2 * (n + 8) + SLOT_BASE_SIZE <= BlockSize

PoolAssumptions ==
  /\ ThreadsAssumption /\ NullAssumption
  /\ RequestsAssumption /\ BlocksAssumption /\ BlockSizeAssumption

ASSUME SlotPoolAssumption == PoolAssumptions

VARIABLES size,       \* bytes of the objects this pool serves
          blocks,     \* blocks from firstBlock_ on, the newest first
          curSlot,    \* curSlot_, 0 before the first block
          lastSlot,   \* lastSlot_
          freeList,   \* freeList_: [ptr, tag]
          next,       \* next[s]: Slot::next, Null while s is in use
          held,       \* held[t]: slots thread t may use
          pc,         \* pc[t]: next shared access of the call of thread t
          old,        \* oldHead of the call
          new,        \* newHead.ptr of the call
          slot        \* argument of deallocate
vars == <<size, blocks, curSlot, lastSlot, freeList, next, held, pc, old, new, slot>>

blockVars == <<size, blocks, curSlot, lastSlot>>
callVars  == <<old, new, slot>>

-----------------------------------------------------------------------------
(* HashBucket: the pool of a request and the slot size of a pool.          *)

PoolIndex(n) == (n + 7) \div SLOT_BASE_SIZE - 1

SlotSizeOf(i) == (i + 1) * SLOT_BASE_SIZE

SlotSize == SlotSizeOf(PoolIndex(size))

padPointer(p, align) == align - (p % align)

FirstSlot(b) == b + SLOT_BASE_SIZE + padPointer(b + SLOT_BASE_SIZE, SlotSize)

(* Faulty: the limit is the end of the block.                              *)
LastSlotEnd(b) == b + BlockSize

(* The limit below which the slots of block b begin.                       *)
LastSlot(b) == b + BlockSize - SlotSize + 1

NoHead == [ptr |-> Null, tag |-> 0]

(* MemoryPool::MemoryPool and init.                                        *)
Init ==
  /\ size \in Requests
  /\ blocks   = << >>
  /\ curSlot  = 0
  /\ lastSlot = 0
  /\ freeList = NoHead
  /\ next     = [s \in {} |-> Null]
  /\ held     = [t \in Threads |-> {}]
  /\ pc       = [t \in Threads |-> "idle"]
  /\ old      = [t \in Threads |-> NoHead]
  /\ new      = [t \in Threads |-> Null]
  /\ slot     = [t \in Threads |-> Null]

(* Every call that has begun changes the head at most once more.           *)
MayBegin == freeList.tag + Cardinality({t \in Threads : pc[t] # "idle"}) < MaxTag

Goto(t, where) == pc' = [pc EXCEPT ![t] = where]

(* A call ends and its local variables with it.                            *)
Finish(t) ==
  /\ Goto(t, "idle")
  /\ old'  = [old EXCEPT ![t] = NoHead]
  /\ new'  = [new EXCEPT ![t] = Null]
  /\ slot' = [slot EXCEPT ![t] = Null]

-----------------------------------------------------------------------------
(* The compare-and-swap of a call: it installs newHead when the head still *)
(* is oldHead; otherwise, or spuriously, it reloads oldHead and the loop   *)
(* starts over.                                                            *)

(* Faulty: the version number stays as it was.                             *)
NewHeadSameTag(t, p) == [ptr |-> p, tag |-> old[t].tag]

NewHead(t, p) == [ptr |-> p, tag |-> old[t].tag + 1]

Swapped(t, p) == freeList = old[t] /\ freeList' = NewHead(t, p)
Reload(t)     == old' = [old EXCEPT ![t] = freeList] /\ UNCHANGED freeList

-----------------------------------------------------------------------------
(* allocate.                                                               *)

PopLoad(t) ==
  /\ pc[t] = "idle" /\ MayBegin
  /\ Reload(t) /\ Goto(t, "popNext")
  /\ UNCHANGED <<blockVars, next, held, new, slot>>

(* What a load of the first word of slot s may return.                     *)
InUse(s) == \E t \in Threads : s \in held[t] \/ (pc[t] = "pushNext" /\ slot[t] = s)
Words(s) == IF InUse(s) THEN DOMAIN next \cup {Null} ELSE {next[s]}

(* An empty list sends the call to the blocks.                             *)
PopNext(t) ==
  /\ pc[t] = "popNext"
  /\ \/ old[t].ptr = Null /\ Goto(t, "block") /\ UNCHANGED new
     \/ /\ old[t].ptr # Null
        /\ \E w \in Words(old[t].ptr) : new' = [new EXCEPT ![t] = w]
        /\ Goto(t, "popSwap")
  /\ UNCHANGED <<blockVars, freeList, next, held, old, slot>>

(* The call of thread t returns slot s.                                    *)
Return(t, s) ==
  /\ held' = [held EXCEPT ![t] = @ \cup {s}]
  /\ next' = [x \in DOMAIN next \cup {s} |-> IF x = s THEN Null ELSE next[x]]
  /\ Finish(t)

PopSwap(t) ==
  /\ pc[t] = "popSwap"
  /\ \/ Swapped(t, new[t]) /\ Return(t, old[t].ptr)
     \/ Reload(t) /\ Goto(t, "popNext") /\ UNCHANGED <<next, held, new, slot>>
  /\ UNCHANGED blockVars

Exhausted == curSlot >= lastSlot

(* The critical section of mutexForBlock_.  allocateNewBlock may throw.    *)
Carve(t, s) ==
  /\ curSlot' = s + (SlotSize \div SLOT_BASE_SIZE) * SLOT_BASE_SIZE
  /\ Return(t, s)
  /\ UNCHANGED <<size, freeList>>

TakeSlot(t) ==
  /\ pc[t] = "block"
  /\ \/ ~Exhausted /\ Carve(t, curSlot) /\ UNCHANGED <<blocks, lastSlot>>
     \/ /\ Exhausted
        /\ \E b \in Bases \ ToSet(blocks) :
             /\ blocks'   = <<b>> \o blocks
             /\ lastSlot' = LastSlot(b)
             /\ Carve(t, FirstSlot(b))

TakeSlotFails(t) ==
  /\ pc[t] = "block" /\ Exhausted
  /\ Finish(t)
  /\ UNCHANGED <<blockVars, freeList, next, held>>

-----------------------------------------------------------------------------
(* deallocate.                                                             *)

PushLoad(t, s) ==
  /\ pc[t] = "idle" /\ MayBegin
  /\ s \in held[t]
  /\ held' = [held EXCEPT ![t] = @ \ {s}]
  /\ slot' = [slot EXCEPT ![t] = s]
  /\ Reload(t) /\ Goto(t, "pushNext")
  /\ UNCHANGED <<blockVars, next, new>>

PushNext(t) ==
  /\ pc[t] = "pushNext"
  /\ next' = [next EXCEPT ![slot[t]] = old[t].ptr]
  /\ Goto(t, "pushSwap")
  /\ UNCHANGED <<blockVars, freeList, held, callVars>>

PushSwap(t) ==
  /\ pc[t] = "pushSwap"
  /\ \/ Swapped(t, slot[t]) /\ Finish(t)
     \/ Reload(t) /\ Goto(t, "pushNext") /\ UNCHANGED <<new, slot>>
  /\ UNCHANGED <<blockVars, next, held>>

(* ~MemoryPool, once nobody calls the pool any more, deletes every block.  *)
Destroy ==
  /\ \A t \in Threads : pc[t] = "idle"
  /\ pc'     = [t \in Threads |-> "gone"]
  /\ blocks' = << >>
  /\ held'   = [t \in Threads |-> {}]
  /\ next'   = [s \in {} |-> Null]
  /\ UNCHANGED <<size, curSlot, lastSlot, freeList, callVars>>

Gone == /\ \A t \in Threads : pc[t] = "gone"
        /\ UNCHANGED vars

Call(t) ==
  \/ PopLoad(t) \/ PopNext(t) \/ PopSwap(t) \/ TakeSlot(t) \/ TakeSlotFails(t)
  \/ PushNext(t) \/ PushSwap(t)
  \/ \E s \in held[t] : PushLoad(t, s)

Next ==
  \/ \E t \in Threads : Call(t)
  \/ Destroy \/ Gone

Spec == Init /\ [][Next]_vars

-----------------------------------------------------------------------------
SlotsOf(b) == {s \in FirstSlot(b) .. LastSlot(b) - 1 : (s - FirstSlot(b)) % SlotSize = 0}

(* Slots that left the blocks: all of the older ones, and those of the     *)
(* newest below curSlot_.                                                  *)
Carved ==
  IF blocks = << >> THEN {}
  ELSE (UNION {SlotsOf(b) : b \in ToSet(Tail(blocks))})
         \cup {s \in SlotsOf(Head(blocks)) : s < curSlot}

(* The list from its head, Null where it has ended.                        *)
ListAt[n \in Nat] ==
  IF n = 0 THEN freeList.ptr
  ELSE LET s == ListAt[n - 1] IN IF s = Null THEN Null ELSE next[s]

ListedUpTo(n) == {ListAt[i] : i \in 0 .. n} \ {Null}

(* Slots a deallocate call has taken from its caller and not yet linked,   *)
(* and all the slots that are with thread t.                               *)
Returning(t) == IF pc[t] \in {"pushNext", "pushSwap"} THEN {slot[t]} ELSE {}
With(t)      == held[t] \cup Returning(t)

(* Every slot is in exactly one place: in the list, which ends, with one   *)
(* holder, or in one unfinished deallocate; no interleaving of the         *)
(* lock-free loops hands a slot out twice or loses it.                     *)
SlotsConserved ==
  (\A t \in Threads : pc[t] # "gone") =>
    LET all    == Carved
        listed == ListedUpTo(Cardinality(all))
    IN  /\ ListAt[Cardinality(all)] = Null
        /\ all = listed \cup UNION {With(t) : t \in Threads}
        /\ \A t \in Threads : listed \cap With(t) = {} /\ held[t] \cap Returning(t) = {}
        /\ \A t, u \in Threads : t # u => With(t) \cap With(u) = {}

(* Objects lie inside their block, behind its chain word, and do not       *)
(* overlap: padding, the end-of-block test and the choice of the pool by   *)
(* HashBucket::useMemory leave each slot the bytes that were asked for.    *)
SlotsFit ==
  LET all == Carved
  IN  \A s \in UNION {held[t] : t \in Threads} :
        /\ \E b \in ToSet(blocks) : b + SLOT_BASE_SIZE <= s /\ s + size <= b + BlockSize
        /\ \A r \in all \ {s} : r + size <= s \/ s + size <= r
=============================================================================
