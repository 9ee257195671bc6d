------------------------------ MODULE PagedKV ------------------------------
(***************************************************************************)
(* gpuforge::PagedKV (src/memory.cpp): a fixed pool of pages, of PageBytes *)
(* bytes each, shared by growing byte sequences and by callers that        *)
(* acquire single pages.                                                   *)
(*                                                                         *)
(* Every member function runs under mu_, so each is one step, except       *)
(* append: its while loop is modelled one iteration per step, with the     *)
(* mutex held (owner # NoSeq) in between, so that the page pool is         *)
(* inspected at every iteration and both places where the loop may throw   *)
(* bad_alloc are steps: no free page, and no memory for the page table.    *)
(*                                                                         *)
(* sequences_ and sequence_bytes_ are resized on demand by append; an      *)
(* index that was never appended to answers 0 from bytes(), resident()     *)
(* and read(), exactly as an empty sequence does, so both are total here.  *)
(* Calls that return without touching state (acquire() returning -1,       *)
(* release() of an index outside pages_) are stuttering steps.             *)
(***************************************************************************)
EXTENDS Integers, Sequences, FiniteSets

CONSTANTS NumPages,   \* pages_.size()
          PageBytes,  \* page_bytes_
          SeqIds,     \* the sequence numbers callers use
          NoSeq,      \* "no append holds mu_"
          Byte,       \* byte values
          MaxAppend   \* bound: longest payload of one append

ASSUME NumPagesAssumption  == NumPages \in Nat \ {0}
ASSUME PageBytesAssumption == PageBytes \in Nat \ {0}
ASSUME NoSeqAssumption     == NoSeq \notin SeqIds
ASSUME ByteAssumption      == 0 \in Byte
ASSUME MaxAppendAssumption == MaxAppend \in Nat

VARIABLES allocated,      \* pages_[p].allocated
          writeOffset,    \* pages_[p].write_offset
          data,           \* pages_[p].data
          sequences,      \* sequences_[s]: page ids in order
          sequenceBytes,  \* sequence_bytes_[s]
          held,           \* pages acquire() returned and the caller still holds
          lost,           \* history: pages taken by an append that threw before
                          \* it had entered them into sequences_
          owner,          \* the sequence whose append holds mu_, or NoSeq
          left,           \* payload the running append has not copied yet
          done,           \* bytes the running append has copied
          outcome         \* how the last append ended

vars == <<allocated, writeOffset, data, sequences, sequenceBytes, held, lost,
          owner, left, done, outcome>>

pageVars   == <<allocated, writeOffset, data>>
seqVars    == <<sequences, sequenceBytes>>
appendVars == <<owner, left, done>>

Page     == 0 .. NumPages - 1
Offset   == 0 .. PageBytes - 1
Payloads == UNION {[1 .. n -> Byte] : n \in 0 .. MaxAppend}

(* The constructor: every page free, its data value-initialised. *)
Init ==
  /\ allocated     = [p \in Page |-> FALSE]
  /\ writeOffset   = [p \in Page |-> 0]
  /\ data          = [p \in Page |-> [k \in Offset |-> 0]]
  /\ sequences     = [s \in SeqIds |-> << >>]
  /\ sequenceBytes = [s \in SeqIds |-> 0]
  /\ held          = {}
  /\ lost          = {}
  /\ owner         = NoSeq
  /\ left          = << >>
  /\ done          = 0
  /\ outcome       = "none"

-----------------------------------------------------------------------------
(* Page search and the preflight of append.                                *)

FreePages == {p \in Page : ~allocated[p]}

(* The for loops scan pages_ from index 0 and stop at the first free one.  *)
FirstFree == CHOOSE p \in FreePages : \A q \in FreePages : p <= q

Last(q) == q[Len(q)]

TailFree(s) ==
  IF sequences[s] = << >> THEN 0
  ELSE IF writeOffset[Last(sequences[s])] < PageBytes
       THEN PageBytes - writeOffset[Last(sequences[s])]
       ELSE 0

(* Faulty variants, here and below, are what the properties must catch.    *)
(* This one rounds the page count down.                                    *)
NeededPagesFloor(s, n) ==
  IF n <= TailFree(s) THEN 0 ELSE (n - TailFree(s)) \div PageBytes

(* Faulty: the room in the tail page is not counted.                       *)
NeededPagesNoTail(s, n) == (n + PageBytes - 1) \div PageBytes

NeededPages(s, n) ==
  IF n <= TailFree(s) THEN 0
  ELSE (n - TailFree(s) + PageBytes - 1) \div PageBytes

(* Faulty: every iteration takes a new page.                               *)
NeedsPageAlways(s) == TRUE

(* append's loop takes a new page when there is no tail or the tail is full *)
NeedsPage(s) ==
  sequences[s] # << >> => writeOffset[Last(sequences[s])] >= PageBytes

-----------------------------------------------------------------------------
(* Operations.                                                             *)

Acquire ==
  /\ owner = NoSeq
  /\ FreePages # {}
  /\ allocated'   = [allocated EXCEPT ![FirstFree] = TRUE]
  /\ writeOffset' = [writeOffset EXCEPT ![FirstFree] = 0]
  /\ held'        = held \cup {FirstFree}
  /\ UNCHANGED <<data, seqVars, lost, appendVars, outcome>>

(* Callers give back a page they hold: release(int) does not check whom    *)
(* the page belongs to, so this is the caller's side of the contract.      *)
Release(p) ==
  /\ owner = NoSeq
  /\ p \in held
  /\ allocated'   = [allocated EXCEPT ![p] = FALSE]
  /\ writeOffset' = [writeOffset EXCEPT ![p] = 0]
  /\ held'        = held \ {p}
  /\ UNCHANGED <<data, seqVars, lost, appendVars, outcome>>

PagesOf(s) == {sequences[s][i] : i \in 1 .. Len(sequences[s])}

(* Faulty: sequences_[s].clear() is missing.                               *)
ReleaseSequenceNoClear(s) ==
  /\ owner = NoSeq
  /\ allocated'     = [p \in Page |-> allocated[p] /\ p \notin PagesOf(s)]
  /\ writeOffset'   = [p \in Page |-> IF p \in PagesOf(s) THEN 0
                                      ELSE writeOffset[p]]
  /\ sequenceBytes' = [sequenceBytes EXCEPT ![s] = 0]
  /\ UNCHANGED <<data, sequences, held, lost, appendVars, outcome>>

(* Faulty: sequence_bytes_[s] keeps its value.                             *)
ReleaseSequenceKeepBytes(s) ==
  /\ owner = NoSeq
  /\ allocated'   = [p \in Page |-> allocated[p] /\ p \notin PagesOf(s)]
  /\ writeOffset' = [p \in Page |-> IF p \in PagesOf(s) THEN 0
                                    ELSE writeOffset[p]]
  /\ sequences'   = [sequences EXCEPT ![s] = << >>]
  /\ UNCHANGED <<data, sequenceBytes, held, lost, appendVars, outcome>>

ReleaseSequence(s) ==
  /\ owner = NoSeq
  /\ allocated'     = [p \in Page |-> allocated[p] /\ p \notin PagesOf(s)]
  /\ writeOffset'   = [p \in Page |-> IF p \in PagesOf(s) THEN 0
                                      ELSE writeOffset[p]]
  /\ sequences'     = [sequences EXCEPT ![s] = << >>]
  /\ sequenceBytes' = [sequenceBytes EXCEPT ![s] = 0]
  /\ UNCHANGED <<data, held, lost, appendVars, outcome>>

(* append up to the preflight check: refused before anything is written.   *)
AppendBegin(s, d) ==
  /\ owner = NoSeq
  /\ IF NeededPages(s, Len(d)) > Cardinality(FreePages)
     THEN outcome' = "bad_alloc" /\ UNCHANGED appendVars
     ELSE owner' = s /\ left' = d /\ done' = 0 /\ outcome' = "none"
  /\ UNCHANGED <<pageVars, seqVars, held, lost>>

(* Faulty: p += c is missing, every chunk restarts at the payload's head.  *)
CopyChunkNoAdvance(s, id, offset, c) ==
  /\ allocated'     = [allocated EXCEPT ![id] = TRUE]
  /\ data'          = [data EXCEPT ![id] =
                         [k \in Offset |-> IF k >= offset /\ k < offset + c
                                           THEN left[k - offset + 1]
                                           ELSE data[id][k]]]
  /\ writeOffset'   = [writeOffset EXCEPT ![id] = offset + c]
  /\ left'          = SubSeq(left, 1, Len(left) - c)
  /\ done'          = done + c
  /\ sequenceBytes' = [sequenceBytes EXCEPT ![s] = @ + c]
  /\ UNCHANGED <<owner, outcome>>

(* One iteration of while (left): copy c bytes into page id, offset on.    *)
CopyChunk(s, id, offset, c) ==
  /\ allocated'     = [allocated EXCEPT ![id] = TRUE]
  /\ data'          = [data EXCEPT ![id] =
                         [k \in Offset |-> IF k >= offset /\ k < offset + c
                                           THEN left[k - offset + 1]
                                           ELSE data[id][k]]]
  /\ writeOffset'   = [writeOffset EXCEPT ![id] = offset + c]
  /\ left'          = SubSeq(left, c + 1, Len(left))
  /\ done'          = done + c
  /\ sequenceBytes' = [sequenceBytes EXCEPT ![s] = @ + c]
  /\ UNCHANGED <<owner, outcome>>

ChunkSize(offset) ==
  IF Len(left) <= PageBytes - offset THEN Len(left) ELSE PageBytes - offset

AppendChunk ==
  /\ owner # NoSeq
  /\ left # << >>
  /\ IF ~NeedsPage(owner)
     THEN LET id == Last(sequences[owner])
          IN  /\ CopyChunk(owner, id, writeOffset[id], ChunkSize(writeOffset[id]))
              /\ UNCHANGED sequences
     ELSE IF FreePages # {}
     THEN /\ sequences' = [sequences EXCEPT ![owner] = Append(@, FirstFree)]
          /\ CopyChunk(owner, FirstFree, 0, ChunkSize(0))
     ELSE \* if (id < 0) throw std::bad_alloc(): unlock with a partial write
          /\ outcome' = "bad_alloc"
          /\ owner' = NoSeq /\ left' = << >> /\ done' = 0
          /\ UNCHANGED <<pageVars, seqVars>>
  /\ UNCHANGED <<held, lost>>

(* sequences_[s].push_back(id) finds no memory.  The page is already       *)
(* marked, and neither it nor the chunks copied so far are given back.  (A *)
(* vector with spare capacity does not throw; capacity is not modelled.)   *)
AppendThrow ==
  /\ owner # NoSeq
  /\ left # << >>
  /\ NeedsPage(owner) /\ FreePages # {}
  /\ allocated'   = [allocated EXCEPT ![FirstFree] = TRUE]
  /\ writeOffset' = [writeOffset EXCEPT ![FirstFree] = 0]
  /\ lost'        = lost \cup {FirstFree}
  /\ owner' = NoSeq /\ left' = << >> /\ done' = 0
  /\ outcome' = "bad_alloc"
  /\ UNCHANGED <<data, seqVars, held>>

AppendReturn ==
  /\ owner # NoSeq
  /\ left = << >>
  /\ owner'   = NoSeq
  /\ done'    = 0
  /\ outcome' = "ok"
  /\ UNCHANGED <<pageVars, seqVars, held, lost, left>>

Next ==
  \/ Acquire
  \/ \E p \in Page : Release(p)
  \/ \E s \in SeqIds : ReleaseSequence(s)
  \/ \E s \in SeqIds, d \in Payloads : AppendBegin(s, d)
  \/ AppendChunk
  \/ AppendThrow
  \/ AppendReturn

Spec == Init /\ [][Next]_vars

-----------------------------------------------------------------------------
(* Queries.                                                                *)

(* locate(s, off): page index off / page_bytes_, offset off % page_bytes_. *)
InBounds(s, off) ==
  /\ off < sequenceBytes[s]
  /\ off \div PageBytes < Len(sequences[s])

Locate(s, off) ==
  LET id == sequences[s][off \div PageBytes + 1]
  IN  [page |-> id, offset |-> off % PageBytes, valid |-> allocated[id]]

ByteAt(s, off) ==
  data[sequences[s][off \div PageBytes + 1]][off % PageBytes]

(* read(s, off, out, n), byte by byte: n is clamped to what the sequence   *)
(* holds and the copy stops at the first offset whose page is missing.     *)
Read(s, off, n) ==
  LET want == IF n <= sequenceBytes[s] - off THEN n ELSE sequenceBytes[s] - off
      have == Len(sequences[s]) * PageBytes - off
      m    == IF want <= have THEN want ELSE have
  IN  [i \in 1 .. m |-> ByteAt(s, off + i - 1)]

-----------------------------------------------------------------------------
(* Properties.                                                             *)

(* Types of the cache state: offsets never pass the page size, sequences   *)
(* hold page ids, and an idle mutex leaves no payload behind.              *)
TypeOK ==
  /\ allocated     \in [Page -> BOOLEAN]
  /\ writeOffset   \in [Page -> 0 .. PageBytes]
  /\ data          \in [Page -> [Offset -> Byte]]
  /\ sequences     \in [SeqIds -> Seq(Page)]
  /\ sequenceBytes \in [SeqIds -> Nat]
  /\ held          \subseteq Page
  /\ lost          \subseteq Page
  /\ owner         \in SeqIds \cup {NoSeq}
  /\ left          \in Seq(Byte)
  /\ done          \in Nat
  /\ outcome       \in {"none", "ok", "bad_alloc"}
  /\ owner = NoSeq => left = << >> /\ done = 0

Index(s) == 1 .. Len(sequences[s])

(* No page occurs at two places of the page tables.                        *)
NoSharedPage ==
  \A s, t \in SeqIds : \A i \in Index(s), j \in Index(t) :
    sequences[s][i] = sequences[t][j] => s = t /\ i = j

(* Pages of a sequence are allocated, and neither in the hands of an       *)
(* acquire() caller nor lost.                                              *)
SequencePagesOwned ==
  \A s \in SeqIds : \A i \in Index(s) :
    allocated[sequences[s][i]] /\ sequences[s][i] \notin held \cup lost

(* Every allocated page is held by a caller or belongs to a sequence, or   *)
(* its push_back threw.                                                    *)
PagesAccounted ==
  \A p \in Page : allocated[p] =>
    p \in held \cup lost \/ \E s \in SeqIds : \E i \in Index(s) : sequences[s][i] = p

(* PagedKV::append/release/release_sequence/acquire: an allocated page has *)
(* exactly one owner - one position of one sequence, or one acquire()      *)
(* caller - and a free page has none, so no two sequences ever write the   *)
(* same page.  The only pages without an owner are those an append that    *)
(* threw in push_back left marked, and nobody receives these again.        *)
PagesExclusive ==
  /\ NoSharedPage
  /\ SequencePagesOwned
  /\ PagesAccounted
  /\ \A p \in held \cup lost : allocated[p]
  /\ held \cap lost = {}

LayoutOf(s) ==
  LET n == Len(sequences[s])
  IN  /\ \A i \in 1 .. n - 1 : writeOffset[sequences[s][i]] = PageBytes
      /\ n = 0 => sequenceBytes[s] = 0
      /\ n > 0 => /\ writeOffset[sequences[s][n]] > 0
                  /\ sequenceBytes[s] = (n - 1) * PageBytes + writeOffset[sequences[s][n]]

(* sequence_bytes_ agrees with the pages: every page but the last is full  *)
(* and the last is not empty.                                              *)
SequenceLayout == \A s \in SeqIds : LayoutOf(s)

(* locate() gives every byte of every sequence a place of its own: the     *)
(* page is allocated, the offset lies below the page's write_offset, and   *)
(* no two bytes share a place.                                             *)
LocateExact ==
  \A s \in SeqIds : \A i \in 0 .. sequenceBytes[s] - 1 :
    /\ InBounds(s, i)
    /\ Locate(s, i).valid
    /\ Locate(s, i).offset < writeOffset[Locate(s, i).page]
    /\ \A t \in SeqIds : \A j \in 0 .. sequenceBytes[t] - 1 :
         Locate(s, i) = Locate(t, j) => s = t /\ i = j

(* The preflight of append: while the loop runs, the pages that are still  *)
(* free and the rest of the tail page hold everything that is left to      *)
(* copy, so the throw for a missing page is never reached.                 *)
RoomReserved ==
  owner # NoSeq =>
    Len(left) <= TailFree(owner) + Cardinality(FreePages) * PageBytes

(* What an append that ends in bad_alloc leaves behind: nothing, if the    *)
(* preflight refused it.  Otherwise push_back threw, never the throw for a *)
(* missing page: the free pages would have held the rest.  Then exactly    *)
(* one page is gone, no byte of any sequence has changed, and the chunks   *)
(* that were copied fill the pages of their sequence to the last byte.     *)
FailedAppendBounded ==
  [][outcome' = "bad_alloc" /\ outcome # "bad_alloc" =>
       /\ UNCHANGED <<data, seqVars, held>>
       /\ IF owner = NoSeq THEN UNCHANGED <<allocated, writeOffset>>
          ELSE /\ Cardinality(FreePages') = Cardinality(FreePages) - 1
               /\ Len(left) <= Cardinality(FreePages) * PageBytes
               /\ sequenceBytes[owner] = Len(sequences[owner]) * PageBytes]_vars

(* What the comment of the preflight says ("so a failed append is atomic   *)
(* and does not leak pages or leave sequence_bytes_ partially advanced").  *)
FailedAppendAtomic ==
  [][outcome' = "bad_alloc" /\ outcome # "bad_alloc" =>
       UNCHANGED allocated /\ done = 0]_vars

(* append refuses a payload exactly when it does not fit: the page count   *)
(* computed by the preflight agrees with the bytes really available.       *)
PreflightExact ==
  owner = NoSeq =>
    \A s \in SeqIds, n \in 0 .. MaxAppend :
      NeededPages(s, n) <= Cardinality(FreePages)
        <=> n <= TailFree(s) + Cardinality(FreePages) * PageBytes

(* What read() returns outside a running append is the concatenation of    *)
(* the appends since the last release_sequence: all of a successful one,   *)
(* nothing of a refused one, the beginning of one that threw in push_back. *)
(* A running one has split its payload, in order, between the pages and    *)
(* what is left to copy.                                                   *)
Visible(s) == sequenceBytes[s] - (IF s = owner THEN done ELSE 0)

Store == INSTANCE SequenceStore WITH
           content <- [s \in SeqIds |-> Read(s, 0, Visible(s))],
           pending <- [seq  |-> owner,
                       data |-> IF owner = NoSeq THEN << >>
                                ELSE Read(owner, Visible(owner), done) \o left]

ImplementsStore == Store!Spec
=============================================================================
