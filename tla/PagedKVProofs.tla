--------------------------- MODULE PagedKVProofs ---------------------------
(***************************************************************************)
(* Proofs about gpuforge::PagedKV, for any number of pages, any page size, *)
(* any set of sequences and payloads of any length.                        *)
(* At the end, about gpuforge::KVCache, for any number of layers, tokens   *)
(* and tensors.                                                            *)
(***************************************************************************)
EXTENDS MCKVCaches, FiniteSetTheorems, SequenceTheorems, WellFoundedInduction, TLAPS

USE NumPagesAssumption, PageBytesAssumption, NoSeqAssumption, ByteAssumption,
    MaxAppendAssumption

(* The scan for a free page finds one whenever there is one.               *)
LEMMA FirstFreeIsFree ==
  ASSUME FreePages # {}
  PROVE  FirstFree \in Page /\ ~allocated[FirstFree]
<1> DEFINE R == {ss \in Nat \X Nat : ss[1] < ss[2]}
<1>0. IsWellFoundedOn(R, Nat)
  BY NatLessThanWellFounded DEF OpToRel
<1>1. FreePages \subseteq Nat
  BY DEF FreePages, Page
<1>2. \E x \in FreePages : \A y \in FreePages : ~(<<y, x>> \in R)
  BY <1>0, <1>1, WFMin
<1>3. PICK x \in FreePages : \A y \in FreePages : ~(<<y, x>> \in R)
  BY <1>2
<1>4. \A y \in FreePages : x <= y
  <2> TAKE y \in FreePages
  <2>1. x \in Nat /\ y \in Nat
    BY <1>1
  <2>2. ~(y < x)
    <3> SUFFICES ASSUME y < x PROVE <<y, x>> \in R
      BY <1>3
    <3> QED BY <2>1
  <2> QED BY <2>1, <2>2
<1>5. FirstFree \in FreePages
  BY <1>4 DEF FirstFree
<1> QED BY <1>5 DEF FreePages

-----------------------------------------------------------------------------
(* A page is a natural number and payloads are byte strings.               *)
LEMMA PayloadType == \A d \in Payloads : d \in Seq(Byte)
BY DEF Payloads

LEMMA PayloadLeft ==
  ASSUME left \in Seq(Byte), NEW c \in 0 .. Len(left)
  PROVE  /\ SubSeq(left, c + 1, Len(left)) \in Seq(Byte)
         /\ Len(SubSeq(left, c + 1, Len(left))) = Len(left) - c
<1>1. \A i \in c + 1 .. Len(left) : left[i] \in Byte
  BY ElementOfSeq
<1> QED BY <1>1, SubSeqProperties, LenProperties

(* What one iteration of append's loop copies: at least one byte, at most  *)
(* what is left, and never past the end of the page.                       *)
LEMMA ChunkBounds ==
  ASSUME left \in Seq(Byte), left # << >>, NEW offset \in 0 .. PageBytes - 1
  PROVE  /\ ChunkSize(offset) \in 1 .. Len(left)
         /\ offset + ChunkSize(offset) \in 1 .. PageBytes
<1>1. Len(left) \in Nat \ {0}
  BY EmptySeq
<1> QED BY <1>1 DEF ChunkSize

LEMMA LastIsPage ==
  ASSUME TypeOK, NEW s \in SeqIds, sequences[s] # << >>
  PROVE  /\ Len(sequences[s]) \in Nat \ {0}
         /\ Last(sequences[s]) \in Page
<1>1. sequences[s] \in Seq(Page)
  BY DEF TypeOK
<1>2. Len(sequences[s]) \in Nat \ {0}
  BY <1>1, EmptySeq
<1> QED BY <1>1, <1>2, ElementOfSeq DEF Last

-----------------------------------------------------------------------------
(* One iteration of the loop writes into a page with room, so it keeps     *)
(* every type, write_offset <= page_bytes_ included.                       *)
LEMMA CopyChunkTypes ==
  ASSUME TypeOK, owner \in SeqIds, left # << >>,
         NEW id \in Page, NEW offset \in 0 .. PageBytes - 1,
         CopyChunk(owner, id, offset, ChunkSize(offset))
  PROVE  /\ allocated'     \in [Page -> BOOLEAN]
         /\ writeOffset'   \in [Page -> 0 .. PageBytes]
         /\ data'          \in [Page -> [Offset -> Byte]]
         /\ sequenceBytes' \in [SeqIds -> Nat]
         /\ left'          \in Seq(Byte)
         /\ done'          \in Nat
<1> DEFINE c == ChunkSize(offset)
<1>1. left \in Seq(Byte) /\ c \in 1 .. Len(left) /\ offset + c \in 0 .. PageBytes
  BY ChunkBounds DEF TypeOK
<1> HIDE DEF c
<1>2. Len(left) \in Nat /\ c \in Nat
  BY <1>1, LenProperties
<1>3. allocated' \in [Page -> BOOLEAN]
  BY DEF TypeOK, CopyChunk
<1>4. writeOffset' \in [Page -> 0 .. PageBytes]
  BY <1>1 DEF TypeOK, CopyChunk, c
<1>5. data' \in [Page -> [Offset -> Byte]]
  <2>1. \A k \in Offset : k >= offset /\ k < offset + c => left[k - offset + 1] \in Byte
    BY <1>1, <1>2, ElementOfSeq DEF Offset
  <2>2. [k \in Offset |-> IF k >= offset /\ k < offset + c
                          THEN left[k - offset + 1]
                          ELSE data[id][k]] \in [Offset -> Byte]
    BY <2>1 DEF TypeOK
  <2> QED BY <2>2 DEF TypeOK, CopyChunk, c
<1>6. sequenceBytes' \in [SeqIds -> Nat]
  BY <1>2 DEF TypeOK, CopyChunk, c
<1>7. left' \in Seq(Byte)
  BY <1>1, <1>2, PayloadLeft DEF CopyChunk, c
<1>8. done' \in Nat
  BY <1>2 DEF TypeOK, CopyChunk, c
<1> QED BY <1>3, <1>4, <1>5, <1>6, <1>7, <1>8

LEMMA TypeOKInductive == TypeOK /\ [Next]_vars => TypeOK'
<1> SUFFICES ASSUME TypeOK, [Next]_vars PROVE TypeOK'
  OBVIOUS
<1>1. CASE Acquire
  BY <1>1, FirstFreeIsFree DEF TypeOK, Acquire, seqVars, appendVars
<1>2. ASSUME NEW p \in Page, Release(p) PROVE TypeOK'
  BY <1>2 DEF TypeOK, Release, seqVars, appendVars
<1>3. ASSUME NEW s \in SeqIds, ReleaseSequence(s) PROVE TypeOK'
  BY <1>3, EmptySeq DEF TypeOK, ReleaseSequence, appendVars
<1>4. ASSUME NEW s \in SeqIds, NEW d \in Payloads, AppendBegin(s, d) PROVE TypeOK'
  BY <1>4, PayloadType DEF TypeOK, AppendBegin, pageVars, seqVars, appendVars
<1>5. CASE AppendChunk
  <2> USE <1>5
  <2>1. owner \in SeqIds /\ left # << >> /\ held' = held /\ lost' = lost
    BY DEF TypeOK, AppendChunk
  <2>2. CASE ~NeedsPage(owner)
    <3> DEFINE id == Last(sequences[owner])
    <3>1. sequences[owner] # << >> /\ id \in Page /\ writeOffset[id] \in 0 .. PageBytes - 1
      BY <2>1, <2>2, LastIsPage DEF NeedsPage, TypeOK
    <3>2. CopyChunk(owner, id, writeOffset[id], ChunkSize(writeOffset[id]))
          /\ sequences' = sequences
      BY <2>2 DEF AppendChunk
    <3> HIDE DEF id
    <3> QED BY <2>1, <3>1, <3>2, CopyChunkTypes DEF TypeOK, CopyChunk
  <2>3. CASE NeedsPage(owner) /\ FreePages # {}
    <3>1. CopyChunk(owner, FirstFree, 0, ChunkSize(0))
          /\ sequences' = [sequences EXCEPT ![owner] = Append(@, FirstFree)]
      BY <2>3 DEF AppendChunk
    <3>2. sequences' \in [SeqIds -> Seq(Page)]
      BY <2>1, <2>3, <3>1, FirstFreeIsFree, AppendProperties DEF TypeOK
    <3>3. FirstFree \in Page /\ 0 \in 0 .. PageBytes - 1
      BY <2>3, FirstFreeIsFree
    <3>4. owner' = owner /\ outcome' = outcome
      BY <3>1 DEF CopyChunk
    <3> QED BY <2>1, <3>1, <3>2, <3>3, <3>4, CopyChunkTypes DEF TypeOK
  <2>4. CASE NeedsPage(owner) /\ FreePages = {}
    BY <2>4, EmptySeq DEF TypeOK, AppendChunk, pageVars, seqVars
  <2> QED BY <2>2, <2>3, <2>4
<1>6. CASE AppendReturn
  BY <1>6 DEF TypeOK, AppendReturn, pageVars, seqVars
<1>8. CASE AppendThrow
  BY <1>8, FirstFreeIsFree, EmptySeq DEF TypeOK, AppendThrow, seqVars
<1>7. CASE UNCHANGED vars
  BY <1>7 DEF TypeOK, vars
<1> QED BY <1>1, <1>2, <1>3, <1>4, <1>5, <1>6, <1>7, <1>8 DEF Next

(* Every behaviour of PagedKV is well typed: in particular write_offset    *)
(* never passes page_bytes_, so memcpy in append stays inside the page.    *)
THEOREM TypeCorrect == Spec => []TypeOK
<1>1. Init => TypeOK
  BY EmptySeq DEF Init, TypeOK, Offset
<1> QED BY <1>1, TypeOKInductive, PTL DEF Spec

-----------------------------------------------------------------------------
(* When the tail has no room and a page is free, the loop takes a page     *)
(* nobody owns and puts it behind the sequence.                            *)
LEMMA NewPageShape ==
  ASSUME TypeOK, PagesExclusive, owner \in SeqIds, FreePages # {},
         sequences' = [sequences EXCEPT ![owner] = Append(@, FirstFree)]
  PROVE  /\ FirstFree \in Page /\ FirstFree \notin held \cup lost
         /\ \A s \in SeqIds : \A i \in Index(s) : sequences[s][i] # FirstFree
         /\ Len(sequences'[owner]) = Len(sequences[owner]) + 1
         /\ sequences'[owner][Len(sequences[owner]) + 1] = FirstFree
         /\ \A i \in Index(owner) : sequences'[owner][i] = sequences[owner][i]
         /\ \A s \in SeqIds \ {owner} : sequences'[s] = sequences[s]
         /\ \A s \in SeqIds : Len(sequences[s]) \in Nat
<1>1. FirstFree \in Page /\ ~allocated[FirstFree]
  BY FirstFreeIsFree
<1>2. FirstFree \notin held \cup lost /\ \A s \in SeqIds : \A i \in Index(s) : sequences[s][i] # FirstFree
  BY <1>1 DEF PagesExclusive, SequencePagesOwned
<1>3. sequences'[owner] = Append(sequences[owner], FirstFree) /\ sequences[owner] \in Seq(Page)
  BY DEF TypeOK
<1>4. \A s \in SeqIds \ {owner} : sequences'[s] = sequences[s]
  BY DEF TypeOK
<1>5. \A s \in SeqIds : Len(sequences[s]) \in Nat
  BY LenProperties DEF TypeOK
<1> QED BY <1>1, <1>2, <1>3, <1>4, <1>5, AppendProperties DEF Index

LEMMA PagesExclusiveInductive ==
  TypeOK /\ PagesExclusive /\ [Next]_vars => PagesExclusive'
<1> SUFFICES ASSUME TypeOK, PagesExclusive, [Next]_vars PROVE PagesExclusive'
  OBVIOUS
<1>0. \A s \in SeqIds : \A i \in Index(s) : sequences[s][i] \in Page
  BY ElementOfSeq DEF TypeOK, Index
<1> USE DEF PagesExclusive, NoSharedPage, SequencePagesOwned, PagesAccounted, Index
<1>1. CASE Acquire
  <2>1. FirstFree \in Page /\ ~allocated[FirstFree] /\ FirstFree \notin held \cup lost
    BY <1>1, FirstFreeIsFree DEF Acquire
  <2> QED BY <1>0, <1>1, <2>1 DEF TypeOK, Acquire, seqVars
<1>2. ASSUME NEW p \in Page, Release(p) PROVE PagesExclusive'
  BY <1>0, <1>2 DEF TypeOK, Release, seqVars
<1>3. ASSUME NEW s \in SeqIds, ReleaseSequence(s) PROVE PagesExclusive'
  <2>1. Len(sequences'[s]) = 0 /\ \A t \in SeqIds \ {s} : sequences'[t] = sequences[t]
    BY <1>3, EmptySeq DEF TypeOK, ReleaseSequence
  <2>2. held' = held /\ lost' = lost /\ \A p \in Page : allocated'[p] <=> allocated[p] /\ p \notin PagesOf(s)
    BY <1>3 DEF ReleaseSequence
  <2>3. NoSharedPage'
    BY <2>1
  <2>4. \A t \in SeqIds \ {s} : \A i \in Index(t) : sequences[t][i] \notin PagesOf(s)
    BY DEF PagesOf
  <2>5. SequencePagesOwned'
    BY <1>0, <2>1, <2>2, <2>4
  <2>6. PagesAccounted'
    <3> SUFFICES ASSUME NEW p \in Page, allocated'[p], p \notin held \cup lost
                 PROVE  \E t \in SeqIds : \E i \in Index(t)' : sequences'[t][i] = p
      BY <2>2
    <3>1. PICK t \in SeqIds : \E i \in Index(t) : sequences[t][i] = p
      BY <2>2
    <3>2. t # s
      BY <3>1, <2>2 DEF PagesOf
    <3> QED BY <2>1, <3>1, <3>2
  <2>7. \A p \in held \cup lost : p \notin PagesOf(s)
    BY DEF PagesOf
  <2> QED BY <2>2, <2>3, <2>5, <2>6, <2>7 DEF TypeOK
<1>4. ASSUME NEW s \in SeqIds, NEW d \in Payloads, AppendBegin(s, d) PROVE PagesExclusive'
  BY <1>4 DEF AppendBegin, pageVars, seqVars
<1>5. CASE AppendChunk
  <2>1. owner \in SeqIds /\ held' = held /\ lost' = lost
    BY <1>5 DEF TypeOK, AppendChunk
  <2>2. CASE ~NeedsPage(owner)
    <3> DEFINE id == Last(sequences[owner])
    <3>1. sequences' = sequences /\ allocated' = [allocated EXCEPT ![id] = TRUE]
      BY <1>5, <2>2 DEF AppendChunk, CopyChunk
    <3>2. id \in Page /\ allocated[id]
      BY <2>1, <2>2, LastIsPage DEF NeedsPage, Last
    <3>3. allocated' = allocated
      BY <3>1, <3>2 DEF TypeOK
    <3> QED BY <2>1, <3>1, <3>3
  <2>3. CASE NeedsPage(owner) /\ FreePages # {}
    <3>1. sequences' = [sequences EXCEPT ![owner] = Append(@, FirstFree)]
          /\ allocated' = [allocated EXCEPT ![FirstFree] = TRUE]
      BY <1>5, <2>3 DEF AppendChunk, CopyChunk
    <3> DEFINE n == Len(sequences[owner])
    <3>2. /\ FirstFree \in Page /\ FirstFree \notin held \cup lost
          /\ \A s \in SeqIds : \A i \in Index(s) : sequences[s][i] # FirstFree
          /\ Len(sequences'[owner]) = n + 1
          /\ sequences'[owner][n + 1] = FirstFree
          /\ \A i \in 1 .. n : sequences'[owner][i] = sequences[owner][i]
          /\ \A s \in SeqIds \ {owner} : sequences'[s] = sequences[s]
          /\ n \in Nat
      BY <2>1, <2>3, <3>1, NewPageShape
    <3> HIDE DEF n
    <3>3. \A s \in SeqIds : \A i \in Index(s)' :
            \/ s = owner /\ i = n + 1 /\ sequences'[s][i] = FirstFree
            \/ i \in Index(s) /\ sequences'[s][i] = sequences[s][i]
      <4> SUFFICES ASSUME NEW s \in SeqIds, NEW i \in Index(s)'
                   PROVE  \/ s = owner /\ i = n + 1 /\ sequences'[s][i] = FirstFree
                          \/ i \in Index(s) /\ sequences'[s][i] = sequences[s][i]
        OBVIOUS
      <4>1. CASE s = owner
        <5>1. i \in 1 .. n + 1
          BY <3>2, <4>1
        <5>2. i = n + 1 \/ i \in 1 .. n
          BY <3>2, <5>1
        <5> QED BY <3>2, <4>1, <5>2 DEF n
      <4>2. CASE s # owner
        BY <3>2, <4>2
      <4> QED BY <4>1, <4>2
    <3>4. NoSharedPage'
      BY <3>2, <3>3
    <3>5. SequencePagesOwned'
      BY SMTT(30), <1>0, <2>1, <3>1, <3>2, <3>3 DEF TypeOK
    <3>6. PagesAccounted'
      <4>1. \A s \in SeqIds : \A i \in Index(s) : i \in Index(s)' /\ sequences'[s][i] = sequences[s][i]
        BY <3>2 DEF n
      <4>2. n + 1 \in 1 .. Len(sequences'[owner])
        BY <3>2
      <4>3. ASSUME NEW p \in Page, allocated'[p], p \notin held \cup lost
            PROVE  \E s \in SeqIds : \E i \in Index(s)' : sequences'[s][i] = p
        <5>1. CASE p = FirstFree
          BY <2>1, <3>2, <4>2, <5>1
        <5>2. CASE p # FirstFree
          <6>1. allocated[p]
            BY <3>1, <4>3, <5>2 DEF TypeOK
          <6>2. PICK s \in SeqIds : \E i \in Index(s) : sequences[s][i] = p
            BY <4>3, <6>1
          <6> QED BY <4>1, <6>2
        <5> QED BY <5>1, <5>2
      <4> QED BY <2>1, <4>3
    <3>7. \A p \in held' \cup lost' : allocated'[p]
      BY <2>1, <3>1, <3>2 DEF TypeOK
    <3> QED BY <2>1, <3>4, <3>5, <3>6, <3>7
  <2>4. CASE NeedsPage(owner) /\ FreePages = {}
    BY <1>5, <2>1, <2>4 DEF AppendChunk, pageVars, seqVars
  <2> QED BY <2>2, <2>3, <2>4
<1>6. CASE AppendReturn
  BY <1>6 DEF AppendReturn, pageVars, seqVars
<1>8. CASE AppendThrow
  <2>1. FirstFree \in Page /\ ~allocated[FirstFree] /\ FirstFree \notin held \cup lost
    BY <1>8, FirstFreeIsFree DEF AppendThrow
  <2>2. /\ sequences' = sequences /\ held' = held /\ lost' = lost \cup {FirstFree}
        /\ allocated' = [allocated EXCEPT ![FirstFree] = TRUE]
    BY <1>8 DEF AppendThrow, seqVars
  <2> QED BY <1>0, <2>1, <2>2 DEF TypeOK
<1>7. CASE UNCHANGED vars
  BY <1>7 DEF vars
<1> QED BY <1>1, <1>2, <1>3, <1>4, <1>5, <1>6, <1>7, <1>8 DEF Next

(* No page ever has two owners, whatever the interleaving of acquire,      *)
(* release, append and release_sequence calls, and only an append that     *)
(* throws in push_back loses one.                                          *)
THEOREM Exclusive == Spec => []PagesExclusive
<1>1. Init => PagesExclusive
  BY EmptySeq DEF Init, PagesExclusive, NoSharedPage, SequencePagesOwned, PagesAccounted, Index
<1> QED BY <1>1, TypeCorrect, PagesExclusiveInductive, PTL DEF Spec

-----------------------------------------------------------------------------
(* A sequence none of whose pages is written keeps its layout.             *)
LEMMA LayoutFrame ==
  ASSUME TypeOK, NEW s \in SeqIds, LayoutOf(s),
         sequences'[s] = sequences[s], sequenceBytes'[s] = sequenceBytes[s],
         \A i \in Index(s) : writeOffset'[sequences[s][i]] = writeOffset[sequences[s][i]]
  PROVE  LayoutOf(s)'
<1>1. Len(sequences[s]) \in Nat
  BY LenProperties DEF TypeOK
<1> QED BY SMTT(30), <1>1 DEF LayoutOf, Index

LEMMA LayoutInductive ==
  TypeOK /\ PagesExclusive /\ SequenceLayout /\ [Next]_vars => SequenceLayout'
<1> SUFFICES ASSUME TypeOK, PagesExclusive, SequenceLayout, [Next]_vars,
                    NEW t \in SeqIds
             PROVE  LayoutOf(t)'
  BY DEF SequenceLayout
<1>0. /\ LayoutOf(t)
      /\ \A s \in SeqIds : \A i \in Index(s) : sequences[s][i] \in Page
      /\ Len(sequences[t]) \in Nat
  BY ElementOfSeq, LenProperties DEF TypeOK, Index, SequenceLayout
<1>1. CASE Acquire
  <2>1. FirstFree \in Page /\ ~allocated[FirstFree]
    BY <1>1, FirstFreeIsFree DEF Acquire
  <2>2. \A i \in Index(t) : sequences[t][i] # FirstFree
    BY <2>1 DEF PagesExclusive, SequencePagesOwned
  <2> QED BY <1>0, <1>1, <2>1, <2>2, LayoutFrame DEF TypeOK, Acquire, seqVars
<1>2. ASSUME NEW p \in Page, Release(p) PROVE LayoutOf(t)'
  <2>1. \A i \in Index(t) : sequences[t][i] # p
    BY <1>2 DEF Release, PagesExclusive, SequencePagesOwned
  <2> QED BY <1>0, <1>2, <2>1, LayoutFrame DEF TypeOK, Release, seqVars
<1>3. ASSUME NEW s \in SeqIds, ReleaseSequence(s) PROVE LayoutOf(t)'
  <2>1. CASE t = s
    <3>1. Len(sequences'[t]) = 0 /\ sequenceBytes'[t] = 0
      BY <1>3, <2>1, EmptySeq DEF TypeOK, ReleaseSequence
    <3> QED BY <3>1 DEF LayoutOf
  <2>2. CASE t # s
    <3>1. \A i \in Index(t) : sequences[t][i] \notin PagesOf(s)
      BY <2>2 DEF PagesExclusive, NoSharedPage, PagesOf, Index
    <3> QED BY <1>0, <1>3, <2>2, <3>1, LayoutFrame DEF TypeOK, ReleaseSequence
  <2> QED BY <2>1, <2>2
<1>4. ASSUME NEW s \in SeqIds, NEW d \in Payloads, AppendBegin(s, d) PROVE LayoutOf(t)'
  BY <1>0, <1>4, LayoutFrame DEF AppendBegin, pageVars, seqVars
<1>5. CASE AppendChunk
  <2>1. owner \in SeqIds /\ left # << >> /\ left \in Seq(Byte) /\ LayoutOf(owner)
        /\ sequences[owner] \in Seq(Page)
    BY <1>5 DEF TypeOK, AppendChunk, SequenceLayout
  <2> DEFINE n == Len(sequences[owner])
  <2>2. CASE ~NeedsPage(owner)
    <3> DEFINE id == sequences[owner][n]
               w  == writeOffset[id]
               c  == ChunkSize(w)
    <3>1. n \in Nat \ {0} /\ id \in Page /\ w \in 0 .. PageBytes - 1
      BY <2>1, <2>2, LastIsPage DEF NeedsPage, TypeOK, Last
    <3>2. c \in 1 .. Len(left) /\ w + c \in 1 .. PageBytes /\ Len(left) \in Nat
      BY <2>1, <3>1, ChunkBounds, LenProperties
    <3>3. /\ sequences' = sequences
          /\ writeOffset' = [writeOffset EXCEPT ![id] = w + c]
          /\ sequenceBytes' = [sequenceBytes EXCEPT ![owner] = @ + c]
      BY <1>5, <2>2 DEF AppendChunk, CopyChunk, Last
    <3>4. CASE t = owner
      <4>1. \A i \in 1 .. n - 1 : sequences[owner][i] # id
        BY <2>1, <3>1 DEF PagesExclusive, NoSharedPage, Index
      <4>2. writeOffset'[id] = w + c /\ sequenceBytes'[t] = sequenceBytes[t] + c
        BY <3>1, <3>3, <3>4 DEF TypeOK
      <4>3. sequenceBytes[t] = (n - 1) * PageBytes + w
        BY <1>0, <3>1, <3>4 DEF LayoutOf
      <4>4. (n - 1) * PageBytes \in Nat
        BY <3>1
      <4>5. sequenceBytes'[t] = (n - 1) * PageBytes + writeOffset'[id]
        BY <3>1, <3>2, <4>2, <4>3, <4>4
      <4>6. \A i \in 1 .. n - 1 : writeOffset'[sequences[t][i]] = PageBytes
        BY <1>0, <3>3, <3>4, <4>1 DEF LayoutOf, TypeOK, Index
      <4>7. Len(sequences'[t]) = n /\ sequences'[t] = sequences[t] /\ sequences'[t][n] = id
        BY <3>3, <3>4
      <4>8. writeOffset'[id] > 0
        BY <3>2, <4>2
      <4> HIDE DEF n, id, c, w
      <4> QED BY <3>1, <4>5, <4>6, <4>7, <4>8 DEF LayoutOf
    <3>5. CASE t # owner
      <4>1. \A i \in Index(t) : sequences[t][i] # id
        BY <2>1, <3>1, <3>5 DEF PagesExclusive, NoSharedPage, Index
      <4> QED BY <1>0, <2>1, <3>3, <3>5, <4>1, LayoutFrame DEF TypeOK
    <3> QED BY <3>4, <3>5
  <2>3. CASE NeedsPage(owner) /\ FreePages # {}
    <3> DEFINE c == ChunkSize(0)
    <3>1. /\ sequences' = [sequences EXCEPT ![owner] = Append(@, FirstFree)]
          /\ writeOffset' = [writeOffset EXCEPT ![FirstFree] = 0 + c]
          /\ sequenceBytes' = [sequenceBytes EXCEPT ![owner] = @ + c]
      BY <1>5, <2>3 DEF AppendChunk, CopyChunk
    <3>2. c \in 1 .. Len(left) /\ 0 + c \in 1 .. PageBytes /\ Len(left) \in Nat
      BY <2>1, ChunkBounds, LenProperties
    <3>3. /\ FirstFree \in Page
          /\ \A s \in SeqIds : \A i \in Index(s) : sequences[s][i] # FirstFree
          /\ Len(sequences'[owner]) = n + 1
          /\ sequences'[owner][n + 1] = FirstFree
          /\ \A i \in 1 .. n : sequences'[owner][i] = sequences[owner][i]
          /\ \A s \in SeqIds \ {owner} : sequences'[s] = sequences[s]
          /\ n \in Nat
      BY <2>1, <2>3, <3>1, NewPageShape DEF Index
    <3> HIDE DEF c
    <3>4. CASE t = owner
      <4>1. \A i \in 1 .. n : writeOffset[sequences[owner][i]] = PageBytes
        <5>1. CASE n = 0
          BY <5>1
        <5>2. CASE n # 0
          <6>1. sequences[owner] # << >>
            BY <5>2, EmptySeq
          <6>2. writeOffset[sequences[owner][n]] = PageBytes
            BY <2>1, <2>3, <6>1, LastIsPage DEF NeedsPage, Last, TypeOK
          <6> QED BY <1>0, <3>3, <3>4, <6>2 DEF LayoutOf
        <5> QED BY <5>1, <5>2
      <4>2. sequenceBytes[t] = n * PageBytes
        <5>1. CASE n = 0
          BY <1>0, <3>4, <5>1 DEF LayoutOf
        <5>2. CASE n # 0
          BY <1>0, <3>3, <3>4, <4>1, <5>2 DEF LayoutOf
        <5> QED BY <5>1, <5>2
      <4>3. \A i \in 1 .. n : writeOffset'[sequences'[t][i]] = PageBytes
        BY <1>0, <3>1, <3>3, <3>4, <4>1 DEF TypeOK, Index
      <4>4. writeOffset'[FirstFree] = c /\ c > 0
        BY <3>1, <3>2, <3>3 DEF TypeOK
      <4>5. sequenceBytes'[t] = n * PageBytes + c
        BY <3>1, <3>2, <3>4, <4>2 DEF TypeOK
      <4>6. (n + 1) - 1 = n /\ n + 1 # 0
        BY <3>3
      <4> QED BY <3>3, <3>4, <4>3, <4>4, <4>5, <4>6 DEF LayoutOf
    <3>5. CASE t # owner
      BY <1>0, <2>1, <3>1, <3>3, <3>5, LayoutFrame DEF TypeOK
    <3> QED BY <3>4, <3>5
  <2>4. CASE NeedsPage(owner) /\ FreePages = {}
    BY <1>0, <1>5, <2>4, LayoutFrame DEF AppendChunk, pageVars, seqVars
  <2> QED BY <2>2, <2>3, <2>4
<1>6. CASE AppendReturn
  BY <1>0, <1>6, LayoutFrame DEF AppendReturn, pageVars, seqVars
<1>8. CASE AppendThrow
  <2>1. FirstFree \in Page /\ ~allocated[FirstFree]
    BY <1>8, FirstFreeIsFree DEF AppendThrow
  <2>2. \A i \in Index(t) : sequences[t][i] # FirstFree
    BY <2>1 DEF PagesExclusive, SequencePagesOwned
  <2> QED BY <1>0, <1>8, <2>1, <2>2, LayoutFrame DEF TypeOK, AppendThrow, seqVars
<1>7. CASE UNCHANGED vars
  BY <1>0, <1>7, LayoutFrame DEF vars
<1> QED BY <1>1, <1>2, <1>3, <1>4, <1>5, <1>6, <1>7, <1>8 DEF Next

(* bytes(s) is what the page table of s can hold, at every moment, even    *)
(* between two iterations of append's loop.                                *)
THEOREM LayoutCorrect == Spec => []SequenceLayout
<1>1. Init => SequenceLayout
  BY EmptySeq DEF Init, SequenceLayout, LayoutOf
<1> QED BY <1>1, TypeCorrect, Exclusive, LayoutInductive, PTL DEF Spec

-----------------------------------------------------------------------------
(* Rounding up a byte count to pages: the pages suffice exactly when the   *)
(* bytes fit.                                                              *)
LEMMA CeilFits ==
  ASSUME NEW m \in Nat \ {0}, NEW k \in Nat
  PROVE  (m + PageBytes - 1) \div PageBytes <= k <=> m <= k * PageBytes
<1> DEFINE a == m + PageBytes - 1
           q == a \div PageBytes
           r == a % PageBytes
<1>1. a \in Nat /\ q \in Nat /\ r \in 0 .. PageBytes - 1 /\ a = q * PageBytes + r
  BY Z3
<1> HIDE DEF q, r
<1>2. ASSUME q <= k PROVE m <= k * PageBytes
  <2>1. q * PageBytes <= k * PageBytes
    BY <1>1, <1>2
  <2>2. k * PageBytes \in Nat /\ q * PageBytes \in Nat
    BY <1>1
  <2> QED BY <1>1, <2>1, <2>2
<1>3. ASSUME q > k PROVE m > k * PageBytes
  <2>1. q * PageBytes >= (k + 1) * PageBytes
    BY <1>1, <1>3
  <2>2. (k + 1) * PageBytes = k * PageBytes + PageBytes
    OBVIOUS
  <2>3. k * PageBytes \in Nat /\ q * PageBytes \in Nat
    BY <1>1
  <2> QED BY <1>1, <2>1, <2>2, <2>3
<1>4. q \in Nat /\ m \in Nat /\ k * PageBytes \in Nat
  BY <1>1
<1>5. q <= k <=> m <= k * PageBytes
  BY <1>2, <1>3, <1>4
<1> QED BY <1>5 DEF q

LEMMA TailFreeType ==
  ASSUME TypeOK, NEW s \in SeqIds
  PROVE  TailFree(s) \in Nat
<1>1. CASE sequences[s] = << >>
  BY <1>1 DEF TailFree
<1>2. CASE sequences[s] # << >>
  BY <1>2, LastIsPage DEF TailFree, TypeOK
<1> QED BY <1>1, <1>2

LEMMA FreePagesFinite ==
  IsFiniteSet(FreePages) /\ Cardinality(FreePages) \in Nat
<1>1. IsFiniteSet(Page)
  BY FS_Interval DEF Page
<1>2. FreePages \in SUBSET Page
  BY DEF FreePages
<1> QED BY <1>1, <1>2, FS_Subset, FS_CardinalityType

(* The preflight's page count decides exactly whether the bytes fit.       *)
LEMMA NeededPagesExact ==
  ASSUME TypeOK, NEW s \in SeqIds, NEW n \in Nat
  PROVE  NeededPages(s, n) <= Cardinality(FreePages)
           <=> n <= TailFree(s) + Cardinality(FreePages) * PageBytes
<1> DEFINE f == Cardinality(FreePages)
           w == TailFree(s)
<1>1. f \in Nat /\ w \in Nat /\ f * PageBytes \in Nat
  BY FreePagesFinite, TailFreeType
<1> HIDE DEF f, w
<1>2. CASE n <= w
  BY <1>1, <1>2 DEF NeededPages, f, w
<1>3. CASE n > w
  <2>1. n - w \in Nat \ {0}
    BY <1>1, <1>3
  <2>2. NeededPages(s, n) = ((n - w) + PageBytes - 1) \div PageBytes
    BY <1>1, <1>3 DEF NeededPages, w
  <2>3. NeededPages(s, n) <= f <=> n - w <= f * PageBytes
    BY <1>1, <2>1, <2>2, CeilFits
  <2> QED BY <1>1, <2>3 DEF f, w
<1> QED BY <1>1, <1>2, <1>3

(* A refused append would not have fitted, and an accepted one fits.       *)
THEOREM PreflightCorrect == Spec => []PreflightExact
<1>1. TypeOK => PreflightExact
  BY NeededPagesExact DEF PreflightExact
<1> QED BY <1>1, TypeCorrect, PTL

LEMMA RoomInductive ==
  TypeOK /\ PagesExclusive /\ RoomReserved /\ [Next]_vars => RoomReserved'
<1> SUFFICES ASSUME TypeOK, PagesExclusive, RoomReserved, [Next]_vars,
                    owner' # NoSeq
             PROVE  Len(left') <= TailFree(owner)' + Cardinality(FreePages)' * PageBytes
  BY DEF RoomReserved
<1>1. CASE Acquire
  BY <1>1 DEF Acquire, appendVars
<1>2. ASSUME NEW p \in Page, Release(p) PROVE FALSE
  BY <1>2 DEF Release, appendVars
<1>3. ASSUME NEW s \in SeqIds, ReleaseSequence(s) PROVE FALSE
  BY <1>3 DEF ReleaseSequence, appendVars
<1>4. ASSUME NEW s \in SeqIds, NEW d \in Payloads, AppendBegin(s, d)
      PROVE  Len(left') <= TailFree(owner)' + Cardinality(FreePages)' * PageBytes
  <2>1. d \in Seq(Byte) /\ Len(d) \in Nat
    BY PayloadType, LenProperties
  <2>2. /\ NeededPages(s, Len(d)) <= Cardinality(FreePages)
        /\ owner' = s /\ left' = d
    <3>1. ~(NeededPages(s, Len(d)) > Cardinality(FreePages))
      BY <1>4 DEF AppendBegin, appendVars
    <3>2. NeededPages(s, Len(d)) \in Int
      BY <2>1, TailFreeType DEF NeededPages
    <3> QED BY <1>4, <3>1, <3>2, FreePagesFinite DEF AppendBegin
  <2>3. TailFree(owner)' = TailFree(s) /\ FreePages' = FreePages
    BY <1>4, <2>2 DEF AppendBegin, TailFree, FreePages, pageVars, seqVars
  <2> QED BY <2>1, <2>2, <2>3, NeededPagesExact
<1>5. CASE AppendChunk
  <2>1. /\ owner \in SeqIds /\ left # << >> /\ left \in Seq(Byte) /\ Len(left) \in Nat
        /\ sequences[owner] \in Seq(Page)
        /\ Len(left) <= TailFree(owner) + Cardinality(FreePages) * PageBytes
    BY <1>5, LenProperties DEF TypeOK, AppendChunk, RoomReserved
  <2> DEFINE f == Cardinality(FreePages)
  <2>2. f \in Nat /\ f * PageBytes \in Nat /\ IsFiniteSet(FreePages)
    BY FreePagesFinite
  <2>3. CASE ~NeedsPage(owner)
    <3> DEFINE id == Last(sequences[owner])
               w  == writeOffset[id]
               c  == ChunkSize(w)
    <3>1. sequences[owner] # << >> /\ id \in Page /\ w \in 0 .. PageBytes - 1
      BY <2>1, <2>3, LastIsPage DEF NeedsPage, TypeOK
    <3>2. c \in 1 .. Len(left) /\ w + c \in 1 .. PageBytes
      BY <2>1, <3>1, ChunkBounds
    <3>3. /\ sequences' = sequences /\ owner' = owner
          /\ writeOffset' = [writeOffset EXCEPT ![id] = w + c]
          /\ allocated' = [allocated EXCEPT ![id] = TRUE]
          /\ left' = SubSeq(left, c + 1, Len(left))
      BY <1>5, <2>3 DEF AppendChunk, CopyChunk
    <3>4. allocated' = allocated
      <4>1. allocated[id]
        BY <2>1, <3>1, LastIsPage DEF PagesExclusive, SequencePagesOwned, Index, Last
      <4> QED BY <3>1, <3>3, <4>1 DEF TypeOK
    <3>5. FreePages' = FreePages
      BY <3>4 DEF FreePages
    <3>6. Len(left') = Len(left) - c
      BY <2>1, <3>2, <3>3, PayloadLeft
    <3>7. TailFree(owner) = PageBytes - w
      BY <3>1 DEF TailFree
    <3>8. TailFree(owner)' = PageBytes - (w + c)
      BY <3>1, <3>2, <3>3 DEF TailFree, TypeOK
    <3>9. Cardinality(FreePages)' = f
      BY <3>5
    <3> HIDE DEF c, w, f, id
    <3> DEFINE room == f * PageBytes
    <3>10. Len(left) <= (PageBytes - w) + room /\ room \in Nat
      BY <2>1, <2>2, <3>7 DEF f
    <3>11. Cardinality(FreePages)' * PageBytes = room
      BY <3>9
    <3> HIDE DEF room
    <3>12. Len(left) - c <= (PageBytes - (w + c)) + room
      BY <2>1, <3>1, <3>2, <3>10
    <3> QED BY <3>6, <3>8, <3>11, <3>12
  <2>4. CASE NeedsPage(owner) /\ FreePages # {}
    <3> DEFINE c == ChunkSize(0)
    <3>1. /\ sequences' = [sequences EXCEPT ![owner] = Append(@, FirstFree)]
          /\ owner' = owner
          /\ writeOffset' = [writeOffset EXCEPT ![FirstFree] = 0 + c]
          /\ allocated' = [allocated EXCEPT ![FirstFree] = TRUE]
          /\ left' = SubSeq(left, c + 1, Len(left))
      BY <1>5, <2>4 DEF AppendChunk, CopyChunk
    <3>2. c \in 1 .. Len(left) /\ c \in 1 .. PageBytes
      BY <2>1, ChunkBounds
    <3>3. FirstFree \in Page /\ ~allocated[FirstFree]
      BY <2>4, FirstFreeIsFree
    <3>4. Cardinality(FreePages') = f - 1
      <4>1. FreePages' = FreePages \ {FirstFree}
        BY <3>1, <3>3 DEF FreePages, TypeOK
      <4>2. FirstFree \in FreePages
        BY <3>3 DEF FreePages
      <4> QED BY <2>2, <4>1, <4>2, FS_RemoveElement
    <3>5. Len(left') = Len(left) - c
      BY <2>1, <3>1, <3>2, PayloadLeft
    <3>6. TailFree(owner) = 0
      <4>1. CASE sequences[owner] = << >>
        BY <4>1 DEF TailFree
      <4>2. CASE sequences[owner] # << >>
        BY <2>1, <2>4, <4>2, LastIsPage DEF TailFree, NeedsPage, TypeOK
      <4> QED BY <4>1, <4>2
    <3>7. TailFree(owner)' = PageBytes - c
      <4>1. Last(sequences'[owner]) = FirstFree /\ sequences'[owner] # << >>
        <5>1. sequences'[owner] = Append(sequences[owner], FirstFree)
          BY <2>1, <3>1 DEF TypeOK
        <5> QED BY <2>1, <3>3, <5>1, AppendProperties DEF Last
      <4>2. writeOffset'[FirstFree] = c
        BY <3>1, <3>2, <3>3 DEF TypeOK
      <4> HIDE DEF c
      <4> QED BY <3>1, <3>2, <4>1, <4>2 DEF TailFree
    <3>8. (f - 1) * PageBytes = f * PageBytes - PageBytes
      BY <2>2
    <3> HIDE DEF c, f
    <3> DEFINE room == f * PageBytes
    <3>9. Len(left) <= room /\ room \in Nat
      BY <2>1, <2>2, <3>6 DEF f
    <3>10. Cardinality(FreePages)' * PageBytes = room - PageBytes
      BY <3>4, <3>8
    <3> HIDE DEF room
    <3>11. Len(left) - c <= (PageBytes - c) + (room - PageBytes)
      BY <2>1, <3>2, <3>9
    <3> QED BY <3>5, <3>7, <3>10, <3>11
  <2>5. CASE NeedsPage(owner) /\ FreePages = {}
    BY <1>5, <2>5 DEF AppendChunk
  <2> QED BY <2>3, <2>4, <2>5
<1>6. CASE AppendReturn \/ AppendThrow
  BY <1>6 DEF AppendReturn, AppendThrow
<1>7. CASE UNCHANGED vars
  BY <1>7 DEF vars, RoomReserved, TailFree, FreePages
<1> QED BY <1>1, <1>2, <1>3, <1>4, <1>5, <1>6, <1>7 DEF Next

(* What the preflight counted stays available until the loop has copied    *)
(* the last byte.                                                          *)
THEOREM RoomCorrect == Spec => []RoomReserved
<1>1. Init => RoomReserved
  BY DEF Init, RoomReserved
<1> QED BY <1>1, TypeCorrect, Exclusive, RoomInductive, PTL DEF Spec

(* The loop asks for a page only when the sequence fills its own.          *)
LEMMA FullPages ==
  ASSUME TypeOK, SequenceLayout, owner \in SeqIds, NeedsPage(owner)
  PROVE  /\ TailFree(owner) = 0
         /\ sequenceBytes[owner] = Len(sequences[owner]) * PageBytes
<1> DEFINE n == Len(sequences[owner])
<1>1. LayoutOf(owner)
  BY DEF SequenceLayout
<1>2. CASE sequences[owner] = << >>
  <2>1. n = 0
    BY <1>2, EmptySeq
  <2> QED BY <1>1, <1>2, <2>1 DEF TailFree, LayoutOf
<1>3. CASE sequences[owner] # << >>
  <2>1. n \in Nat \ {0} /\ writeOffset[Last(sequences[owner])] = PageBytes
    BY <1>3, LastIsPage DEF NeedsPage, TypeOK
  <2>2. sequenceBytes[owner] = (n - 1) * PageBytes + PageBytes
    BY <1>1, <2>1 DEF LayoutOf, Last
  <2>3. (n - 1) * PageBytes = n * PageBytes - PageBytes /\ n * PageBytes \in Nat
    BY <2>1
  <2>4. sequenceBytes[owner] = n * PageBytes
    BY <2>2, <2>3
  <2>5. TailFree(owner) = 0
    BY <1>3, <2>1 DEF TailFree
  <2> QED BY <2>4, <2>5
<1> QED BY <1>2, <1>3

(* A failed append changes nothing when the preflight refuses it.  One     *)
(* that gets past the preflight fails only in push_back: it then costs one *)
(* page and leaves its sequence filled to the last byte of its pages.      *)
THEOREM FailedAppendCorrect == Spec => FailedAppendBounded
<1> DEFINE Fails == outcome' = "bad_alloc" /\ outcome # "bad_alloc"
           Bound == IF owner = NoSeq THEN UNCHANGED <<allocated, writeOffset>>
                    ELSE /\ Cardinality(FreePages') = Cardinality(FreePages) - 1
                         /\ Len(left) <= Cardinality(FreePages) * PageBytes
                         /\ sequenceBytes[owner] = Len(sequences[owner]) * PageBytes
           A == Fails => UNCHANGED <<data, seqVars, held>> /\ Bound
<1>1. TypeOK /\ SequenceLayout /\ RoomReserved /\ [Next]_vars => [A]_vars
  <2> SUFFICES ASSUME TypeOK, SequenceLayout, RoomReserved, Next, Fails
               PROVE  UNCHANGED <<data, seqVars, held>> /\ Bound
    OBVIOUS
  <2>1. ASSUME NEW s \in SeqIds, NEW d \in Payloads, AppendBegin(s, d)
        PROVE  UNCHANGED <<data, seqVars, held>> /\ Bound
    BY <2>1 DEF AppendBegin, pageVars
  <2>2. CASE AppendChunk
    <3>1. owner \in SeqIds /\ NeedsPage(owner) /\ FreePages = {} /\ left # << >>
      BY <2>2 DEF AppendChunk, CopyChunk, TypeOK
    <3>2. TailFree(owner) = 0 /\ Cardinality(FreePages) = 0
      BY <3>1, FullPages, FS_EmptySet
    <3>3. Len(left) <= 0
      BY <3>1, <3>2 DEF RoomReserved
    <3>4. Len(left) \in Nat \ {0}
      BY <3>1, EmptySeq DEF TypeOK
    <3> QED BY <3>3, <3>4
  <2>3. CASE AppendThrow
    <3>1. owner \in SeqIds /\ owner # NoSeq /\ NeedsPage(owner) /\ FreePages # {}
      BY <2>3 DEF AppendThrow, TypeOK
    <3>2. UNCHANGED <<data, seqVars, held>> /\ allocated' = [allocated EXCEPT ![FirstFree] = TRUE]
      BY <2>3 DEF AppendThrow
    <3>3. FirstFree \in FreePages /\ FreePages' = FreePages \ {FirstFree}
      BY <3>1, <3>2, FirstFreeIsFree DEF FreePages, TypeOK
    <3>4. Cardinality(FreePages') = Cardinality(FreePages) - 1
      BY <3>3, FreePagesFinite, FS_RemoveElement
    <3>5. TailFree(owner) = 0 /\ sequenceBytes[owner] = Len(sequences[owner]) * PageBytes
      BY <3>1, FullPages
    <3>6. Cardinality(FreePages) * PageBytes \in Nat
      BY FreePagesFinite
    <3>7. Len(left) <= Cardinality(FreePages) * PageBytes
      BY <3>1, <3>5, <3>6 DEF RoomReserved
    <3> QED BY <3>1, <3>2, <3>4, <3>5, <3>7
  <2>4. CASE Acquire
    BY <2>4 DEF Acquire
  <2>5. ASSUME NEW p \in Page, Release(p) PROVE FALSE
    BY <2>5 DEF Release
  <2>6. ASSUME NEW s \in SeqIds, ReleaseSequence(s) PROVE FALSE
    BY <2>6 DEF ReleaseSequence
  <2>7. CASE AppendReturn
    BY <2>7 DEF AppendReturn
  <2> QED BY <2>1, <2>2, <2>3, <2>4, <2>5, <2>6, <2>7 DEF Next
<1> QED BY <1>1, TypeCorrect, LayoutCorrect, RoomCorrect, PTL DEF Spec, FailedAppendBounded

-----------------------------------------------------------------------------
(* Division with remainder, as locate() uses it.                           *)
LEMMA DivMod ==
  ASSUME NEW i \in Nat
  PROVE  /\ i \div PageBytes \in Nat
         /\ i % PageBytes \in 0 .. PageBytes - 1
         /\ i = (i \div PageBytes) * PageBytes + (i % PageBytes)
BY Z3

LEMMA PageIndex ==
  ASSUME NEW q \in Nat, NEW r \in 0 .. PageBytes - 1, NEW m \in Nat, NEW w \in 1 .. PageBytes,
         q * PageBytes + r < m * PageBytes + w
  PROVE  q < m \/ (q = m /\ r < w)
<1>1. ASSUME q > m PROVE FALSE
  <2>1. q * PageBytes >= (m + 1) * PageBytes
    BY <1>1
  <2>2. (m + 1) * PageBytes = m * PageBytes + PageBytes
    OBVIOUS
  <2>3. q * PageBytes \in Nat /\ m * PageBytes \in Nat
    OBVIOUS
  <2> QED BY <2>1, <2>2, <2>3
<1>2. ASSUME q = m PROVE r < w
  <2>1. m * PageBytes \in Nat
    OBVIOUS
  <2> QED BY <1>2, <2>1
<1> QED BY <1>1, <1>2

(* The pages of a sequence hold all its bytes: each offset below           *)
(* sequence_bytes_ lies in the written part of a page of the sequence.     *)
LEMMA BytePlace ==
  ASSUME TypeOK, PagesExclusive, SequenceLayout, NEW s \in SeqIds,
         NEW i \in 0 .. sequenceBytes[s] - 1
  PROVE  /\ i \div PageBytes + 1 \in Index(s)
         /\ sequences[s][i \div PageBytes + 1] \in Page
         /\ allocated[sequences[s][i \div PageBytes + 1]]
         /\ i % PageBytes \in Offset
         /\ i % PageBytes < writeOffset[sequences[s][i \div PageBytes + 1]]
<1> DEFINE n == Len(sequences[s])
           q == i \div PageBytes
           r == i % PageBytes
<1>1. n \in Nat /\ sequences[s] \in Seq(Page) /\ sequenceBytes[s] \in Nat
  BY LenProperties DEF TypeOK
<1>2. i \in Nat /\ i < sequenceBytes[s]
  BY <1>1
<1>3. q \in Nat /\ r \in 0 .. PageBytes - 1 /\ i = q * PageBytes + r
  BY <1>2, DivMod
<1>4. LayoutOf(s)
  BY DEF SequenceLayout
<1>5. n > 0
  BY <1>1, <1>2, <1>4 DEF LayoutOf
<1> DEFINE w == writeOffset[sequences[s][n]]
<1>6. sequences[s][n] \in Page
  BY <1>1, <1>5, ElementOfSeq
<1>7. w \in 1 .. PageBytes /\ sequenceBytes[s] = (n - 1) * PageBytes + w
  BY <1>4, <1>5, <1>6 DEF LayoutOf, TypeOK
<1>8. q < n - 1 \/ (q = n - 1 /\ r < w)
  <2>1. n - 1 \in Nat
    BY <1>1, <1>5
  <2>2. q * PageBytes + r < (n - 1) * PageBytes + w
    BY <1>2, <1>3, <1>7
  <2> HIDE DEF n, q, r, w
  <2> QED BY <2>1, <2>2, <1>3, <1>7, PageIndex
<1> HIDE DEF q, r
<1>9. q + 1 \in 1 .. n
  BY <1>1, <1>3, <1>8
<1>10. r < writeOffset[sequences[s][q + 1]]
  <2>1. CASE q < n - 1
    <3>1. q + 1 \in 1 .. n - 1
      BY <1>1, <1>3, <2>1
    <3>2. writeOffset[sequences[s][q + 1]] = PageBytes
      BY <1>4, <3>1 DEF LayoutOf
    <3> QED BY <1>3, <3>2
  <2>2. CASE q = n - 1 /\ r < w
    <3>1. q + 1 = n
      BY <1>1, <2>2
    <3> QED BY <2>2, <3>1
  <2> QED BY <1>8, <2>1, <2>2
<1>11. sequences[s][q + 1] \in Page /\ allocated[sequences[s][q + 1]]
  BY <1>1, <1>9, ElementOfSeq DEF PagesExclusive, SequencePagesOwned, Index
<1> QED BY <1>3, <1>9, <1>10, <1>11 DEF Index, Offset, q, r

(* locate() finds every byte, in a page that is written so far, and no two *)
(* bytes of any sequences at the same place.                               *)
THEOREM LocateCorrect == Spec => []LocateExact
<1>1. TypeOK /\ PagesExclusive /\ SequenceLayout => LocateExact
  <2> SUFFICES ASSUME TypeOK, PagesExclusive, SequenceLayout,
                      NEW s \in SeqIds, NEW i \in 0 .. sequenceBytes[s] - 1
               PROVE  /\ InBounds(s, i)
                      /\ Locate(s, i).valid
                      /\ Locate(s, i).offset < writeOffset[Locate(s, i).page]
                      /\ \A t \in SeqIds : \A j \in 0 .. sequenceBytes[t] - 1 :
                           Locate(s, i) = Locate(t, j) => s = t /\ i = j
    BY DEF LocateExact
  <2>1. sequenceBytes[s] \in Nat /\ i \in Nat /\ Len(sequences[s]) \in Nat
    BY LenProperties DEF TypeOK
  <2>2. i \div PageBytes \in Nat
    BY <2>1, DivMod
  <2>3. i \div PageBytes + 1 \in 1 .. Len(sequences[s])
    BY BytePlace DEF Index
  <2>9. InBounds(s, i)
    BY <2>1, <2>2, <2>3 DEF InBounds
  <2>4. Locate(s, i).valid /\ Locate(s, i).offset < writeOffset[Locate(s, i).page]
    BY BytePlace DEF Locate
  <2>5. ASSUME NEW t \in SeqIds, NEW j \in 0 .. sequenceBytes[t] - 1, Locate(s, i) = Locate(t, j)
        PROVE  s = t /\ i = j
    <3>1. sequenceBytes[t] \in Nat /\ j \in Nat
      BY DEF TypeOK
    <3>2. /\ sequences[s][i \div PageBytes + 1] = sequences[t][j \div PageBytes + 1]
          /\ i % PageBytes = j % PageBytes
      BY <2>5 DEF Locate
    <3>3. i \div PageBytes + 1 \in Index(s) /\ j \div PageBytes + 1 \in Index(t)
      BY BytePlace
    <3>4. s = t /\ i \div PageBytes + 1 = j \div PageBytes + 1
      BY <3>2, <3>3 DEF PagesExclusive, NoSharedPage
    <3>5. j \div PageBytes \in Nat
      BY <3>1, DivMod
    <3>6. i \div PageBytes = j \div PageBytes
      BY <2>2, <3>4, <3>5
    <3>7. i = j
      BY <2>1, <3>1, <3>2, <3>6, DivMod
    <3> QED BY <3>4, <3>7
  <2> QED BY <2>4, <2>5, <2>9
<1> QED BY <1>1, TypeCorrect, Exclusive, LayoutCorrect, PTL

LEMMA DivUnique ==
  ASSUME NEW m \in Nat, NEW r \in 0 .. PageBytes - 1
  PROVE  /\ (m * PageBytes + r) \div PageBytes = m
         /\ (m * PageBytes + r) % PageBytes = r
<1> DEFINE i == m * PageBytes + r
           q == i \div PageBytes
           x == i % PageBytes
<1>1. i \in Nat
  <2>1. m * PageBytes \in Nat
    OBVIOUS
  <2> QED BY <2>1
<1>2. q \in Nat /\ x \in 0 .. PageBytes - 1 /\ i = q * PageBytes + x
  BY <1>1, DivMod
<1> HIDE DEF q, x
<1>3. q < m + 1
  <2>1. m * PageBytes + r < m * PageBytes + PageBytes
    <3>1. m * PageBytes \in Nat
      OBVIOUS
    <3> QED BY <3>1
  <2>2. q < m \/ q = m
    BY <1>2, <2>1, PageIndex DEF i
  <2> QED BY <1>2, <2>2
<1>4. m < q + 1
  <2>1. q * PageBytes + x < q * PageBytes + PageBytes
    <3>1. q * PageBytes \in Nat
      BY <1>2
    <3> QED BY <1>2, <3>1
  <2>2. m < q \/ m = q
    BY <1>2, <2>1, PageIndex DEF i
  <2> QED BY <1>2, <2>2
<1>5. q = m
  BY <1>2, <1>3, <1>4
<1>6. x = r
  <2>1. m * PageBytes \in Nat
    OBVIOUS
  <2> QED BY <1>2, <1>5, <2>1 DEF i
<1> QED BY <1>5, <1>6 DEF q, x, i

-----------------------------------------------------------------------------
(* The refinement of SequenceStore.                                        *)

(* What the running append has copied is part of its sequence.             *)
DoneCounted == owner # NoSeq => done <= sequenceBytes[owner]

LEMMA DoneCountedInductive == TypeOK /\ DoneCounted /\ [Next]_vars => DoneCounted'
<1> SUFFICES ASSUME TypeOK, DoneCounted, [Next]_vars PROVE DoneCounted'
  OBVIOUS
<1> USE DEF DoneCounted
<1>1. CASE Acquire
  BY <1>1 DEF Acquire, appendVars, seqVars
<1>2. ASSUME NEW p \in Page, Release(p) PROVE DoneCounted'
  BY <1>2 DEF Release, appendVars, seqVars
<1>3. ASSUME NEW s \in SeqIds, ReleaseSequence(s) PROVE DoneCounted'
  BY <1>3 DEF ReleaseSequence, appendVars
<1>4. ASSUME NEW s \in SeqIds, NEW d \in Payloads, AppendBegin(s, d) PROVE DoneCounted'
  BY <1>4 DEF AppendBegin, appendVars, seqVars, TypeOK
<1>5. CASE AppendChunk
  <2>1. ASSUME NEW id, NEW offset \in 0 .. PageBytes - 1,
               CopyChunk(owner, id, offset, ChunkSize(offset))
        PROVE  DoneCounted'
    <3>1. owner \in SeqIds /\ left # << >> /\ left \in Seq(Byte) /\ Len(left) \in Nat
      BY <1>5, LenProperties DEF AppendChunk, TypeOK
    <3>2. ChunkSize(offset) \in 1 .. Len(left)
      BY <3>1, ChunkBounds
    <3>3. done' = done + ChunkSize(offset) /\ owner' = owner
          /\ sequenceBytes' = [sequenceBytes EXCEPT ![owner] = @ + ChunkSize(offset)]
      BY <2>1 DEF CopyChunk
    <3> QED BY <3>1, <3>2, <3>3 DEF TypeOK
  <2>2. CASE ~NeedsPage(owner)
    <3> DEFINE id == Last(sequences[owner])
    <3>1. owner \in SeqIds
      BY <1>5 DEF AppendChunk, TypeOK
    <3>2. writeOffset[id] \in 0 .. PageBytes - 1
      BY <2>2, <3>1, LastIsPage DEF NeedsPage, TypeOK
    <3>3. CopyChunk(owner, id, writeOffset[id], ChunkSize(writeOffset[id]))
      BY <1>5, <2>2 DEF AppendChunk
    <3> QED BY <2>1, <3>2, <3>3
  <2>3. CASE NeedsPage(owner) /\ FreePages # {}
    <3>1. CopyChunk(owner, FirstFree, 0, ChunkSize(0))
      BY <1>5, <2>3 DEF AppendChunk
    <3> QED BY <2>1, <3>1
  <2>4. CASE NeedsPage(owner) /\ FreePages = {}
    BY <1>5, <2>4 DEF AppendChunk
  <2> QED BY <2>2, <2>3, <2>4
<1>6. CASE AppendReturn \/ AppendThrow
  BY <1>6 DEF AppendReturn, AppendThrow
<1>7. CASE UNCHANGED vars
  BY <1>7 DEF vars
<1> QED BY <1>1, <1>2, <1>3, <1>4, <1>5, <1>6, <1>7 DEF Next

(* What the refinement rests on.                                           *)
StoreInv == /\ TypeOK
            /\ PagesExclusive
            /\ SequenceLayout
            /\ RoomReserved
            /\ DoneCounted

LEMMA StoreInvCorrect == Spec => []StoreInv
<1>1. Init => DoneCounted
  BY DEF Init, DoneCounted
<1> QED BY <1>1, TypeCorrect, Exclusive, LayoutCorrect, RoomCorrect, DoneCountedInductive, PTL
        DEF Spec, StoreInv

(* read() of bytes the sequence has: n bytes, from off on.                 *)
LEMMA ReadBytes ==
  ASSUME TypeOK, PagesExclusive, SequenceLayout, NEW s \in SeqIds,
         NEW off \in Nat, NEW n \in Nat, off + n <= sequenceBytes[s]
  PROVE  /\ Read(s, off, n) = [i \in 1 .. n |-> ByteAt(s, off + i - 1)]
         /\ Read(s, off, n) \in Seq(Byte)
         /\ Len(Read(s, off, n)) = n
         /\ \A i \in 1 .. n : Read(s, off, n)[i] = ByteAt(s, off + i - 1)
<1>1. sequenceBytes[s] \in Nat /\ Len(sequences[s]) \in Nat /\ sequences[s] \in Seq(Page)
  BY LenProperties DEF TypeOK
<1> DEFINE l == Len(sequences[s])
           room == l * PageBytes
<1>2. room \in Nat /\ sequenceBytes[s] <= room
  <2>1. LayoutOf(s)
    BY DEF SequenceLayout
  <2>2. CASE l = 0
    BY <1>1, <2>1, <2>2 DEF LayoutOf
  <2>3. CASE l # 0
    <3>1. sequences[s][l] \in Page
      BY <1>1, <2>3, ElementOfSeq
    <3>2. writeOffset[sequences[s][l]] \in 0 .. PageBytes
          /\ sequenceBytes[s] = (l - 1) * PageBytes + writeOffset[sequences[s][l]]
      BY <1>1, <2>1, <2>3, <3>1 DEF LayoutOf, TypeOK
    <3>3. (l - 1) * PageBytes = room - PageBytes /\ room \in Nat
      BY <1>1
    <3> QED BY <3>2, <3>3
  <2> QED BY <2>2, <2>3
<1> HIDE DEF room
<1>3. n <= sequenceBytes[s] - off /\ n <= room - off
  BY <1>1, <1>2
<1>4. Read(s, off, n) = [i \in 1 .. n |-> ByteAt(s, off + i - 1)]
  BY <1>3 DEF Read, room
<1>5. \A i \in 1 .. n : ByteAt(s, off + i - 1) \in Byte
  <2> TAKE i \in 1 .. n
  <2>1. off + i - 1 \in 0 .. sequenceBytes[s] - 1
    BY <1>1
  <2>2. /\ sequences[s][(off + i - 1) \div PageBytes + 1] \in Page
        /\ (off + i - 1) % PageBytes \in Offset
    BY <2>1, BytePlace
  <2> QED BY <2>2 DEF ByteAt, TypeOK
<1>6. [i \in 1 .. n |-> ByteAt(s, off + i - 1)] \in Seq(Byte)
  BY <1>5
<1>7. Len([i \in 1 .. n |-> ByteAt(s, off + i - 1)]) = n
  BY <1>5
<1> QED BY <1>4, <1>6, <1>7

(* The bytes an iteration leaves behind: those the sequences had, and the  *)
(* first c bytes of the payload behind them.                               *)
BytesKept == \A s \in SeqIds : \A k \in 0 .. sequenceBytes[s] - 1 : ByteAt(s, k)' = ByteAt(s, k)

BytesAdded(c) ==
  \A s \in SeqIds, k \in Nat :
    s = owner /\ k \in 1 .. c =>
      \A x \in Nat : x = sequenceBytes[owner] + k - 1 => ByteAt(s, x)' = left[k]

LEMMA CopyWrites ==
  ASSUME TypeOK, PagesExclusive, SequenceLayout, owner \in SeqIds, left # << >>,
         NEW id \in Page, NEW m \in Nat, NEW offset \in 0 .. PageBytes - 1,
         CopyChunk(owner, id, offset, ChunkSize(offset)),
         sequenceBytes[owner] = m * PageBytes + offset,
         sequences'[owner][m + 1] = id,
         \A s \in SeqIds : \A i \in Index(s) : sequences'[s][i] = sequences[s][i],
         \A s \in SeqIds : \A i \in Index(s) : sequences[s][i] = id => s = owner /\ i = m + 1
  PROVE  BytesKept /\ BytesAdded(ChunkSize(offset))
<1> DEFINE c == ChunkSize(offset)
<1>1. /\ left \in Seq(Byte) /\ Len(left) \in Nat
      /\ c \in 1 .. Len(left) /\ offset + c \in 1 .. PageBytes
  BY ChunkBounds, LenProperties DEF TypeOK
<1>2. m * PageBytes \in Nat
  OBVIOUS
<1> HIDE DEF c
<1>3. data' = [data EXCEPT ![id] = [k \in Offset |-> IF k >= offset /\ k < offset + c
                                                     THEN left[k - offset + 1]
                                                     ELSE data[id][k]]]
  BY DEF CopyChunk, c
<1>4. \A p \in Page : p # id => data'[p] = data[p]
  BY <1>3 DEF TypeOK
<1>5. \A k \in Offset : data'[id][k] = IF k >= offset /\ k < offset + c
                                       THEN left[k - offset + 1] ELSE data[id][k]
  BY <1>3 DEF TypeOK
<1>6. ASSUME NEW s \in SeqIds, NEW k \in 0 .. sequenceBytes[s] - 1
      PROVE  ByteAt(s, k)' = ByteAt(s, k)
  <2> DEFINE q == k \div PageBytes
             r == k % PageBytes
  <2>1. k \in Nat /\ k < sequenceBytes[s]
    BY DEF TypeOK
  <2>2. q \in Nat /\ r \in Nat /\ k = q * PageBytes + r
    <3>1. r \in 0 .. PageBytes - 1
      BY <2>1, DivMod
    <3>2. q \in Nat /\ k = q * PageBytes + r
      BY <2>1, DivMod
    <3> HIDE DEF q, r
    <3> QED BY <3>1, <3>2
  <2>3. q + 1 \in Index(s) /\ sequences[s][q + 1] \in Page /\ r \in Offset
    BY BytePlace
  <2>4. sequences'[s][q + 1] = sequences[s][q + 1]
    BY <2>3
  <2> HIDE DEF q, r
  <2>5. CASE sequences[s][q + 1] # id
    <3>1. data'[sequences'[s][q + 1]][r] = data[sequences[s][q + 1]][r]
      BY <1>4, <2>3, <2>4, <2>5
    <3> QED BY <3>1 DEF ByteAt, q, r
  <2>6. CASE sequences[s][q + 1] = id
    <3>1. s = owner /\ q + 1 = m + 1
      BY <2>3, <2>6
    <3>2. q = m
      BY <2>2, <3>1
    <3>3. r < offset
      BY <1>2, <2>1, <2>2, <3>1, <3>2
    <3>4. data'[id][r] = data[id][r]
      BY <1>5, <2>2, <2>3, <3>3
    <3>5. data'[sequences'[s][q + 1]][r] = data[sequences[s][q + 1]][r]
      BY <2>4, <2>6, <3>4
    <3> QED BY <3>5 DEF ByteAt, q, r
  <2> QED BY <2>5, <2>6
<1>7. ASSUME NEW k \in 1 .. c, NEW x \in Nat, x = sequenceBytes[owner] + k - 1, NEW s, s = owner
      PROVE  ByteAt(s, x)' = left[k]
  <2> DEFINE r == offset + k - 1
  <2>1. r \in 0 .. PageBytes - 1 /\ x = m * PageBytes + r
    BY <1>1, <1>2, <1>7
  <2>2. x \div PageBytes = m /\ x % PageBytes = r
    BY <2>1, DivUnique
  <2>3. data'[id][r] = left[k]
    <3>1. r \in Offset /\ r >= offset /\ r < offset + c /\ r - offset + 1 = k
      BY <1>1, <2>1 DEF Offset
    <3> HIDE DEF r
    <3> QED BY <1>5, <3>1
  <2> HIDE DEF r
  <2> QED BY <1>7, <2>2, <2>3 DEF ByteAt
<1> QED BY <1>6, <1>7 DEF BytesKept, BytesAdded, c

(* An iteration of the loop copies c more bytes of the payload, in order,  *)
(* behind what the sequence holds, and touches no other byte.              *)
LEMMA ChunkEffect ==
  ASSUME StoreInv, AppendChunk
  PROVE  \E c \in 1 .. Len(left) :
           /\ owner' = owner /\ outcome' = outcome /\ done' = done + c
           /\ left' = SubSeq(left, c + 1, Len(left))
           /\ sequenceBytes' = [sequenceBytes EXCEPT ![owner] = @ + c]
           /\ BytesKept /\ BytesAdded(c)
<1> USE DEF StoreInv
<1>1. /\ owner \in SeqIds /\ left # << >> /\ left \in Seq(Byte) /\ Len(left) \in Nat
      /\ sequences[owner] \in Seq(Page) /\ LayoutOf(owner)
  BY LenProperties DEF AppendChunk, TypeOK, SequenceLayout
<1> DEFINE n == Len(sequences[owner])
<1>2. n \in Nat
  BY <1>1, LenProperties
<1>3. \A s \in SeqIds : Len(sequences[s]) \in Nat
  BY LenProperties DEF TypeOK
<1>4. ASSUME NEW id, NEW offset \in 0 .. PageBytes - 1,
             CopyChunk(owner, id, offset, ChunkSize(offset)),
             BytesKept, BytesAdded(ChunkSize(offset))
      PROVE  \E c \in 1 .. Len(left) :
               /\ owner' = owner /\ outcome' = outcome /\ done' = done + c
               /\ left' = SubSeq(left, c + 1, Len(left))
               /\ sequenceBytes' = [sequenceBytes EXCEPT ![owner] = @ + c]
               /\ BytesKept /\ BytesAdded(c)
  <2>1. ChunkSize(offset) \in 1 .. Len(left)
    BY <1>1, ChunkBounds
  <2> WITNESS ChunkSize(offset) \in 1 .. Len(left)
  <2> QED BY <1>4 DEF CopyChunk
<1>5. CASE ~NeedsPage(owner)
  <2> DEFINE id == sequences[owner][n]
             w  == writeOffset[id]
  <2>1. sequences[owner] # << >> /\ n > 0 /\ id \in Page /\ w \in 0 .. PageBytes - 1
    BY <1>1, <1>5, LastIsPage DEF NeedsPage, TypeOK, Last
  <2>2. CopyChunk(owner, id, w, ChunkSize(w)) /\ sequences' = sequences
    BY <1>5 DEF AppendChunk, Last
  <2>3. sequenceBytes[owner] = (n - 1) * PageBytes + w
    BY <1>1, <2>1 DEF LayoutOf
  <2>4. n - 1 \in Nat /\ (n - 1) + 1 = n /\ n \in Index(owner)
    BY <1>2, <2>1 DEF Index
  <2>5. \A s \in SeqIds : \A i \in Index(s) : sequences[s][i] = id => s = owner /\ i = (n - 1) + 1
    BY <1>1, <2>4 DEF PagesExclusive, NoSharedPage
  <2>6. sequences'[owner][(n - 1) + 1] = id
    BY <2>2, <2>4
  <2> HIDE DEF id, w, n
  <2>7. BytesKept /\ BytesAdded(ChunkSize(w))
    BY <1>1, <2>1, <2>2, <2>3, <2>4, <2>5, <2>6, CopyWrites
  <2> QED BY <1>4, <2>1, <2>2, <2>7
<1>6. CASE NeedsPage(owner) /\ FreePages # {}
  <2>1. /\ CopyChunk(owner, FirstFree, 0, ChunkSize(0))
        /\ sequences' = [sequences EXCEPT ![owner] = Append(@, FirstFree)]
    BY <1>6 DEF AppendChunk
  <2>2. /\ FirstFree \in Page
        /\ \A s \in SeqIds : \A i \in Index(s) : sequences[s][i] # FirstFree
        /\ sequences'[owner][n + 1] = FirstFree
        /\ \A i \in Index(owner) : sequences'[owner][i] = sequences[owner][i]
        /\ \A s \in SeqIds \ {owner} : sequences'[s] = sequences[s]
    BY <1>1, <1>6, <2>1, NewPageShape
  <2>3. sequenceBytes[owner] = n * PageBytes
    <3>1. CASE n = 0
      BY <1>1, <3>1 DEF LayoutOf
    <3>2. CASE n # 0
      <4>1. sequences[owner] # << >>
        BY <3>2, EmptySeq
      <4>2. writeOffset[sequences[owner][n]] = PageBytes
        BY <1>1, <1>6, <4>1, LastIsPage DEF NeedsPage, Last, TypeOK
      <4>3. sequenceBytes[owner] = (n - 1) * PageBytes + PageBytes
        BY <1>1, <1>2, <3>2, <4>2 DEF LayoutOf
      <4> QED BY <1>2, <4>3
    <3> QED BY <3>1, <3>2
  <2>4. sequenceBytes[owner] = n * PageBytes + 0
    BY <1>2, <2>3
  <2> HIDE DEF n
  <2>5. BytesKept /\ BytesAdded(ChunkSize(0))
    <3>1. \A s \in SeqIds : \A i \in Index(s) : sequences'[s][i] = sequences[s][i]
      BY <2>2
    <3>2. 0 \in 0 .. PageBytes - 1
      OBVIOUS
    <3>3. \A s \in SeqIds : \A i \in Index(s) :
            sequences[s][i] = FirstFree => s = owner /\ i = n + 1
      BY <2>2
    <3> QED BY <1>1, <1>2, <2>1, <2>2, <2>4, <3>1, <3>2, <3>3, CopyWrites
  <2> QED BY <1>4, <2>1, <2>5
<1>7. CASE NeedsPage(owner) /\ FreePages = {}
  <2>1. TailFree(owner) = 0
    <3>1. CASE sequences[owner] = << >>
      BY <3>1 DEF TailFree
    <3>2. CASE sequences[owner] # << >>
      BY <1>1, <1>7, <3>2, LastIsPage DEF TailFree, NeedsPage, TypeOK
    <3> QED BY <3>1, <3>2
  <2>2. Cardinality(FreePages) = 0
    BY <1>7, FS_EmptySet
  <2>3. Len(left) <= 0
    BY <1>1, <2>1, <2>2 DEF RoomReserved
  <2>4. Len(left) \in Nat \ {0}
    BY <1>1, EmptySeq
  <2> QED BY <2>3, <2>4
<1> QED BY <1>5, <1>6, <1>7

(* The values of the refinement mapping, and what they hold.               *)
Content == [s \in SeqIds |-> Read(s, 0, Visible(s))]

PendingData == IF owner = NoSeq THEN << >> ELSE Read(owner, Visible(owner), done) \o left

Pending == [seq |-> owner, data |-> PendingData]

ContentBytes ==
  \A s \in SeqIds :
    /\ Visible(s) \in Nat
    /\ Content[s] \in Seq(Byte) /\ Len(Content[s]) = Visible(s)
    /\ \A i \in 1 .. Visible(s) : \A x \in Nat : x = i - 1 => Content[s][i] = ByteAt(s, x)

PendingBytes ==
  owner # NoSeq =>
    /\ PendingData \in Seq(Byte)
    /\ Len(PendingData) = done + Len(left)
    /\ \A i \in 1 .. done : \A s \in SeqIds, x \in Nat :
         s = owner /\ x = Visible(s) + i - 1 => PendingData[i] = ByteAt(s, x)
    /\ \A i \in 1 .. Len(left) : PendingData[done + i] = left[i]

LEMMA VisibleBytes ==
  ASSUME StoreInv, NEW s \in SeqIds
  PROVE  /\ Visible(s) \in Nat /\ Visible(s) <= sequenceBytes[s]
         /\ s # owner => Visible(s) = sequenceBytes[s]
         /\ s = owner => Visible(s) + done = sequenceBytes[s]
         /\ sequenceBytes[s] \in Nat
BY DEF StoreInv, TypeOK, DoneCounted, Visible

LEMMA MappingBytes == StoreInv => ContentBytes /\ PendingBytes
<1> SUFFICES ASSUME StoreInv PROVE ContentBytes /\ PendingBytes
  OBVIOUS
<1>1. ContentBytes
  <2> SUFFICES ASSUME NEW s \in SeqIds
               PROVE  /\ Visible(s) \in Nat
                      /\ Content[s] \in Seq(Byte) /\ Len(Content[s]) = Visible(s)
                      /\ \A i \in 1 .. Visible(s) : \A x \in Nat :
                           x = i - 1 => Content[s][i] = ByteAt(s, x)
    BY DEF ContentBytes
  <2> DEFINE v == Visible(s)
  <2>1. v \in Nat /\ 0 + v <= sequenceBytes[s]
    BY VisibleBytes
  <2>2. Content[s] = Read(s, 0, v)
    BY DEF Content
  <2> HIDE DEF v
  <2>3. /\ Read(s, 0, v) \in Seq(Byte) /\ Len(Read(s, 0, v)) = v
        /\ \A i \in 1 .. v : Read(s, 0, v)[i] = ByteAt(s, 0 + i - 1)
    BY <2>1, ReadBytes DEF StoreInv
  <2>4. \A i \in 1 .. v : 0 + i - 1 = i - 1
    BY <2>1
  <2> QED BY <2>1, <2>2, <2>3, <2>4 DEF v
<1>2. ASSUME owner # NoSeq
      PROVE  /\ PendingData \in Seq(Byte)
             /\ Len(PendingData) = done + Len(left)
             /\ \A i \in 1 .. done : \A s \in SeqIds, x \in Nat :
                  s = owner /\ x = Visible(s) + i - 1 => PendingData[i] = ByteAt(s, x)
             /\ \A i \in 1 .. Len(left) : PendingData[done + i] = left[i]
  <2> DEFINE v == Visible(owner)
             r == Read(owner, v, done)
  <2>1. owner \in SeqIds /\ done \in Nat /\ left \in Seq(Byte) /\ Len(left) \in Nat
    BY <1>2, LenProperties DEF StoreInv, TypeOK
  <2>2. v \in Nat /\ v + done <= sequenceBytes[owner]
    BY <2>1, VisibleBytes
  <2>3. PendingData = r \o left
    BY <1>2 DEF PendingData
  <2> HIDE DEF v
  <2>4. /\ r \in Seq(Byte) /\ Len(r) = done
        /\ \A i \in 1 .. done : r[i] = ByteAt(owner, v + i - 1)
    BY <2>1, <2>2, ReadBytes DEF StoreInv
  <2> HIDE DEF r
  <2>5. /\ r \o left \in Seq(Byte)
        /\ Len(r \o left) = done + Len(left)
        /\ \A i \in 1 .. done + Len(left) :
             (r \o left)[i] = IF i <= done THEN r[i] ELSE left[i - done]
    BY <2>1, <2>4, ConcatProperties
  <2>6. \A i \in 1 .. done : (r \o left)[i] = r[i]
    BY <2>1, <2>5
  <2>7. \A i \in 1 .. Len(left) : (r \o left)[done + i] = left[i]
    <3> TAKE i \in 1 .. Len(left)
    <3>1. done + i \in 1 .. done + Len(left) /\ ~(done + i <= done) /\ (done + i) - done = i
      BY <2>1
    <3> QED BY <2>5, <3>1
  <2> QED BY <2>3, <2>4, <2>5, <2>6, <2>7 DEF v
<1> QED BY <1>1, <1>2 DEF PendingBytes

LEMMA ChunkStutters ==
  ASSUME StoreInv, StoreInv', AppendChunk
  PROVE  Content' = Content /\ PendingData' = PendingData /\ owner' = owner /\ outcome' = outcome
<1>0. ContentBytes /\ PendingBytes /\ ContentBytes' /\ PendingBytes'
  BY MappingBytes, PTL
<1>1. PICK c \in 1 .. Len(left) :
           /\ owner' = owner /\ outcome' = outcome /\ done' = done + c
           /\ left' = SubSeq(left, c + 1, Len(left))
           /\ sequenceBytes' = [sequenceBytes EXCEPT ![owner] = @ + c]
           /\ BytesKept /\ BytesAdded(c)
  BY ChunkEffect
<1>2. /\ owner \in SeqIds /\ owner # NoSeq /\ left \in Seq(Byte) /\ Len(left) \in Nat /\ done \in Nat
      /\ sequenceBytes \in [SeqIds -> Nat]
  BY LenProperties DEF StoreInv, TypeOK, AppendChunk
<1>3. c \in Nat /\ c <= Len(left)
  BY <1>2
<1>4. /\ left' \in Seq(Byte) /\ Len(left') = Len(left) - c
      /\ \A i \in 1 .. Len(left) - c : left'[i] = left[c + i]
  <2>1. c + 1 \in Int /\ Len(left) \in Int
    BY <1>2
  <2>2. \A i \in c + 1 .. Len(left) : left[i] \in Byte
    BY <1>2, <1>3, ElementOfSeq
  <2>3. Len(left) - (c + 1) + 1 = Len(left) - c
    BY <1>2, <1>3
  <2>4. \A i \in 1 .. Len(left) - c : left'[i] = left[c + 1 + i - 1]
    <3>1. \A i \in 1 .. Len(left) - (c + 1) + 1 :
            SubSeq(left, c + 1, Len(left))[i] = left[c + 1 + i - 1]
      BY <2>1, <2>2, SubSeqProperties
    <3> QED BY <1>1, <2>3, <3>1
  <2>5. \A i \in 1 .. Len(left) - c : c + 1 + i - 1 = c + i
    BY <1>2
  <2>6. left' \in Seq(Byte) /\ Len(left') = Len(left) - c
    BY <1>1, <1>2, PayloadLeft
  <2>7. \A i \in 1 .. Len(left) - c : left'[i] = left[c + i]
    BY <2>4, <2>5
  <2> QED BY <2>6, <2>7
<1>5. \A s \in SeqIds : Visible(s)' = Visible(s)
  BY <1>1, <1>2, <1>3 DEF Visible
<1>6. ASSUME NEW s \in SeqIds PROVE Content'[s] = Content[s]
  <2> DEFINE v == Visible(s)
  <2>1. /\ v \in Nat /\ Content[s] \in Seq(Byte) /\ Len(Content[s]) = v
        /\ Content'[s] \in Seq(Byte) /\ Len(Content'[s]) = v
    BY <1>0, <1>5 DEF ContentBytes
  <2>2. ASSUME NEW i \in 1 .. v PROVE Content'[s][i] = Content[s][i]
    <3> DEFINE x == i - 1
    <3>1. x \in Nat /\ x \in 0 .. sequenceBytes[s] - 1
      BY <2>1, VisibleBytes
    <3>2. Content[s][i] = ByteAt(s, x)
      BY <1>0, <3>1 DEF ContentBytes
    <3>3. i \in 1 .. Visible(s)'
      BY <1>5
    <3>4. Content'[s][i] = ByteAt(s, x)'
      BY <1>0, <3>1, <3>3 DEF ContentBytes
    <3> QED BY <1>1, <3>1, <3>2, <3>4 DEF BytesKept
  <2> HIDE DEF v
  <2> QED BY <2>1, <2>2, SeqEqual
<1>7. Content' = Content
  BY <1>6 DEF Content
<1>8. PendingData' = PendingData
  <2> DEFINE p == PendingData
             l == done + Len(left)
  <2>1. /\ p \in Seq(Byte) /\ Len(p) = l
        /\ p' \in Seq(Byte) /\ Len(p') = l /\ l \in Nat
    <3>1. p \in Seq(Byte) /\ Len(p) = l /\ p' \in Seq(Byte) /\ Len(p') = done' + Len(left')
      BY <1>0, <1>1, <1>2 DEF PendingBytes
    <3>2. done' = done + c
      BY <1>1
    <3>3. done' + Len(left') = l /\ l \in Nat
      BY <1>2, <1>3, <1>4, <3>2
    <3> QED BY <3>1, <3>3
  <2>2. ASSUME NEW i \in 1 .. l PROVE p'[i] = p[i]
    <3> DEFINE v == Visible(owner)
               x == v + i - 1
    <3>1. v \in Nat /\ v + done = sequenceBytes[owner] /\ Visible(owner)' = v
      BY <1>1, <1>2, <1>5, VisibleBytes
    <3>2. x \in Nat
      BY <3>1
    <3>3. CASE i <= done
      <4>1. p[i] = ByteAt(owner, x)
        BY <1>0, <1>2, <3>2, <3>3 DEF PendingBytes
      <4>2. i \in 1 .. done'
        BY <1>1, <1>2, <1>3, <3>3
      <4>3. ASSUME NEW s \in SeqIds, s = owner, NEW y \in Nat, y = x
            PROVE  p'[i] = ByteAt(s, y)' /\ ByteAt(s, y)' = ByteAt(s, y)
        <5>1. s = owner' /\ y = Visible(s)' + i - 1
          BY <1>1, <3>1, <4>3
        <5>2. p'[i] = ByteAt(s, y)'
          BY ZenonT(30), <1>0, <1>1, <1>2, <4>2, <5>1 DEF PendingBytes
        <5>3. y \in 0 .. sequenceBytes[s] - 1
          BY <1>2, <3>1, <3>2, <3>3, <4>3
        <5> QED BY <1>1, <5>2, <5>3 DEF BytesKept
      <4> QED BY <1>2, <3>2, <4>1, <4>3
    <3>4. CASE i > done /\ i <= done + c
      <4> DEFINE k == i - done
      <4>1. k \in 1 .. c /\ k \in 1 .. Len(left) /\ i = done + k /\ k \in Nat
        BY <1>2, <1>3, <3>4
      <4>2. p[i] = left[k]
        BY <1>0, <1>2, <4>1 DEF PendingBytes
      <4>3. i \in 1 .. done' /\ x = sequenceBytes[owner] + k - 1
        BY <1>1, <1>2, <3>1, <3>4
      <4>4. ASSUME NEW s \in SeqIds, s = owner, NEW y \in Nat, y = x
            PROVE  p'[i] = ByteAt(s, y)' /\ ByteAt(s, y)' = left[k]
        <5>1. s = owner' /\ y = Visible(s)' + i - 1
          BY <1>1, <3>1, <4>4
        <5>2. p'[i] = ByteAt(s, y)'
          BY ZenonT(30), <1>0, <1>1, <1>2, <4>3, <5>1 DEF PendingBytes
        <5>3. ByteAt(s, y)' = left[k]
          BY <1>1, <4>1, <4>3, <4>4 DEF BytesAdded
        <5> QED BY <5>2, <5>3
      <4> QED BY <1>2, <3>2, <4>2, <4>4
    <3>5. CASE i > done + c
      <4> DEFINE k == i - (done + c)
      <4>1. k \in 1 .. Len(left) - c /\ c + k \in 1 .. Len(left) /\ i = done + (c + k) /\ i = done' + k
        BY <1>1, <1>2, <1>3, <3>5
      <4>2. p[i] = left[c + k]
        BY <1>0, <1>2, <4>1 DEF PendingBytes
      <4>3. k \in 1 .. Len(left')
        BY <1>4, <4>1
      <4>4. p'[i] = left'[k]
        BY <1>0, <1>1, <1>2, <4>1, <4>3 DEF PendingBytes
      <4> QED BY <1>4, <4>1, <4>2, <4>4
    <3> QED BY <1>2, <1>3, <3>3, <3>4, <3>5
  <2> HIDE DEF p, l
  <2> QED BY <2>1, <2>2, SeqEqual DEF p
<1> QED BY <1>1, <1>7, <1>8

LEMMA ReadFrame ==
  ASSUME UNCHANGED <<sequences, sequenceBytes, data, owner, left, done>>
  PROVE  Content' = Content /\ Pending' = Pending
BY DEF Content, Pending, PendingData, Read, ByteAt, Visible

LEMMA IdleVisible ==
  ASSUME StoreInv, owner = NoSeq
  PROVE  Pending = Store!Idle /\ \A s \in SeqIds : Visible(s) = sequenceBytes[s]
BY VisibleBytes DEF Pending, PendingData, Store!Idle

LEMMA ReleaseSequenceClears ==
  ASSUME StoreInv, StoreInv', NEW s \in SeqIds, ReleaseSequence(s)
  PROVE  /\ Content' = [Content EXCEPT ![s] = << >>]
         /\ Pending = Store!Idle /\ Pending' = Pending
<1>1. /\ owner = NoSeq /\ owner' = NoSeq /\ left' = left /\ done' = done /\ data' = data
      /\ sequences' = [sequences EXCEPT ![s] = << >>]
      /\ sequenceBytes' = [sequenceBytes EXCEPT ![s] = 0]
  BY DEF ReleaseSequence, appendVars
<1>2. Pending = Store!Idle /\ Pending' = Pending
  BY <1>1, IdleVisible DEF Pending, PendingData
<1>3. ContentBytes'
  BY MappingBytes, PTL
<1>4. \A t \in SeqIds : Visible(t)' = sequenceBytes'[t] /\ Visible(t) = sequenceBytes[t]
  BY <1>1, IdleVisible DEF Visible, StoreInv, TypeOK
<1>5. \A t \in SeqIds \ {s} : Content'[t] = Content[t]
  <2> SUFFICES ASSUME NEW t \in SeqIds \ {s} PROVE Read(t, 0, Visible(t))' = Read(t, 0, Visible(t))
    BY DEF Content
  <2>1. sequences'[t] = sequences[t] /\ sequenceBytes'[t] = sequenceBytes[t]
    BY <1>1 DEF StoreInv, TypeOK
  <2>2. Visible(t)' = Visible(t)
    BY <1>4, <2>1
  <2> QED BY <1>1, <2>1, <2>2 DEF Read, ByteAt
<1>6. Content'[s] = << >>
  <2>1. Visible(s)' = 0
    BY <1>1, <1>4 DEF StoreInv, TypeOK
  <2>2. Content'[s] \in Seq(Byte) /\ Len(Content'[s]) = 0
    BY <1>3, <2>1 DEF ContentBytes
  <2> QED BY <2>2, EmptySeq
<1> QED BY <1>2, <1>5, <1>6 DEF Content

LEMMA AppendBeginStores ==
  ASSUME StoreInv, StoreInv', NEW s \in SeqIds, NEW d \in Payloads, AppendBegin(s, d)
  PROVE  \/ Content' = Content /\ Pending = Store!Idle /\ outcome' = "none"
            /\ Pending' = [seq |-> s, data |-> d]
         \/ Content' = Content /\ Pending = Store!Idle /\ outcome' = "bad_alloc"
            /\ Pending' = Pending
<1>1. owner = NoSeq /\ sequences' = sequences /\ sequenceBytes' = sequenceBytes /\ data' = data
  BY DEF AppendBegin, pageVars, seqVars
<1>2. Pending = Store!Idle
  BY <1>1, IdleVisible
<1>3. CASE outcome' = "bad_alloc" /\ UNCHANGED appendVars
  BY <1>1, <1>2, <1>3, ReadFrame DEF appendVars
<1>4. CASE owner' = s /\ left' = d /\ done' = 0 /\ outcome' = "none"
  <2>1. \A t \in SeqIds : Visible(t)' = Visible(t)
    BY <1>1, <1>4 DEF Visible, StoreInv, TypeOK
  <2>2. Content' = Content
    BY <1>1, <2>1 DEF Content, Read, ByteAt
  <2>3. PendingBytes'
    BY MappingBytes, PTL
  <2>4. d \in Seq(Byte) /\ Len(d) \in Nat
    BY PayloadType, LenProperties
  <2>5. /\ PendingData' \in Seq(Byte) /\ Len(PendingData') = 0 + Len(d)
        /\ \A i \in 1 .. Len(d) : PendingData'[0 + i] = d[i]
    BY <1>4, <2>3 DEF PendingBytes
  <2>6. PendingData' = d
    BY <2>4, <2>5, SeqEqual
  <2> QED BY <1>2, <1>4, <2>2, <2>6 DEF Pending
<1> QED BY <1>3, <1>4 DEF AppendBegin

(* When append gives up mu_, what it has copied becomes visible.           *)
LEMMA AppendEnds ==
  ASSUME StoreInv, StoreInv', owner # NoSeq,
         owner' = NoSeq, left' = << >>, done' = 0,
         UNCHANGED <<sequences, sequenceBytes, data>>
  PROVE  /\ done \in Nat /\ PendingData \in Seq(Byte)
         /\ Len(PendingData) = done + Len(left) /\ Len(left) \in Nat
         /\ Content' = [Content EXCEPT ![owner] = @ \o SubSeq(PendingData, 1, done)]
         /\ Pending # Store!Idle /\ Pending' = Store!Idle
<1>1. /\ owner \in SeqIds /\ owner # NoSeq /\ owner' = NoSeq /\ done' = 0
      /\ sequences' = sequences /\ sequenceBytes' = sequenceBytes /\ data' = data
  BY DEF StoreInv, TypeOK
<1>2. ContentBytes /\ PendingBytes /\ ContentBytes'
  BY MappingBytes, PTL
<1>3. Pending # Store!Idle /\ Pending' = Store!Idle
  BY <1>1 DEF Pending, PendingData, Store!Idle
<1>4. \A t \in SeqIds : Visible(t)' = sequenceBytes[t]
  BY <1>1 DEF Visible, StoreInv, TypeOK
<1>5. \A t \in SeqIds \ {owner} : Content'[t] = Content[t]
  <2> SUFFICES ASSUME NEW t \in SeqIds \ {owner} PROVE Read(t, 0, Visible(t))' = Read(t, 0, Visible(t))
    BY DEF Content
  <2>1. Visible(t)' = Visible(t)
    BY <1>4, VisibleBytes
  <2> QED BY <1>1, <2>1 DEF Read, ByteAt
<1> DEFINE old == Content[owner]
           new == Content'[owner]
           v   == Visible(owner)
           n   == sequenceBytes[owner]
<1>6. v \in Nat /\ done \in Nat /\ n \in Nat /\ v + done = n
  BY <1>1, VisibleBytes DEF StoreInv, TypeOK
<1>7. /\ old \in Seq(Byte) /\ Len(old) = v
      /\ new \in Seq(Byte) /\ Len(new) = n
  BY <1>1, <1>2, <1>4 DEF ContentBytes
<1> DEFINE head == SubSeq(PendingData, 1, done)
<1>12. PendingData \in Seq(Byte) /\ Len(PendingData) = done + Len(left) /\ Len(left) \in Nat
  BY <1>1, <1>2, LenProperties DEF PendingBytes, StoreInv, TypeOK
<1>8. /\ head \in Seq(Byte) /\ Len(head) = done
      /\ \A k \in 1 .. done : head[k] = PendingData[k]
  <2>1. \A k \in 1 .. done : PendingData[k] \in Byte
    BY <1>6, <1>12, ElementOfSeq
  <2> QED BY <1>6, <1>12, <2>1, SubSeqProperties
<1> HIDE DEF old, v, n, head
<1>9. /\ old \o head \in Seq(Byte)
      /\ Len(old \o head) = n
      /\ \A i \in 1 .. n : (old \o head)[i] = IF i <= v THEN old[i] ELSE head[i - v]
  <2>1. /\ old \o head \in Seq(Byte)
        /\ Len(old \o head) = Len(old) + Len(head)
        /\ \A i \in 1 .. Len(old) + Len(head) :
             (old \o head)[i] = IF i <= Len(old) THEN old[i] ELSE head[i - Len(old)]
    BY <1>7, <1>8, ConcatProperties
  <2> QED BY <1>6, <1>7, <1>8, <2>1
<1>10. ASSUME NEW i \in 1 .. n PROVE new[i] = (old \o head)[i]
  <2> DEFINE x == i - 1
  <2>1. x \in Nat /\ \A t \in SeqIds : t = owner => i \in 1 .. Visible(t)'
    BY <1>1, <1>4, <1>6 DEF n
  <2>2. ASSUME NEW t \in SeqIds, t = owner, NEW y \in Nat, y = x
        PROVE  new[i] = ByteAt(t, y)' /\ ByteAt(t, y)' = ByteAt(t, y)
    <3>1. Content'[t][i] = ByteAt(t, y)'
      BY <1>2, <2>1, <2>2 DEF ContentBytes
    <3> QED BY <1>1, <2>2, <3>1 DEF ByteAt
  <2>3. new[i] = ByteAt(owner, x)
    BY <1>1, <2>1, <2>2
  <2>4. CASE i <= v
    <3>1. i \in 1 .. v
      BY <1>6, <2>4
    <3>2. old[i] = ByteAt(owner, x)
      BY <1>1, <1>2, <2>1, <3>1 DEF ContentBytes, old, v
    <3> QED BY <1>9, <2>3, <2>4, <3>2
  <2>5. CASE i > v
    <3> DEFINE k == i - v
    <3>1. k \in 1 .. done /\ x = v + k - 1
      BY <1>6, <2>5
    <3>2. head[k] = ByteAt(owner, x)
      BY <1>1, <1>2, <1>8, <2>1, <3>1 DEF PendingBytes, v
    <3>3. ~(i <= v)
      BY <1>6, <2>5
    <3> QED BY <1>9, <2>3, <3>2, <3>3
  <2>6. i <= v \/ i > v
    BY <1>6
  <2> QED BY <2>4, <2>5, <2>6
<1>11. new = old \o head
  <2> HIDE DEF new
  <2> QED BY <1>6, <1>7, <1>9, <1>10, SeqEqual
<1>13. Content' = [Content EXCEPT ![owner] = @ \o head]
  BY <1>1, <1>5, <1>11 DEF Content, old
<1> QED BY <1>3, <1>6, <1>12, <1>13 DEF head

LEMMA AppendReturnCompletes ==
  ASSUME StoreInv, StoreInv', AppendReturn
  PROVE  /\ Content' = [Content EXCEPT ![owner] = @ \o PendingData]
         /\ Pending # Store!Idle /\ Pending' = Store!Idle
<1>1. /\ owner # NoSeq /\ left = << >> /\ owner' = NoSeq /\ left' = << >> /\ done' = 0
      /\ UNCHANGED <<sequences, sequenceBytes, data>>
  BY DEF AppendReturn, pageVars, seqVars
<1>2. /\ done \in Nat /\ PendingData \in Seq(Byte) /\ Len(PendingData) = done + Len(left)
      /\ Content' = [Content EXCEPT ![owner] = @ \o SubSeq(PendingData, 1, done)]
      /\ Pending # Store!Idle /\ Pending' = Store!Idle
  BY <1>1, AppendEnds
<1>3. Len(PendingData) = done
  BY <1>1, <1>2, EmptySeq
<1>4. SubSeq(PendingData, 1, done) = PendingData
  <2>1. \A k \in 1 .. done : PendingData[k] \in Byte
    BY <1>2, <1>3, ElementOfSeq
  <2>2. /\ SubSeq(PendingData, 1, done) \in Seq(Byte)
        /\ Len(SubSeq(PendingData, 1, done)) = done
        /\ \A k \in 1 .. done : SubSeq(PendingData, 1, done)[k] = PendingData[k]
    BY <1>2, <2>1, SubSeqProperties
  <2> QED BY <1>2, <1>3, <2>2, SeqEqual
<1> QED BY <1>2, <1>4

(* An append that throws in push_back leaves the beginning it has copied.  *)
LEMMA AppendThrowAbandons ==
  ASSUME StoreInv, StoreInv', AppendThrow
  PROVE  /\ done \in 0 .. Len(PendingData) - 1
         /\ Content' = [Content EXCEPT ![owner] = @ \o SubSeq(PendingData, 1, done)]
         /\ Pending # Store!Idle /\ Pending' = Store!Idle /\ outcome' = "bad_alloc"
<1>1. /\ owner # NoSeq /\ left # << >> /\ owner' = NoSeq /\ left' = << >> /\ done' = 0
      /\ UNCHANGED <<sequences, sequenceBytes, data>> /\ outcome' = "bad_alloc"
  BY DEF AppendThrow, seqVars
<1>2. /\ done \in Nat /\ Len(PendingData) = done + Len(left) /\ Len(left) \in Nat
      /\ Content' = [Content EXCEPT ![owner] = @ \o SubSeq(PendingData, 1, done)]
      /\ Pending # Store!Idle /\ Pending' = Store!Idle
  BY <1>1, AppendEnds
<1>3. Len(left) # 0
  BY <1>1, EmptySeq DEF StoreInv, TypeOK
<1>4. done \in 0 .. Len(PendingData) - 1
  BY <1>2, <1>3
<1> QED BY <1>1, <1>2, <1>4


(* PagedKV implements SequenceStore: through any interleaving of calls,    *)
(* what read() returns outside a running append is the concatenation of    *)
(* the accepted payloads, byte for byte; a refused append changes nothing, *)
(* and one that threw in push_back leaves a beginning of its payload.      *)
THEOREM StoreImplemented == Spec => ImplementsStore
<1>1. Init => Store!Init
  <2> SUFFICES ASSUME Init PROVE Store!Init
    OBVIOUS
  <2>1. \A s \in SeqIds : Visible(s) = 0 /\ sequenceBytes[s] = 0 /\ Len(sequences[s]) = 0
    BY EmptySeq DEF Init, Visible
  <2>2. \A s \in SeqIds : Read(s, 0, Visible(s)) = << >>
    BY <2>1 DEF Read
  <2>3. owner = NoSeq /\ outcome = "none"
    BY DEF Init
  <2> QED BY <2>2, <2>3 DEF Store!Init, Store!Idle
<1>2. StoreInv /\ StoreInv' /\ [Next]_vars => [Store!Next]_(Store!vars)
  <2> SUFFICES ASSUME StoreInv, StoreInv', [Next]_vars PROVE [Store!Next]_(Store!vars)
    OBVIOUS
  <2>0. \/ Content' = Content /\ Pending' = Pending /\ outcome' = outcome
        \/ \E s \in SeqIds : /\ Content' = [Content EXCEPT ![s] = << >>]
                             /\ Pending = Store!Idle /\ Pending' = Pending /\ outcome' = outcome
        \/ \E s \in SeqIds, d \in Payloads :
             Content' = Content /\ Pending = Store!Idle /\ outcome' = "none"
             /\ Pending' = [seq |-> s, data |-> d]
        \/ Content' = Content /\ Pending = Store!Idle /\ outcome' = "bad_alloc" /\ Pending' = Pending
        \/ /\ Content' = [Content EXCEPT ![Pending.seq] = @ \o Pending.data]
           /\ Pending # Store!Idle /\ Pending' = Store!Idle /\ outcome' = "ok"
        \/ /\ \E k \in 0 .. Len(Pending.data) - 1 :
                Content' = [Content EXCEPT ![Pending.seq] = @ \o SubSeq(Pending.data, 1, k)]
           /\ Pending # Store!Idle /\ Pending' = Store!Idle /\ outcome' = "bad_alloc"
    <3>1. CASE Acquire
      BY <3>1, ReadFrame DEF Acquire, seqVars, appendVars
    <3>2. ASSUME NEW p \in Page, Release(p)
          PROVE  Content' = Content /\ Pending' = Pending /\ outcome' = outcome
      BY <3>2, ReadFrame DEF Release, seqVars, appendVars
    <3>3. ASSUME NEW s \in SeqIds, ReleaseSequence(s)
          PROVE  /\ Content' = [Content EXCEPT ![s] = << >>]
                 /\ Pending = Store!Idle /\ Pending' = Pending /\ outcome' = outcome
      BY <3>3, ReleaseSequenceClears DEF ReleaseSequence
    <3>4. CASE \E s \in SeqIds, d \in Payloads : AppendBegin(s, d)
      BY <3>4, AppendBeginStores
    <3>5. CASE AppendChunk
      BY <3>5, ChunkStutters DEF Pending
    <3>6. CASE AppendReturn
      <4>1. Pending.seq = owner /\ Pending.data = PendingData
        BY DEF Pending
      <4> QED BY <3>6, <4>1, AppendReturnCompletes DEF AppendReturn
    <3>8. CASE AppendThrow
      <4>1. Pending.seq = owner /\ Pending.data = PendingData
        BY DEF Pending
      <4> QED BY <3>8, <4>1, AppendThrowAbandons
    <3>7. CASE UNCHANGED vars
      BY <3>7, ReadFrame DEF vars
    <3> QED BY <3>1, <3>2, <3>3, <3>4, <3>5, <3>6, <3>7, <3>8 DEF Next
  <2> QED BY <2>0 DEF Store!Next, Store!vars, Store!Clear, Store!Accept, Store!Refuse,
                      Store!Complete, Store!Abandon, Content, Pending, PendingData
<1> QED BY <1>1, <1>2, StoreInvCorrect, PTL DEF Spec, ImplementsStore, Store!Spec

-----------------------------------------------------------------------------
(* The dense cache, for any number of layers and tokens.                   *)

USE DenseAssumption DEF Dense!SizesAssumption, Dense!ContentsAssumption

DenseClone == [owner : {Own}, data : Values \cup {0}]
Entry == Dense!Layer \X Dense!Token
Place(e) == Dense!IndexOf(e[1], e[2])

(* Every stored tensor is a clone, and the last append of a token is what  *)
(* is stored for it unless one that threw has begun to replace it.         *)
DenseInv ==
  /\ mem \in [Tensors -> Values]
  /\ keys \in [Dense!Index -> DenseClone] /\ values \in [Dense!Index -> DenseClone]
  /\ valid \in [Dense!Index -> BOOLEAN]
  /\ appended \in [Entry -> (Values \cup {0}) \X (Values \cup {0})]
  /\ \A e \in Entry :
       /\ valid[Place(e)] => appended[e] \in Values \X Values
       /\ ~valid[Place(e)] => appended[e] = <<0, 0>>
       /\ valid[Place(e)] /\ e \notin torn =>
            appended[e] = <<keys[Place(e)].data, values[Place(e)].data>>

(* An entry has a place of its own, and every place is one entry's.        *)
LEMMA PlaceIsEntry ==
  /\ \A e \in Entry : Place(e) \in Dense!Index
  /\ \A e, f \in Entry : Place(e) = Place(f) => e = f
  /\ \A i \in Dense!Index : \E e \in Entry : Place(e) = i
<1> DEFINE C == Capacity
<1>0. Layers \in Nat /\ C \in Nat /\ Layers * C \in Nat
  OBVIOUS
<1>1. ASSUME NEW e \in Entry
      PROVE  /\ e[1] \in Nat /\ e[2] \in Nat /\ e[1] + 1 <= Layers /\ e[2] + 1 <= C
             /\ e = <<e[1], e[2]>> /\ Place(e) = e[1] * C + e[2] /\ e[1] * C \in Nat
  BY DEF Entry, Dense!Layer, Dense!Token, Place, Dense!IndexOf
<1>2. ASSUME NEW e \in Entry PROVE Place(e) \in Dense!Index
  <2>1. (e[1] + 1) * C <= Layers * C
    BY <1>0, <1>1
  <2>2. (e[1] + 1) * C = e[1] * C + C
    BY <1>0, <1>1
  <2> HIDE DEF C
  <2>3. Place(e) \in Nat /\ Place(e) + 1 <= Layers * C
    BY <1>0, <1>1, <2>1, <2>2
  <2> QED BY <1>0, <2>3 DEF Dense!Index, C
<1>3. ASSUME NEW e \in Entry, NEW f \in Entry, e[1] + 1 <= f[1]
      PROVE  Place(e) # Place(f)
  <2>1. (e[1] + 1) * C <= f[1] * C
    BY <1>0, <1>1, <1>3
  <2>2. (e[1] + 1) * C = e[1] * C + C
    BY <1>0, <1>1
  <2> HIDE DEF C
  <2> QED BY <1>0, <1>1, <2>1, <2>2
<1>4. ASSUME NEW e \in Entry, NEW f \in Entry, Place(e) = Place(f) PROVE e = f
  <2>1. e[1] = f[1]
    BY <1>1, <1>3, <1>4
  <2>2. e[2] = f[2]
    <3> HIDE DEF C
    <3> QED BY <1>1, <1>4, <2>1
  <2> QED BY <1>1, <2>1, <2>2
<1>5. ASSUME NEW i \in Dense!Index PROVE \E e \in Entry : Place(e) = i
  <2> DEFINE l == i \div C
             n == i % C
  <2>1. i \in Nat /\ i < Layers * C
    BY <1>0 DEF Dense!Index
  <2>2. C \in Nat \ {0}
    <3>1. C = 0 => Layers * C = 0
      BY <1>0
    <3> HIDE DEF C
    <3> QED BY <1>0, <2>1, <3>1
  <2> HIDE DEF C
  <2>3. l \in Nat /\ n \in 0 .. C - 1 /\ i = l * C + n
    BY <2>1, <2>2, DivMod
  <2> HIDE DEF l, n
  <2>4. l < Layers
    <3>1. ASSUME Layers <= l PROVE Layers * C <= l * C
      BY <1>0, <2>2, <2>3, <3>1
    <3>2. l * C \in Nat
      BY <2>2, <2>3
    <3> QED BY <1>0, <2>1, <2>2, <2>3, <3>1, <3>2
  <2>5. <<l, n>> \in Entry
    BY <1>0, <2>2, <2>3, <2>4 DEF Entry, Dense!Layer, Dense!Token, C
  <2>6. Place(<<l, n>>) = i
    BY <2>3 DEF Place, Dense!IndexOf, C
  <2> QED BY <2>5, <2>6
<1> QED BY <1>2, <1>4, <1>5

LEMMA DenseInit == Dense!Init => DenseInv
<1> SUFFICES ASSUME Dense!Init PROVE DenseInv
  OBVIOUS
<1>1. Dense!Min(Values) \in Values
  <2>1. \E x \in Values : \A y \in Values : x <= y
    <3> DEFINE R == {ss \in Nat \X Nat : ss[1] < ss[2]}
    <3>0. IsWellFoundedOn(R, Nat)
      BY NatLessThanWellFounded DEF OpToRel
    <3>1. Values \subseteq Nat /\ Values # {}
      OBVIOUS
    <3>2. PICK x \in Values : \A y \in Values : ~(<<y, x>> \in R)
      BY <3>0, <3>1, WFMin
    <3>3. \A y \in Values : x \in Nat /\ y \in Nat /\ ~(y < x)
      BY <3>1, <3>2
    <3> QED BY <3>3
  <2> QED BY <2>1 DEF Dense!Min
<1>2. Dense!Zeros \in DenseClone
  BY DEF Dense!Zeros, Dense!Zero, DenseClone
<1> QED BY <1>1, <1>2, PlaceIsEntry DEF Dense!Init, DenseInv, Dense!Zero, Entry

LEMMA DenseAppendKeeps ==
  ASSUME DenseInv, NEW l \in Dense!Layer, NEW n \in Dense!Token,
         NEW x \in Tensors, NEW y \in Tensors, Dense!append(l, n, x, y)
  PROVE  DenseInv'
<1>1. PICK e \in Entry : e = <<l, n>> /\ Place(e) = Dense!IndexOf(l, n)
  <2>1. <<l, n>> \in Entry /\ Place(<<l, n>>) = Dense!IndexOf(l, n)
    BY DEF Entry, Place
  <2> QED BY <2>1
<1>2. PICK i \in Dense!Index : i = Place(e)
  BY PlaceIsEntry
<1>3. /\ keys' = [keys EXCEPT ![i] = Dense!clone(x)] /\ values' = [values EXCEPT ![i] = Dense!clone(y)]
      /\ valid' = [valid EXCEPT ![i] = TRUE] /\ appended' = [appended EXCEPT ![e] = <<mem[x], mem[y]>>]
      /\ torn' = torn \ {e} /\ mem' = mem
  BY <1>1, <1>2 DEF Dense!append
<1>4. /\ Dense!clone(x) \in DenseClone /\ Dense!clone(y) \in DenseClone
      /\ Dense!clone(x).data = mem[x] /\ Dense!clone(y).data = mem[y]
      /\ mem[x] \in Values /\ mem[y] \in Values
  BY DEF Dense!clone, DenseClone, DenseInv
<1> USE DEF DenseInv
<1>5. /\ keys' \in [Dense!Index -> DenseClone] /\ values' \in [Dense!Index -> DenseClone]
      /\ valid' \in [Dense!Index -> BOOLEAN]
      /\ appended' \in [Entry -> (Values \cup {0}) \X (Values \cup {0})]
  BY <1>3, <1>4
<1>6. ASSUME NEW f \in Entry
      PROVE  /\ valid'[Place(f)] => appended'[f] \in Values \X Values
             /\ ~valid'[Place(f)] => appended'[f] = <<0, 0>>
             /\ valid'[Place(f)] /\ f \notin torn' =>
                  appended'[f] = <<keys'[Place(f)].data, values'[Place(f)].data>>
  <2>1. CASE f = e
    BY <1>2, <1>3, <1>4, <2>1
  <2>2. CASE f # e
    <3>1. Place(f) # i /\ Place(f) \in Dense!Index
      BY <1>2, <2>2, PlaceIsEntry
    <3>2. /\ valid'[Place(f)] = valid[Place(f)] /\ keys'[Place(f)] = keys[Place(f)]
          /\ values'[Place(f)] = values[Place(f)] /\ appended'[f] = appended[f]
          /\ f \in torn' <=> f \in torn
      BY <1>3, <2>2, <3>1
    <3> QED BY <3>2
  <2> QED BY <2>1, <2>2
<1> QED BY <1>3, <1>5, <1>6 DEF Place, Dense!IndexOf

LEMMA DenseThrowKeeps ==
  ASSUME DenseInv, NEW l \in Dense!Layer, NEW n \in Dense!Token,
         NEW x \in Tensors, Dense!AppendThrows(l, n, x)
  PROVE  DenseInv'
<1>1. PICK e \in Entry : e = <<l, n>> /\ Place(e) = Dense!IndexOf(l, n)
  <2>1. <<l, n>> \in Entry /\ Place(<<l, n>>) = Dense!IndexOf(l, n)
    BY DEF Entry, Place
  <2> QED BY <2>1
<1>2. PICK i \in Dense!Index : i = Place(e)
  BY PlaceIsEntry
<1>3. /\ keys' = [keys EXCEPT ![i] = Dense!clone(x)] /\ values' = values
      /\ valid' = valid /\ appended' = appended /\ mem' = mem
      /\ torn' = IF valid[i] THEN torn \cup {e} ELSE torn
  BY <1>1, <1>2 DEF Dense!AppendThrows
<1> USE DEF DenseInv
<1>4. keys' \in [Dense!Index -> DenseClone]
  BY <1>3 DEF Dense!clone, DenseClone
<1>5. ASSUME NEW f \in Entry, valid[Place(f)], f \notin torn'
      PROVE  appended[f] = <<keys'[Place(f)].data, values[Place(f)].data>>
  <2>1. f # e
    BY <1>2, <1>3, <1>5
  <2>2. Place(f) # i /\ Place(f) \in Dense!Index
    BY <1>2, <2>1, PlaceIsEntry
  <2> QED BY <1>3, <1>5, <2>2
<1> QED BY <1>3, <1>4, <1>5 DEF Place, Dense!IndexOf

LEMMA DenseInvInductive == DenseInv /\ [Dense!Next]_denseVars => DenseInv'
<1> SUFFICES ASSUME DenseInv, [Dense!Next]_denseVars PROVE DenseInv'
  OBVIOUS
<1>1. ASSUME NEW x \in Tensors, NEW v \in Values, Dense!Fill(x, v) PROVE DenseInv'
  BY <1>1 DEF Dense!Fill, DenseInv, Place, Dense!IndexOf
<1>2. CASE Dense!reset
  BY <1>2, PlaceIsEntry DEF Dense!reset, DenseInv, Place, Dense!IndexOf, Entry, Dense!Zero
<1>3. CASE UNCHANGED denseVars
  BY <1>3 DEF denseVars, DenseInv, Place, Dense!IndexOf
<1> QED BY <1>1, <1>2, <1>3, DenseAppendKeeps, DenseThrowKeeps DEF Dense!Next

(* Dense has a copy of its own of the operator of FiniteSets.              *)
LEMMA DenseCardinality == \A S : Dense!Cardinality(S) = Cardinality(S)
BY DEF Dense!Cardinality, Cardinality

LEMMA DenseInvExact == DenseInv => GetExact
<1> SUFFICES ASSUME DenseInv PROVE GetExact
  OBVIOUS
<1>1. ASSUME NEW l \in Dense!Layer, NEW b \in Dense!Token, NEW z \in b .. Capacity,
             NEW n \in 1 .. z - b, <<l, b + n - 1>> \notin torn
      PROVE  Dense!get(l, b, z)[n] = appended[<<l, b + n - 1>>]
  <2>1. b + n - 1 \in Dense!Token
    BY DEF Dense!Token
  <2>2. PICK e \in Entry : e = <<l, b + n - 1>> /\ Place(e) = Dense!IndexOf(l, b + n - 1)
    <3> DEFINE k == b + n - 1
    <3> HIDE DEF k
    <3>1. k \in Dense!Token
      BY <2>1 DEF k
    <3>2. <<l, k>> \in Entry /\ Place(<<l, k>>) = Dense!IndexOf(l, k)
      BY <3>1 DEF Entry, Place
    <3> QED BY <3>2 DEF k
  <2>3. Place(e) \in Dense!Index
    BY PlaceIsEntry
  <2>4. keys[Place(e)].owner = Own /\ values[Place(e)].owner = Own
    BY <2>3 DEF DenseInv, DenseClone
  <2>5. Dense!get(l, b, z)[n] =
          IF valid[Place(e)] THEN <<keys[Place(e)].data, values[Place(e)].data>> ELSE <<0, 0>>
    BY <2>2, <2>4 DEF Dense!get, Dense!Data, Dense!Zero
  <2> QED BY <1>1, <2>2, <2>5 DEF DenseInv
<1>2. Dense!used = Cardinality({e \in Entry : appended[e] # <<0, 0>>})
  <2> DEFINE S == {e \in Entry : appended[e] # <<0, 0>>}
             T == {i \in Dense!Index : valid[i]}
             f == [e \in S |-> Place(e)]
  <2>1. \A e \in Entry : e \in S <=> Place(e) \in T
    <3>1. \A v, w \in Values : <<v, w>> # <<0, 0>>
      OBVIOUS
    <3>2. \A e \in Entry : appended[e] # <<0, 0>> <=> valid[Place(e)]
      BY <3>1 DEF DenseInv
    <3> QED BY <3>2, PlaceIsEntry
  <2>2. f \in Bijection(S, T)
    <3>1. f \in [S -> T]
      BY <2>1
    <3>2. \A e, d \in S : f[e] = f[d] => e = d
      BY PlaceIsEntry
    <3>3. \A i \in T : \E e \in S : f[e] = i
      BY <2>1, PlaceIsEntry
    <3> HIDE DEF S, T, f
    <3> QED BY <3>1, <3>2, <3>3 DEF Bijection, Injection, Surjection, IsInjective
  <2>3. IsFiniteSet(S)
    <3>1. IsFiniteSet(Dense!Layer) /\ IsFiniteSet(Dense!Token)
      BY FS_Interval DEF Dense!Layer, Dense!Token
    <3>2. IsFiniteSet(Entry)
      BY <3>1, FS_Product DEF Entry
    <3> QED BY <3>2, FS_Subset
  <2> HIDE DEF S, T, f
  <2>4. Cardinality(S) = Cardinality(T)
    BY <2>2, <2>3, FS_Bijection DEF ExistsBijection
  <2> QED BY <2>4, DenseCardinality DEF S, T, Dense!used
<1> QED BY <1>1, <1>2, DenseCardinality DEF GetExact, Dense!GetExact, Dense!Zero, Entry

(* get() returns what was in the tensors when append() returned, whatever  *)
(* their owner did with them later, for any number of layers and tokens.   *)
THEOREM DenseGetCorrect == Dense!Spec => []GetExact
<1>1. DenseInv /\ [Dense!Next]_denseVars => DenseInv'
  BY DenseInvInductive
<1>2. UNCHANGED Dense!vars => UNCHANGED denseVars
  BY DEF denseVars, Dense!vars
<1>3. DenseInv /\ [Dense!Next]_(Dense!vars) => DenseInv'
  BY <1>1, <1>2
<1> QED BY <1>3, DenseInit, DenseInvExact, PTL DEF Dense!Spec
=============================================================================
