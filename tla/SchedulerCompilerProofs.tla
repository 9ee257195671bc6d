---------------------- MODULE SchedulerCompilerProofs ----------------------
(***************************************************************************)
(* The scheduler, for any number of workers, requests and jobs and any     *)
(* batch size: the order of submit() is kept, and nothing decodes that was *)
(* not prefilled.                                                          *)
(*                                                                         *)
(* The compiler, for modules of any size: passes keep a module valid, the  *)
(* marking of live nodes is exact, fusion groups every node once, the      *)
(* sweep keeps what the outputs compute, and folding computes what the     *)
(* folded nodes would have.  And the older Graph: a node is fused once.    *)
(* The two parts share no state.                                           *)
(***************************************************************************)
EXTENDS Scheduler, MCCompiler, SelectionProofs

Request == [id : RequestIds, prompt : Nat, total : Nat, generated : Nat,
            phase : {"Prefill", "Decode"}]

(* Types.  A request in queue_ has not run; between calls none in active_  *)
(* is finished, and there are never more of them than fit a batch.         *)
TypeInv ==
  /\ queue \in Seq(Request) /\ \A i \in DOMAIN queue : queue[i].phase = "Prefill"
  /\ active \in Seq(Request) /\ Len(active) <= MaxBatch
  /\ \A w \in Workers : batch[w].phase \in {"Prefill", "Decode"}
  /\ DOMAIN batch = Workers
  /\ todo \in [Workers -> SUBSET RequestIds]
  /\ submitted \in Seq(RequestIds)
  /\ cancelled \subseteq ToSet(submitted) /\ finished \subseteq ToSet(submitted)

(* Every id is submitted once.                                             *)
IdsUnique == \A i, j \in DOMAIN submitted : submitted[i] = submitted[j] => i = j

(* A batch that decodes has only requests left whose prompt has run.       *)
BatchesPrefilled == \A w \in Workers : batch[w].phase = "Decode" => todo[w] \subseteq prefilled

(* The order of submit(), in a form that composes.                         *)
Line == Ids(active) \o Ids(queue)
InOrder == IsKept(Line, submitted, Waiting)

SchedulerInv == TypeInv /\ IdsUnique /\ InOrder /\ DecodeAfterPrefill /\ BatchesPrefilled

LEMMA IdsType ==
  ASSUME NEW q \in Seq(Request)
  PROVE  Ids(q) \in Seq(RequestIds) /\ Len(Ids(q)) = Len(q) /\ \A i \in DOMAIN q : Ids(q)[i] = q[i].id
<1>1. Ids(q) = [i \in 1 .. Len(q) |-> q[i].id]
  BY DEF Ids
<1>2. \A i \in 1 .. Len(q) : q[i].id \in RequestIds
  <2>1. \A i \in 1 .. Len(q) : q[i] \in Request
    OBVIOUS
  <2> QED BY <2>1 DEF Request
<1> QED BY <1>1, <1>2

LEMMA LineType ==
  TypeInv => Line \in Seq(RequestIds) /\ Waiting \subseteq DOMAIN submitted
BY IdsType DEF TypeInv, Line, Waiting

LEMMA OrderIsFifo == SchedulerInv => FifoOrder
<1> SUFFICES ASSUME SchedulerInv PROVE FifoOrder
  OBVIOUS
<1>1. Line \in Seq(RequestIds) /\ Waiting \subseteq DOMAIN submitted /\ submitted \in Seq(RequestIds)
  BY LineType DEF SchedulerInv, TypeInv
<1>2. Line = Kept(submitted, Waiting)
  BY <1>1, KeptOnly DEF SchedulerInv, InOrder
<1> QED BY <1>2 DEF FifoOrder, Line

(* Nobody stands twice in the line.                                        *)
LEMMA LineUnique ==
  ASSUME SchedulerInv
  PROVE  \A k, l \in DOMAIN Line : Line[k] = Line[l] => k = l
<1>1. PICK g : Lists(g, Len(Line), Waiting) /\ \A k \in 1 .. Len(Line) : Line[k] = submitted[g[k]]
  BY DEF SchedulerInv, InOrder, IsKept
<1>2. Line \in Seq(RequestIds) /\ Waiting \subseteq DOMAIN submitted /\ submitted \in Seq(RequestIds)
  BY LineType DEF SchedulerInv, TypeInv
<1>3. \A k \in DOMAIN Line : g[k] \in DOMAIN submitted /\ g[k] \in Nat /\ Line[k] = submitted[g[k]] /\ k \in Nat
  BY <1>1, <1>2 DEF Lists
<1>4. \A k, l \in DOMAIN Line : k < l => g[k] < g[l]
  BY <1>1, <1>2 DEF Lists
<1> QED BY <1>3, <1>4 DEF SchedulerInv, IdsUnique

(* Whoever leaves, the others keep their order.                            *)
LEMMA LeavingKeepsOrder ==
  ASSUME SchedulerInv, TypeInv', submitted' = submitted, NEW V,
         IsKept(Ids(active)', Ids(active), Holding(Ids(active), V)),
         IsKept(Ids(queue)', Ids(queue), Holding(Ids(queue), V)),
         \A i \in Waiting : submitted[i] \in V <=> submitted[i] \notin cancelled' \cup finished',
         cancelled \subseteq cancelled', finished \subseteq finished'
  PROVE  InOrder'
<1>1. /\ Ids(active) \in Seq(RequestIds) /\ Ids(queue) \in Seq(RequestIds)
      /\ Ids(active)' \in Seq(RequestIds) /\ Ids(queue)' \in Seq(RequestIds)
  BY IdsType DEF SchedulerInv, TypeInv
<1>2. Line' = Ids(active)' \o Ids(queue)'
  BY DEF Line
<1>3. IsKept(Line', Line, Holding(Line, V))
  BY <1>1, <1>2, KeptConcat DEF Line
<1>4. /\ Line \in Seq(RequestIds) /\ Line' \in Seq(RequestIds)
      /\ Waiting \subseteq DOMAIN submitted /\ submitted \in Seq(RequestIds)
  BY <1>1, <1>2, LineType DEF SchedulerInv, TypeInv
<1>5. IsKept(Line', submitted, {i \in Waiting : submitted[i] \in V})
  BY <1>3, <1>4, KeptKept DEF SchedulerInv, InOrder
<1>6. Waiting' = {i \in Waiting : submitted[i] \in V}
  BY DEF Waiting
<1> QED BY <1>5, <1>6 DEF InOrder

LEMMA IdsKept ==
  ASSUME NEW q \in Seq(Request), NEW s \in Seq(Request), NEW S, S \subseteq DOMAIN q, IsKept(s, q, S)
  PROVE  IsKept(Ids(s), Ids(q), S)
<1>1. PICK g : Lists(g, Len(s), S) /\ \A k \in 1 .. Len(s) : s[k] = q[g[k]]
  BY DEF IsKept
<1>2. \A k \in 1 .. Len(s) : g[k] \in DOMAIN q
  BY <1>1 DEF Lists
<1>3. Len(Ids(s)) = Len(s) /\ \A k \in 1 .. Len(s) : Ids(s)[k] = Ids(q)[g[k]]
  BY <1>1, <1>2, IdsType
<1> QED BY <1>1, <1>3 DEF IsKept

LEMMA CancelKeeps ==
  ASSUME SchedulerInv, NEW id \in RequestIds, Cancel(id)
  PROVE  SchedulerInv'
<1> DEFINE V == RequestIds \ {id}
<1>0. /\ queue' = Without(queue, id) /\ active' = Without(active, id)
      /\ cancelled' = IF id \in finished THEN cancelled ELSE cancelled \cup {id}
      /\ batch' = batch /\ todo' = todo /\ submitted' = submitted /\ finished' = finished
      /\ prefilled' = prefilled /\ id \in ToSet(submitted)
  BY DEF Cancel
<1>1. /\ queue \in Seq(Request) /\ active \in Seq(Request) /\ submitted \in Seq(RequestIds)
      /\ Len(active) <= MaxBatch
  BY DEF SchedulerInv, TypeInv
<1>2. ASSUME NEW q \in Seq(Request)
      PROVE  /\ Without(q, id) \in Seq(Request) /\ Len(Without(q, id)) <= Len(q)
             /\ \A k \in DOMAIN Without(q, id) : \E i \in DOMAIN q : Without(q, id)[k] = q[i]
             /\ IsKept(Ids(Without(q, id)), Ids(q), Holding(Ids(q), V))
  <2> DEFINE S == {i \in DOMAIN q : q[i].id # id}
  <2>1. S \subseteq DOMAIN q
    OBVIOUS
  <2>2. Without(q, id) = Kept(q, S)
    BY DEF Without
  <2>3. S = Holding(Ids(q), V)
    BY IdsType DEF Holding
  <2> HIDE DEF S, V
  <2>4. Kept(q, S) \in Seq(Request) /\ IsKept(Kept(q, S), q, S)
    BY <2>1, KeptIsKept
  <2>5. IsKept(Ids(Kept(q, S)), Ids(q), S)
    BY <2>1, <2>4, IdsKept
  <2>6. /\ Len(Kept(q, S)) <= Len(q)
        /\ \A k \in DOMAIN Kept(q, S) : \E i \in S : Kept(q, S)[k] = q[i]
    BY <2>1, KeptMembers
  <2> QED BY <2>1, <2>2, <2>3, <2>4, <2>5, <2>6
<1>3. TypeInv'
  <2>1. queue' \in Seq(Request) /\ \A i \in DOMAIN queue' : queue'[i].phase = "Prefill"
    <3>1. \A i \in DOMAIN queue : queue[i].phase = "Prefill"
      BY DEF SchedulerInv, TypeInv
    <3>2. /\ queue' \in Seq(Request)
          /\ \A k \in DOMAIN queue' : \E i \in DOMAIN queue : queue'[k] = queue[i]
      BY <1>0, <1>1, <1>2
    <3> QED BY <3>1, <3>2
  <2>2. active' \in Seq(Request) /\ Len(active') <= MaxBatch
    BY <1>0, <1>1, <1>2, MaxBatchAssumption
  <2>3. cancelled' \subseteq ToSet(submitted)
    BY <1>0 DEF SchedulerInv, TypeInv
  <2> QED BY <1>0, <2>1, <2>2, <2>3 DEF SchedulerInv, TypeInv
<1>4. InOrder'
  <2>1. /\ IsKept(Ids(active)', Ids(active), Holding(Ids(active), V))
        /\ IsKept(Ids(queue)', Ids(queue), Holding(Ids(queue), V))
    BY <1>0, <1>1, <1>2
  <2>2. \A i \in Waiting : submitted[i] \in V <=> submitted[i] \notin cancelled' \cup finished'
    BY <1>0, <1>1 DEF Waiting
  <2> HIDE DEF V
  <2> QED BY <1>0, <1>3, <2>1, <2>2, LeavingKeepsOrder
<1>5. DecodeAfterPrefill'
  <2>1. ToSet(active') \subseteq ToSet(active)
    BY <1>0, <1>1, <1>2 DEF ToSet
  <2> QED BY <1>0, <2>1 DEF SchedulerInv, DecodeAfterPrefill
<1>6. IdsUnique' /\ BatchesPrefilled'
  BY <1>0 DEF SchedulerInv, IdsUnique, BatchesPrefilled
<1> QED BY <1>3, <1>4, <1>5, <1>6 DEF SchedulerInv

LEMMA SubmitKeeps ==
  ASSUME SchedulerInv, NEW id \in RequestIds, NEW job \in Jobs, Submit(id, job)
  PROVE  SchedulerInv'
<1> DEFINE r == NewRequest(id, job)
<1>0. /\ queue' = Append(queue, r) /\ submitted' = Append(submitted, id)
      /\ active' = active /\ cancelled' = cancelled /\ batch' = batch /\ todo' = todo
      /\ finished' = finished /\ prefilled' = prefilled /\ id \notin ToSet(submitted)
  BY DEF Submit
<1>1. /\ queue \in Seq(Request) /\ active \in Seq(Request) /\ submitted \in Seq(RequestIds)
      /\ cancelled \subseteq ToSet(submitted) /\ finished \subseteq ToSet(submitted)
      /\ \A i \in DOMAIN queue : queue[i].phase = "Prefill"
  BY DEF SchedulerInv, TypeInv
<1>2. r \in Request /\ r.phase = "Prefill" /\ r.id = id
  BY JobsAssumption DEF NewRequest, Request
<1> HIDE DEF r
<1>3. /\ \A i \in DOMAIN submitted : submitted[i] # id /\ submitted'[i] = submitted[i]
      /\ submitted'[Len(submitted) + 1] = id
      /\ DOMAIN submitted' = DOMAIN submitted \cup {Len(submitted) + 1}
      /\ Len(submitted) + 1 \notin DOMAIN submitted
  BY <1>0, <1>1 DEF ToSet
<1>4. ToSet(submitted) \subseteq ToSet(submitted')
  BY <1>3 DEF ToSet
<1>5. queue' \in Seq(Request) /\ \A i \in DOMAIN queue' : queue'[i].phase = "Prefill"
  BY <1>0, <1>1, <1>2
<1>6. TypeInv'
  BY <1>0, <1>1, <1>4, <1>5 DEF SchedulerInv, TypeInv
<1>7. InOrder'
  <2>1. Line' = Append(Line, id)
    <3>1. Ids(queue)' = Append(Ids(queue), id)
      BY <1>0, <1>1, <1>2 DEF Ids
    <3>2. Ids(active) \in Seq(RequestIds) /\ Ids(queue) \in Seq(RequestIds)
      BY <1>1, IdsType
    <3>3. \A a, b \in Seq(RequestIds) : a \o Append(b, id) = Append(a \o b, id)
      OBVIOUS
    <3> QED BY <1>0, <3>1, <3>2, <3>3 DEF Line, Ids
  <2>2. Waiting' = Waiting \cup {Len(submitted) + 1}
    <3>1. id \notin cancelled \cup finished
      BY <1>0, <1>1
    <3> QED BY <1>0, <1>3, <3>1 DEF Waiting
  <2>3. Line \in Seq(RequestIds) /\ Waiting \subseteq DOMAIN submitted
    BY LineType DEF SchedulerInv
  <2>4. IsKept(Append(Line, id), Append(submitted, id), Waiting \cup {Len(submitted) + 1})
    BY <1>1, <2>3, KeptAppend DEF SchedulerInv, InOrder
  <2> QED BY <1>0, <2>1, <2>2, <2>4 DEF InOrder
<1>8. IdsUnique'
  BY <1>3 DEF SchedulerInv, IdsUnique
<1>9. DecodeAfterPrefill' /\ BatchesPrefilled'
  BY <1>0 DEF SchedulerInv, DecodeAfterPrefill, BatchesPrefilled
<1> QED BY <1>6, <1>7, <1>8, <1>9 DEF SchedulerInv

LEMMA ListMin ==
  ASSUME NEW a \in Nat, NEW b \in Nat
  PROVE  Min({a, b}) \in Nat /\ Min({a, b}) <= a /\ Min({a, b}) <= b
<1>1. \E x \in {a, b} : \A y \in {a, b} : x <= y
  OBVIOUS
<1>2. Min({a, b}) \in {a, b} /\ \A y \in {a, b} : Min({a, b}) <= y
  BY <1>1 DEF Min
<1> QED BY <1>2

LEMMA NextBatchKeeps ==
  ASSUME SchedulerInv, NEW w \in Workers, NextBatch(w)
  PROVE  SchedulerInv'
<1> DEFINE n == AdmitCount
<1>0. /\ active' = active \o SubSeq(queue, 1, n)
      /\ queue' = SubSeq(queue, n + 1, Len(queue))
      /\ batch' = [batch EXCEPT ![w] = BatchOf(active')]
      /\ todo' = [todo EXCEPT ![w] = ToSet(batch'[w].ids)]
      /\ submitted' = submitted /\ cancelled' = cancelled /\ finished' = finished
      /\ prefilled' = prefilled
  BY DEF NextBatch
<1>1. /\ queue \in Seq(Request) /\ active \in Seq(Request) /\ submitted \in Seq(RequestIds)
      /\ Len(active) <= MaxBatch /\ Len(active) \in Nat /\ MaxBatch \in Nat /\ Len(queue) \in Nat
      /\ \A i \in DOMAIN queue : queue[i].phase = "Prefill"
      /\ DOMAIN batch = Workers /\ todo \in [Workers -> SUBSET RequestIds]
      /\ \A u \in Workers : batch[u].phase \in {"Prefill", "Decode"}
  BY MaxBatchAssumption DEF SchedulerInv, TypeInv
<1>2. n \in Nat /\ n <= Len(queue) /\ n + Len(active) <= MaxBatch
  <2>1. MaxBatch - Len(active) \in Nat
    BY <1>1
  <2>2. n \in Nat /\ n <= MaxBatch - Len(active) /\ n <= Len(queue)
    BY <1>1, <2>1, ListMin DEF AdmitCount
  <2> HIDE DEF n
  <2> QED BY <1>1, <2>2
<1> HIDE DEF n
<1>3. /\ active' \in Seq(Request) /\ queue' \in Seq(Request)
      /\ Len(active') = Len(active) + n /\ Len(queue') = Len(queue) - n
      /\ \A i \in 1 .. Len(active') : active'[i] = IF i <= Len(active) THEN active[i] ELSE queue[i - Len(active)]
      /\ \A i \in 1 .. Len(queue') : queue'[i] = queue[n + i]
  <2>1. /\ SubSeq(queue, 1, n) \in Seq(Request) /\ Len(SubSeq(queue, 1, n)) = n
        /\ \A i \in 1 .. n : SubSeq(queue, 1, n)[i] = queue[i]
    BY <1>1, <1>2
  <2>2. /\ SubSeq(queue, n + 1, Len(queue)) \in Seq(Request)
        /\ Len(SubSeq(queue, n + 1, Len(queue))) = Len(queue) - n
        /\ \A i \in 1 .. Len(queue) - n : SubSeq(queue, n + 1, Len(queue))[i] = queue[n + i]
    BY <1>1, <1>2
  <2> QED BY <1>0, <1>1, <1>2, <2>1, <2>2
<1>4. Line' = Line
  <2> DEFINE a == Ids(active)  b == Ids(queue)  c == Ids(active')  d == Ids(queue')
             m == Len(active)  l == Len(queue)
  <2>1. /\ a \in Seq(RequestIds) /\ b \in Seq(RequestIds) /\ c \in Seq(RequestIds) /\ d \in Seq(RequestIds)
        /\ Len(a) = m /\ Len(b) = l /\ Len(c) = m + n /\ Len(d) = l - n
        /\ m \in Nat /\ l \in Nat
    BY <1>1, <1>3, IdsType
  <2>2. \A i \in 1 .. m + n : c[i] = IF i <= m THEN a[i] ELSE b[i - m]
    <3> TAKE i \in 1 .. m + n
    <3>1. c[i] = active'[i].id
      BY SMTT(30), <1>3, <2>1, IdsType
    <3>2. CASE i <= m
      <4>1. a[i] = active[i].id
        BY <1>1, <3>2, IdsType
      <4> QED BY <1>3, <3>1, <3>2, <4>1
    <3>3. CASE ~(i <= m)
      <4>1. i - m \in DOMAIN queue
        BY <1>1, <1>2, <3>3
      <4>2. b[i - m] = queue[i - m].id
        BY <1>1, <4>1, IdsType
      <4> QED BY <1>3, <3>1, <3>3, <4>2
    <3> QED BY <3>2, <3>3
  <2>3. \A i \in 1 .. l - n : d[i] = b[n + i]
    <3> TAKE i \in 1 .. l - n
    <3>1. i \in DOMAIN queue' /\ n + i \in DOMAIN queue
      BY <1>1, <1>2, <1>3
    <3>2. d[i] = queue'[i].id /\ b[n + i] = queue[n + i].id
      BY <1>1, <1>3, <3>1, IdsType
    <3> QED BY <1>3, <3>2
  <2> HIDE DEF a, b, c, d, m, l
  <2>4. /\ Len(c \o d) = m + l /\ Len(a \o b) = m + l
        /\ c \o d \in Seq(RequestIds) /\ a \o b \in Seq(RequestIds)
    <3>1. \A x, y \in Seq(RequestIds) : Len(x \o y) = Len(x) + Len(y)
      OBVIOUS
    <3>2. c \o d \in Seq(RequestIds) /\ a \o b \in Seq(RequestIds)
      BY <2>1
    <3>3. (m + n) + (l - n) = m + l
      BY <1>2, <2>1
    <3> QED BY <2>1, <3>1, <3>2, <3>3
  <2>5. \A i \in 1 .. m + l : (c \o d)[i] = (a \o b)[i]
    <3> TAKE i \in 1 .. m + l
    <3>0. /\ i \in Nat /\ i >= 1 /\ i <= m + l /\ (m + n) + (l - n) = m + l
          /\ (c \o d)[i] = IF i <= m + n THEN c[i] ELSE d[i - (m + n)]
          /\ (a \o b)[i] = IF i <= m THEN a[i] ELSE b[i - m]
      <4>1. i \in Nat /\ i >= 1 /\ i <= m + l /\ (m + n) + (l - n) = m + l
        BY <1>2, <2>1
      <4>2. (c \o d)[i] = IF i <= m + n THEN c[i] ELSE d[i - (m + n)]
        <5>1. i <= Len(c) + Len(d)
          BY <2>1, <4>1
        <5>2. (c \o d)[i] = IF i <= Len(c) THEN c[i] ELSE d[i - Len(c)]
          BY <2>1, <4>1, <5>1, ConcatAt
        <5> QED BY <2>1, <5>2
      <4>3. (a \o b)[i] = IF i <= m THEN a[i] ELSE b[i - m]
        <5>1. i <= Len(a) + Len(b)
          BY <2>1, <4>1
        <5>2. (a \o b)[i] = IF i <= Len(a) THEN a[i] ELSE b[i - Len(a)]
          BY <2>1, <4>1, <5>1, ConcatAt
        <5> QED BY <2>1, <5>2
      <4> QED BY <4>1, <4>2, <4>3
    <3>1. CASE i <= m + n
      <4>1. (c \o d)[i] = c[i]
        BY <3>0, <3>1
      <4>2. (a \o b)[i] = IF i <= m THEN a[i] ELSE b[i - m]
        BY <3>0
      <4> QED BY SMTT(30), <1>2, <2>1, <2>2, <3>1, <4>1, <4>2
    <3>2. CASE ~(i <= m + n)
      <4>1. (c \o d)[i] = d[i - (m + n)] /\ i - (m + n) \in 1 .. l - n
        BY <1>2, <2>1, <3>0, <3>2
      <4>2. (a \o b)[i] = b[i - m]
        BY <1>2, <2>1, <3>0, <3>2
      <4>3. n + (i - (m + n)) = i - m
        BY <1>2, <2>1
      <4> QED BY <2>3, <4>1, <4>2, <4>3
    <3> QED BY <3>1, <3>2
  <2>6. c \o d = a \o b
    <3>1. \A x, y \in Seq(RequestIds) :
            Len(x) = Len(y) /\ (\A i \in 1 .. Len(x) : x[i] = y[i]) => x = y
      OBVIOUS
    <3> DEFINE x == c \o d
               y == a \o b
    <3>2. x \in Seq(RequestIds) /\ y \in Seq(RequestIds) /\ Len(x) = Len(y)
          /\ \A i \in 1 .. Len(x) : x[i] = y[i]
      BY <2>4, <2>5
    <3> HIDE DEF x, y
    <3>3. x = y
      BY <3>1, <3>2
    <3> QED BY <3>3 DEF x, y
  <2> QED BY <2>6 DEF Line, a, b, c, d
<1>5. InOrder'
  BY <1>0, <1>4 DEF SchedulerInv, InOrder, Waiting
<1>6. DecodeAfterPrefill'
  <2>1. \A i \in DOMAIN active' : active'[i].phase = "Decode" => active'[i] \in ToSet(active)
    <3> TAKE i \in DOMAIN active'
    <3>0. i \in 1 .. Len(active) + n
      BY <1>3
    <3>1. CASE i <= Len(active)
      <4>1. i \in DOMAIN active /\ active'[i] = active[i]
        BY <1>1, <1>2, <1>3, <3>0, <3>1
      <4> QED BY <4>1 DEF ToSet
    <3>2. CASE ~(i <= Len(active))
      <4>1. i - Len(active) \in DOMAIN queue
        BY <1>1, <1>2, <3>0, <3>2
      <4> QED BY <1>1, <1>3, <3>2, <4>1
    <3> QED BY <3>1, <3>2
  <2> QED BY <1>0, <2>1 DEF SchedulerInv, DecodeAfterPrefill, ToSet
<1>7. /\ BatchOf(active').phase \in {"Prefill", "Decode"}
      /\ ToSet(BatchOf(active').ids) \subseteq RequestIds
      /\ BatchOf(active').phase = "Decode" => ToSet(BatchOf(active').ids) \subseteq prefilled
  <2>1. CASE active' = << >>
    BY <2>1 DEF BatchOf, EmptyBatch, ToSet
  <2>2. CASE active' # << >>
    <3> DEFINE phase == Head(active').phase
               S == {i \in DOMAIN active' : active'[i].phase = phase}
               chosen == Kept(active', S)
    <3>1. BatchOf(active').phase = phase /\ BatchOf(active').ids = Ids(chosen)
      BY <2>2 DEF BatchOf
    <3>2. phase \in {"Prefill", "Decode"}
      <4>1. Head(active') \in Request
        BY <1>3, <2>2
      <4> QED BY <4>1 DEF Request
    <3>3. S \subseteq DOMAIN active'
      OBVIOUS
    <3>4. /\ chosen \in Seq(Request)
          /\ \A k \in DOMAIN chosen : \E i \in S : chosen[k] = active'[i]
      <4> HIDE DEF S, phase
      <4> QED BY <1>3, <3>3, KeptMembers
    <3>5. \A k \in DOMAIN chosen : chosen[k] \in ToSet(active') /\ chosen[k].phase = phase
      BY <3>4 DEF ToSet
    <3> HIDE DEF chosen, phase, S
    <3>6. /\ Ids(chosen) \in Seq(RequestIds) /\ DOMAIN Ids(chosen) = DOMAIN chosen
          /\ \A k \in DOMAIN chosen : Ids(chosen)[k] = chosen[k].id
      BY <3>4, IdsType
    <3>7. phase = "Decode" => \A k \in DOMAIN chosen : chosen[k].id \in prefilled
      BY <1>0, <1>6, <3>5 DEF DecodeAfterPrefill
    <3> QED BY <3>1, <3>2, <3>6, <3>7 DEF ToSet
  <2> QED BY <2>1, <2>2
<1>8. TypeInv'
  <2>1. \A i \in DOMAIN queue' : queue'[i].phase = "Prefill"
    <3> TAKE i \in DOMAIN queue'
    <3>1. PICK k \in Nat : k = Len(queue)
      BY <1>1
    <3>2. Len(queue') = k - n /\ DOMAIN queue' = 1 .. k - n /\ DOMAIN queue = 1 .. k
      BY <1>1, <1>2, <1>3, <3>1
    <3>3. n + i \in DOMAIN queue
      BY <1>1, <1>2, <3>1, <3>2
    <3>4. queue'[i] = queue[n + i]
      BY <1>1, <1>2, <1>3, <3>1, <3>2
    <3> QED BY <1>1, <3>3, <3>4
  <2>2. /\ DOMAIN batch' = Workers /\ todo' \in [Workers -> SUBSET RequestIds]
        /\ \A u \in Workers : batch'[u].phase \in {"Prefill", "Decode"}
    BY <1>0, <1>1, <1>7
  <2>3. Len(active') <= MaxBatch
    BY <1>1, <1>2, <1>3
  <2> QED BY <1>0, <1>3, <2>1, <2>2, <2>3 DEF SchedulerInv, TypeInv
<1>9. BatchesPrefilled'
  BY <1>0, <1>1, <1>7 DEF SchedulerInv, BatchesPrefilled
<1>10. IdsUnique'
  BY <1>0 DEF SchedulerInv, IdsUnique
<1> QED BY <1>5, <1>6, <1>8, <1>9, <1>10 DEF SchedulerInv

LEMMA CompleteKeeps ==
  ASSUME SchedulerInv, NEW w \in Workers, NEW id \in RequestIds, NEW tokens \in Tokens,
         Complete(w, id, tokens)
  PROVE  SchedulerInv'
<1> DEFINE AnyRequest == [id : RequestIds, prompt : Nat, total : Nat, generated : Nat,
                   phase : {"Prefill", "Decode", "Finished"}]
           advanced == [i \in DOMAIN active |->
                          IF active[i].id = id THEN Advanced(active[i], tokens) ELSE active[i]]
           K == {i \in DOMAIN advanced : advanced[i].phase # "Finished"}
           Left == ToSet(Ids(active)) \ ToSet(Ids(active'))
           V == RequestIds \ Left
<1>0. /\ id \in todo[w] /\ active' = Unfinished(advanced) /\ finished' = finished \cup Left
      /\ prefilled' = (IF batch[w].phase = "Prefill" THEN prefilled \cup {id} ELSE prefilled)
      /\ todo' = [todo EXCEPT ![w] = @ \ {id}]
      /\ queue' = queue /\ batch' = batch /\ submitted' = submitted /\ cancelled' = cancelled
  BY DEF Complete
<1>1. /\ queue \in Seq(Request) /\ active \in Seq(Request) /\ submitted \in Seq(RequestIds)
      /\ Len(active) <= MaxBatch /\ Len(active) \in Nat /\ MaxBatch \in Nat
      /\ todo \in [Workers -> SUBSET RequestIds] /\ tokens \in Nat
      /\ \A u \in Workers : batch[u].phase \in {"Prefill", "Decode"}
  BY MaxBatchAssumption, TokensAssumption DEF SchedulerInv, TypeInv
<1>2. /\ DOMAIN advanced = 1 .. Len(active) /\ DOMAIN active = 1 .. Len(active)
      /\ \A i \in 1 .. Len(active) :
           /\ advanced[i] \in AnyRequest /\ advanced[i].id = active[i].id
           /\ active[i].id # id => advanced[i] = active[i]
  <2>1. ASSUME NEW r \in Request
        PROVE  Advanced(r, tokens) \in AnyRequest /\ Advanced(r, tokens).id = r.id
    <3>1. r.generated + tokens \in Nat
      BY <1>1 DEF Request
    <3>3. CASE r.generated + tokens + r.prompt >= r.total
      <4>1. Advanced(r, tokens) = [r EXCEPT !.generated = r.generated + tokens, !.phase = "Finished"]
        BY <3>3 DEF Advanced
      <4> QED BY <3>1, <4>1 DEF Request
    <3>4. CASE ~(r.generated + tokens + r.prompt >= r.total)
      <4>1. Advanced(r, tokens) = [r EXCEPT !.generated = r.generated + tokens, !.phase = "Decode"]
        BY <3>4 DEF Advanced
      <4> QED BY <3>1, <4>1 DEF Request
    <3> QED BY <3>3, <3>4
  <2>2. \A i \in 1 .. Len(active) : active[i] \in Request
    BY <1>1
  <2>3. Request \subseteq AnyRequest
    BY DEF Request
  <2>4. DOMAIN active = 1 .. Len(active)
    BY <1>1
  <2> HIDE DEF AnyRequest
  <2> QED BY <2>1, <2>2, <2>3, <2>4
<1>3. advanced \in Seq(AnyRequest) /\ Len(advanced) = Len(active)
  <2>1. advanced \in [1 .. Len(active) -> AnyRequest]
    BY <1>1, <1>2
  <2> HIDE DEF advanced, AnyRequest
  <2>2. \A n \in Nat : \A f \in [1 .. n -> AnyRequest] : f \in Seq(AnyRequest) /\ Len(f) = n
    OBVIOUS
  <2> QED BY <1>1, <2>1, <2>2
<1>4. K \subseteq DOMAIN advanced /\ active' = Kept(advanced, K)
  BY <1>0 DEF Unfinished
<1> HIDE DEF advanced, AnyRequest
<1>5. PICK g : /\ Lists(g, Len(active'), K)
               /\ \A k \in 1 .. Len(active') : active'[k] = advanced[g[k]]
  <2> HIDE DEF K
  <2>1. IsKept(active', advanced, K)
    BY <1>3, <1>4, KeptIsKept
  <2> QED BY <2>1 DEF IsKept
<1>6. /\ active' \in Seq(AnyRequest) /\ Len(active') <= Len(active)
  BY <1>3, <1>4, KeptMembers
<1>7. \A k \in 1 .. Len(active') : /\ g[k] \in 1 .. Len(active) /\ active'[k] = advanced[g[k]]
                                   /\ active'[k].phase # "Finished"
  BY <1>2, <1>5 DEF Lists
<1>8. active' \in Seq(Request)
  <2>1. \A k \in 1 .. Len(active') : active'[k] \in Request
    <3> TAKE k \in 1 .. Len(active')
    <3>1. active'[k] \in AnyRequest /\ active'[k].phase # "Finished"
      BY <1>6, <1>7
    <3> QED BY <3>1 DEF AnyRequest, Request
  <2> QED BY <1>6, <2>1
<1>9. /\ Ids(active) \in Seq(RequestIds) /\ Ids(active') \in Seq(RequestIds)
      /\ DOMAIN Ids(active) = 1 .. Len(active) /\ DOMAIN Ids(active') = 1 .. Len(active')
      /\ Len(Ids(active')) = Len(active')
      /\ \A k \in 1 .. Len(active) : Ids(active)[k] = active[k].id
      /\ \A k \in 1 .. Len(active') : Ids(active')[k] = active'[k].id
      /\ \A k \in 1 .. Len(active') : Ids(active')[k] = Ids(active)[g[k]]
  <2>1. /\ Ids(active) \in Seq(RequestIds) /\ Ids(active') \in Seq(RequestIds)
        /\ Len(Ids(active)) = Len(active) /\ Len(Ids(active')) = Len(active')
        /\ \A k \in DOMAIN active : Ids(active)[k] = active[k].id
        /\ \A k \in DOMAIN active' : Ids(active')[k] = active'[k].id
    BY <1>1, <1>8, IdsType
  <2>2. DOMAIN active = 1 .. Len(active) /\ DOMAIN active' = 1 .. Len(active')
    BY <1>1, <1>8
  <2>3. \A k \in 1 .. Len(active') : Ids(active')[k] = Ids(active)[g[k]]
    BY SMTT(30), <1>2, <1>7, <2>1, <2>2
  <2>4. DOMAIN Ids(active) = 1 .. Len(active) /\ DOMAIN Ids(active') = 1 .. Len(active')
    BY <2>1
  <2> QED BY <2>1, <2>2, <2>3, <2>4
<1>10. /\ \A k, l \in 1 .. Len(active) : Ids(active)[k] = Ids(active)[l] => k = l
       /\ \A k \in 1 .. Len(active), l \in DOMAIN Ids(queue) : Ids(active)[k] # Ids(queue)[l]
  <2> DEFINE a == Ids(active)  b == Ids(queue)
  <2>1. a \in Seq(RequestIds) /\ b \in Seq(RequestIds) /\ Len(a) = Len(active) /\ Len(active) \in Nat
    BY <1>1, IdsType
  <2>2. \A k, l \in DOMAIN Line : Line[k] = Line[l] => k = l
    BY LineUnique
  <2> HIDE DEF a, b
  <2>3. /\ \A k \in 1 .. Len(active) : k \in DOMAIN (a \o b) /\ (a \o b)[k] = a[k]
        /\ \A l \in DOMAIN b : Len(active) + l \in DOMAIN (a \o b) /\ (a \o b)[Len(active) + l] = b[l]
                               /\ Len(active) + l > Len(active)
    BY <2>1
  <2>4. Line = a \o b
    BY DEF Line, a, b
  <2>5. \A k, l \in 1 .. Len(active) : a[k] = a[l] => k = l
    BY <2>2, <2>3, <2>4
  <2>6. \A k \in 1 .. Len(active), l \in DOMAIN b : a[k] # b[l]
    <3> TAKE k \in 1 .. Len(active), l \in DOMAIN b
    <3>1. l \in Nat /\ k <= Len(active)
      BY <2>1
    <3>2. k \in DOMAIN Line /\ Line[k] = a[k]
      BY <2>3, <2>4
    <3>3. Len(active) + l \in DOMAIN Line /\ Line[Len(active) + l] = b[l]
      BY <2>3, <2>4
    <3>4. k # Len(active) + l
      BY <2>1, <2>3, <3>1
    <3> QED BY <2>2, <3>2, <3>3, <3>4
  <2> QED BY <2>5, <2>6 DEF a, b
<1>11. K = Holding(Ids(active), V)
  <2>1. \A i \in K : Ids(active)[i] \in ToSet(Ids(active')) /\ i \in 1 .. Len(active)
    <3> TAKE i \in K
    <3>1. PICK k \in 1 .. Len(active') : g[k] = i
      BY <1>5 DEF Lists
    <3> QED BY <1>7, <1>9, <3>1 DEF ToSet
  <2>2. \A i \in 1 .. Len(active) : i \notin K => Ids(active)[i] \notin ToSet(Ids(active'))
    <3> SUFFICES ASSUME NEW i \in 1 .. Len(active), i \notin K, NEW k \in 1 .. Len(active'),
                        Ids(active)[i] = Ids(active')[k]
                 PROVE  FALSE
      BY <1>9 DEF ToSet
    <3>1. g[k] \in K /\ g[k] \in 1 .. Len(active) /\ Ids(active')[k] = Ids(active)[g[k]]
      BY <1>5, <1>7, <1>9 DEF Lists
    <3> QED BY <1>10, <3>1
  <2>3. \A i \in 1 .. Len(active) : Ids(active)[i] \in RequestIds /\ Ids(active)[i] \in ToSet(Ids(active))
    BY <1>9 DEF ToSet
  <2> HIDE DEF K
  <2> QED BY <1>9, <2>1, <2>2, <2>3 DEF Holding
<1>12. IsKept(Ids(active'), Ids(active), Holding(Ids(active), V))
  <2>1. IsKept(Ids(active'), Ids(active), K)
    <3> HIDE DEF K
    <3> QED BY <1>5, <1>9 DEF IsKept
  <2> QED BY <1>11, <2>1
<1>13. IsKept(Ids(queue'), Ids(queue), Holding(Ids(queue), V))
  <2>1. Ids(queue) \in Seq(RequestIds)
    BY <1>1, IdsType
  <2>2. \A l \in DOMAIN Ids(queue) : Ids(queue)[l] \notin Left /\ Ids(queue)[l] \in RequestIds
    BY <1>9, <1>10, <2>1 DEF ToSet
  <2>3. Holding(Ids(queue), V) = DOMAIN Ids(queue)
    BY <2>2 DEF Holding
  <2> HIDE DEF V
  <2> QED BY <1>0, <2>1, <2>3, KeptAll
<1>14. Left \subseteq ToSet(submitted)
  <2>1. PICK f : Lists(f, Len(Line), Waiting) /\ \A k \in 1 .. Len(Line) : Line[k] = submitted[f[k]]
    BY DEF SchedulerInv, InOrder, IsKept
  <2>2. Ids(queue) \in Seq(RequestIds) /\ Len(Ids(active)) = Len(active)
    BY <1>1, IdsType
  <2>3. \A k \in 1 .. Len(active) : k \in 1 .. Len(Line) /\ Line[k] = Ids(active)[k]
    BY <1>1, <1>9, <2>2 DEF Line
  <2>4. \A k \in 1 .. Len(active) : f[k] \in DOMAIN submitted /\ Ids(active)[k] = submitted[f[k]]
    BY <2>1, <2>3 DEF Lists, Waiting
  <2> QED BY <1>9, <2>4 DEF ToSet
<1>15. TypeInv'
  <2>1. todo' \in [Workers -> SUBSET RequestIds]
    BY <1>0, <1>1
  <2>2. Len(active') <= MaxBatch
    BY <1>1, <1>6, <1>8
  <2> HIDE DEF Left
  <2> QED BY <1>0, <1>8, <1>14, <2>1, <2>2 DEF SchedulerInv, TypeInv
<1>16. InOrder'
  <2>1. \A i \in Waiting : submitted[i] \in V <=> submitted[i] \notin cancelled' \cup finished'
    BY <1>0, <1>1 DEF Waiting
  <2> HIDE DEF V
  <2> QED BY <1>0, <1>12, <1>13, <1>15, <2>1, LeavingKeepsOrder
<1>17. DecodeAfterPrefill'
  <2> SUFFICES ASSUME NEW k \in 1 .. Len(active'), active'[k].phase = "Decode"
               PROVE  active'[k].id \in prefilled'
    BY <1>8 DEF DecodeAfterPrefill, ToSet
  <2>1. /\ g[k] \in 1 .. Len(active) /\ active'[k] = advanced[g[k]]
        /\ active'[k].id = active[g[k]].id
    BY <1>2, <1>7
  <2>2. CASE active[g[k]].id = id
    <3>1. batch[w].phase = "Decode" => id \in prefilled
      BY <1>0 DEF SchedulerInv, BatchesPrefilled
    <3> QED BY <1>0, <1>1, <2>1, <2>2, <3>1
  <2>3. CASE active[g[k]].id # id
    <3>1. active'[k] = active[g[k]] /\ active[g[k]] \in ToSet(active)
      BY <1>2, <2>1, <2>3 DEF ToSet
    <3> QED BY <1>0, <3>1 DEF SchedulerInv, DecodeAfterPrefill
  <2> QED BY <2>2, <2>3
<1>18. BatchesPrefilled'
  BY <1>0, <1>1 DEF SchedulerInv, BatchesPrefilled
<1>19. IdsUnique'
  BY <1>0 DEF SchedulerInv, IdsUnique
<1> QED BY <1>15, <1>16, <1>17, <1>18, <1>19 DEF SchedulerInv

LEMMA SchedulerInvInit == SchedulerInit => SchedulerInv
<1> SUFFICES ASSUME SchedulerInit PROVE SchedulerInv
  OBVIOUS
<1>1. TypeInv
  BY MaxBatchAssumption DEF SchedulerInit, TypeInv, EmptyBatch, ToSet
<1>2. IdsUnique /\ DecodeAfterPrefill /\ BatchesPrefilled
  BY DEF SchedulerInit, IdsUnique, DecodeAfterPrefill, BatchesPrefilled, ToSet
<1>3. Line = << >> /\ Waiting = DOMAIN << >> /\ submitted = << >>
  BY DEF SchedulerInit, Line, Ids, Waiting
<1>4. << >> \in Seq(RequestIds)
  OBVIOUS
<1>5. InOrder
  BY <1>3, <1>4, KeptAll DEF InOrder
<1> QED BY <1>1, <1>2, <1>5 DEF SchedulerInv

LEMMA SchedulerInvInductive == SchedulerInv /\ [SchedulerNext]_schedulerVars => SchedulerInv'
<1> SUFFICES ASSUME SchedulerInv, [SchedulerNext]_schedulerVars PROVE SchedulerInv'
  OBVIOUS
<1>1. ASSUME NEW id \in RequestIds, NEW job \in Jobs, Submit(id, job) PROVE SchedulerInv'
  BY <1>1, SubmitKeeps
<1>2. ASSUME NEW id \in RequestIds, Cancel(id) PROVE SchedulerInv'
  BY <1>2, CancelKeeps
<1>3. ASSUME NEW w \in Workers, NextBatch(w) PROVE SchedulerInv'
  BY <1>3, NextBatchKeeps
<1>4. ASSUME NEW w \in Workers, NEW id \in RequestIds, NEW tokens \in Tokens, Complete(w, id, tokens)
      PROVE  SchedulerInv'
  BY <1>4, CompleteKeeps
<1>5. CASE UNCHANGED schedulerVars
  BY <1>5 DEF schedulerVars, SchedulerInv, TypeInv, IdsUnique, InOrder, Line, Ids, Waiting,
              DecodeAfterPrefill, BatchesPrefilled
<1> QED BY <1>1, <1>2, <1>3, <1>4, <1>5 DEF SchedulerNext, WorkerStep

(* However submit, cancel, next and complete interleave, active_ followed  *)
(* by queue_ is the submission order without the requests that left.       *)
THEOREM ServedInOrder == SchedulerSpec => []FifoOrder
BY SchedulerInvInit, SchedulerInvInductive, OrderIsFifo, PTL DEF SchedulerSpec

(* No request decodes before a worker ran its prompt, although batches of  *)
(* several workers overlap and completions arrive late.                    *)
THEOREM PrefillFirst == SchedulerSpec => []DecodeAfterPrefill
<1>1. SchedulerInv => DecodeAfterPrefill
  BY DEF SchedulerInv
<1> QED BY <1>1, SchedulerInvInit, SchedulerInvInductive, PTL DEF SchedulerSpec

(* active_ never grows past max_batch_.                                    *)
THEOREM ActiveBounded == SchedulerSpec => [](Len(active) <= MaxBatch)
<1>1. SchedulerInv => Len(active) <= MaxBatch
  BY DEF SchedulerInv, TypeInv
<1> QED BY <1>1, SchedulerInvInit, SchedulerInvInductive, PTL DEF SchedulerSpec

-----------------------------------------------------------------------------
(* The compiler: types of nodes and modules.                               *)
Node(D) == [op : Op, inputs : Seq(Nat), dims : Seq(Int), layout : {"RowMajor", "Tiled16"}, data : D]

IsModule(ns) == \E D : ns \in Seq(Node(D))

(* Types of the state of the compiler.                                     *)
CompilerTypes ==
  /\ IsModule(nodes)
  /\ outputs \in Seq(Nat) /\ worklist \in Seq(Nat)
  /\ pc \in {"build", "fold", "fuse", "mark", "ready"}
  /\ cursor \in Nat /\ (pc \in {"fold", "fuse"} => cursor \in 1 .. Len(nodes) + 1)
  /\ pc # "fuse" => current = 0

(* Passes begin with a valid module and leave it valid.                    *)
ValidInv ==
  /\ pc \in {"fold", "fuse"} => validate(source.nodes)
  /\ pc # "build" /\ validate(source.nodes) => validate(nodes)
  /\ launches # << >> => validate(nodes) /\ pc # "build"

(* The marking loop: what the outputs and the marked nodes need is marked  *)
(* or in the worklist, and nothing else is.                                *)
MarkInv ==
  pc = "mark" =>
    /\ source = [nodes |-> nodes, outputs |-> outputs]
    /\ InRange
    /\ live \cup ToSet(worklist) \subseteq Reachable(nodes, outputs)
    /\ ToSet(outputs) \subseteq live \cup ToSet(worklist)
    /\ \A n \in live : ToSet(nodes[n].inputs) \subseteq live \cup ToSet(worklist)

(* Nodes are in the groups once, and those before the cursor are in one.   *)
GroupsInv ==
  pc = "fuse" =>
    /\ groups \in Seq(Seq(DOMAIN nodes))
    /\ Len(FlattenSeq(groups)) = Cardinality(Visited)
    /\ 1 .. cursor - 1 \subseteq Visited
    /\ current # 0 => groups # << >>

CompilerInv == CompilerTypes /\ ValidInv /\ MarkInv /\ GroupsInv

-----------------------------------------------------------------------------
(* Nodes and modules.                                                      *)
LEMMA ModuleFacts ==
  ASSUME NEW ns, IsModule(ns)
  PROVE  /\ Len(ns) \in Nat /\ DOMAIN ns = 1 .. Len(ns)
         /\ \A n \in DOMAIN ns : ns[n].inputs \in Seq(Nat) /\ ns[n].op \in Op
<1>1. PICK D : ns \in Seq(Node(D))
  BY DEF IsModule
<1>2. Len(ns) \in Nat /\ DOMAIN ns = 1 .. Len(ns) /\ \A n \in DOMAIN ns : ns[n] \in Node(D)
  BY <1>1
<1> QED BY <1>2 DEF Node

LEMMA ModuleGrows ==
  ASSUME NEW ns, IsModule(ns), NEW op \in Op, NEW inputs \in Seq(Nat), NEW dims \in Seq(Int), NEW data
  PROVE  IsModule(Append(ns, NewNode(op, inputs, dims, data)))
<1>1. PICK D : ns \in Seq(Node(D))
  BY DEF IsModule
<1>2. PICK E : E = D \cup {data}
  OBVIOUS
<1>3. Node(D) \subseteq Node(E)
  BY <1>2 DEF Node
<1>4. NewNode(op, inputs, dims, data) \in Node(E)
  BY <1>2 DEF NewNode, Node
<1>5. ns \in Seq(Node(E))
  <2>1. Len(ns) \in Nat /\ DOMAIN ns = 1 .. Len(ns) /\ \A n \in 1 .. Len(ns) : ns[n] \in Node(D)
    BY <1>1
  <2>2. \A n \in 1 .. Len(ns) : ns[n] \in Node(E)
    BY <1>3, <2>1
  <2>3. ns = [n \in 1 .. Len(ns) |-> ns[n]]
    BY <1>1
  <2>4. PICK X : X = Node(E)
    OBVIOUS
  <2>5. PICK k \in Nat : k = Len(ns)
    BY <2>1
  <2>6. ns \in [1 .. k -> X]
    BY <2>2, <2>3, <2>4, <2>5
  <2>7. ns \in Seq(X)
    BY <2>6
  <2> QED BY <2>4, <2>7
<1> QED BY <1>4, <1>5 DEF IsModule

(* Node k of ms stands for node n of ns: the same operator and shape, and  *)
(* operands of the same shapes that come before it.                        *)
Mirrors(ms, k, ns, n) ==
  /\ ms[k].op = ns[n].op /\ ms[k].dims = ns[n].dims
  /\ ms[k].inputs \in Seq(Nat) /\ ns[n].inputs \in Seq(Nat)
  /\ Len(ms[k].inputs) = Len(ns[n].inputs)
  /\ \A i \in DOMAIN ms[k].inputs :
       /\ ms[k].inputs[i] \in 1 .. k - 1
       /\ ms[ms[k].inputs[i]].dims = ns[ns[n].inputs[i]].dims

LEMMA MirrorValid ==
  ASSUME NEW ms, NEW k, NEW ns, NEW n, ValidNode(ns, n), Mirrors(ms, k, ns, n)
  PROVE  ValidNode(ms, k)
<1> DEFINE p == ms[k].inputs
           q == ns[n].inputs
<1>1. /\ ms[k].op = ns[n].op /\ ms[k].dims = ns[n].dims
      /\ p \in Seq(Nat) /\ Len(p) = Len(q)
      /\ \A i \in DOMAIN p : p[i] \in 1 .. k - 1 /\ ms[p[i]].dims = ns[q[i]].dims
  BY DEF Mirrors
<1>2. /\ Len(q) = Arity(ns[n].op)
      /\ ns[n].op = "MatMul" => infer_matmul(ns[q[1]].dims, ns[q[2]].dims) = Ok(ns[n].dims)
      /\ ns[n].op \in {"Add", "Mul"} => infer_broadcast(ns[q[1]].dims, ns[q[2]].dims) = Ok(ns[n].dims)
  BY DEF ValidNode
<1> HIDE DEF p, q
<1>3. ns[n].op \in {"MatMul", "Add", "Mul"} => 1 \in DOMAIN p /\ 2 \in DOMAIN p
  <2> SUFFICES ASSUME ns[n].op \in {"MatMul", "Add", "Mul"} PROVE 1 \in DOMAIN p /\ 2 \in DOMAIN p
    OBVIOUS
  <2>1. Arity(ns[n].op) = 2
    BY DEF Arity
  <2> QED BY <1>1, <1>2, <2>1
<1>4. ns[n].op \in {"MatMul", "Add", "Mul"} =>
        ms[p[1]].dims = ns[q[1]].dims /\ ms[p[2]].dims = ns[q[2]].dims
  BY <1>1, <1>3
<1>5. /\ Len(p) = Arity(ms[k].op)
      /\ \A i \in DOMAIN p : p[i] \in 1 .. k - 1
      /\ ms[k].op = "MatMul" => infer_matmul(ms[p[1]].dims, ms[p[2]].dims) = Ok(ms[k].dims)
      /\ ms[k].op \in {"Add", "Mul"} => infer_broadcast(ms[p[1]].dims, ms[p[2]].dims) = Ok(ms[k].dims)
  BY <1>1, <1>2, <1>4
<1> QED BY <1>5 DEF ValidNode, p

(* A node becomes a constant; a node changes its layout.                   *)
Constant(node, data) ==
  [[[node EXCEPT !.op = "Constant"] EXCEPT !.inputs = << >>] EXCEPT !.data = data]

LEMMA ConstantIs ==
  ASSUME NEW D, NEW node \in Node(D), NEW data
  PROVE  Constant(node, data) = [op |-> "Constant", inputs |-> << >>, dims |-> node.dims,
                                 layout |-> node.layout, data |-> data]
<1>1. node = [op |-> node.op, inputs |-> node.inputs, dims |-> node.dims,
              layout |-> node.layout, data |-> node.data]
  BY DEF Node
<1> DEFINE r == [node EXCEPT !.op = "Constant"]
           q == [r EXCEPT !.inputs = << >>]
<1>2. r = [op |-> "Constant", inputs |-> node.inputs, dims |-> node.dims,
           layout |-> node.layout, data |-> node.data]
  BY <1>1
<1> HIDE DEF r
<1>3. q = [op |-> "Constant", inputs |-> << >>, dims |-> node.dims,
           layout |-> node.layout, data |-> node.data]
  BY <1>2
<1> HIDE DEF q
<1>4. [q EXCEPT !.data = data] =
        [op |-> "Constant", inputs |-> << >>, dims |-> node.dims,
         layout |-> node.layout, data |-> data]
  BY <1>3
<1> QED BY <1>4 DEF Constant, q, r

LEMMA ConstantFacts ==
  ASSUME NEW D, NEW node \in Node(D), NEW data
  PROVE  /\ Constant(node, data) \in Node(D \cup {data})
         /\ Constant(node, data).op = "Constant" /\ Constant(node, data).inputs = << >>
         /\ Constant(node, data).dims = node.dims
<1>1. Constant(node, data) =
        [op |-> "Constant", inputs |-> << >>, dims |-> node.dims,
         layout |-> node.layout, data |-> data]
  BY ConstantIs
<1>2. node.dims \in Seq(Int) /\ node.layout \in {"RowMajor", "Tiled16"}
  BY DEF Node
<1>3. Constant(node, data) \in Node(D \cup {data})
  BY <1>1, <1>2 DEF Node, Op
<1> QED BY <1>1, <1>3

LEMMA ConstantKeeps ==
  ASSUME NEW ns, IsModule(ns), NEW n \in DOMAIN ns, NEW data, validate(ns)
  PROVE  /\ IsModule([ns EXCEPT ![n] = Constant(@, data)])
         /\ validate([ns EXCEPT ![n] = Constant(@, data)])
<1>1. PICK D : ns \in Seq(Node(D))
  BY DEF IsModule
<1> DEFINE E == D \cup {data}
           c == Constant(ns[n], data)
           ms == [ns EXCEPT ![n] = c]
<1>2. /\ Len(ns) \in Nat /\ DOMAIN ns = 1 .. Len(ns) /\ n \in 1 .. Len(ns)
      /\ \A k \in 1 .. Len(ns) : ns[k] \in Node(D)
  BY <1>1
<1>3. c \in Node(E) /\ c.op = "Constant" /\ c.inputs = << >> /\ c.dims = ns[n].dims
  BY <1>2, ConstantFacts
<1>4. Node(D) \subseteq Node(E)
  BY DEF Node
<1> HIDE DEF E, c
<1>5. /\ ms = [k \in 1 .. Len(ns) |-> IF k = n THEN c ELSE ns[k]]
      /\ \A k \in 1 .. Len(ns) : ms[k] = IF k = n THEN c ELSE ns[k]
  BY <1>2
<1>6. \A k \in 1 .. Len(ns) : ms[k] \in Node(E) /\ ms[k].dims = ns[k].dims
  BY <1>2, <1>3, <1>4, <1>5
<1> HIDE DEF ms
<1>7. ms \in Seq(Node(E)) /\ DOMAIN ms = 1 .. Len(ns)
  BY <1>2, <1>5, <1>6
<1>8. ASSUME NEW k \in 1 .. Len(ns) PROVE ValidNode(ms, k)
  <2>1. CASE k = n
    <3>1. ms[k].op = "Constant" /\ ms[k].inputs = << >>
      BY <1>3, <1>5, <2>1
    <3>2. Arity("Constant") = 0 /\ Len(<< >>) = 0
      BY DEF Arity
    <3> QED BY <3>1, <3>2 DEF ValidNode
  <2>2. CASE k # n
    <3>1. ms[k] = ns[k] /\ ValidNode(ns, k)
      BY <1>2, <1>5, <2>2 DEF validate
    <3>2. ns[k].inputs \in Seq(Nat) /\ \A i \in DOMAIN ns[k].inputs : ns[k].inputs[i] \in 1 .. k - 1
      BY <1>2, <3>1, ModuleFacts DEF ValidNode
    <3>3. \A j \in 1 .. k - 1 : j \in 1 .. Len(ns)
      BY <1>2
    <3>4. Mirrors(ms, k, ns, k)
      BY <1>6, <3>1, <3>2, <3>3 DEF Mirrors
    <3> QED BY <3>1, <3>4, MirrorValid
  <2> QED BY <2>1, <2>2
<1>9. validate(ms) /\ IsModule(ms)
  BY <1>7, <1>8 DEF validate, IsModule
<1> QED BY <1>9 DEF ms, c

Tiled(node) == [node EXCEPT !.layout = "Tiled16"]

LEMMA TiledKeeps ==
  ASSUME NEW ns, IsModule(ns), validate(ns),
         NEW ms, ms = [n \in DOMAIN ns |-> IF ns[n].op = "MatMul" /\ Len(ns[n].dims) = 2
                                           THEN Tiled(ns[n]) ELSE ns[n]]
  PROVE  IsModule(ms) /\ validate(ms) /\ DOMAIN ms = DOMAIN ns /\ Len(ms) = Len(ns)
<1>1. PICK D : ns \in Seq(Node(D))
  BY DEF IsModule
<1>2. /\ Len(ns) \in Nat /\ DOMAIN ns = 1 .. Len(ns)
      /\ \A k \in 1 .. Len(ns) : ns[k] \in Node(D)
  BY <1>1
<1>3. ASSUME NEW k \in 1 .. Len(ns)
      PROVE  /\ ms[k] \in Node(D) /\ ms[k].op = ns[k].op /\ ms[k].inputs = ns[k].inputs
             /\ ms[k].dims = ns[k].dims
  <2>1. ms[k] = Tiled(ns[k]) \/ ms[k] = ns[k]
    BY <1>2
  <2>2. Tiled(ns[k]) = [op |-> ns[k].op, inputs |-> ns[k].inputs, dims |-> ns[k].dims,
                        layout |-> "Tiled16", data |-> ns[k].data]
    <3>1. ns[k] = [op |-> ns[k].op, inputs |-> ns[k].inputs, dims |-> ns[k].dims,
                   layout |-> ns[k].layout, data |-> ns[k].data]
      BY <1>2 DEF Node
    <3> QED BY <3>1 DEF Tiled
  <2> QED BY <1>2, <2>1, <2>2 DEF Node
<1>4. ms = [n \in 1 .. Len(ns) |-> ms[n]]
  BY <1>2
<1>5. ms \in Seq(Node(D)) /\ DOMAIN ms = 1 .. Len(ns) /\ Len(ms) = Len(ns)
  <2>1. DOMAIN ms = 1 .. Len(ns)
    BY <1>2
  <2>2. ms \in Seq(Node(D))
    BY <1>2, <1>3, <1>4
  <2> QED BY <1>2, <2>1, <2>2
<1>6. ASSUME NEW k \in 1 .. Len(ns) PROVE ValidNode(ms, k)
  <2>1. ValidNode(ns, k)
    BY <1>2 DEF validate
  <2>2. ns[k].inputs \in Seq(Nat) /\ \A i \in DOMAIN ns[k].inputs : ns[k].inputs[i] \in 1 .. k - 1
    BY <1>2, <2>1, ModuleFacts DEF ValidNode
  <2>3. \A j \in 1 .. k - 1 : j \in 1 .. Len(ns)
    BY <1>2
  <2>4. Mirrors(ms, k, ns, k)
    <3>1. ms[k].op = ns[k].op /\ ms[k].dims = ns[k].dims /\ ms[k].inputs = ns[k].inputs
      BY <1>3
    <3>2. \A j \in 1 .. k - 1 : ms[j].dims = ns[j].dims
      BY <1>3, <2>3
    <3> QED BY <2>2, <3>1, <3>2 DEF Mirrors
  <2> QED BY <2>1, <2>4, MirrorValid
<1> QED BY <1>2, <1>5, <1>6 DEF validate, IsModule

-----------------------------------------------------------------------------
(* Flattening.  FlattenSeq is a recursive function over the list: it       *)
(* exists because the longest part of the list it exists for is all of it. *)
FlatAt(g, seqs, i) == IF i = 1 THEN seqs[i] ELSE g[i - 1] \o seqs[i]

Flattens(g, seqs, n, X) == /\ g \in [1 .. n -> Seq(X)]
                           /\ \A i \in 1 .. n : g[i] = FlatAt(g, seqs, i)

LEMMA FlattensMore ==
  ASSUME NEW X, NEW seqs \in Seq(Seq(X)), NEW n \in Nat, n < Len(seqs), n # 0,
         NEW g, Flattens(g, seqs, n, X)
  PROVE  \E f : Flattens(f, seqs, n + 1, X)
<1> DEFINE f == [i \in 1 .. n + 1 |-> IF i = n + 1 THEN g[n] \o seqs[n + 1] ELSE g[i]]
<1>1. /\ \A i \in 1 .. n : g[i] \in Seq(X) /\ g[i] = FlatAt(g, seqs, i)
      /\ n \in 1 .. n /\ n + 1 \in 1 .. Len(seqs) /\ seqs[n + 1] \in Seq(X)
  BY DEF Flattens
<1>2. ASSUME NEW i \in 1 .. n + 1 PROVE f[i] \in Seq(X) /\ f[i] = FlatAt(f, seqs, i)
  <2>1. CASE i = n + 1
    <3>1. i # 1 /\ i - 1 = n /\ n \in 1 .. n + 1 /\ n # n + 1
      BY <2>1
    <3>2. f[i] = g[n] \o seqs[n + 1] /\ f[n] = g[n]
      BY <2>1, <3>1
    <3> HIDE DEF f
    <3>3. FlatAt(f, seqs, i) = f[n] \o seqs[n + 1]
      BY <2>1, <3>1 DEF FlatAt
    <3>4. g[n] \o seqs[n + 1] \in Seq(X)
      BY <1>1
    <3> QED BY <3>2, <3>3, <3>4
  <2>2. CASE i # n + 1
    <3>1. i \in 1 .. n /\ f[i] = g[i]
      BY <2>2
    <3>2. i # 1 => i - 1 \in 1 .. n /\ f[i - 1] = g[i - 1]
      BY <3>1
    <3> HIDE DEF f
    <3> QED BY <1>1, <3>1, <3>2 DEF FlatAt
  <2> QED BY <2>1, <2>2
<1>3. f \in [1 .. n + 1 -> Seq(X)]
  BY <1>2
<1> HIDE DEF f
<1> QED BY <1>2, <1>3 DEF Flattens

LEMMA FlattensExists ==
  ASSUME NEW X, NEW seqs \in Seq(Seq(X)), seqs # << >>
  PROVE  \E g : Flattens(g, seqs, Len(seqs), X)
<1> DEFINE N == Len(seqs)
           T == {n \in 1 .. N : \E g : Flattens(g, seqs, n, X)}
           R == {N - n : n \in T}
<1>1. N \in Nat /\ N >= 1 /\ \A i \in 1 .. N : seqs[i] \in Seq(X)
  OBVIOUS
<1>2. 1 \in T
  <2> DEFINE g == [i \in 1 .. 1 |-> seqs[1]]
  <2>1. g \in [1 .. 1 -> Seq(X)] /\ \A i \in 1 .. 1 : i = 1 /\ g[i] = seqs[i]
    BY <1>1
  <2> HIDE DEF g
  <2>2. Flattens(g, seqs, 1, X)
    BY <2>1 DEF Flattens, FlatAt
  <2> HIDE DEF N
  <2> QED BY <1>1, <2>2
<1> HIDE DEF N
<1>3. R \subseteq Nat /\ R # {}
  <2>1. \A n \in T : N - n \in Nat
    BY <1>1
  <2> HIDE DEF T
  <2> QED BY <1>2, <2>1
<1>4. PICK r \in R : \A q \in R : r <= q
  BY <1>3, LeastOf
<1>5. PICK n \in T : r = N - n
  OBVIOUS
<1>6. n = N
  <2> SUFFICES ASSUME n < N PROVE FALSE
    BY <1>1
  <2>1. PICK g : Flattens(g, seqs, n, X)
    OBVIOUS
  <2>2. n \in Nat /\ n # 0 /\ n + 1 \in 1 .. N
    BY <1>1
  <2>3. \E f : Flattens(f, seqs, n + 1, X)
    BY <2>1, <2>2, FlattensMore DEF N
  <2>4. N - (n + 1) \in R
    BY <2>2, <2>3
  <2>5. r <= N - (n + 1)
    BY <1>4, <2>4
  <2> QED BY <1>1, <1>5, <2>2, <2>5
<1> QED BY <1>6 DEF N

LEMMA FlattenIs ==
  ASSUME NEW X, NEW seqs \in Seq(Seq(X)), seqs # << >>
  PROVE  \E g : Flattens(g, seqs, Len(seqs), X) /\ FlattenSeq(seqs) = g[Len(seqs)]
<1> DEFINE N == Len(seqs)
           h == CHOOSE f : f = [i \in 1 .. N |-> IF i = 1 THEN seqs[i] ELSE f[i - 1] \o seqs[i]]
<1>0. N \in Nat /\ N >= 1
  OBVIOUS
<1>1. PICK g : Flattens(g, seqs, N, X)
  BY FlattensExists
<1>2. g = [i \in 1 .. N |-> IF i = 1 THEN seqs[i] ELSE g[i - 1] \o seqs[i]]
  BY <1>1 DEF Flattens, FlatAt
<1>3. h = [i \in 1 .. N |-> IF i = 1 THEN seqs[i] ELSE h[i - 1] \o seqs[i]]
  BY <1>2
<1>4. FlattenSeq(seqs) = h[N]
  BY <1>0 DEF FlattenSeq
<1> HIDE DEF h
<1>5. DOMAIN h = 1 .. N /\ \A i \in 1 .. N : h[i] = FlatAt(h, seqs, i)
  BY <1>3 DEF FlatAt
<1>6. \A i \in 1 .. N : h[i] = g[i]
  <2> DEFINE B == {i \in 1 .. N : h[i] # g[i]}
  <2> SUFFICES ASSUME B # {} PROVE FALSE
    OBVIOUS
  <2>1. PICK i \in B : \A j \in B : i <= j
    <3>1. B \subseteq Nat
      OBVIOUS
    <3> HIDE DEF B
    <3> QED BY <3>1, LeastOf
  <2>2. i # 1 => i - 1 \in 1 .. N /\ i - 1 \notin B
    <3> SUFFICES ASSUME i # 1 PROVE i - 1 \in 1 .. N /\ i - 1 \notin B
      OBVIOUS
    <3>1. i - 1 \in 1 .. N /\ ~(i <= i - 1)
      BY <1>0
    <3> HIDE DEF B
    <3> QED BY <2>1, <3>1
  <2>3. h[i] = FlatAt(h, seqs, i) /\ g[i] = FlatAt(g, seqs, i)
    BY <1>1, <1>5 DEF Flattens
  <2>4. i # 1 => h[i - 1] = g[i - 1]
    BY <2>2
  <2> QED BY <2>3, <2>4 DEF FlatAt
<1>7. N \in 1 .. N
  BY <1>0
<1> QED BY <1>1, <1>4, <1>6, <1>7

SameUpto(s, u, n) == \A i \in 1 .. n : s[i] = u[i]

(* Two lists flatten to the same as far as they agree.                     *)
LEMMA FlattensAgree ==
  ASSUME NEW X, NEW n \in Nat, NEW m \in Nat, n <= m, NEW s, NEW u, NEW g, NEW h,
         Flattens(g, s, n, X), Flattens(h, u, m, X), SameUpto(s, u, n)
  PROVE  SameUpto(g, h, n)
<1> DEFINE B == {i \in 1 .. n : g[i] # h[i]}
<1> SUFFICES ASSUME B # {} PROVE FALSE
  BY DEF SameUpto
<1>1. PICK i \in B : \A j \in B : i <= j
  <2>1. B \subseteq Nat
    OBVIOUS
  <2> HIDE DEF B
  <2> QED BY <2>1, LeastOf
<1>2. i # 1 => i - 1 \in 1 .. n /\ i - 1 \notin B
  <2> SUFFICES ASSUME i # 1 PROVE i - 1 \in 1 .. n /\ i - 1 \notin B
    OBVIOUS
  <2>1. i - 1 \in 1 .. n /\ ~(i <= i - 1)
    OBVIOUS
  <2> HIDE DEF B
  <2> QED BY <1>1, <2>1
<1>3. i \in 1 .. m /\ g[i] = FlatAt(g, s, i) /\ h[i] = FlatAt(h, u, i) /\ s[i] = u[i]
  <2>1. i \in 1 .. n /\ i \in 1 .. m
    OBVIOUS
  <2> HIDE DEF B
  <2> QED BY <2>1 DEF Flattens, SameUpto
<1>4. i # 1 => g[i - 1] = h[i - 1]
  BY <1>2
<1> QED BY <1>3, <1>4 DEF FlatAt

LEMMA FlattenAppend ==
  ASSUME NEW X, NEW s \in Seq(Seq(X)), NEW t \in Seq(X)
  PROVE  /\ Len(FlattenSeq(s)) \in Nat
         /\ Len(FlattenSeq(Append(s, t))) = Len(FlattenSeq(s)) + Len(t)
<1> DEFINE u == Append(s, t)
           n == Len(s)
<1>1. /\ u \in Seq(Seq(X)) /\ u # << >> /\ n \in Nat /\ Len(u) = n + 1 /\ u[n + 1] = t
      /\ SameUpto(s, u, n) /\ (s = << >> <=> n = 0)
  <2>1. u \in Seq(Seq(X)) /\ n \in Nat /\ Len(u) = n + 1 /\ u[n + 1] = t
    OBVIOUS
  <2>2. \A i \in 1 .. n : u[i] = s[i]
    OBVIOUS
  <2>3. s = << >> <=> n = 0
    OBVIOUS
  <2> HIDE DEF u
  <2>4. u # << >>
    BY <2>1
  <2> QED BY <2>1, <2>2, <2>3, <2>4 DEF SameUpto
<1> HIDE DEF u
<1>2. PICK h : Flattens(h, u, n + 1, X) /\ FlattenSeq(u) = h[n + 1]
  BY <1>1, FlattenIs
<1>3. h[n + 1] = FlatAt(h, u, n + 1) /\ n + 1 \in 1 .. n + 1
  BY <1>1, <1>2 DEF Flattens
<1>4. CASE s = << >>
  <2>1. Len(FlattenSeq(s)) = 0
    BY <1>4 DEF FlattenSeq
  <2>2. h[n + 1] = t
    BY <1>1, <1>3, <1>4 DEF FlatAt
  <2> QED BY <1>2, <2>1, <2>2 DEF u
<1>5. CASE s # << >>
  <2>1. PICK g : Flattens(g, s, n, X) /\ FlattenSeq(s) = g[n]
    BY <1>5, FlattenIs
  <2>2. g[n] = h[n]
    <3>1. n \in 1 .. n /\ n <= n + 1 /\ n + 1 \in Nat
      BY <1>1, <1>5
    <3> HIDE DEF n
    <3>2. SameUpto(g, h, n)
      BY <1>1, <1>2, <2>1, <3>1, FlattensAgree
    <3> QED BY <3>1, <3>2 DEF SameUpto
  <2>3. h[n + 1] = h[n] \o t
    BY <1>1, <1>3, <1>5 DEF FlatAt
  <2>4. g[n] \in Seq(X)
    <3>1. n \in 1 .. n
      BY <1>1, <1>5
    <3> QED BY <2>1, <3>1 DEF Flattens
  <2>5. Len(g[n] \o t) = Len(g[n]) + Len(t) /\ Len(g[n]) \in Nat
    BY <2>4
  <2> QED BY <1>2, <2>1, <2>2, <2>3, <2>5 DEF u
<1> QED BY <1>4, <1>5

(* Lists of one element each.                                              *)
LEMMA FlattenSingles ==
  ASSUME NEW n \in Nat
  PROVE  Len(FlattenSeq([i \in 1 .. n |-> <<i>>])) = n
<1> DEFINE s == [i \in 1 .. n |-> <<i>>]
<1>1. s \in Seq(Seq(Nat)) /\ Len(s) = n /\ \A i \in 1 .. n : s[i] = <<i>>
  OBVIOUS
<1>2. CASE n = 0
  <2>1. Len(s) = 0
    BY <1>1, <1>2
  <2> QED BY <1>2, <2>1 DEF FlattenSeq
<1>3. CASE n # 0
  <2> HIDE DEF s
  <2>1. PICK g : Flattens(g, s, n, Nat) /\ FlattenSeq(s) = g[n]
    BY <1>1, <1>3, FlattenIs
  <2>2. \A i \in 1 .. n : g[i] \in Seq(Nat) /\ g[i] = FlatAt(g, s, i)
    BY <2>1 DEF Flattens
  <2> DEFINE B == {i \in 1 .. n : Len(g[i]) # i}
  <2>3. B = {}
    <3> SUFFICES ASSUME B # {} PROVE FALSE
      OBVIOUS
    <3>1. PICK i \in B : \A j \in B : i <= j
      <4>1. B \subseteq Nat
        OBVIOUS
      <4> HIDE DEF B
      <4> QED BY <4>1, LeastOf
    <3>2. i # 1 => i - 1 \in 1 .. n /\ i - 1 \notin B
      <4> SUFFICES ASSUME i # 1 PROVE i - 1 \in 1 .. n /\ i - 1 \notin B
        OBVIOUS
      <4>1. i - 1 \in 1 .. n /\ ~(i <= i - 1)
        OBVIOUS
      <4> HIDE DEF B
      <4> QED BY <3>1, <4>1
    <3>0. i \in 1 .. n /\ i \in Nat /\ s[i] = <<i>> /\ g[i] = FlatAt(g, s, i)
      <4>1. i \in 1 .. n
        OBVIOUS
      <4> HIDE DEF B
      <4> QED BY <1>1, <2>2, <4>1
    <3>3. i = 1 => Len(g[i]) = 1
      <4>1. i = 1 => g[i] = s[i]
        BY <3>0 DEF FlatAt
      <4>2. Len(<<i>>) = 1
        OBVIOUS
      <4> HIDE DEF B
      <4> QED BY <3>0, <4>1, <4>2
    <3>4. i # 1 => Len(g[i]) = Len(g[i - 1]) + 1 /\ Len(g[i - 1]) = i - 1
      <4> SUFFICES ASSUME i # 1 PROVE Len(g[i]) = Len(g[i - 1]) + 1 /\ Len(g[i - 1]) = i - 1
        OBVIOUS
      <4>1. g[i] = g[i - 1] \o s[i]
        BY <3>0 DEF FlatAt
      <4>2. g[i - 1] \in Seq(Nat) /\ Len(g[i - 1]) = i - 1
        BY <2>2, <3>2
      <4>3. <<i>> \in Seq(Nat) /\ Len(<<i>>) = 1
        BY <3>0
      <4>4. Len(g[i - 1] \o <<i>>) = Len(g[i - 1]) + 1
        BY <4>2, <4>3
      <4>5. g[i] = g[i - 1] \o <<i>>
        BY <3>0, <4>1, Zenon
      <4> HIDE DEF B
      <4> QED BY <4>2, <4>4, <4>5, Zenon
    <3>5. Len(g[i]) # i
      OBVIOUS
    <3> HIDE DEF B
    <3>6. CASE i = 1
      BY <3>3, <3>5, <3>6
    <3>7. CASE i # 1
      <4>1. Len(g[i]) = (i - 1) + 1
        BY <3>4, <3>7
      <4> QED BY <3>0, <3>5, <4>1
    <3> QED BY <3>6, <3>7
  <2> QED BY <1>3, <2>1, <2>3 DEF s
<1> QED BY <1>2, <1>3

-----------------------------------------------------------------------------
(* Compacting.  The nodes that stay are closed under their inputs; each    *)
(* keeps its place among them, and its inputs are renumbered.              *)
Closure(ns, S) == S \subseteq DOMAIN ns /\ \A n \in S : ToSet(ns[n].inputs) \subseteq S

Moved(node, S) == [node EXCEPT !.inputs = [i \in DOMAIN @ |-> Rank(S, @[i])]]

Compact(ns, S) == Kept([n \in DOMAIN ns |-> Moved(ns[n], S)], S)

LEMMA RankPlace ==
  ASSUME NEW n \in Nat, NEW S, S \subseteq 1 .. n, NEW i \in S
  PROVE  Rank(S, i) \in 1 .. Cardinality(S) /\ Nth(S, Rank(S, i)) = i
<1>1. PICK k \in 1 .. Cardinality(S) : Nth(S, k) = i
  <2>1. Lists([k \in 1 .. Cardinality(S) |-> Nth(S, k)], Cardinality(S), S)
    BY NthLists
  <2> QED BY <2>1 DEF Lists
<1>2. Rank(S, i) = k
  BY <1>1, NthIsThere
<1> QED BY <1>1, <1>2

LEMMA MovedFacts ==
  ASSUME NEW D, NEW node \in Node(D), NEW S
  PROVE  /\ Moved(node, S).op = node.op /\ Moved(node, S).dims = node.dims
         /\ Moved(node, S).layout = node.layout /\ Moved(node, S).data = node.data
         /\ Moved(node, S).inputs = [i \in DOMAIN node.inputs |-> Rank(S, node.inputs[i])]
<1>1. node = [op |-> node.op, inputs |-> node.inputs, dims |-> node.dims,
              layout |-> node.layout, data |-> node.data]
  BY DEF Node
<1>2. Moved(node, S) = [op |-> node.op,
                        inputs |-> [i \in DOMAIN node.inputs |-> Rank(S, node.inputs[i])],
                        dims |-> node.dims, layout |-> node.layout, data |-> node.data]
  BY <1>1 DEF Moved
<1> QED BY <1>2

(* Node k of the compacted module is member number k of S.                 *)
Compacts(ms, ns, S) ==
  /\ IsModule(ms) /\ DOMAIN ms = 1 .. Cardinality(S)
  /\ \A k \in DOMAIN ms :
       /\ Nth(S, k) \in S /\ Rank(S, Nth(S, k)) = k
       /\ ms[k].op = ns[Nth(S, k)].op /\ ms[k].dims = ns[Nth(S, k)].dims
       /\ ms[k].layout = ns[Nth(S, k)].layout /\ ms[k].data = ns[Nth(S, k)].data
       /\ ms[k].inputs = [i \in DOMAIN ns[Nth(S, k)].inputs |->
                            Rank(S, ns[Nth(S, k)].inputs[i])]
  /\ \A n \in S : Rank(S, n) \in DOMAIN ms /\ Nth(S, Rank(S, n)) = n

LEMMA CompactFacts ==
  ASSUME NEW ns, IsModule(ns), NEW S, Closure(ns, S)
  PROVE  Compacts(Compact(ns, S), ns, S)
<1> DEFINE q == [n \in DOMAIN ns |-> Moved(ns[n], S)]
           ms == Kept(q, S)
<1>1. PICK D : ns \in Seq(Node(D))
  BY DEF IsModule
<1>2. /\ Len(ns) \in Nat /\ DOMAIN ns = 1 .. Len(ns) /\ S \subseteq 1 .. Len(ns)
      /\ \A k \in 1 .. Len(ns) : ns[k] \in Node(D)
  BY <1>1 DEF Closure
<1>3. Cardinality(S) \in Nat
  BY <1>2, CountBound
<1>4. ASSUME NEW k \in 1 .. Cardinality(S)
      PROVE  Nth(S, k) \in S /\ Rank(S, Nth(S, k)) = k /\ ms[k] = Moved(ns[Nth(S, k)], S)
  <2>1. Nth(S, k) \in S /\ Rank(S, Nth(S, k)) = k
    BY <1>2, NthIsThere
  <2>2. ms[k] = q[Nth(S, k)]
    BY DEF Kept
  <2> QED BY <1>2, <2>1, <2>2
<1>5. /\ DOMAIN ms = 1 .. Cardinality(S)
      /\ ms = [k \in 1 .. Cardinality(S) |-> ms[k]]
  BY DEF Kept
<1> HIDE DEF ms
<1>6. ASSUME NEW k \in 1 .. Cardinality(S) PROVE ms[k] \in Node(D)
  <2> DEFINE n == Nth(S, k)
  <2>1. n \in S /\ ns[n] \in Node(D) /\ ms[k] = Moved(ns[n], S)
    BY <1>2, <1>4
  <2> HIDE DEF n
  <2>2. ns[n] = [op |-> ns[n].op, inputs |-> ns[n].inputs, dims |-> ns[n].dims,
                 layout |-> ns[n].layout, data |-> ns[n].data]
    BY <2>1 DEF Node
  <2>3. Moved(ns[n], S) = [op |-> ns[n].op,
                           inputs |-> [i \in DOMAIN ns[n].inputs |-> Rank(S, ns[n].inputs[i])],
                           dims |-> ns[n].dims, layout |-> ns[n].layout, data |-> ns[n].data]
    BY <2>2 DEF Moved
  <2>4. [i \in DOMAIN ns[n].inputs |-> Rank(S, ns[n].inputs[i])] \in Seq(Nat)
    <3>1. ns[n].inputs \in Seq(Nat)
      BY <2>1 DEF Node
    <3>2. \A i \in DOMAIN ns[n].inputs : Rank(S, ns[n].inputs[i]) \in Nat
      BY <1>2, RankTypes
    <3> QED BY <3>1, <3>2
  <2> QED BY <2>1, <2>3, <2>4 DEF Node
<1>7. IsModule(ms)
  <2>1. ms \in Seq(Node(D))
    BY <1>3, <1>5, <1>6
  <2> QED BY <2>1 DEF IsModule
<1>8. ASSUME NEW k \in 1 .. Cardinality(S)
      PROVE  /\ ms[k].op = ns[Nth(S, k)].op /\ ms[k].dims = ns[Nth(S, k)].dims
             /\ ms[k].layout = ns[Nth(S, k)].layout /\ ms[k].data = ns[Nth(S, k)].data
             /\ ms[k].inputs = [i \in DOMAIN ns[Nth(S, k)].inputs |->
                                  Rank(S, ns[Nth(S, k)].inputs[i])]
  <2>1. ns[Nth(S, k)] \in Node(D) /\ ms[k] = Moved(ns[Nth(S, k)], S)
    BY <1>2, <1>4
  <2> QED BY <2>1, MovedFacts
<1>9. \A n \in S : Rank(S, n) \in 1 .. Cardinality(S) /\ Nth(S, Rank(S, n)) = n
  BY <1>2, RankPlace
<1>10. Compact(ns, S) = ms
  BY DEF Compact, ms
<1> QED BY <1>4, <1>5, <1>7, <1>8, <1>9, <1>10 DEF Compacts

(* An operand moves before the node that uses it.                          *)
LEMMA CompactValid ==
  ASSUME NEW ns, IsModule(ns), validate(ns), NEW S, Closure(ns, S)
  PROVE  validate(Compact(ns, S))
<1> DEFINE ms == Compact(ns, S)
<1> SUFFICES ASSUME NEW k \in DOMAIN ms PROVE ValidNode(ms, k)
  BY DEF validate
<1>0. Compacts(ms, ns, S)
  BY CompactFacts
<1> HIDE DEF ms
<1>1. PICK n : n = Nth(S, k)
  OBVIOUS
<1>2. /\ n \in S /\ Rank(S, n) = k /\ IsModule(ms)
      /\ ms[k].op = ns[n].op /\ ms[k].dims = ns[n].dims
      /\ ms[k].inputs = [i \in DOMAIN ns[n].inputs |-> Rank(S, ns[n].inputs[i])]
  BY <1>0, <1>1 DEF Compacts
<1>3. /\ Len(ns) \in Nat /\ DOMAIN ns = 1 .. Len(ns) /\ n \in DOMAIN ns
      /\ S \subseteq 1 .. Len(ns) /\ ns[n].inputs \in Seq(Nat) /\ ToSet(ns[n].inputs) \subseteq S
  BY <1>2, ModuleFacts DEF Closure
<1>4. ValidNode(ns, n)
  BY <1>3 DEF validate
<1>5. ms[k].inputs \in Seq(Nat)
  BY <1>2, ModuleFacts
<1>6. ASSUME NEW i \in DOMAIN ns[n].inputs
      PROVE  /\ Rank(S, ns[n].inputs[i]) \in 1 .. k - 1
             /\ ms[Rank(S, ns[n].inputs[i])].dims = ns[ns[n].inputs[i]].dims
  <2>1. PICK j : j = ns[n].inputs[i]
    OBVIOUS
  <2>2. j \in S /\ j \in Nat /\ j < n /\ n \in Nat
    <3>1. j \in ToSet(ns[n].inputs)
      BY <2>1 DEF ToSet
    <3>2. j \in 1 .. n - 1
      BY <1>4, <2>1 DEF ValidNode
    <3> QED BY <1>3, <3>1, <3>2
  <2>3. Rank(S, j) < Rank(S, n)
    BY <1>2, <1>3, <2>2, RankMonotone
  <2>4. Rank(S, j) \in DOMAIN ms /\ Nth(S, Rank(S, j)) = j /\ DOMAIN ms = 1 .. Cardinality(S)
    BY <1>0, <2>2 DEF Compacts
  <2>5. ms[Rank(S, j)].dims = ns[j].dims
    BY <1>0, <2>4 DEF Compacts
  <2>6. Rank(S, j) \in 1 .. k - 1
    <3>1. Cardinality(S) \in Nat /\ k \in 1 .. Cardinality(S)
      BY <1>3, <2>4, CountBound
    <3> QED BY <1>2, <2>3, <2>4, <3>1
  <2> QED BY <2>1, <2>5, <2>6
<1>7. /\ DOMAIN ms[k].inputs = DOMAIN ns[n].inputs /\ Len(ms[k].inputs) = Len(ns[n].inputs)
      /\ \A i \in DOMAIN ns[n].inputs : ms[k].inputs[i] = Rank(S, ns[n].inputs[i])
  <2>1. /\ DOMAIN ms[k].inputs = DOMAIN ns[n].inputs
        /\ \A i \in DOMAIN ns[n].inputs : ms[k].inputs[i] = Rank(S, ns[n].inputs[i])
    BY <1>2
  <2> QED BY <1>3, <1>5, <2>1
<1>8. Mirrors(ms, k, ns, n)
  <2> QED BY <1>2, <1>3, <1>5, <1>6, <1>7 DEF Mirrors
<1> QED BY <1>4, <1>8, MirrorValid

-----------------------------------------------------------------------------
(* The worklist.                                                           *)
LEMMA FrontAndLast ==
  ASSUME NEW X, NEW w \in Seq(X), w # << >>
  PROVE  Front(w) \in Seq(X) /\ Last(w) \in ToSet(w) /\ ToSet(w) = ToSet(Front(w)) \cup {Last(w)}
<1> DEFINE f == Front(w)  n == Len(w)
<1>1. n \in Nat \ {0} /\ Last(w) = w[n] /\ f = SubSeq(w, 1, n - 1)
  BY DEF Last, Front
<1>2. f \in Seq(X) /\ Len(f) = n - 1 /\ \A i \in 1 .. n - 1 : f[i] = w[i]
  <2>1. n - 1 \in Nat /\ n - 1 <= Len(w)
    BY <1>1
  <2> DEFINE m == n - 1
  <2> HIDE DEF m
  <2>2. m \in Nat /\ m <= Len(w)
    BY <2>1 DEF m
  <2>3. /\ SubSeq(w, 1, m) \in Seq(X) /\ Len(SubSeq(w, 1, m)) = m
        /\ \A i \in 1 .. m : SubSeq(w, 1, m)[i] = w[i]
    BY <2>2
  <2> HIDE DEF f
  <2> QED BY <1>1, <2>3 DEF m
<1> HIDE DEF f, n
<1>3. \A y : y \in ToSet(w) <=> \E i \in 1 .. n : w[i] = y
  BY SetOf DEF n
<1>4. \A y : y \in ToSet(f) <=> \E i \in 1 .. n - 1 : f[i] = y
  BY <1>2, SetOf
<1>5. \A i \in 1 .. n : i \in 1 .. n - 1 \/ i = n
  BY <1>1
<1>6. n \in 1 .. n /\ \A i \in 1 .. n - 1 : i \in 1 .. n
  BY <1>1
<1>7. ToSet(w) \subseteq ToSet(f) \cup {w[n]}
  BY <1>2, <1>3, <1>4, <1>5
<1>8. w[n] \in ToSet(w) /\ ToSet(f) \subseteq ToSet(w)
  BY <1>2, <1>3, <1>4, <1>6
<1> QED BY <1>1, <1>2, <1>7, <1>8 DEF f

LEMMA ConcatSet ==
  ASSUME NEW X, NEW s \in Seq(X), NEW t \in Seq(X)
  PROVE  s \o t \in Seq(X) /\ ToSet(s \o t) = ToSet(s) \cup ToSet(t)
<1> DEFINE u == s \o t
<1>1. u \in Seq(X) /\ Len(u) = Len(s) + Len(t) /\ Len(s) \in Nat /\ Len(t) \in Nat
  OBVIOUS
<1>2. /\ \A i \in 1 .. Len(s) : u[i] = s[i] /\ i \in 1 .. Len(u)
      /\ \A i \in 1 .. Len(t) : u[Len(s) + i] = t[i] /\ Len(s) + i \in 1 .. Len(u)
  <2>1. ASSUME NEW i \in 1 .. Len(s) PROVE u[i] = s[i] /\ i \in 1 .. Len(u)
    BY <1>1, ConcatAt
  <2>2. ASSUME NEW i \in 1 .. Len(t) PROVE u[Len(s) + i] = t[i] /\ Len(s) + i \in 1 .. Len(u)
    <3>1. Len(s) + i \in Nat /\ Len(s) + i >= 1 /\ Len(s) + i <= Len(s) + Len(t)
          /\ ~(Len(s) + i <= Len(s)) /\ (Len(s) + i) - Len(s) = i
      BY <1>1
    <3> HIDE DEF u
    <3> QED BY <1>1, <3>1, ConcatAt DEF u
  <2> QED BY <2>1, <2>2
<1> HIDE DEF u
<1>3. \A i \in 1 .. Len(u) : i \in 1 .. Len(s) \/ (i - Len(s) \in 1 .. Len(t) /\ Len(s) + (i - Len(s)) = i)
  BY <1>1
<1>4. \A y : y \in ToSet(u) <=> \E i \in 1 .. Len(u) : u[i] = y
  BY <1>1, SetOf
<1>5. \A y : y \in ToSet(s) <=> \E i \in 1 .. Len(s) : s[i] = y
  BY SetOf
<1>6. \A y : y \in ToSet(t) <=> \E i \in 1 .. Len(t) : t[i] = y
  BY SetOf
<1>7. ASSUME NEW y \in ToSet(u) PROVE y \in ToSet(s) \cup ToSet(t)
  <2>1. PICK i \in 1 .. Len(u) : u[i] = y
    BY <1>4
  <2>2. CASE i \in 1 .. Len(s)
    BY <1>2, <1>5, <2>1, <2>2
  <2>3. CASE i - Len(s) \in 1 .. Len(t) /\ Len(s) + (i - Len(s)) = i
    BY <1>2, <1>6, <2>1, <2>3
  <2> QED BY <1>3, <2>2, <2>3
<1>8. ToSet(s) \cup ToSet(t) \subseteq ToSet(u)
  BY <1>2, <1>4, <1>5, <1>6
<1> QED BY <1>1, <1>7, <1>8 DEF u

-----------------------------------------------------------------------------
(* What the outputs depend on.                                             *)
InBounds(ns, outs) == /\ \A n \in DOMAIN ns : ToSet(ns[n].inputs) \subseteq DOMAIN ns
                      /\ ToSet(outs) \subseteq DOMAIN ns

LEMMA ReachableFacts ==
  ASSUME NEW ns, NEW outs, InBounds(ns, outs)
  PROVE  /\ Reachable(ns, outs) \subseteq DOMAIN ns /\ ToSet(outs) \subseteq Reachable(ns, outs)
         /\ \A n \in Reachable(ns, outs) : ToSet(ns[n].inputs) \subseteq Reachable(ns, outs)
<1>1. \A R \in Closed(ns, outs) :
        ToSet(outs) \subseteq R /\ \A n \in R : ToSet(ns[n].inputs) \subseteq R
  BY DEF Closed
<1>2. \A n : n \in Reachable(ns, outs) <=> n \in DOMAIN ns /\ \A R \in Closed(ns, outs) : n \in R
  BY DEF Reachable
<1>3. /\ \A n \in DOMAIN ns : ToSet(ns[n].inputs) \subseteq DOMAIN ns
      /\ ToSet(outs) \subseteq DOMAIN ns
  BY DEF InBounds
<1>4. ToSet(outs) \subseteq Reachable(ns, outs)
  BY <1>1, <1>2, <1>3
<1>5. ASSUME NEW n \in Reachable(ns, outs), NEW m \in ToSet(ns[n].inputs)
      PROVE  m \in Reachable(ns, outs)
  BY <1>1, <1>2, <1>3, <1>5
<1> QED BY <1>2, <1>4, <1>5

LEMMA ReachableLeast ==
  ASSUME NEW ns, NEW outs, NEW R, R \subseteq DOMAIN ns, ToSet(outs) \subseteq R,
         \A n \in R : ToSet(ns[n].inputs) \subseteq R
  PROVE  Reachable(ns, outs) \subseteq R
BY DEF Reachable, Closed

-----------------------------------------------------------------------------
(* Building a module, and starting a pass.                                 *)
LEMMA CompilerInvInit == CompilerInit => CompilerInv
<1> SUFFICES ASSUME CompilerInit PROVE CompilerInv
  OBVIOUS
<1>1. IsModule(nodes)
  <2>1. nodes \in Seq(Node({}))
    BY DEF CompilerInit
  <2> QED BY <2>1 DEF IsModule
<1> QED BY <1>1 DEF CompilerInit, CompilerInv, CompilerTypes, ValidInv, MarkInv, GroupsInv

LEMMA BuildKeeps ==
  ASSUME CompilerInv, pc = "build", pc' = pc, IsModule(nodes'), outputs' \in Seq(Nat),
         UNCHANGED <<source, cursor, current, groups, fusion, live, worklist, launches>>
  PROVE  CompilerInv'
<1>1. CompilerTypes'
  BY DEF CompilerInv, CompilerTypes
<1>2. ValidInv'
  BY DEF CompilerInv, ValidInv
<1>3. MarkInv' /\ GroupsInv'
  BY DEF MarkInv, GroupsInv
<1> QED BY <1>1, <1>2, <1>3 DEF CompilerInv

LEMMA EmitKeeps ==
  ASSUME CompilerInv, Emit
  PROVE  CompilerInv'
<1>1. IsModule(nodes) /\ outputs \in Seq(Nat)
  BY DEF CompilerInv, CompilerTypes
<1>2. PICK t \in Templates : \E inputs \in [1 .. t.arity -> 1 .. Len(nodes) + Forward] :
         nodes' = Append(nodes, NewNode(t.op, inputs, t.dims, << >>))
  BY DEF Emit
<1>3. PICK inputs \in [1 .. t.arity -> 1 .. Len(nodes) + Forward] :
         nodes' = Append(nodes, NewNode(t.op, inputs, t.dims, << >>))
  BY <1>2
<1>4. t.op \in Op /\ t.arity \in Nat /\ t.dims \in Seq(Int)
  BY TemplatesAssumption
<1>5. inputs \in Seq(Nat)
  <2>1. Len(nodes) + Forward \in Nat
    BY <1>1, ModuleFacts, MaxNodesAssumption
  <2>2. PICK a, b : a = t.arity /\ b = Len(nodes) + Forward
    OBVIOUS
  <2>3. a \in Nat /\ b \in Nat /\ inputs \in [1 .. a -> 1 .. b]
    BY <1>4, <2>1, <2>2
  <2>4. ASSUME NEW i \in 1 .. a PROVE inputs[i] \in Nat
    <3>1. inputs[i] \in 1 .. b
      BY <2>3
    <3> QED BY <2>3, <3>1
  <2>5. inputs = [i \in 1 .. a |-> inputs[i]]
    BY <2>3
  <2> QED BY <2>3, <2>4, <2>5
<1>6. IsModule(nodes')
  BY <1>1, <1>3, <1>4, <1>5, ModuleGrows
<1> QED BY <1>1, <1>6, BuildKeeps DEF Emit

LEMMA EmitConstantKeeps ==
  ASSUME CompilerInv, EmitConstant
  PROVE  CompilerInv'
<1>1. IsModule(nodes) /\ outputs \in Seq(Nat)
  BY DEF CompilerInv, CompilerTypes
<1>2. PICK p \in Payloads : nodes' = Append(nodes, NewNode("Constant", << >>, p.dims, p.data))
  BY DEF EmitConstant
<1>3. p.dims \in Seq(Int) /\ "Constant" \in Op /\ << >> \in Seq(Nat)
  BY PayloadsAssumption DEF Op
<1>4. IsModule(nodes')
  BY <1>1, <1>2, <1>3, ModuleGrows
<1> QED BY <1>1, <1>4, BuildKeeps DEF EmitConstant

LEMMA SetOutputsKeeps ==
  ASSUME CompilerInv, SetOutputs
  PROVE  CompilerInv'
<1>1. IsModule(nodes) /\ DOMAIN nodes = 1 .. Len(nodes)
  BY ModuleFacts DEF CompilerInv, CompilerTypes
<1>2. PICK k \in 1 .. MaxOutputs : \E ids \in [1 .. k -> DOMAIN nodes] : outputs' = ids
  BY DEF SetOutputs
<1>3. outputs' \in Seq(Nat)
  <2>1. k \in Nat /\ outputs' \in [1 .. k -> DOMAIN nodes]
    BY <1>2, MaxNodesAssumption
  <2>2. \A i \in 1 .. k : outputs'[i] \in Nat
    BY <1>1, <2>1
  <2>3. outputs' = [i \in 1 .. k |-> outputs'[i]]
    BY <2>1
  <2> QED BY <2>1, <2>2, <2>3
<1> QED BY <1>1, <1>3, BuildKeeps DEF SetOutputs

LEMMA RunPipelineKeeps ==
  ASSUME CompilerInv, RunPipeline
  PROVE  CompilerInv'
<1>1. /\ IsModule(nodes) /\ Len(nodes) \in Nat
      /\ nodes' = nodes /\ outputs' = outputs /\ worklist' = worklist
      /\ source'.nodes = nodes /\ launches' = << >> /\ current = 0 /\ current' = 0
      /\ \/ validate(nodes) /\ pc' = "fold" /\ cursor' = 1
         \/ ~validate(nodes) /\ pc' = "ready" /\ cursor' = 0
  BY ModuleFacts DEF CompilerInv, CompilerTypes, RunPipeline
<1>2. CompilerTypes'
  <2>1. 1 \in 1 .. Len(nodes) + 1
    BY <1>1
  <2> QED BY <1>1, <2>1 DEF CompilerInv, CompilerTypes
<1>3. ValidInv'
  BY <1>1 DEF ValidInv
<1>4. MarkInv' /\ GroupsInv'
  BY <1>1 DEF MarkInv, GroupsInv
<1> QED BY <1>2, <1>3, <1>4 DEF CompilerInv

-----------------------------------------------------------------------------
(* The passes.                                                             *)
LEMMA FoldNodeKeeps ==
  ASSUME CompilerInv, FoldNode
  PROVE  CompilerInv'
<1>1. /\ IsModule(nodes) /\ Len(nodes) \in Nat /\ DOMAIN nodes = 1 .. Len(nodes)
      /\ pc = "fold" /\ pc' = pc /\ cursor \in Nat /\ cursor' = cursor + 1
      /\ cursor \in 1 .. Len(nodes) + 1 /\ cursor <= Len(nodes) /\ current = 0 /\ current' = 0
      /\ outputs' = outputs /\ worklist' = worklist /\ source' = source /\ launches' = launches
  BY ModuleFacts DEF CompilerInv, CompilerTypes, FoldNode
<1>2. validate(source.nodes) /\ validate(nodes)
  BY <1>1 DEF CompilerInv, ValidInv
<1>3. cursor \in DOMAIN nodes
  BY <1>1
<1>4. \/ nodes' = nodes
      \/ nodes' = [nodes EXCEPT ![cursor] = Constant(@, FoldedData(nodes[cursor]))]
  BY DEF FoldNode, Folded, Constant
<1>5. IsModule(nodes') /\ validate(nodes') /\ Len(nodes') = Len(nodes)
  <2>1. CASE nodes' = nodes
    BY <1>1, <1>2, <2>1
  <2>2. CASE nodes' = [nodes EXCEPT ![cursor] = Constant(@, FoldedData(nodes[cursor]))]
    <3>1. IsModule(nodes') /\ validate(nodes')
      BY <1>1, <1>2, <1>3, <2>2, ConstantKeeps
    <3>2. DOMAIN nodes' = DOMAIN nodes
      BY <2>2
    <3> QED BY <1>1, <3>1, <3>2, ModuleFacts
  <2> QED BY <1>4, <2>1, <2>2
<1>6. CompilerTypes'
  <2>1. cursor' \in Nat /\ cursor' \in 1 .. Len(nodes') + 1
    BY <1>1, <1>5
  <2> QED BY <1>1, <1>5, <2>1 DEF CompilerInv, CompilerTypes
<1>7. ValidInv'
  BY <1>1, <1>2, <1>5 DEF ValidInv
<1>8. MarkInv' /\ GroupsInv'
  BY <1>1 DEF MarkInv, GroupsInv
<1> QED BY <1>6, <1>7, <1>8 DEF CompilerInv

LEMMA InferLayoutKeeps ==
  ASSUME CompilerInv, InferLayout
  PROVE  CompilerInv'
<1>1. /\ IsModule(nodes) /\ Len(nodes) \in Nat /\ DOMAIN nodes = 1 .. Len(nodes)
      /\ pc = "fold" /\ pc' = "fuse" /\ current = 0 /\ current' = 0
      /\ outputs' = outputs /\ worklist' = worklist /\ source' = source /\ launches' = launches
      /\ \/ groups' = << >> /\ cursor' = 1
         \/ groups' = [n \in DOMAIN nodes |-> <<n>>] /\ cursor' = Len(nodes) + 1
  BY ModuleFacts DEF CompilerInv, CompilerTypes, InferLayout
<1>2. validate(source.nodes) /\ validate(nodes)
  BY <1>1 DEF CompilerInv, ValidInv
<1>3. \/ nodes' = [n \in DOMAIN nodes |-> IF nodes[n].op = "MatMul" /\ Len(nodes[n].dims) = 2
                                          THEN Tiled(nodes[n]) ELSE nodes[n]]
      \/ nodes' = nodes
  BY DEF InferLayout, Tiled
<1>4. IsModule(nodes') /\ validate(nodes') /\ DOMAIN nodes' = DOMAIN nodes /\ Len(nodes') = Len(nodes)
  BY <1>1, <1>2, <1>3, TiledKeeps
<1>5. CompilerTypes'
  <2>1. cursor' \in Nat /\ cursor' \in 1 .. Len(nodes') + 1
    BY <1>1, <1>4
  <2> QED BY <1>1, <1>4, <2>1 DEF CompilerInv, CompilerTypes
<1>6. ValidInv'
  BY <1>1, <1>2, <1>4 DEF ValidInv
<1>7. GroupsInv'
  <2> DEFINE V == UNION {ToSet(groups'[i]) : i \in DOMAIN groups'}
  <2>1. Visited' = V
    BY DEF Visited
  <2>2. CASE groups' = << >> /\ cursor' = 1
    <3>1. V = {} /\ Len(FlattenSeq(groups')) = 0
      BY <2>2 DEF FlattenSeq
    <3>2. 1 .. cursor' - 1 = {} /\ groups' \in Seq(Seq(DOMAIN nodes'))
      BY <2>2
    <3> HIDE DEF V
    <3> QED BY <1>1, <2>1, <2>2, <3>1, <3>2, FS_EmptySet DEF GroupsInv
  <2>3. CASE groups' = [n \in DOMAIN nodes |-> <<n>>] /\ cursor' = Len(nodes) + 1
    <3>1. groups' = [n \in 1 .. Len(nodes) |-> <<n>>]
      BY <1>1, <2>3
    <3>2. Len(FlattenSeq(groups')) = Len(nodes)
      BY <1>1, <3>1, FlattenSingles
    <3>3. V = 1 .. Len(nodes)
      <4>1. \A n \in 1 .. Len(nodes) : ToSet(groups'[n]) = {n}
        BY <3>1 DEF ToSet
      <4>2. DOMAIN groups' = 1 .. Len(nodes)
        BY <3>1
      <4> QED BY <4>1, <4>2
    <3> HIDE DEF V
    <3>4. Cardinality(V) = Len(nodes)
      <4>1. PICK k \in Nat : k = Len(nodes)
        BY <1>1
      <4>2. Cardinality(1 .. k) = k
        BY FS_Interval
      <4> QED BY <3>3, <4>1, <4>2
    <3>5. groups' \in Seq(Seq(DOMAIN nodes'))
      <4>1. \A n \in 1 .. Len(nodes) : <<n>> \in Seq(1 .. Len(nodes))
        OBVIOUS
      <4> QED BY <1>1, <1>4, <3>1, <4>1
    <3>6. 1 .. cursor' - 1 = 1 .. Len(nodes)
      BY <1>1, <2>3
    <3> QED BY <1>1, <2>1, <3>2, <3>3, <3>4, <3>5, <3>6 DEF GroupsInv
  <2> QED BY <1>1, <2>2, <2>3
<1>8. MarkInv'
  BY <1>1 DEF MarkInv
<1> QED BY <1>5, <1>6, <1>7, <1>8 DEF CompilerInv

Members(gs) == UNION {ToSet(gs[i]) : i \in DOMAIN gs}

(* A new group; one more node in the last group.                           *)
LEMMA GroupAdded ==
  ASSUME NEW X, NEW gs \in Seq(Seq(X)), NEW t \in Seq(X)
  PROVE  Members(Append(gs, t)) = Members(gs) \cup ToSet(t)
<1> DEFINE u == Append(gs, t)  n == Len(gs)
<1>1. /\ DOMAIN u = 1 .. n + 1 /\ DOMAIN gs = 1 .. n /\ n \in Nat /\ u[n + 1] = t
      /\ \A i \in 1 .. n : u[i] = gs[i]
  OBVIOUS
<1> HIDE DEF u, n
<1>2. n + 1 \in 1 .. n + 1 /\ \A i \in 1 .. n : i \in 1 .. n + 1
  BY <1>1
<1>3. \A i \in 1 .. n + 1 : i \in 1 .. n \/ i = n + 1
  BY <1>1
<1>4. \A x : x \in Members(u) <=> \E i \in 1 .. n + 1 : x \in ToSet(u[i])
  BY <1>1 DEF Members
<1>5. \A x : x \in Members(gs) <=> \E i \in 1 .. n : x \in ToSet(gs[i])
  BY <1>1 DEF Members
<1>6. Members(u) \subseteq Members(gs) \cup ToSet(t)
  BY <1>1, <1>3, <1>4, <1>5
<1>7. Members(gs) \subseteq Members(u) /\ ToSet(t) \subseteq Members(u)
  BY <1>1, <1>2, <1>4, <1>5
<1> QED BY <1>6, <1>7 DEF u

LEMMA AppendMember ==
  ASSUME NEW X, NEW s \in Seq(X), NEW x \in X
  PROVE  ToSet(Append(s, x)) = ToSet(s) \cup {x}
<1> DEFINE t == Append(s, x)  n == Len(s)
<1>1. /\ t \in Seq(X) /\ Len(t) = n + 1 /\ n \in Nat
      /\ t[n + 1] = x /\ \A i \in 1 .. n : t[i] = s[i]
  OBVIOUS
<1> HIDE DEF t, n
<1>2. \A y : y \in ToSet(t) <=> \E i \in 1 .. n + 1 : t[i] = y
  BY <1>1, SetOf
<1>3. \A y : y \in ToSet(s) <=> \E i \in 1 .. n : s[i] = y
  BY SetOf DEF n
<1>4. n + 1 \in 1 .. n + 1 /\ \A i \in 1 .. n : i \in 1 .. n + 1
  BY <1>1
<1>5. \A i \in 1 .. n + 1 : i \in 1 .. n \/ i = n + 1
  BY <1>1
<1>6. ToSet(t) \subseteq ToSet(s) \cup {x}
  BY <1>1, <1>2, <1>3, <1>5
<1>7. x \in ToSet(t) /\ ToSet(s) \subseteq ToSet(t)
  BY <1>1, <1>2, <1>3, <1>4
<1> QED BY <1>6, <1>7 DEF t

ExtendsLast(ms, gs, m) == ms = [gs EXCEPT ![Len(gs)] = Append(@, m)]

LEMMA GroupExtended ==
  ASSUME NEW X, NEW gs \in Seq(Seq(X)), gs # << >>, NEW m \in X, NEW ms, ExtendsLast(ms, gs, m)
  PROVE  /\ ms \in Seq(Seq(X)) /\ ms # << >> /\ Members(ms) = Members(gs) \cup {m}
         /\ Len(FlattenSeq(ms)) = Len(FlattenSeq(gs)) + 1
<1>n. PICK n : n = Len(gs)
  OBVIOUS
<1> DEFINE f == [i \in 1 .. n - 1 |-> gs[i]]
           g == gs[n]
           h == Append(g, m)
<1>1. n \in Nat /\ n >= 1 /\ DOMAIN gs = 1 .. n /\ \A i \in 1 .. n : gs[i] \in Seq(X)
  BY <1>n
<1>2. f \in Seq(Seq(X)) /\ Len(f) = n - 1 /\ g \in Seq(X) /\ \A i \in 1 .. n - 1 : f[i] = gs[i]
  <2>1. PICK k, S : k = n - 1 /\ S = Seq(X)
    OBVIOUS
  <2>2. k \in Nat /\ n \in 1 .. n /\ \A i \in 1 .. k : gs[i] \in S
    BY <1>1, <2>1
  <2>3. f = [i \in 1 .. k |-> gs[i]] /\ g \in S
    BY <1>1, <2>1, <2>2
  <2> HIDE DEF f, g
  <2>4. f \in Seq(S) /\ Len(f) = k /\ \A i \in 1 .. k : f[i] = gs[i]
    BY <2>2, <2>3
  <2> QED BY <2>1, <2>3, <2>4
<1> HIDE DEF f, g
<1>3. h \in Seq(X) /\ Len(h) = Len(g) + 1 /\ Len(g) \in Nat
  BY <1>2
<1> HIDE DEF h
<1>4. ASSUME NEW t \in Seq(X)
      PROVE  Append(f, t) = [i \in 1 .. n |-> IF i = n THEN t ELSE gs[i]]
  <2>1. Append(f, t) \in Seq(Seq(X)) /\ Len(Append(f, t)) = n
    <3>1. PICK S : S = Seq(X)
      OBVIOUS
    <3>2. f \in Seq(S) /\ t \in S
      BY <1>2, <3>1
    <3>3. Append(f, t) \in Seq(S) /\ Len(Append(f, t)) = Len(f) + 1
      BY <3>2
    <3> QED BY <1>1, <1>2, <3>1, <3>3
  <2>2. ASSUME NEW i \in 1 .. n PROVE Append(f, t)[i] = IF i = n THEN t ELSE gs[i]
    <3>1. i = n \/ i \in 1 .. n - 1
      BY <1>1
    <3>2. i = n => Append(f, t)[i] = t
      BY <1>1, <1>2
    <3>3. i \in 1 .. n - 1 => Append(f, t)[i] = f[i] /\ i # n
      BY <1>1, <1>2
    <3> QED BY <1>2, <3>1, <3>2, <3>3
  <2>3. PICK S, a : S = Seq(X) /\ a = Append(f, t)
    OBVIOUS
  <2>4. a \in Seq(S) /\ Len(a) = n
    BY <2>1, <2>3
  <2>5. a = [i \in 1 .. n |-> a[i]]
    BY <2>4
  <2>6. \A i \in 1 .. n : a[i] = IF i = n THEN t ELSE gs[i]
    BY <2>2, <2>3
  <2>7. a = [i \in 1 .. n |-> IF i = n THEN t ELSE gs[i]]
    BY <2>5, <2>6
  <2> QED BY <2>3, <2>7
<1>5. gs = Append(f, g)
  <2>1. gs = [i \in 1 .. n |-> gs[i]]
    BY <1>1
  <2>2. Append(f, g) = [i \in 1 .. n |-> IF i = n THEN g ELSE gs[i]]
    BY <1>2, <1>4
  <2> QED BY <2>1, <2>2 DEF g
<1>6. ms = Append(f, h)
  <2>1. ms = [i \in 1 .. n |-> IF i = n THEN h ELSE gs[i]]
    BY <1>1, <1>n DEF h, g, ExtendsLast
  <2>2. Append(f, h) = [i \in 1 .. n |-> IF i = n THEN h ELSE gs[i]]
    BY <1>3, <1>4
  <2> QED BY <2>1, <2>2
<1>7. ms \in Seq(Seq(X)) /\ ms # << >>
  <2>1. Append(f, h) \in Seq(Seq(X)) /\ Len(Append(f, h)) # 0
    BY <1>2, <1>3
  <2> QED BY <1>6, <2>1
<1>8. Members(ms) = Members(gs) \cup {m}
  <2>1. Members(ms) = Members(f) \cup ToSet(h) /\ Members(gs) = Members(f) \cup ToSet(g)
    <3>1. /\ Members(Append(f, h)) = Members(f) \cup ToSet(h)
          /\ Members(Append(f, g)) = Members(f) \cup ToSet(g)
      BY <1>2, <1>3, GroupAdded
    <3> QED BY <1>5, <1>6, <3>1, Zenon
  <2>2. ToSet(h) = ToSet(g) \cup {m}
    BY <1>2, AppendMember DEF h
  <2> QED BY <2>1, <2>2
<1>9. Len(FlattenSeq(ms)) = Len(FlattenSeq(gs)) + 1
  <2>1. /\ Len(FlattenSeq(f)) \in Nat
        /\ Len(FlattenSeq(Append(f, h))) = Len(FlattenSeq(f)) + Len(h)
        /\ Len(FlattenSeq(Append(f, g))) = Len(FlattenSeq(f)) + Len(g)
    BY <1>2, <1>3, FlattenAppend
  <2>2. /\ Len(FlattenSeq(ms)) = Len(FlattenSeq(f)) + Len(h)
        /\ Len(FlattenSeq(gs)) = Len(FlattenSeq(f)) + Len(g)
    BY <1>5, <1>6, <2>1, Zenon
  <2> QED BY <1>3, <2>1, <2>2
<1> QED BY <1>7, <1>8, <1>9

(* A node that is in no group yet joins one: the groups hold as many nodes *)
(* as different ones.                                                      *)
LEMMA NodeGrouped ==
  ASSUME NEW n \in Nat, NEW V, V \subseteq 1 .. n, NEW m \in 1 .. n, m \notin V
  PROVE  V \cup {m} \subseteq 1 .. n /\ Cardinality(V \cup {m}) = Cardinality(V) + 1
<1>1. IsFiniteSet(V)
  BY CountBound
<1> QED BY <1>1, FS_AddElement

LEMMA VisitedIs == Visited = Members(groups)
BY DEF Visited, Members

LEMMA MembersIn ==
  ASSUME NEW X, NEW gs \in Seq(Seq(X))
  PROVE  Members(gs) \subseteq X
<1> SUFFICES ASSUME NEW i \in DOMAIN gs, NEW x \in ToSet(gs[i]) PROVE x \in X
  BY DEF Members
<1>1. gs[i] \in Seq(X)
  OBVIOUS
<1> QED BY <1>1, SetOf

LEMMA FuseRootKeeps ==
  ASSUME CompilerInv, FuseRoot
  PROVE  CompilerInv'
<1>1. /\ IsModule(nodes) /\ Len(nodes) \in Nat /\ DOMAIN nodes = 1 .. Len(nodes)
      /\ pc = "fuse" /\ pc' = pc /\ current = 0 /\ nodes' = nodes
      /\ cursor \in 1 .. Len(nodes) + 1 /\ cursor <= Len(nodes) /\ cursor' = cursor + 1
      /\ outputs' = outputs /\ worklist' = worklist /\ source' = source /\ launches' = launches
      /\ \/ cursor \in Visited /\ groups' = groups /\ current' = current
         \/ cursor \notin Visited /\ groups' = Append(groups, <<cursor>>) /\ current' = cursor
  BY ModuleFacts DEF CompilerInv, CompilerTypes, FuseRoot
<1>2. cursor \in 1 .. Len(nodes) /\ 1 .. cursor' - 1 = (1 .. cursor - 1) \cup {cursor}
      /\ cursor' \in 1 .. Len(nodes) + 1
  BY <1>1
<1>3. /\ groups \in Seq(Seq(DOMAIN nodes)) /\ Len(FlattenSeq(groups)) = Cardinality(Members(groups))
      /\ 1 .. cursor - 1 \subseteq Members(groups)
  BY <1>1, VisitedIs DEF CompilerInv, GroupsInv
<1>4. Visited' = Members(groups')
  BY DEF Visited, Members
<1>5. CompilerTypes'
  BY <1>1, <1>2 DEF CompilerInv, CompilerTypes
<1>6. ValidInv' /\ MarkInv'
  BY <1>1 DEF CompilerInv, ValidInv, MarkInv
<1>7. GroupsInv'
  <2>1. CASE cursor \in Visited /\ groups' = groups /\ current' = current
    BY <1>1, <1>2, <1>3, <1>4, <2>1, VisitedIs DEF GroupsInv
  <2>2. CASE cursor \notin Visited /\ groups' = Append(groups, <<cursor>>)
    <3>1. PICK X, t : X = DOMAIN nodes /\ t = <<cursor>>
      OBVIOUS
    <3>2. t \in Seq(X) /\ Len(t) = 1 /\ ToSet(t) = {cursor}
      BY <1>1, <1>2, <3>1 DEF ToSet
    <3>3. groups \in Seq(Seq(X)) /\ groups' = Append(groups, t)
      BY <1>3, <2>2, <3>1
    <3>4. Members(groups') = Members(groups) \cup {cursor}
      BY <3>2, <3>3, GroupAdded
    <3>5. Len(FlattenSeq(groups')) = Len(FlattenSeq(groups)) + 1
      BY <3>2, <3>3, FlattenAppend
    <3>6. Cardinality(Members(groups')) = Cardinality(Members(groups)) + 1
      <4>1. Members(groups) \subseteq 1 .. Len(nodes)
        BY <1>1, <3>1, <3>3, MembersIn
      <4> QED BY <1>1, <1>2, <2>2, <3>4, <4>1, NodeGrouped, VisitedIs
    <3>7. groups' \in Seq(Seq(X)) /\ groups' # << >>
      <4>1. PICK S : S = Seq(X)
        OBVIOUS
      <4>2. Append(groups, t) \in Seq(S) /\ Len(Append(groups, t)) = Len(groups) + 1 /\ Len(groups) \in Nat
        BY <3>2, <3>3, <4>1
      <4>3. Append(groups, t) # << >>
        BY <4>2
      <4> QED BY <3>3, <4>1, <4>2, <4>3
    <3>8. 1 .. cursor' - 1 \subseteq Members(groups')
      BY <1>2, <1>3, <3>4
    <3> QED BY <1>1, <1>3, <1>4, <3>1, <3>5, <3>6, <3>7, <3>8 DEF GroupsInv
  <2> QED BY <1>1, <2>1, <2>2
<1> QED BY <1>5, <1>6, <1>7 DEF CompilerInv

LEMMA FuseExtendKeeps ==
  ASSUME CompilerInv, FuseExtend
  PROVE  CompilerInv'
<1>1. /\ IsModule(nodes) /\ Len(nodes) \in Nat /\ DOMAIN nodes = 1 .. Len(nodes)
      /\ pc = "fuse" /\ pc' = pc /\ current # 0 /\ nodes' = nodes /\ cursor' = cursor
      /\ outputs' = outputs /\ worklist' = worklist /\ source' = source /\ launches' = launches
  BY ModuleFacts DEF CompilerInv, CompilerTypes, FuseExtend
<1>2. /\ groups \in Seq(Seq(DOMAIN nodes)) /\ Len(FlattenSeq(groups)) = Cardinality(Members(groups))
      /\ 1 .. cursor - 1 \subseteq Members(groups) /\ groups # << >>
  BY <1>1, VisitedIs DEF CompilerInv, GroupsInv
<1>3. Visited' = Members(groups')
  BY DEF Visited, Members
<1>4. CompilerTypes'
  BY <1>1 DEF CompilerInv, CompilerTypes
<1>5. ValidInv' /\ MarkInv'
  BY <1>1 DEF CompilerInv, ValidInv, MarkInv
<1>6. GroupsInv'
  <2>1. CASE Extends(current)
    <3>1. PICK m \in users(current) : groups' = [groups EXCEPT ![Len(groups)] = Append(@, m)]
      BY <2>1 DEF FuseExtend
    <3>2. m \in DOMAIN nodes /\ m \notin Members(groups)
      BY <2>1, <3>1, VisitedIs DEF Extends, users
    <3>3. PICK X : X = DOMAIN nodes
      OBVIOUS
    <3>4. /\ groups' \in Seq(Seq(X)) /\ groups' # << >>
          /\ Members(groups') = Members(groups) \cup {m}
          /\ Len(FlattenSeq(groups')) = Len(FlattenSeq(groups)) + 1
      <4>1. groups \in Seq(Seq(X)) /\ groups # << >> /\ m \in X
        BY <1>2, <3>2, <3>3, Zenon
      <4>2. ExtendsLast(groups', groups, m)
        BY <3>1 DEF ExtendsLast
      <4> QED BY <4>1, <4>2, GroupExtended
    <3>5. Cardinality(Members(groups')) = Cardinality(Members(groups)) + 1
      <4>1. Members(groups) \subseteq 1 .. Len(nodes)
        BY <1>1, <1>2, <3>3, MembersIn
      <4> QED BY <1>1, <3>2, <3>4, <4>1, NodeGrouped
    <3> QED BY <1>1, <1>2, <1>3, <3>3, <3>4, <3>5 DEF GroupsInv
  <2>2. CASE ~Extends(current)
    <3>1. groups' = groups /\ current' = 0
      BY <2>2 DEF FuseExtend
    <3> QED BY <1>1, <1>2, <1>3, <3>1 DEF GroupsInv
  <2> QED BY <2>1, <2>2
<1> QED BY <1>4, <1>5, <1>6 DEF CompilerInv

LEMMA PlanKeeps ==
  ASSUME CompilerInv, Plan
  PROVE  CompilerInv'
<1>1. /\ pc = "fuse" /\ pc' = "ready" /\ cursor' = 0 /\ nodes' = nodes /\ outputs' = outputs
      /\ worklist' = worklist /\ source' = source /\ current = 0 /\ current' = 0
  BY DEF Plan, Fused
<1>2. validate(source.nodes) /\ validate(nodes)
  BY <1>1 DEF CompilerInv, ValidInv
<1>3. CompilerTypes'
  BY <1>1 DEF CompilerInv, CompilerTypes
<1>4. ValidInv' /\ MarkInv' /\ GroupsInv'
  BY <1>1, <1>2 DEF ValidInv, MarkInv, GroupsInv
<1> QED BY <1>3, <1>4 DEF CompilerInv

-----------------------------------------------------------------------------
(* dead_code_eliminate().                                                  *)
LEMMA DceBeginKeeps ==
  ASSUME CompilerInv, DceBegin
  PROVE  CompilerInv'
<1>1. /\ pc \in {"build", "ready"} /\ pc' = "mark" /\ nodes' = nodes /\ outputs' = outputs
      /\ InRange /\ source' = [nodes |-> nodes, outputs |-> outputs]
      /\ worklist' = outputs /\ live' = {} /\ launches' = launches
      /\ cursor' = cursor /\ current' = current
  BY DEF DceBegin
<1>2. CompilerTypes'
  BY <1>1 DEF CompilerInv, CompilerTypes
<1>3. ValidInv'
  BY <1>1 DEF CompilerInv, ValidInv
<1>4. ToSet(outputs) \subseteq Reachable(nodes, outputs)
  <2>1. InBounds(nodes, outputs)
    BY <1>1 DEF InRange, InBounds
  <2> QED BY <2>1, ReachableFacts
<1>5. MarkInv'
  BY <1>1, <1>4 DEF MarkInv, InRange
<1>6. GroupsInv'
  BY <1>1 DEF GroupsInv
<1> QED BY <1>2, <1>3, <1>5, <1>6 DEF CompilerInv

LEMMA DceMarkKeeps ==
  ASSUME CompilerInv, DceMark
  PROVE  CompilerInv'
<1> DEFINE R == Reachable(nodes, outputs)
           W == ToSet(worklist)
<1>1. /\ IsModule(nodes) /\ worklist \in Seq(Nat) /\ worklist # << >>
      /\ pc = "mark" /\ pc' = pc /\ nodes' = nodes /\ outputs' = outputs
      /\ source' = source /\ launches' = launches /\ cursor' = cursor /\ current' = current
  BY DEF CompilerInv, CompilerTypes, DceMark
<1>2. /\ source = [nodes |-> nodes, outputs |-> outputs] /\ InRange
      /\ live \cup W \subseteq R /\ ToSet(outputs) \subseteq live \cup W
      /\ \A n \in live : ToSet(nodes[n].inputs) \subseteq live \cup W
  BY <1>1 DEF CompilerInv, MarkInv
<1>3. PICK n : n = Last(worklist)
  OBVIOUS
<1>4. /\ Front(worklist) \in Seq(Nat) /\ n \in W /\ W = ToSet(Front(worklist)) \cup {n}
  BY <1>1, <1>3, FrontAndLast
<1>5. n \in DOMAIN nodes /\ ToSet(nodes[n].inputs) \subseteq R
  <2>1. InBounds(nodes, outputs)
    BY <1>2 DEF InRange, InBounds
  <2> QED BY <1>2, <1>4, <2>1, ReachableFacts
<1>6. nodes[n].inputs \in Seq(Nat)
  BY <1>1, <1>5, ModuleFacts
<1>7. /\ worklist' \in Seq(Nat)
      /\ live' \cup ToSet(worklist') \subseteq R
      /\ live \cup W \subseteq live' \cup ToSet(worklist')
      /\ \A m \in live' : ToSet(nodes[m].inputs) \subseteq live' \cup ToSet(worklist')
  <2> HIDE DEF R, W
  <2>1. CASE n \in live
    <3>1. worklist' = Front(worklist) /\ live' = live
      BY <1>3, <2>1 DEF DceMark
    <3> QED BY <1>2, <1>4, <2>1, <3>1
  <2>2. CASE n \notin live
    <3>1. worklist' = Front(worklist) \o nodes[n].inputs /\ live' = live \cup {n}
      BY <1>3, <2>2 DEF DceMark, Pushed
    <3>2. /\ worklist' \in Seq(Nat)
          /\ ToSet(worklist') = ToSet(Front(worklist)) \cup ToSet(nodes[n].inputs)
      BY <1>4, <1>6, <3>1, ConcatSet
    <3>3. live' \cup ToSet(worklist') = live \cup W \cup ToSet(nodes[n].inputs)
      BY <1>4, <3>1, <3>2
    <3> QED BY <1>2, <1>5, <3>1, <3>2, <3>3
  <2> QED BY <2>1, <2>2
<1>8. CompilerTypes'
  BY <1>1, <1>7 DEF CompilerInv, CompilerTypes
<1>9. ValidInv'
  BY <1>1 DEF CompilerInv, ValidInv
<1>10. MarkInv'
  BY <1>1, <1>2, <1>7 DEF MarkInv, InRange
<1>11. GroupsInv'
  BY <1>1 DEF GroupsInv
<1> QED BY <1>8, <1>9, <1>10, <1>11 DEF CompilerInv

(* When the worklist is empty the marked nodes are closed, and nodes_ is   *)
(* compacted to them.                                                      *)
LEMMA SweepCompacts ==
  ASSUME CompilerInv, DceSweep
  PROVE  /\ IsModule(nodes) /\ Closure(nodes, live) /\ ToSet(outputs) \subseteq live
         /\ source = [nodes |-> nodes, outputs |-> outputs]
         /\ nodes' = Compact(nodes, live)
         /\ outputs' = [i \in DOMAIN outputs |-> Rank(live, outputs[i])]
<1>1. pc = "mark" /\ worklist = << >> /\ IsModule(nodes)
  BY DEF DceSweep, CompilerInv, CompilerTypes
<1>2. /\ source = [nodes |-> nodes, outputs |-> outputs] /\ InRange
      /\ live \cup ToSet(worklist) \subseteq Reachable(nodes, outputs)
      /\ ToSet(outputs) \subseteq live \cup ToSet(worklist)
      /\ \A n \in live : ToSet(nodes[n].inputs) \subseteq live \cup ToSet(worklist)
  BY <1>1 DEF CompilerInv, MarkInv
<1>3. ToSet(worklist) = {}
  BY <1>1 DEF ToSet
<1>4. live \subseteq DOMAIN nodes
  <2>1. InBounds(nodes, outputs)
    BY <1>2 DEF InRange, InBounds
  <2> QED BY <1>2, <2>1, ReachableFacts
<1>5. Closure(nodes, live) /\ ToSet(outputs) \subseteq live
  BY <1>2, <1>3, <1>4 DEF Closure
<1>6. /\ nodes' = Compact(nodes, live)
      /\ outputs' = [i \in DOMAIN outputs |-> Rank(live, outputs[i])]
  BY DEF DceSweep, DceOutputs, Renumbered, remap, Compact, Moved
<1> QED BY <1>1, <1>2, <1>5, <1>6

LEMMA DceSweepKeeps ==
  ASSUME CompilerInv, DceSweep
  PROVE  CompilerInv'
<1>1. /\ outputs \in Seq(Nat) /\ worklist \in Seq(Nat)
      /\ pc = "mark" /\ pc' = "ready" /\ worklist' = worklist /\ cursor \in Nat /\ cursor' = cursor
      /\ current = 0 /\ current' = 0 /\ source' = source /\ launches' = launches
  BY DEF DceSweep, CompilerInv, CompilerTypes
<1>2. /\ IsModule(nodes) /\ Closure(nodes, live) /\ ToSet(outputs) \subseteq live
      /\ source = [nodes |-> nodes, outputs |-> outputs]
      /\ nodes' = Compact(nodes, live)
      /\ outputs' = [i \in DOMAIN outputs |-> Rank(live, outputs[i])]
  BY SweepCompacts
<1>3. IsModule(nodes')
  BY <1>2, CompactFacts DEF Compacts
<1>4. outputs' \in Seq(Nat)
  <2>1. live \subseteq 1 .. Len(nodes) /\ Len(nodes) \in Nat
    BY <1>2, ModuleFacts DEF Closure
  <2>2. \A i \in DOMAIN outputs : Rank(live, outputs[i]) \in Nat
    BY <2>1, RankTypes
  <2>3. PICK n : n = Len(outputs)
    OBVIOUS
  <2>4. n \in Nat /\ DOMAIN outputs = 1 .. n
    BY <1>1, <2>3
  <2>5. outputs' = [i \in 1 .. n |-> Rank(live, outputs[i])]
    BY <1>2, <2>4
  <2>6. \A i \in 1 .. n : Rank(live, outputs[i]) \in Nat
    BY <2>2, <2>4
  <2> QED BY <2>4, <2>5, <2>6
<1>5. validate(nodes) => validate(nodes')
  BY <1>2, CompactValid
<1>6. CompilerTypes'
  BY <1>1, <1>3, <1>4 DEF CompilerTypes
<1>7. ValidInv'
  BY <1>1, <1>2, <1>5 DEF CompilerInv, ValidInv
<1>8. MarkInv' /\ GroupsInv'
  BY <1>1 DEF MarkInv, GroupsInv
<1> QED BY <1>6, <1>7, <1>8 DEF CompilerInv

LEMMA CompilerInvInductive == CompilerInv /\ [CompilerNext]_compilerVars => CompilerInv'
<1> SUFFICES ASSUME CompilerInv, [CompilerNext]_compilerVars PROVE CompilerInv'
  OBVIOUS
<1>1. CASE UNCHANGED compilerVars
  BY <1>1 DEF compilerVars, CompilerInv, CompilerTypes, ValidInv, MarkInv, GroupsInv, InRange, Visited
<1>2. CASE Emit \/ EmitConstant \/ SetOutputs
  BY <1>2, EmitKeeps, EmitConstantKeeps, SetOutputsKeeps
<1>3. CASE RunPipeline \/ FoldNode \/ InferLayout
  BY <1>3, RunPipelineKeeps, FoldNodeKeeps, InferLayoutKeeps
<1>4. CASE FuseRoot \/ FuseExtend \/ Plan
  BY <1>4, FuseRootKeeps, FuseExtendKeeps, PlanKeeps
<1>5. CASE DceBegin \/ DceMark \/ DceSweep
  BY <1>5, DceBeginKeeps, DceMarkKeeps, DceSweepKeeps
<1> QED BY <1>1, <1>2, <1>3, <1>4, <1>5 DEF CompilerNext

(* constant_fold, the layout pass and the renumbering of                   *)
(* dead_code_eliminate keep a valid module valid, and launches are planned *)
(* for valid modules only.                                                 *)
THEOREM PassesValid == CompilerSpec => []PassesKeepValid
<1>1. CompilerInv => PassesKeepValid
  BY DEF CompilerInv, ValidInv, PassesKeepValid
<1> QED BY <1>1, CompilerInvInit, CompilerInvInductive, PTL DEF CompilerSpec

(* The marking loop of dead_code_eliminate ends with the nodes the outputs *)
(* depend on, in modules with cycles too.                                  *)
THEOREM MarkingExact == CompilerSpec => []DceExact
<1>1. CompilerInv => DceExact
  <2> SUFFICES ASSUME CompilerInv, pc = "mark", worklist = << >>
               PROVE  live = Reachable(nodes, outputs)
    BY DEF DceExact
  <2>1. /\ InRange /\ live \cup ToSet(worklist) \subseteq Reachable(nodes, outputs)
        /\ ToSet(outputs) \subseteq live \cup ToSet(worklist)
        /\ \A n \in live : ToSet(nodes[n].inputs) \subseteq live \cup ToSet(worklist)
    BY DEF CompilerInv, MarkInv
  <2>2. ToSet(worklist) = {}
    BY DEF ToSet
  <2>3. live \subseteq DOMAIN nodes
    <3>1. InBounds(nodes, outputs)
      BY <2>1 DEF InRange, InBounds
    <3> QED BY <2>1, <3>1, ReachableFacts
  <2>4. Reachable(nodes, outputs) \subseteq live
    BY <2>1, <2>2, <2>3, ReachableLeast
  <2> QED BY <2>1, <2>4
<1> QED BY <1>1, CompilerInvInit, CompilerInvInductive, PTL DEF CompilerSpec

(* fuse() launches every node once.                                        *)
THEOREM FuseOnce == CompilerSpec => []FusePartition
<1>1. CompilerInv => FusePartition
  <2> SUFFICES ASSUME CompilerInv, Fused
               PROVE  Visited = DOMAIN nodes /\ Len(FlattenSeq(groups)) = Len(nodes)
    BY DEF FusePartition
  <2>1. /\ groups \in Seq(Seq(DOMAIN nodes)) /\ Len(FlattenSeq(groups)) = Cardinality(Visited)
        /\ 1 .. cursor - 1 \subseteq Visited /\ cursor = Len(nodes) + 1
    BY DEF CompilerInv, GroupsInv, Fused
  <2>2. Len(nodes) \in Nat /\ DOMAIN nodes = 1 .. Len(nodes)
    BY ModuleFacts DEF CompilerInv, CompilerTypes
  <2>3. Visited = 1 .. Len(nodes)
    <3>1. Members(groups) \subseteq DOMAIN nodes
      BY <2>1, MembersIn
    <3>2. 1 .. cursor - 1 = 1 .. Len(nodes)
      BY <2>1, <2>2
    <3>3. Visited \subseteq 1 .. Len(nodes)
      BY <2>2, <3>1, VisitedIs, Zenon
    <3>4. 1 .. Len(nodes) \subseteq Visited
      BY <2>1, <3>2, Zenon
    <3> QED BY <3>3, <3>4
  <2>4. Cardinality(1 .. Len(nodes)) = Len(nodes)
    <3>1. PICK n : n = Len(nodes)
      OBVIOUS
    <3>2. n \in Nat
      BY <2>2, <3>1
    <3>3. Cardinality(1 .. n) = n
      BY <3>2, FS_Interval
    <3> QED BY <3>1, <3>3
  <2> QED BY <2>1, <2>2, <2>3, <2>4, Zenon
<1> QED BY <1>1, CompilerInvInit, CompilerInvInductive, PTL DEF CompilerSpec

-----------------------------------------------------------------------------
(* The terms of a valid module: a recursive function whose argument falls, *)
(* since every input comes before its user.                                *)
TermAt(f, ns, n) ==
  [op |-> ns[n].op, dims |-> ns[n].dims, layout |-> ns[n].layout, data |-> ns[n].data,
   args |-> [i \in DOMAIN ns[n].inputs |-> f[ns[n].inputs[i]]]]

TermsUpto(f, ns, k) == f = [n \in 1 .. k |-> TermAt(f, ns, n)]

LEMMA SameArgs ==
  ASSUME NEW f, NEW g, NEW ns, NEW n,
         \A i \in DOMAIN ns[n].inputs : f[ns[n].inputs[i]] = g[ns[n].inputs[i]]
  PROVE  TermAt(f, ns, n) = TermAt(g, ns, n)
<1>1. [i \in DOMAIN ns[n].inputs |-> f[ns[n].inputs[i]]]
        = [i \in DOMAIN ns[n].inputs |-> g[ns[n].inputs[i]]]
  OBVIOUS
<1> QED BY <1>1 DEF TermAt

Backward(ns) == \A n \in DOMAIN ns : \A i \in DOMAIN ns[n].inputs : ns[n].inputs[i] \in 1 .. n - 1

LEMMA TermsExist ==
  ASSUME NEW ns, Len(ns) \in Nat, DOMAIN ns = 1 .. Len(ns), Backward(ns)
  PROVE  \E f : TermsUpto(f, ns, Len(ns))
<1>N. PICK N : N = Len(ns)
  OBVIOUS
<1> DEFINE T == {k \in 0 .. N : \E f : TermsUpto(f, ns, k)}
           R == {N - k : k \in T}
<1>1. N \in Nat /\ DOMAIN ns = 1 .. N
  BY <1>N
<1>2. 0 \in T
  <2> DEFINE f == [n \in 1 .. 0 |-> 0]
  <2>1. f = [n \in 1 .. 0 |-> TermAt(f, ns, n)]
    OBVIOUS
  <2> HIDE DEF f
  <2>2. TermsUpto(f, ns, 0)
    BY <2>1 DEF TermsUpto
  <2> QED BY <1>1, <2>2
<1>3. R \subseteq Nat /\ R # {}
  <2>1. \A n \in T : N - n \in Nat
    BY <1>1
  <2> HIDE DEF T
  <2> QED BY <1>2, <2>1
<1>4. PICK r \in R : \A q \in R : r <= q
  BY <1>3, LeastOf
<1>5. PICK k \in T : r = N - k
  OBVIOUS
<1>6. k = N
  <2> SUFFICES ASSUME k < N PROVE FALSE
    BY <1>1
  <2>1. PICK g : TermsUpto(g, ns, k)
    OBVIOUS
  <2>2. k \in Nat /\ k + 1 \in 0 .. N
    BY <1>1
  <2> DEFINE f == [n \in 1 .. k + 1 |-> TermAt(g, ns, n)]
  <2>3. \A n \in 1 .. k : f[n] = g[n]
    <3>1. \A n \in 1 .. k : n \in 1 .. k + 1
      BY <2>2
    <3>2. \A n \in 1 .. k : g[n] = TermAt(g, ns, n)
      BY <2>1 DEF TermsUpto
    <3> QED BY <3>1, <3>2
  <2>4. ASSUME NEW n \in 1 .. k + 1 PROVE TermAt(g, ns, n) = TermAt(f, ns, n)
    <3> HIDE DEF f
    <3>1. n \in DOMAIN ns /\ n \in Nat /\ n <= k + 1
      BY <1>1, <2>2
    <3>2. \A i \in DOMAIN ns[n].inputs : ns[n].inputs[i] \in 1 .. k
      <4>1. \A i \in DOMAIN ns[n].inputs : ns[n].inputs[i] \in 1 .. n - 1
        BY <3>1 DEF Backward
      <4> QED BY <2>2, <3>1, <4>1
    <3> QED BY <2>3, <3>2, SameArgs
  <2>5. f = [n \in 1 .. k + 1 |-> TermAt(f, ns, n)]
    <3> DEFINE h == [n \in 1 .. k + 1 |-> TermAt(f, ns, n)]
    <3>1. \A n \in 1 .. k + 1 : f[n] = h[n]
      BY <2>4
    <3> QED BY <3>1
  <2> HIDE DEF f
  <2>6. TermsUpto(f, ns, k + 1)
    BY <2>5 DEF TermsUpto
  <2>7. N - (k + 1) \in R
    BY <2>2, <2>6
  <2>8. r <= N - (k + 1)
    BY <1>4, <2>7
  <2> QED BY <1>1, <1>5, <2>2, <2>8
<1> QED BY <1>6, <1>N

LEMMA TermsAre ==
  ASSUME NEW ns, IsModule(ns), validate(ns)
  PROVE  \A n \in DOMAIN ns : Terms(ns)[n] = TermAt(Terms(ns), ns, n)
<1> DEFINE T == CHOOSE f : f = [n \in DOMAIN ns |->
        [op |-> ns[n].op, dims |-> ns[n].dims, layout |-> ns[n].layout, data |-> ns[n].data,
         args |-> [i \in DOMAIN ns[n].inputs |-> f[ns[n].inputs[i]]]]]
<1>1. Len(ns) \in Nat /\ DOMAIN ns = 1 .. Len(ns)
  BY ModuleFacts
<1>2. Backward(ns)
  BY DEF Backward, validate, ValidNode
<1>3. PICK f : TermsUpto(f, ns, Len(ns))
  BY <1>1, <1>2, TermsExist
<1>4. f = [n \in DOMAIN ns |->
        [op |-> ns[n].op, dims |-> ns[n].dims, layout |-> ns[n].layout, data |-> ns[n].data,
         args |-> [i \in DOMAIN ns[n].inputs |-> f[ns[n].inputs[i]]]]]
  BY <1>1, <1>3 DEF TermsUpto, TermAt
<1>5. T = [n \in DOMAIN ns |->
        [op |-> ns[n].op, dims |-> ns[n].dims, layout |-> ns[n].layout, data |-> ns[n].data,
         args |-> [i \in DOMAIN ns[n].inputs |-> T[ns[n].inputs[i]]]]]
  BY <1>4
<1>6. Terms(ns) = T
  BY DEF Terms
<1> HIDE DEF T
<1>7. \A n \in DOMAIN ns : T[n] = TermAt(T, ns, n)
  BY <1>5 DEF TermAt
<1> QED BY <1>6, <1>7

(* A node that stays stands for the same term where it has moved.          *)
LEMMA SameTerms ==
  ASSUME NEW ns, IsModule(ns), validate(ns), NEW S, Closure(ns, S)
  PROVE  \A n \in S : Terms(Compact(ns, S))[Rank(S, n)] = Terms(ns)[n]
<1> DEFINE ms == Compact(ns, S)
           f == Terms(ns)
           g == Terms(ms)
           B == {n \in S : g[Rank(S, n)] # f[n]}
<1>1. Compacts(ms, ns, S) /\ validate(ms)
  BY CompactFacts, CompactValid
<1> HIDE DEF ms
<1>2. IsModule(ms)
  BY <1>1 DEF Compacts
<1>3. /\ \A n \in DOMAIN ns : f[n] = TermAt(f, ns, n)
      /\ \A k \in DOMAIN ms : g[k] = TermAt(g, ms, k)
  BY <1>1, <1>2, TermsAre
<1> HIDE DEF f, g
<1>4. S \subseteq 1 .. Len(ns) /\ Len(ns) \in Nat /\ DOMAIN ns = 1 .. Len(ns)
  BY ModuleFacts DEF Closure
<1>5. B = {}
  <2> SUFFICES ASSUME B # {} PROVE FALSE
    OBVIOUS
  <2>1. PICK n \in B : \A j \in B : n <= j
    <3>1. B \subseteq S
      OBVIOUS
    <3> HIDE DEF B
    <3>2. S \subseteq Nat
      BY <1>4
    <3>3. B \subseteq Nat
      BY <3>1, <3>2
    <3> QED BY <3>3, LeastOf
  <2>2. PICK k : k = Rank(S, n)
    OBVIOUS
  <2>3. n \in S /\ n \in DOMAIN ns /\ n \in Nat /\ k \in DOMAIN ms /\ Nth(S, k) = n
    <3>1. n \in S
      OBVIOUS
    <3> HIDE DEF B
    <3> QED BY <1>1, <1>4, <2>2, <3>1 DEF Compacts
  <2>4. g[k] # f[n]
    BY <2>2
  <2>5. \A j \in S : j < n => g[Rank(S, j)] = f[j]
    <3> SUFFICES ASSUME NEW j \in S, j < n PROVE j \notin B
      OBVIOUS
    <3>1. ~(n <= j)
      BY <1>4, <2>3
    <3> HIDE DEF B
    <3> QED BY <2>1, <3>1
  <2> HIDE DEF B
  <2>6. /\ ms[k].op = ns[n].op /\ ms[k].dims = ns[n].dims
        /\ ms[k].layout = ns[n].layout /\ ms[k].data = ns[n].data
        /\ ms[k].inputs = [i \in DOMAIN ns[n].inputs |-> Rank(S, ns[n].inputs[i])]
    BY <1>1, <2>3 DEF Compacts
  <2>7. ASSUME NEW i \in DOMAIN ns[n].inputs
        PROVE  g[Rank(S, ns[n].inputs[i])] = f[ns[n].inputs[i]]
    <3>1. ns[n].inputs[i] \in 1 .. n - 1
      BY <2>3 DEF validate, ValidNode
    <3>2. ns[n].inputs[i] \in S
      <4>1. ns[n].inputs[i] \in ToSet(ns[n].inputs)
        BY DEF ToSet
      <4> QED BY <2>3, <4>1 DEF Closure
    <3>3. ns[n].inputs[i] < n
      BY <2>3, <3>1
    <3> QED BY <2>5, <3>2, <3>3
  <2>8. [i \in DOMAIN ms[k].inputs |-> g[ms[k].inputs[i]]]
          = [i \in DOMAIN ns[n].inputs |-> f[ns[n].inputs[i]]]
    <3>1. DOMAIN ms[k].inputs = DOMAIN ns[n].inputs
      BY <2>6
    <3>2. \A i \in DOMAIN ns[n].inputs : ms[k].inputs[i] = Rank(S, ns[n].inputs[i])
      BY <2>6
    <3> QED BY <2>7, <3>1, <3>2
  <2>9. TermAt(g, ms, k) = TermAt(f, ns, n)
    BY <2>6, <2>8 DEF TermAt
  <2> QED BY <1>3, <2>3, <2>4, <2>9
<1> QED BY <1>5 DEF f, g, ms

(* dead_code_eliminate keeps what every output computes.                   *)
THEOREM SweepKeepsOutputs == CompilerSpec => DceKeepsOutputs
<1> DEFINE Same == \A i \in DOMAIN outputs :
                     Terms(nodes')[outputs'[i]] = Terms(source.nodes)[source.outputs[i]]
<1>1. ASSUME CompilerInv, DceSweep, validate(source.nodes) PROVE Same
  <2>1. /\ IsModule(nodes) /\ Closure(nodes, live) /\ ToSet(outputs) \subseteq live
        /\ source = [nodes |-> nodes, outputs |-> outputs]
        /\ nodes' = Compact(nodes, live)
        /\ outputs' = [i \in DOMAIN outputs |-> Rank(live, outputs[i])]
    BY <1>1, SweepCompacts
  <2>2. source.nodes = nodes /\ source.outputs = outputs
    BY <2>1
  <2>3. \A n \in live : Terms(nodes')[Rank(live, n)] = Terms(nodes)[n]
    BY <1>1, <2>1, <2>2, SameTerms
  <2>4. ASSUME NEW i \in DOMAIN outputs
        PROVE  Terms(nodes')[outputs'[i]] = Terms(source.nodes)[source.outputs[i]]
    <3>1. outputs[i] \in live
      BY <2>1 DEF ToSet
    <3>2. outputs'[i] = Rank(live, outputs[i])
      BY <2>1
    <3> QED BY <2>2, <2>3, <3>1, <3>2
  <2> QED BY <2>4
<1>2. CompilerInv /\ [CompilerNext]_compilerVars =>
        [(DceSweep /\ validate(source.nodes)) => Same]_compilerVars
  BY <1>1
<1> QED BY <1>2, CompilerInvInit, CompilerInvInductive, PTL DEF CompilerSpec, DceKeepsOutputs

-----------------------------------------------------------------------------
(* Loops that update a number, and numbers to a base.                      *)
(* What holds for 0 and passes from each number to the next holds up to n. *)
LEMMA UpTo ==
  ASSUME NEW n \in Nat, NEW S, 0 \in S, \A i \in 1 .. n : i - 1 \in S => i \in S
  PROVE  0 .. n \subseteq S
<1> DEFINE B == {i \in 0 .. n : i \notin S}
<1> SUFFICES ASSUME B # {} PROVE FALSE
  OBVIOUS
<1>1. PICK x \in B : \A y \in B : x <= y
  <2>1. B \subseteq Nat
    OBVIOUS
  <2> HIDE DEF B
  <2> QED BY <2>1, LeastOf
<1>2. x \in 0 .. n /\ x \notin S /\ x # 0
  OBVIOUS
<1>3. x \in 1 .. n /\ x - 1 \in 0 .. n /\ ~(x <= x - 1)
  BY <1>2
<1>4. x - 1 \in S
  BY <1>1, <1>3
<1> QED BY <1>2, <1>3, <1>4

(* A loop over 1 .. n that updates a number: step i applies F[i].          *)
Loop(g, n, b, F) == /\ g \in [0 .. n -> Int] /\ g[0] = b
                    /\ \A i \in 1 .. n : g[i] = F[i][g[i - 1]]

LEMMA LoopExists ==
  ASSUME NEW n \in Nat, NEW b \in Int, NEW F, \A i \in 1 .. n : F[i] \in [Int -> Int]
  PROVE  \E g : Loop(g, n, b, F)
<1> DEFINE S == {k \in 0 .. n : \E g : Loop(g, k, b, F)}
<1>1. 0 \in S
  <2> DEFINE g == [i \in 0 .. 0 |-> b]
  <2>1. g \in [0 .. 0 -> Int] /\ g[0] = b /\ 1 .. 0 = {}
    OBVIOUS
  <2> HIDE DEF g
  <2>2. Loop(g, 0, b, F)
    BY <2>1 DEF Loop
  <2> QED BY <2>2
<1>2. ASSUME NEW k \in 1 .. n, k - 1 \in S PROVE k \in S
  <2>1. PICK g : Loop(g, k - 1, b, F)
    BY <1>2
  <2>2. /\ g \in [0 .. k - 1 -> Int] /\ g[0] = b
        /\ \A i \in 1 .. k - 1 : g[i] = F[i][g[i - 1]]
    BY <2>1 DEF Loop
  <2> DEFINE h == [i \in 0 .. k |-> IF i = k THEN F[k][g[k - 1]] ELSE g[i]]
  <2>3. F[k] \in [Int -> Int] /\ k \in Nat /\ k # 0 /\ k - 1 \in 0 .. k - 1
    OBVIOUS
  <2>4. F[k][g[k - 1]] \in Int
    BY <2>2, <2>3
  <2>5. \A i \in 0 .. k - 1 : g[i] \in Int
    BY <2>2
  <2>6. \A i \in 0 .. k : h[i] = IF i = k THEN F[k][g[k - 1]] ELSE g[i]
    OBVIOUS
  <2>7. h = [i \in 0 .. k |-> h[i]]
    OBVIOUS
  <2> HIDE DEF h
  <2>8. \A i \in 0 .. k : i # k => i \in 0 .. k - 1
    OBVIOUS
  <2>9. h \in [0 .. k -> Int] /\ h[0] = b
    <3>1. \A i \in 0 .. k : h[i] \in Int
      BY <2>4, <2>5, <2>6, <2>8
    <3>2. 0 \in 0 .. k /\ 0 # k
      BY <2>3
    <3>3. h[0] = b
      BY <2>2, <2>6, <3>2
    <3> QED BY <2>7, <3>1, <3>3
  <2>10. ASSUME NEW i \in 1 .. k PROVE h[i] = F[i][h[i - 1]]
    <3>1. i - 1 \in 0 .. k /\ i - 1 # k /\ i \in 0 .. k
      BY <2>3
    <3>2. h[i - 1] = g[i - 1]
      BY <2>6, <3>1
    <3>3. CASE i = k
      BY <2>6, <3>1, <3>2, <3>3
    <3>4. CASE i # k
      <4>1. i \in 1 .. k - 1
        <5>1. k \in Int /\ i \in Int /\ 1 <= i /\ i <= k
          BY <2>3
        <5> QED BY <3>4, <5>1
      <4>2. h[i] = g[i]
        BY <2>6, <3>1, <3>4
      <4> QED BY <2>2, <3>2, <4>1, <4>2
    <3> QED BY <3>3, <3>4
  <2>11. Loop(h, k, b, F)
    BY <2>9, <2>10 DEF Loop
  <2> QED BY <2>11
<1> HIDE DEF S
<1>3. 0 .. n \subseteq S
  BY <1>1, <1>2, UpTo
<1>4. n \in S
  BY <1>3
<1> QED BY <1>4 DEF S

(* The loop over the dimensions from the right.                            *)
FromRightIsInt ==
  \A dims \in Seq(Int) : \A r \in Nat : FromRight(dims, r) \in Int

LEMMA FromRightType == FromRightIsInt
<1> SUFFICES ASSUME NEW dims \in Seq(Int), NEW r \in Nat PROVE FromRight(dims, r) \in Int
  BY DEF FromRightIsInt
<1>1. r < Len(dims) => Len(dims) - r \in 1 .. Len(dims)
  OBVIOUS
<1> QED BY <1>1 DEF FromRight

LEMMA StrideStep ==
  ASSUME NEW dims \in Seq(Int)
  PROVE  /\ Stride(dims, 0) = 1
         /\ \A r \in Nat : /\ Stride(dims, r) \in Int
                           /\ Stride(dims, r + 1) = Stride(dims, r) * FromRight(dims, r)
<1>n. PICK n \in Nat : n = Len(dims)
  OBVIOUS
<1> DEFINE F == [i \in 1 .. n |-> [x \in Int |-> x * FromRight(dims, i - 1)]]
           s == CHOOSE f : f = [i \in 0 .. Len(dims) |->
                                  IF i = 0 THEN 1 ELSE f[i - 1] * FromRight(dims, i - 1)]
<1>1. \A r \in Nat : FromRight(dims, r) \in Int
  BY FromRightType DEF FromRightIsInt
<1>2. \A i \in 1 .. n : F[i] = [x \in Int |-> x * FromRight(dims, i - 1)]
  OBVIOUS
<1>3. \A i \in 1 .. n : F[i] \in [Int -> Int]
  <2> TAKE i \in 1 .. n
  <2>1. FromRight(dims, i - 1) \in Int
    BY <1>1
  <2> QED BY <1>2, <2>1
<1> HIDE DEF F
<1>4. PICK g : Loop(g, n, 1, F)
  <2>1. PICK b \in Int : b = 1
    OBVIOUS
  <2>2. \E g : Loop(g, n, b, F)
    BY <1>3, LoopExists
  <2> QED BY <2>1, <2>2
<1>5. g = [i \in 0 .. n |-> IF i = 0 THEN 1 ELSE g[i - 1] * FromRight(dims, i - 1)]
  <2>1. /\ g \in [0 .. n -> Int] /\ g[0] = 1
        /\ \A i \in 1 .. n : g[i] = F[i][g[i - 1]]
    BY <1>4 DEF Loop
  <2>2. ASSUME NEW i \in 0 .. n, i # 0 PROVE g[i] = g[i - 1] * FromRight(dims, i - 1)
    <3>1. i \in 1 .. n /\ i - 1 \in 0 .. n
      BY <2>2
    <3>2. g[i - 1] \in Int
      BY <2>1, <3>1
    <3> QED BY <1>2, <2>1, <3>1, <3>2
  <2> QED BY <2>1, <2>2
<1>6. s = [i \in 0 .. n |-> IF i = 0 THEN 1 ELSE s[i - 1] * FromRight(dims, i - 1)]
  BY <1>5, <1>n
<1>7. \A r : Stride(dims, r) = s[IF r < n THEN r ELSE n]
  BY <1>n DEF Stride
<1> HIDE DEF s
<1>8. s[0] = 1 /\ \A i \in 1 .. n : s[i] = s[i - 1] * FromRight(dims, i - 1)
  BY <1>6
<1>9. \A i \in 0 .. n : s[i] \in Int
  <2> DEFINE S == {i \in 0 .. n : s[i] \in Int}
  <2>1. 0 \in S
    BY <1>8
  <2>2. \A i \in 1 .. n : i - 1 \in S => i \in S
    BY <1>1, <1>8
  <2> HIDE DEF S
  <2>3. 0 .. n \subseteq S
    BY <2>1, <2>2, UpTo
  <2> QED BY <2>3 DEF S
<1>10. Stride(dims, 0) = 1
  BY <1>7, <1>8
<1>11. ASSUME NEW r \in Nat
       PROVE  /\ Stride(dims, r) \in Int
              /\ Stride(dims, r + 1) = Stride(dims, r) * FromRight(dims, r)
  <2>1. CASE r < n
    <3>1. r \in 0 .. n /\ r + 1 \in 1 .. n /\ (r + 1) - 1 = r
      BY <2>1
    <3>2. Stride(dims, r) = s[r] /\ Stride(dims, r + 1) = s[r + 1]
      BY <1>7, <2>1, <3>1
    <3> QED BY <1>8, <1>9, <3>1, <3>2
  <2>2. CASE ~(r < n)
    <3>1. Stride(dims, r) = s[n] /\ Stride(dims, r + 1) = s[n]
      BY <1>7, <2>2
    <3>2. FromRight(dims, r) = 1 /\ s[n] \in Int
      BY <1>n, <1>9, <2>2 DEF FromRight
    <3> QED BY <3>1, <3>2
  <2> QED BY <2>1, <2>2
<1> QED BY <1>10, <1>11

(* Quotient and remainder.                                                 *)
LEMMA DivMod ==
  ASSUME NEW a \in Int, NEW m \in Int, m >= 1
  PROVE /\ a \div m \in Int /\ a % m \in Int /\ 0 <= a % m /\ a % m < m
        /\ a = m * (a \div m) + (a % m)
OBVIOUS

LEMMA DivUnique ==
  ASSUME NEW m \in Int, NEW q \in Int, NEW r \in Int, NEW p \in Int, NEW s \in Int,
         0 <= r, r < m, 0 <= s, s < m, m * q + r = m * p + s
  PROVE q = p /\ r = s
<1>1. CASE q = p
  BY <1>1
<1>2. CASE q >= p + 1
  <2>1. m * q >= m * (p + 1)
    BY <1>2
  <2>2. m * (p + 1) = m * p + m
    OBVIOUS
  <2>3. m * q \in Int /\ m * p \in Int
    OBVIOUS
  <2> QED BY <2>1, <2>2, <2>3
<1>3. CASE p >= q + 1
  <2>1. m * p >= m * (q + 1)
    BY <1>3
  <2>2. m * (q + 1) = m * q + m
    OBVIOUS
  <2>3. m * q \in Int /\ m * p \in Int
    OBVIOUS
  <2> QED BY <2>1, <2>2, <2>3
<1> QED BY <1>1, <1>2, <1>3

LEMMA ModSmall ==
  ASSUME NEW a \in Nat, NEW m \in Int, m >= 1
  PROVE a % m <= a /\ (a < m => a % m = a)
<1>1. /\ a \div m \in Int /\ a % m \in Int /\ 0 <= a % m /\ a % m < m
        /\ a = m * (a \div m) + (a % m)
  BY DivMod
<1>2. a \div m >= 0
  <2>1. PICK q \in Int : q = a \div m
    BY <1>1
  <2>2. q < 0 => m * q <= - m
    <3>1. q < 0 => m * (q + 1) <= 0
      OBVIOUS
    <3>2. m * (q + 1) = m * q + m
      OBVIOUS
    <3> QED BY <3>1, <3>2
  <2> QED BY <1>1, <2>1, <2>2
<1> QED OBVIOUS

(* The last digit of a number to the base P * d.                           *)
LEMMA ModProduct ==
  ASSUME NEW a \in Nat, NEW P \in Int, P >= 1, NEW d \in Int, d >= 1
  PROVE  a % (P * d) = (a % P) + ((a \div P) % d) * P
<1>1. PICK q \in Int, r \in Int : /\ q = a \div P /\ r = a % P
                                  /\ 0 <= r /\ r < P /\ a = P * q + r
  BY DivMod
<1>2. PICK t \in Int, u \in Int : /\ t = q \div d /\ u = q % d
                                  /\ 0 <= u /\ u < d /\ q = d * t + u
  BY DivMod
<1>3. PICK m \in Int : m = P * d
  OBVIOUS
<1>4. P * u + r \in Int /\ 0 <= P * u + r /\ P * u + r < m
  <2>1. P * u >= 0 /\ P * u <= P * (d - 1)
    BY <1>2
  <2>2. P * (d - 1) = P * d - P
    OBVIOUS
  <2> QED BY <1>1, <1>3, <2>1, <2>2
<1>5. a = m * t + (P * u + r)
  <2>1. P * q = P * (d * t) + P * u
    BY <1>2
  <2>2. P * (d * t) = m * t
    BY <1>3
  <2> QED BY <1>1, <2>1, <2>2
<1>6. m >= 1
  BY <1>3
<1>7. /\ a \div m \in Int /\ a % m \in Int /\ 0 <= a % m /\ a % m < m
      /\ a = m * (a \div m) + (a % m)
  BY <1>6, DivMod
<1>8. a % m = P * u + r
  <2>1. PICK v \in Int, w \in Int : v = a \div m /\ w = a % m
    BY <1>7
  <2>2. PICK x \in Int : x = P * u + r
    BY <1>4
  <2>3. m * v + w = m * t + x /\ 0 <= w /\ w < m /\ 0 <= x /\ x < m
    BY <1>4, <1>5, <1>7, <2>1, <2>2
  <2>4. w = x
    BY <1>6, <2>3, DivUnique
  <2> QED BY <2>1, <2>2, <2>4
<1> QED BY <1>1, <1>2, <1>3, <1>8

(* Shapes without empty dimensions.                                        *)
Positive(dims) == \A i \in DOMAIN dims : dims[i] >= 1

LEMMA PositiveStrides ==
  ASSUME NEW dims \in Seq(Int), Positive(dims), NEW r \in Nat
  PROVE  /\ FromRight(dims, r) \in Int /\ FromRight(dims, r) >= 1
         /\ Stride(dims, r) \in Int /\ Stride(dims, r) >= 1
<1>1. \A i \in Nat : FromRight(dims, i) \in Int /\ FromRight(dims, i) >= 1
  <2> TAKE i \in Nat
  <2>1. i < Len(dims) => Len(dims) - i \in DOMAIN dims
    OBVIOUS
  <2>2. FromRight(dims, i) \in Int
    BY FromRightType DEF FromRightIsInt
  <2> QED BY <2>1, <2>2 DEF FromRight, Positive
<1>2. /\ Stride(dims, 0) = 1
      /\ \A i \in Nat : /\ Stride(dims, i) \in Int
                        /\ Stride(dims, i + 1) = Stride(dims, i) * FromRight(dims, i)
  BY StrideStep
<1> DEFINE S == {i \in 0 .. r : Stride(dims, i) >= 1}
<1>3. 0 \in S
  BY <1>2
<1>4. ASSUME NEW i \in 1 .. r, i - 1 \in S PROVE i \in S
  <2>3. (i - 1) + 1 = i /\ i - 1 \in Nat
    OBVIOUS
  <2>1. PICK x \in Int, d \in Int : x = Stride(dims, i - 1) /\ d = FromRight(dims, i - 1)
    BY <1>1, <1>2, <2>3
  <2>2. x >= 1 /\ d >= 1
    BY <1>1, <1>4, <2>1, <2>3
  <2>4. Stride(dims, i) = x * d
    BY <1>2, <2>1, <2>3
  <2>5. x * d >= 1
    BY <2>2
  <2> QED BY <2>4, <2>5
<1> HIDE DEF S
<1>5. r \in S
  <2>1. 0 .. r \subseteq S
    BY <1>3, <1>4, UpTo
  <2> QED BY <2>1
<1> QED BY <1>1, <1>2, <1>5 DEF S

(* What the loops of elements() and infer_reshape leave is bounded by the  *)
(* product.                                                                *)
LEMMA ElementsFacts ==
  ASSUME NEW dims \in Seq(Int)
  PROVE  /\ elements(dims) \in Nat
         /\ elements(dims) > 0 => Positive(dims) /\ elements(dims) = Size(dims)
<1>n. PICK n \in Nat : n = Len(dims)
  OBVIOUS
<1> DEFINE Stops(i, x) == dims[i] < 0 \/ (dims[i] # 0 /\ x > SizeMax \div dims[i])
           F == [i \in 1 .. n |-> [x \in Int |-> IF Stops(i, x) THEN 0 ELSE x * dims[i]]]
           s == CHOOSE f : f = [i \in 0 .. Len(dims) |->
                  IF i = 0 THEN 1
                  ELSE IF dims[i] < 0 \/ (dims[i] # 0 /\ f[i - 1] > SizeMax \div dims[i]) THEN 0
                  ELSE f[i - 1] * dims[i]]
<1>1. \A i \in 1 .. n : dims[i] \in Int
  BY <1>n
<1>2. \A i \in 1 .. n : F[i] = [x \in Int |-> IF Stops(i, x) THEN 0 ELSE x * dims[i]]
  OBVIOUS
<1>3. \A i \in 1 .. n : F[i] \in [Int -> Int]
  <2> TAKE i \in 1 .. n
  <2> HIDE DEF Stops
  <2> QED BY <1>1, <1>2
<1> HIDE DEF F
<1>4. PICK g : Loop(g, n, 1, F)
  <2>1. PICK b \in Int : b = 1
    OBVIOUS
  <2>2. \E g : Loop(g, n, b, F)
    BY <1>3, LoopExists
  <2> QED BY <2>1, <2>2
<1>5. g = [i \in 0 .. n |-> IF i = 0 THEN 1 ELSE IF Stops(i, g[i - 1]) THEN 0 ELSE g[i - 1] * dims[i]]
  <2>1. /\ g \in [0 .. n -> Int] /\ g[0] = 1
        /\ \A i \in 1 .. n : g[i] = F[i][g[i - 1]]
    BY <1>4 DEF Loop
  <2> HIDE DEF Stops
  <2>2. ASSUME NEW i \in 0 .. n, i # 0
        PROVE g[i] = IF Stops(i, g[i - 1]) THEN 0 ELSE g[i - 1] * dims[i]
    <3>1. i \in 1 .. n /\ i - 1 \in 0 .. n
      BY <2>2
    <3>2. g[i - 1] \in Int
      BY <2>1, <3>1
    <3> QED BY <1>2, <2>1, <3>1, <3>2
  <2> QED BY <2>1, <2>2
<1>6. s = [i \in 0 .. n |-> IF i = 0 THEN 1 ELSE IF Stops(i, s[i - 1]) THEN 0 ELSE s[i - 1] * dims[i]]
  BY <1>5, <1>n
<1>7. elements(dims) = IF dims = << >> THEN 0 ELSE s[n]
  BY <1>n DEF elements
<1> HIDE DEF s
<1>8. /\ s[0] = 1
      /\ \A i \in 1 .. n : s[i] = IF Stops(i, s[i - 1]) THEN 0 ELSE s[i - 1] * dims[i]
  BY <1>6
<1>9. \A i \in 1 .. n : \/ s[i] = 0
                        \/ dims[i] >= 0 /\ s[i] = s[i - 1] * dims[i]
  BY <1>1, <1>8
<1> HIDE DEF Stops
<1> DEFINE W(i) == s[i] > 0 => /\ \A j \in 1 .. i : dims[j] >= 1
                               /\ s[i] * Stride(dims, n - i) = Stride(dims, n)
           S == {i \in 0 .. n : s[i] \in Nat /\ W(i)}
<1>10. /\ Stride(dims, 0) = 1
       /\ \A r \in Nat : /\ Stride(dims, r) \in Int
                         /\ Stride(dims, r + 1) = Stride(dims, r) * FromRight(dims, r)
  BY StrideStep
<1>11. 0 \in S
  <2>1. Stride(dims, n) \in Int /\ n - 0 = n
    BY <1>10
  <2> QED BY <1>8, <2>1
<1>12. ASSUME NEW i \in 1 .. n, i - 1 \in S PROVE i \in S
  <2>1. s[i - 1] \in Nat /\ W(i - 1)
    BY <1>12
  <2>2. CASE s[i] = 0
    BY <2>2
  <2>3. CASE dims[i] >= 0 /\ s[i] = s[i - 1] * dims[i]
    <3>1. PICK x \in Nat, d \in Nat : x = s[i - 1] /\ d = dims[i]
      BY <1>1, <2>1, <2>3
    <3>2. s[i] = x * d /\ s[i] \in Nat
      BY <2>3, <3>1
    <3>3. ASSUME s[i] > 0
          PROVE  /\ \A j \in 1 .. i : dims[j] >= 1
                 /\ s[i] * Stride(dims, n - i) = Stride(dims, n)
      <4>1. x > 0 /\ d > 0
        BY <3>2, <3>3
      <4>2. /\ \A j \in 1 .. i - 1 : dims[j] >= 1
            /\ x * Stride(dims, n - (i - 1)) = Stride(dims, n)
        BY <2>1, <3>1, <4>1
      <4>3. n - i \in Nat /\ n - (i - 1) = (n - i) + 1
        OBVIOUS
      <4>4. FromRight(dims, n - i) = d
        BY <1>n, <3>1, <4>3 DEF FromRight
      <4>5. PICK y \in Int : y = Stride(dims, n - i)
        BY <1>10, <4>3
      <4>6. Stride(dims, n - (i - 1)) = y * d
        BY <1>10, <4>3, <4>4, <4>5
      <4>7. x * (y * d) = (x * d) * y
        OBVIOUS
      <4>8. s[i] * Stride(dims, n - i) = Stride(dims, n)
        BY <3>2, <4>2, <4>5, <4>6, <4>7
      <4>9. \A j \in 1 .. i : j \in 1 .. i - 1 \/ j = i
        OBVIOUS
      <4>10. dims[i] >= 1
        BY <3>1, <4>1
      <4>11. \A j \in 1 .. i : dims[j] >= 1
        BY <4>2, <4>9, <4>10
      <4> QED BY <4>8, <4>11
    <3> QED BY <3>2, <3>3
  <2> QED BY <1>9, <2>2, <2>3
<1> HIDE DEF S
<1>13. n \in S
  <2>1. 0 .. n \subseteq S
    BY <1>11, <1>12, UpTo
  <2> QED BY <2>1
<1>14. s[n] \in Nat /\ W(n)
  BY <1>13 DEF S
<1>15. elements(dims) \in Nat
  BY <1>7, <1>14
<1>16. ASSUME elements(dims) > 0 PROVE Positive(dims) /\ elements(dims) = Size(dims)
  <2>1. elements(dims) = s[n] /\ s[n] > 0
    BY <1>7, <1>16
  <2>2. (\A j \in 1 .. n : dims[j] >= 1) /\ s[n] * Stride(dims, n - n) = Stride(dims, n)
    BY <1>14, <2>1
  <2>3. s[n] = Stride(dims, n)
    <3>1. n - n = 0
      OBVIOUS
    <3>2. s[n] * 1 = Stride(dims, n)
      BY <1>10, <2>2, <3>1
    <3> QED BY <1>14, <3>2
  <2> QED BY <1>n, <2>1, <2>2, <2>3 DEF Positive, Size
<1> QED BY <1>15, <1>16

LEMMA KnownFacts ==
  ASSUME NEW dims \in Seq(Int), \A i \in DOMAIN dims : dims[i] >= -1
  PROVE  /\ Known(dims) \in Nat
         /\ valid_dims(dims) /\ Known(dims) # 0 => Positive(dims) /\ Known(dims) <= Size(dims)
<1>n. PICK n \in Nat : n = Len(dims)
  OBVIOUS
<1>M. PICK M \in Int : M = SizeMax + 1 /\ M >= 1
  BY WidthAssumption
<1> DEFINE F == [i \in 1 .. n |-> [x \in Int |-> IF dims[i] = -1 THEN x ELSE (x * dims[i]) % M]]
           s == CHOOSE f : f = [i \in 0 .. Len(dims) |->
                  IF i = 0 THEN 1
                  ELSE IF dims[i] = -1 THEN f[i - 1]
                  ELSE (f[i - 1] * dims[i]) % (SizeMax + 1)]
<1>1. \A i \in 1 .. n : dims[i] \in Int /\ dims[i] >= -1
  BY <1>n
<1>2. \A i \in 1 .. n : F[i] = [x \in Int |-> IF dims[i] = -1 THEN x ELSE (x * dims[i]) % M]
  OBVIOUS
<1>3. \A i \in 1 .. n : F[i] \in [Int -> Int]
  <2> TAKE i \in 1 .. n
  <2>2. ASSUME NEW x \in Int PROVE (x * dims[i]) % M \in Int
    <3>1. PICK a \in Int : a = x * dims[i]
      BY <1>1
    <3>2. a % M \in Int
      BY <1>M, DivMod
    <3> QED BY <3>1, <3>2
  <2> QED BY <1>2, <2>2
<1> HIDE DEF F
<1>4. PICK g : Loop(g, n, 1, F)
  <2>1. PICK b \in Int : b = 1
    OBVIOUS
  <2>2. \E g : Loop(g, n, b, F)
    BY <1>3, LoopExists
  <2> QED BY <2>1, <2>2
<1>5. g = [i \in 0 .. n |-> IF i = 0 THEN 1
                            ELSE IF dims[i] = -1 THEN g[i - 1] ELSE (g[i - 1] * dims[i]) % M]
  <2>1. /\ g \in [0 .. n -> Int] /\ g[0] = 1
        /\ \A i \in 1 .. n : g[i] = F[i][g[i - 1]]
    BY <1>4 DEF Loop
  <2>2. ASSUME NEW i \in 0 .. n, i # 0
        PROVE g[i] = IF dims[i] = -1 THEN g[i - 1] ELSE (g[i - 1] * dims[i]) % M
    <3>1. i \in 1 .. n /\ i - 1 \in 0 .. n
      BY <2>2
    <3>2. g[i - 1] \in Int
      BY <2>1, <3>1
    <3> QED BY <1>2, <2>1, <3>1, <3>2
  <2> QED BY <2>1, <2>2
<1>6. s = [i \in 0 .. n |-> IF i = 0 THEN 1
                            ELSE IF dims[i] = -1 THEN s[i - 1] ELSE (s[i - 1] * dims[i]) % M]
  BY <1>5, <1>n, <1>M
<1>7. Known(dims) = s[n]
  BY <1>n DEF Known
<1> HIDE DEF s
<1>8. /\ s[0] = 1
      /\ \A i \in 1 .. n : s[i] = IF dims[i] = -1 THEN s[i - 1] ELSE (s[i - 1] * dims[i]) % M
  BY <1>6
<1>9. ASSUME NEW i \in 1 .. n, s[i - 1] \in Nat
      PROVE  s[i] \in Nat /\ (dims[i] >= 0 => s[i] <= s[i - 1] * dims[i])
  <2>1. CASE dims[i] = -1
    BY <1>8, <1>9, <2>1
  <2>2. CASE dims[i] # -1
    <3>1. PICK x \in Nat, d \in Nat : x = s[i - 1] /\ d = dims[i]
      BY <1>1, <1>9, <2>2
    <3>2. PICK a \in Nat : a = x * d
      OBVIOUS
    <3>3. a % M <= a /\ a % M \in Int /\ 0 <= a % M
      <4>1. a % M <= a
        BY <1>M, ModSmall
      <4>2. a \in Int
        OBVIOUS
      <4>3. a % M \in Int /\ 0 <= a % M
        BY <1>M, <4>2, DivMod
      <4> QED BY <4>1, <4>3
    <3>4. s[i] = a % M
      BY <1>8, <2>2, <3>1, <3>2
    <3> QED BY <3>1, <3>2, <3>3, <3>4
  <2> QED BY <2>1, <2>2
<1> DEFINE W(i) == valid_dims(dims) /\ s[i] # 0 => \A j \in 1 .. i : dims[j] >= 1
           S == {i \in 0 .. n : s[i] \in Nat /\ W(i)}
<1>10. 0 \in S
  BY <1>8
<1>11. ASSUME NEW i \in 1 .. n, i - 1 \in S PROVE i \in S
  <2>1. s[i - 1] \in Nat /\ W(i - 1)
    BY <1>11
  <2>2. s[i] \in Nat /\ (dims[i] >= 0 => s[i] <= s[i - 1] * dims[i])
    BY <1>9, <2>1
  <2>3. ASSUME valid_dims(dims), s[i] # 0 PROVE \A j \in 1 .. i : dims[j] >= 1
    <3>1. dims[i] \in Nat
      BY <1>1, <1>n, <2>3 DEF valid_dims
    <3>2. PICK x \in Nat, d \in Nat : x = s[i - 1] /\ d = dims[i]
      BY <2>1, <3>1
    <3>3. x * d > 0
      <4>1. PICK z \in Nat : z = s[i]
        BY <2>2
      <4>2. z # 0 /\ z <= x * d
        BY <2>2, <2>3, <3>1, <3>2, <4>1
      <4> QED BY <4>2
    <3>4. x # 0 /\ d # 0
      BY <3>3
    <3>5. \A j \in 1 .. i - 1 : dims[j] >= 1
      BY <2>1, <2>3, <3>2, <3>4
    <3>6. \A j \in 1 .. i : j \in 1 .. i - 1 \/ j = i
      OBVIOUS
    <3> QED BY <3>2, <3>4, <3>5, <3>6
  <2> QED BY <2>2, <2>3
<1> HIDE DEF S
<1>12. 0 .. n \subseteq S
  BY <1>10, <1>11, UpTo
<1>13. \A i \in 0 .. n : s[i] \in Nat /\ W(i)
  BY <1>12 DEF S
<1>14. ASSUME valid_dims(dims), Known(dims) # 0
       PROVE  Positive(dims) /\ Known(dims) <= Size(dims)
  <2>1. \A j \in 1 .. n : dims[j] >= 1
    BY <1>7, <1>13, <1>14
  <2>2. Positive(dims)
    BY <1>n, <2>1 DEF Positive
  <2> DEFINE T == {i \in 0 .. n : s[i] * Stride(dims, n - i) <= Stride(dims, n)}
  <2>3. \A r \in Nat : Stride(dims, r) \in Int /\ Stride(dims, r) >= 1
    BY <2>2, PositiveStrides
  <2>4. 0 \in T
    <3>1. n - 0 = n /\ Stride(dims, n) \in Int
      BY <2>3
    <3> QED BY <1>8, <3>1
  <2>5. ASSUME NEW i \in 1 .. n, i - 1 \in T PROVE i \in T
    <3>1. i - 1 \in 0 .. n /\ n - i \in Nat /\ n - (i - 1) = (n - i) + 1
      OBVIOUS
    <3>2. PICK x \in Nat, y \in Int, d \in Int, z \in Nat :
            x = s[i - 1] /\ y = Stride(dims, n - i) /\ d = dims[i] /\ z = s[i]
      <4>1. s[i - 1] \in Nat /\ s[i] \in Nat
        <5>1. i \in 0 .. n
          OBVIOUS
        <5> HIDE DEF W
        <5> QED BY <1>13, <3>1, <5>1
      <4>2. Stride(dims, n - i) \in Int /\ dims[i] \in Int
        BY <1>1, <2>3, <3>1
      <4> QED BY <4>1, <4>2
    <3>3. y >= 1 /\ d >= 1 /\ z <= x * d
      <4>1. y >= 1 /\ d >= 1
        BY <2>1, <2>3, <3>1, <3>2
      <4>2. d >= 0 => z <= x * d
        BY <1>9, <3>2
      <4> QED BY <4>1, <4>2
    <3>4. FromRight(dims, n - i) = d
      BY <1>n, <3>1, <3>2 DEF FromRight
    <3>5. Stride(dims, n - (i - 1)) = y * d
      BY <3>1, <3>2, <3>4, StrideStep
    <3>6. x * (y * d) <= Stride(dims, n)
      BY <2>5, <3>2, <3>5
    <3>7. z * y <= (x * d) * y
      BY <3>3
    <3>8. (x * d) * y = x * (y * d)
      OBVIOUS
    <3>9. z * y \in Int /\ x * (y * d) \in Int /\ Stride(dims, n) \in Int
      BY <2>3
    <3>10. z * y <= Stride(dims, n)
      BY <3>6, <3>7, <3>8, <3>9
    <3> QED BY <3>2, <3>10
  <2> HIDE DEF T
  <2>6. n \in T
    <3>1. 0 .. n \subseteq T
      BY <2>4, <2>5, UpTo
    <3> QED BY <3>1
  <2>7. s[n] <= Stride(dims, n)
    <3>1. n - n = 0 /\ Stride(dims, 0) = 1 /\ s[n] \in Nat
      BY <1>13, StrideStep
    <3>2. s[n] * Stride(dims, n - n) <= Stride(dims, n)
      BY <2>6 DEF T
    <3>3. s[n] * 1 <= Stride(dims, n)
      BY <3>1, <3>2
    <3> QED BY <3>1, <3>3
  <2> QED BY <1>7, <1>n, <2>2, <2>7 DEF Size
<1>15. Known(dims) \in Nat
  BY <1>7, <1>13
<1> QED BY <1>14, <1>15

(* A tensor that is reshaped has no more elements than the new shape, and  *)
(* none of its dimensions is empty: the product that wraps around can only *)
(* hide elements of the new shape.                                         *)
Holds(from, to) == Positive(from) => Positive(to) /\ Size(from) <= Size(to)

LEMMA ReshapeHolds ==
  ASSUME NEW from \in Seq(Int), NEW dims \in Seq(Int), infer_reshape(from, dims) = Ok(dims)
  PROVE  Holds(from, dims)
<1>1. Error # Ok(dims)
  BY DEF Error, Ok
<1>2. /\ valid_dims(from) /\ \A i \in DOMAIN dims : ~(dims[i] < -1)
      /\ Known(dims) # 0 /\ elements(from) % Known(dims) = 0
      /\ {i \in DOMAIN dims : dims[i] = -1} = {} => elements(from) = Known(dims)
      /\ Ok(Inferred(from, dims)) = Ok(dims)
  BY <1>1 DEF infer_reshape
<1>3. \A i \in DOMAIN dims : dims[i] \in Int /\ dims[i] >= -1
  BY <1>2
<1>4. Known(dims) \in Nat /\ elements(from) \in Nat
  BY <1>3, KnownFacts, ElementsFacts
<1>5. Inferred(from, dims) = dims
  BY <1>2 DEF Ok
<1>6. \A i \in DOMAIN dims : dims[i] # -1
  <2> SUFFICES ASSUME NEW i \in DOMAIN dims, dims[i] = -1 PROVE FALSE
    OBVIOUS
  <2>1. elements(from) \div Known(dims) = -1
    BY <1>5 DEF Inferred
  <2>2. PICK e \in Nat, k \in Nat : e = elements(from) /\ k = Known(dims)
    BY <1>4
  <2>3. k >= 1 /\ e \div k = -1
    BY <1>2, <2>1, <2>2
  <2>4. e = k * (e \div k) + (e % k) /\ e % k \in Int /\ e % k < k
    BY <2>3, DivMod
  <2>5. e = k * (-1) + (e % k)
    BY <2>3, <2>4
  <2> QED BY <2>4, <2>5
<1>7. valid_dims(dims)
  BY <1>3, <1>6 DEF valid_dims
<1>8. elements(from) = Known(dims) /\ elements(from) > 0
  BY <1>2, <1>4, <1>6
<1>9. elements(from) = Size(from)
  BY <1>8, ElementsFacts
<1>10. Positive(dims) /\ Known(dims) <= Size(dims)
  BY <1>2, <1>3, <1>7, KnownFacts
<1> QED BY <1>8, <1>9, <1>10 DEF Holds

(* Where no dimension is stretched every element lines up with itself.     *)
LEMMA LinedUpSelf ==
  ASSUME NEW dims \in Seq(Int), NEW out \in Seq(Int), Positive(dims), Len(dims) <= Len(out),
         \A r \in Nat : FromRight(dims, r) = FromRight(out, r), NEW k \in 1 .. Size(dims)
  PROVE  LinedUp(dims, out, k) = k
<1>n. PICK n \in Nat : n = Len(dims)
  OBVIOUS
<1>a. PICK a \in Nat : a = k - 1 /\ k \in Int
  <2>1. Size(dims) \in Int
    BY PositiveStrides DEF Size
  <2> QED BY <2>1
<1>1. ASSUME NEW r \in Nat
      PROVE  /\ FromRight(dims, r) \in Int /\ FromRight(dims, r) >= 1
             /\ Stride(dims, r) \in Int /\ Stride(dims, r) >= 1
             /\ Stride(dims, r + 1) = Stride(dims, r) * FromRight(dims, r)
  BY PositiveStrides, StrideStep
<1>2. \A r \in Nat : Stride(out, r) = Stride(dims, r)
  <2> TAKE r \in Nat
  <2> DEFINE S == {i \in 0 .. r : Stride(out, i) = Stride(dims, i)}
  <2>1. 0 \in S
    BY StrideStep
  <2>2. ASSUME NEW i \in 1 .. r, i - 1 \in S PROVE i \in S
    <3>1. i - 1 \in Nat /\ (i - 1) + 1 = i
      OBVIOUS
    <3>2. Stride(out, i) = Stride(out, i - 1) * FromRight(out, i - 1)
      BY <3>1, StrideStep
    <3>3. Stride(dims, i) = Stride(dims, i - 1) * FromRight(dims, i - 1)
      BY <1>1, <3>1
    <3> QED BY <2>2, <3>1, <3>2, <3>3
  <2> HIDE DEF S
  <2>3. 0 .. r \subseteq S
    BY <2>1, <2>2, UpTo
  <2> QED BY <2>3 DEF S
<1> DEFINE C(r) == ((k - 1) \div Stride(out, r)) % FromRight(out, r)
           F == [i \in 1 .. n |-> [x \in Int |->
                  IF FromRight(dims, i - 1) = 1 THEN x ELSE x + C(i - 1) * Stride(dims, i - 1)]]
           s == CHOOSE f : f = [i \in 0 .. Len(dims) |->
                  IF i = 0 THEN 0
                  ELSE IF FromRight(dims, i - 1) = 1 THEN f[i - 1]
                  ELSE f[i - 1] + C(i - 1) * Stride(dims, i - 1)]
<1>3. ASSUME NEW r \in Nat
      PROVE  /\ C(r) = (a \div Stride(dims, r)) % FromRight(dims, r)
             /\ C(r) \in Int /\ C(r) * Stride(dims, r) \in Int
  <2>1. PICK P \in Int, d \in Int : /\ P = Stride(dims, r) /\ P >= 1
                                    /\ d = FromRight(dims, r) /\ d >= 1
    BY <1>1
  <2>2. C(r) = (a \div P) % d
    BY <1>2, <1>a, <2>1
  <2>3. a \div P \in Int
    BY <2>1
  <2>4. (a \div P) % d \in Int
    BY <2>1, <2>3
  <2> QED BY <2>1, <2>2, <2>4
<1>4. LinedUp(dims, out, k) = 1 + s[n]
  BY <1>n DEF LinedUp
<1>5. \A i \in 1 .. n : F[i] = [x \in Int |->
         IF FromRight(dims, i - 1) = 1 THEN x ELSE x + C(i - 1) * Stride(dims, i - 1)]
  OBVIOUS
<1> HIDE DEF C, F
<1>6. \A i \in 1 .. n : F[i] \in [Int -> Int]
  <2> TAKE i \in 1 .. n
  <2>1. PICK c \in Int : c = C(i - 1) * Stride(dims, i - 1)
    BY <1>3
  <2>2. F[i] = [x \in Int |-> IF FromRight(dims, i - 1) = 1 THEN x ELSE x + c]
    BY <1>5, <2>1
  <2> QED BY <2>2
<1>7. PICK g : Loop(g, n, 0, F)
  <2>1. PICK b \in Int : b = 0
    OBVIOUS
  <2>2. \E g : Loop(g, n, b, F)
    BY <1>6, LoopExists
  <2> QED BY <2>1, <2>2
<1>8. g = [i \in 0 .. n |->
             IF i = 0 THEN 0
             ELSE IF FromRight(dims, i - 1) = 1 THEN g[i - 1]
             ELSE g[i - 1] + C(i - 1) * Stride(dims, i - 1)]
  <2>1. /\ g \in [0 .. n -> Int] /\ g[0] = 0
        /\ \A i \in 1 .. n : g[i] = F[i][g[i - 1]]
    BY <1>7 DEF Loop
  <2>2. ASSUME NEW i \in 0 .. n, i # 0
        PROVE g[i] = IF FromRight(dims, i - 1) = 1 THEN g[i - 1]
                     ELSE g[i - 1] + C(i - 1) * Stride(dims, i - 1)
    <3>1. i \in 1 .. n /\ i - 1 \in 0 .. n
      BY <2>2
    <3>2. PICK x \in Int : x = g[i - 1]
      BY <2>1, <3>1
    <3>3. PICK c \in Int : c = C(i - 1) * Stride(dims, i - 1)
      BY <1>3, <3>1
    <3>4. F[i][x] = IF FromRight(dims, i - 1) = 1 THEN x ELSE x + c
      BY <1>5, <3>1, <3>3
    <3>5. g[i] = F[i][x]
      BY <2>1, <3>1, <3>2
    <3> QED BY <3>2, <3>3, <3>4, <3>5
  <2> QED BY <2>1, <2>2
<1>9. s = [i \in 0 .. n |->
             IF i = 0 THEN 0
             ELSE IF FromRight(dims, i - 1) = 1 THEN s[i - 1]
             ELSE s[i - 1] + C(i - 1) * Stride(dims, i - 1)]
  BY <1>8, <1>n
<1> HIDE DEF s
<1>10. /\ s[0] = 0
       /\ \A i \in 1 .. n : s[i] = IF FromRight(dims, i - 1) = 1 THEN s[i - 1]
                                   ELSE s[i - 1] + C(i - 1) * Stride(dims, i - 1)
  BY <1>9
<1> DEFINE S == {i \in 0 .. n : s[i] = a % Stride(dims, i)}
<1>11. 0 \in S
  <2>1. a % 1 = 0
    OBVIOUS
  <2>2. Stride(dims, 0) = 1
    BY StrideStep
  <2> QED BY <1>10, <2>1, <2>2
<1>12. ASSUME NEW i \in 1 .. n, i - 1 \in S PROVE i \in S
  <2>1. i - 1 \in Nat /\ (i - 1) + 1 = i
    OBVIOUS
  <2>2. PICK P \in Int, d \in Int : /\ P = Stride(dims, i - 1) /\ P >= 1
                                    /\ d = FromRight(dims, i - 1) /\ d >= 1
    BY <1>1, <2>1
  <2>3. Stride(dims, i) = P * d
    BY <1>1, <2>1, <2>2
  <2>4. s[i - 1] = a % P /\ C(i - 1) = (a \div P) % d
    BY <1>3, <1>12, <2>1, <2>2
  <2>5. a % (P * d) = (a % P) + ((a \div P) % d) * P
    BY <2>2, ModProduct
  <2>6. s[i] = a % (P * d)
    <3>1. CASE d = 1
      <4>1. P * d = P
        BY <3>1
      <4>2. s[i] = a % P
        BY <1>10, <2>2, <2>4, <3>1
      <4> QED BY <4>1, <4>2
    <3>2. CASE d # 1
      BY <1>10, <2>2, <2>4, <2>5, <3>2
    <3> QED BY <3>1, <3>2
  <2> QED BY <2>3, <2>6
<1> HIDE DEF S
<1>13. s[n] = a % Stride(dims, n)
  <2>1. 0 .. n \subseteq S
    BY <1>11, <1>12, UpTo
  <2> QED BY <2>1 DEF S
<1>14. a % Stride(dims, n) = a
  <2>1. PICK m \in Int : m = Stride(dims, n) /\ m >= 1
    BY <1>1
  <2>2. a < m
    BY <1>a, <1>n, <2>1 DEF Size
  <2> QED BY <2>1, <2>2, ModSmall
<1> QED BY <1>a, <1>4, <1>13, <1>14

LEMMA MaxOfTwo ==
  ASSUME NEW a \in Int, NEW b \in Int
  PROVE  Max({a, b}) = IF a >= b THEN a ELSE b
<1> DEFINE m == IF a >= b THEN a ELSE b
<1>1. m \in {a, b} /\ \A y \in {a, b} : m >= y
  OBVIOUS
<1>2. Max({a, b}) \in {a, b} /\ \A y \in {a, b} : Max({a, b}) >= y
  BY <1>1 DEF Max
<1>3. Max({a, b}) \in Int /\ m \in Int /\ Max({a, b}) >= m /\ m >= Max({a, b})
  BY <1>1, <1>2
<1> QED BY <1>3

(* Broadcasting a shape to another: no dimension shrinks.                  *)
Stretches(dims, out) ==
  /\ Positive(out) /\ Len(dims) <= Len(out)
  /\ \A r \in Nat : FromRight(dims, r) <= FromRight(out, r)

LEMMA BroadcastStretches ==
  ASSUME NEW lhs \in Seq(Int), NEW rhs \in Seq(Int), Positive(lhs), Positive(rhs),
         NEW out \in Seq(Int), infer_broadcast(lhs, rhs) = Ok(out)
  PROVE  Stretches(lhs, out) /\ Stretches(rhs, out)
<1> DEFINE rank == Max({Len(lhs), Len(rhs)})
<1>1. out = [i \in 1 .. rank |-> Max({FromRight(lhs, rank - i), FromRight(rhs, rank - i)})]
  BY DEF infer_broadcast, Error, Ok
<1>2. rank = IF Len(lhs) >= Len(rhs) THEN Len(lhs) ELSE Len(rhs)
  <2>1. PICK a \in Int, b \in Int : a = Len(lhs) /\ b = Len(rhs)
    OBVIOUS
  <2>2. Max({a, b}) = IF a >= b THEN a ELSE b
    BY MaxOfTwo
  <2> QED BY <2>1, <2>2
<1>3. PICK m \in Nat : m = rank
  BY <1>2
<1>4. Len(lhs) <= m /\ Len(rhs) <= m
  BY <1>2, <1>3
<1> HIDE DEF rank
<1>5. DOMAIN out = 1 .. m /\ Len(out) = m
  BY <1>1, <1>3
<1>6. \A r \in Nat : /\ FromRight(lhs, r) \in Int /\ FromRight(lhs, r) >= 1
                     /\ FromRight(rhs, r) \in Int /\ FromRight(rhs, r) >= 1
  BY PositiveStrides
<1>7. ASSUME NEW i \in 1 .. m
      PROVE  /\ out[i] \in Int /\ out[i] >= FromRight(lhs, m - i)
             /\ out[i] >= FromRight(rhs, m - i)
  <2>1. PICK a \in Int, b \in Int : a = FromRight(lhs, m - i) /\ b = FromRight(rhs, m - i)
    <3>1. m - i \in Nat
      OBVIOUS
    <3> QED BY <1>6, <3>1
  <2>2. out[i] = Max({a, b})
    BY <1>1, <1>3, <2>1
  <2>3. Max({a, b}) = IF a >= b THEN a ELSE b
    BY MaxOfTwo
  <2> QED BY <2>1, <2>2, <2>3
<1>8. Positive(out)
  <2>1. ASSUME NEW i \in 1 .. m PROVE out[i] >= 1
    <3>1. PICK r \in Nat : r = m - i
      OBVIOUS
    <3>2. FromRight(lhs, r) \in Int /\ FromRight(lhs, r) >= 1
      BY <1>6
    <3>3. out[i] \in Int /\ out[i] >= FromRight(lhs, r)
      BY <1>7, <3>1
    <3> QED BY <3>2, <3>3
  <2> QED BY <1>5, <2>1 DEF Positive
<1>9. ASSUME NEW r \in Nat
      PROVE  FromRight(lhs, r) <= FromRight(out, r) /\ FromRight(rhs, r) <= FromRight(out, r)
  <2>1. CASE r < m
    <3>1. m - r \in 1 .. m /\ m - (m - r) = r
      BY <2>1
    <3>2. FromRight(out, r) = out[m - r]
      BY <1>5, <2>1 DEF FromRight
    <3> QED BY <1>6, <1>7, <3>1, <3>2
  <2>2. CASE ~(r < m)
    BY <1>4, <1>5, <2>2 DEF FromRight
  <2> QED BY <2>1, <2>2
<1> QED BY <1>4, <1>5, <1>8, <1>9 DEF Stretches

LEMMA StretchedSize ==
  ASSUME NEW dims \in Seq(Int), NEW out \in Seq(Int), Positive(dims), Stretches(dims, out)
  PROVE  /\ Size(dims) <= Size(out)
         /\ Size(dims) = Size(out) => \A r \in Nat : FromRight(dims, r) = FromRight(out, r)
<1>n. PICK n \in Nat : n = Len(out)
  OBVIOUS
<1>1. ASSUME NEW r \in Nat
      PROVE  /\ FromRight(dims, r) \in Int /\ FromRight(out, r) \in Int
             /\ Stride(dims, r) \in Int /\ Stride(out, r) \in Int
             /\ FromRight(dims, r) >= 1 /\ FromRight(dims, r) <= FromRight(out, r)
             /\ Stride(dims, r) >= 1 /\ Stride(out, r) >= 1
             /\ Stride(dims, r + 1) = Stride(dims, r) * FromRight(dims, r)
             /\ Stride(out, r + 1) = Stride(out, r) * FromRight(out, r)
  <2>1. Positive(out) /\ FromRight(dims, r) <= FromRight(out, r)
    BY DEF Stretches
  <2> QED BY <2>1, PositiveStrides, StrideStep
<1> DEFINE W(i) == /\ Stride(dims, i) <= Stride(out, i)
                   /\ Stride(dims, i) = Stride(out, i) =>
                        \A r \in 0 .. i - 1 : FromRight(dims, r) = FromRight(out, r)
           S == {i \in 0 .. n : W(i)}
<1>2. 0 \in S
  <2>1. Stride(dims, 0) = 1 /\ Stride(out, 0) = 1
    BY StrideStep
  <2> QED BY <2>1
<1>3. ASSUME NEW i \in 1 .. n, i - 1 \in S PROVE i \in S
  <2>1. i - 1 \in Nat /\ (i - 1) + 1 = i
    OBVIOUS
  <2>2. PICK x \in Int, y \in Int, d \in Int, e \in Int :
          /\ x = Stride(dims, i - 1) /\ y = Stride(out, i - 1)
          /\ d = FromRight(dims, i - 1) /\ e = FromRight(out, i - 1)
    BY <1>1, <2>1
  <2>3. 1 <= x /\ x <= y /\ 1 <= d /\ d <= e
    BY <1>1, <1>3, <2>1, <2>2
  <2>4. Stride(dims, i) = x * d /\ Stride(out, i) = y * e
    BY <1>1, <2>1, <2>2
  <2>a. PICK A \in Int, B \in Int, C \in Int : A = x * d /\ B = y * d /\ C = y * e
    OBVIOUS
  <2>b. x * d <= y * d
    BY <2>3
  <2>c. y * d <= y * e
    BY <2>3
  <2>5. A <= B /\ B <= C
    BY ONLY <2>a, <2>b, <2>c
  <2>6. ASSUME A = C PROVE x = y /\ d = e
    <3>1. A = x * d /\ B = y * d /\ C = y * e
      BY <2>a
    <3>2. A = B /\ B = C
      BY <2>5, <2>6
    <3>3. (y - x) * d = B - A /\ y * (e - d) = C - B
      BY <3>1
    <3>4. y - x = 0
      BY <2>3, <3>2, <3>3
    <3>5. e - d = 0
      BY <2>3, <3>2, <3>3
    <3> QED BY <3>4, <3>5
  <2>7. x = y => \A r \in 0 .. (i - 1) - 1 : FromRight(dims, r) = FromRight(out, r)
    BY <1>3, <2>2
  <2>8. \A r \in 0 .. i - 1 : r \in 0 .. (i - 1) - 1 \/ r = i - 1
    OBVIOUS
  <2>9. ASSUME Stride(dims, i) = Stride(out, i)
        PROVE  \A r \in 0 .. i - 1 : FromRight(dims, r) = FromRight(out, r)
    <3>1. A = C
      BY <2>4, <2>9, <2>a
    <3> QED BY <2>2, <2>6, <2>7, <2>8, <3>1
  <2>10. Stride(dims, i) <= Stride(out, i)
    <3>1. A <= C
      BY <2>5
    <3>2. Stride(dims, i) = A /\ Stride(out, i) = C
      BY <2>4, <2>a
    <3> QED BY <3>1, <3>2
  <2> QED BY <2>9, <2>10
<1> HIDE DEF S
<1>4. W(n)
  <2>1. 0 .. n \subseteq S
    BY <1>2, <1>3, UpTo
  <2>2. n \in S
    BY <2>1
  <2> QED BY <2>2 DEF S
<1>5. Size(dims) = Stride(dims, n) /\ Size(out) = Stride(out, n)
  <2>1. Len(dims) <= n /\ Len(dims) \in Nat
    BY <1>n DEF Stretches
  <2>2. Stride(dims, n) = Stride(dims, Len(dims))
    BY <2>1 DEF Stride
  <2> QED BY <1>n, <2>2 DEF Size
<1>6. ASSUME Size(dims) = Size(out), NEW r \in Nat PROVE FromRight(dims, r) = FromRight(out, r)
  <2>1. CASE r < n
    <3>1. r \in 0 .. n - 1
      BY <2>1
    <3> QED BY <1>4, <1>5, <1>6, <3>1
  <2>2. CASE ~(r < n)
    <3>1. Len(dims) <= n /\ Len(dims) \in Nat
      BY <1>n DEF Stretches
    <3> QED BY <1>n, <2>2, <3>1 DEF FromRight
  <2> QED BY <2>1, <2>2
<1> QED BY <1>4, <1>5, <1>6

-----------------------------------------------------------------------------
(* The values of a valid module, a recursive function like its terms.      *)
ValueFrom(args, ns, n) ==
  LET node == ns[n]
      Element(i, k) == args[i][LinedUp(ns[node.inputs[i]].dims, node.dims, k)]
  IN  IF node.op = "Constant" THEN node.data
      ELSE IF node.op \in {"Add", "Mul"} /\ \A i \in DOMAIN args : args[i] # << >>
      THEN [k \in 1 .. Size(node.dims) |-> Apply(node.op, Element(1, k), Element(2, k))]
      ELSE IF node.op \in {"Relu", "Gelu", "Cast", "Reshape"}
      THEN [k \in DOMAIN args[1] |-> Apply(node.op, args[1][k], 0)]
      ELSE << >>

ValueAt(f, ns, n) == ValueFrom([i \in DOMAIN ns[n].inputs |-> f[ns[n].inputs[i]]], ns, n)

ValuesUpto(f, ns, k) == f = [n \in 1 .. k |-> ValueAt(f, ns, n)]

LEMMA SameOperands ==
  ASSUME NEW f, NEW g, NEW ns, NEW n,
         \A i \in DOMAIN ns[n].inputs : f[ns[n].inputs[i]] = g[ns[n].inputs[i]]
  PROVE  ValueAt(f, ns, n) = ValueAt(g, ns, n)
<1>1. [i \in DOMAIN ns[n].inputs |-> f[ns[n].inputs[i]]]
        = [i \in DOMAIN ns[n].inputs |-> g[ns[n].inputs[i]]]
  OBVIOUS
<1> QED BY <1>1 DEF ValueAt

LEMMA ValuesExist ==
  ASSUME NEW ns, Len(ns) \in Nat, DOMAIN ns = 1 .. Len(ns), Backward(ns)
  PROVE  \E f : ValuesUpto(f, ns, Len(ns))
<1>N. PICK N \in Nat : N = Len(ns)
  OBVIOUS
<1> DEFINE S == {k \in 0 .. N : \E f : ValuesUpto(f, ns, k)}
<1>1. 0 \in S
  <2> DEFINE f == [n \in 1 .. 0 |-> 0]
  <2>1. f = [n \in 1 .. 0 |-> ValueAt(f, ns, n)]
    OBVIOUS
  <2> HIDE DEF f
  <2>2. ValuesUpto(f, ns, 0)
    BY <2>1 DEF ValuesUpto
  <2> QED BY <1>N, <2>2
<1>2. ASSUME NEW k \in 1 .. N, k - 1 \in S PROVE k \in S
  <2>1. PICK g : ValuesUpto(g, ns, k - 1)
    BY <1>2
  <2>2. k \in Nat /\ k \in 0 .. N
    BY <1>N
  <2> DEFINE f == [n \in 1 .. k |-> ValueAt(g, ns, n)]
  <2>3. \A n \in 1 .. k - 1 : f[n] = g[n]
    <3>1. \A n \in 1 .. k - 1 : n \in 1 .. k
      BY <2>2
    <3>2. \A n \in 1 .. k - 1 : g[n] = ValueAt(g, ns, n)
      BY <2>1 DEF ValuesUpto
    <3> QED BY <3>1, <3>2
  <2>4. ASSUME NEW n \in 1 .. k PROVE ValueAt(g, ns, n) = ValueAt(f, ns, n)
    <3> HIDE DEF f
    <3>1. n \in DOMAIN ns /\ n \in Nat /\ n <= k
      BY <1>N, <2>2
    <3>2. \A i \in DOMAIN ns[n].inputs : ns[n].inputs[i] \in 1 .. k - 1
      <4>1. \A i \in DOMAIN ns[n].inputs : ns[n].inputs[i] \in 1 .. n - 1
        BY <3>1 DEF Backward
      <4> QED BY <2>2, <3>1, <4>1
    <3> QED BY <2>3, <3>2, SameOperands
  <2>5. f = [n \in 1 .. k |-> ValueAt(f, ns, n)]
    <3> DEFINE h == [n \in 1 .. k |-> ValueAt(f, ns, n)]
    <3>1. \A n \in 1 .. k : f[n] = h[n]
      BY <2>4
    <3> QED BY <3>1
  <2> HIDE DEF f
  <2>6. ValuesUpto(f, ns, k)
    BY <2>5 DEF ValuesUpto
  <2> QED BY <2>2, <2>6
<1> HIDE DEF S
<1>3. 0 .. N \subseteq S
  BY <1>1, <1>2, UpTo
<1>4. N \in S
  BY <1>3
<1> QED BY <1>4, <1>N DEF S

LEMMA ValuesAre ==
  ASSUME NEW ns, IsModule(ns), validate(ns)
  PROVE  \A n \in DOMAIN ns : Values(ns)[n] = ValueAt(Values(ns), ns, n)
<1>1. Len(ns) \in Nat /\ DOMAIN ns = 1 .. Len(ns)
  BY ModuleFacts
<1>2. Backward(ns)
  BY DEF Backward, validate, ValidNode
<1>3. PICK f : ValuesUpto(f, ns, Len(ns))
  BY <1>1, <1>2, ValuesExist
<1>4. f = [n \in DOMAIN ns |-> ValueAt(f, ns, n)]
  BY <1>1, <1>3 DEF ValuesUpto
<1> DEFINE V == CHOOSE g : g = [n \in DOMAIN ns |-> ValueAt(g, ns, n)]
<1>5. V = [n \in DOMAIN ns |-> ValueAt(V, ns, n)]
  BY <1>4
<1>6. Values(ns) = V
  BY DEF Values, ValueAt, ValueFrom
<1> HIDE DEF V
<1>7. \A n \in DOMAIN ns : V[n] = ValueAt(V, ns, n)
  BY <1>5
<1> QED BY <1>6, <1>7

-----------------------------------------------------------------------------
(* What constant_fold relies on.  Data are a list; a one-input operator's  *)
(* shape holds its operand's; and for a node that no overfull constant     *)
(* reaches, data in nodes are no more than the shape has elements, and the *)
(* value the source stands for if they fill it.                            *)
IsList(d) == Len(d) \in Nat /\ DOMAIN d = 1 .. Len(d) /\ d = [i \in 1 .. Len(d) |-> d[i]]

HoldsData(node) == node.op = "Constant" /\ node.data # << >>

ListHeld(node) == HoldsData(node) => IsList(node.data)

OperandHeld(ns, n) ==
  (/\ ns[n].op \in {"Relu", "Gelu", "Cast", "Reshape"}
   /\ Len(ns[n].inputs) = 1 /\ ns[n].inputs[1] \in 1 .. n - 1) =>
    Holds(ns[ns[n].inputs[1]].dims, ns[n].dims)

Shaped(ns) == \A n \in DOMAIN ns : ListHeld(ns[n]) /\ OperandHeld(ns, n)

GoodData(d, dims, value) ==
  /\ Positive(dims) /\ IsList(d) /\ Len(d) <= Size(dims)
  /\ Len(d) = Size(dims) => d = value

Clean(ns, n) == Reachable(ns, <<n>>) \cap Overfull(ns) = {}

DataGood(ns, src, n) ==
  Clean(src, n) /\ HoldsData(ns[n]) => GoodData(ns[n].data, ns[n].dims, Values(src)[n])

(* Folding has reached the cursor: shapes are those of the source, and     *)
(* nodes from the cursor on are as they were.                              *)
FoldedFrom(ns, src) ==
  /\ IsModule(src) /\ Shaped(src) /\ Len(src) = Len(ns)
  /\ \A n \in DOMAIN ns : ns[n].dims = src[n].dims /\ DataGood(ns, src, n)

FoldInv ==
  /\ Shaped(nodes)
  /\ pc \in {"fold", "fuse"} => FoldedFrom(nodes, source.nodes)
  /\ pc = "fold" => \A n \in DOMAIN nodes : n >= cursor => nodes[n] = source.nodes[n]

(* What a node depends on its inputs depend on, or it is one of them.      *)
LEMMA CleanFacts ==
  ASSUME NEW ns, IsModule(ns), validate(ns), NEW n \in DOMAIN ns, Clean(ns, n)
  PROVE  /\ n \notin Overfull(ns)
         /\ \A i \in DOMAIN ns[n].inputs : Clean(ns, ns[n].inputs[i])
<1>1. PICK N \in Nat : N = Len(ns) /\ DOMAIN ns = 1 .. N
  BY ModuleFacts
<1>2. \A k \in DOMAIN ns : ToSet(ns[k].inputs) \subseteq DOMAIN ns
  <2> SUFFICES ASSUME NEW k \in DOMAIN ns, NEW i \in DOMAIN ns[k].inputs
               PROVE  ns[k].inputs[i] \in DOMAIN ns
    BY DEF ToSet
  <2>1. ns[k].inputs[i] \in 1 .. k - 1
    BY DEF validate, ValidNode
  <2> QED BY <1>1, <2>1
<1> DEFINE R == Reachable(ns, <<n>>)
<1>3. ToSet(<<n>>) = {n}
  BY DEF ToSet
<1>4. R \subseteq DOMAIN ns /\ n \in R /\ \A k \in R : ToSet(ns[k].inputs) \subseteq R
  <2>1. InBounds(ns, <<n>>)
    BY <1>2, <1>3 DEF InBounds
  <2> QED BY <1>3, <2>1, ReachableFacts
<1>5. R \cap Overfull(ns) = {}
  BY DEF Clean
<1> HIDE DEF R
<1>6. ASSUME NEW i \in DOMAIN ns[n].inputs PROVE Clean(ns, ns[n].inputs[i])
  <2>1. PICK m : m = ns[n].inputs[i]
    OBVIOUS
  <2>2. m \in R
    BY <1>4, <2>1 DEF ToSet
  <2>3. ToSet(<<m>>) = {m}
    BY DEF ToSet
  <2>4. Reachable(ns, <<m>>) \subseteq R
    BY <1>4, <2>2, <2>3, ReachableLeast
  <2> QED BY <1>5, <2>1, <2>4 DEF Clean
<1> QED BY <1>4, <1>5, <1>6

(* A constant that is not overfull has data only if its shape has elements.*)
LEMMA ConstantFits ==
  ASSUME NEW ns, IsModule(ns), Shaped(ns), NEW n \in DOMAIN ns,
         n \notin Overfull(ns), HoldsData(ns[n])
  PROVE  Positive(ns[n].dims) /\ IsList(ns[n].data) /\ Len(ns[n].data) <= Size(ns[n].dims)
<1>1. PICK dims \in Seq(Int) : dims = ns[n].dims
  <2>1. PICK D : ns \in Seq(Node(D))
    BY DEF IsModule
  <2>2. ns[n] \in Node(D)
    BY <2>1
  <2> QED BY <2>2 DEF Node
<1>2. PICK d : d = ns[n].data
  OBVIOUS
<1>3. IsList(d) /\ d # << >> /\ Len(d) \in Nat
  BY <1>2 DEF Shaped, ListHeld, HoldsData, IsList
<1>4. Len(d) # 0
  <2> SUFFICES ASSUME Len(d) = 0 PROVE FALSE
    OBVIOUS
  <2>1. d = [i \in 1 .. 0 |-> d[i]]
    BY <1>3 DEF IsList
  <2>2. d = << >>
    BY <2>1
  <2> QED BY <1>3, <2>2
<1>5. ~(Len(d) > elements(dims))
  BY <1>1, <1>2 DEF Overfull, HoldsData
<1>6. elements(dims) > 0 /\ Len(d) <= elements(dims)
  BY <1>3, <1>4, <1>5, ElementsFacts
<1>7. Positive(dims) /\ elements(dims) = Size(dims)
  BY <1>6, ElementsFacts
<1> QED BY <1>1, <1>2, <1>3, <1>6, <1>7

-----------------------------------------------------------------------------
(* Building keeps shapes and data consistent.                              *)
LEMMA DimsType ==
  ASSUME NEW ns, IsModule(ns), NEW n \in DOMAIN ns
  PROVE  ns[n].dims \in Seq(Int)
<1>1. PICK D : ns \in Seq(Node(D))
  BY DEF IsModule
<1>2. ns[n] \in Node(D)
  BY <1>1
<1> QED BY <1>2 DEF Node

LEMMA ShapedGrows ==
  ASSUME NEW ns, IsModule(ns), Shaped(ns), NEW node, ListHeld(node),
         NEW ms, ms = Append(ns, node), OperandHeld(ms, Len(ns) + 1)
  PROVE  Shaped(ms)
<1>1. PICK N \in Nat : N = Len(ns) /\ DOMAIN ns = 1 .. N
  BY ModuleFacts
<1>2. PICK D : ns \in Seq(Node(D))
  BY DEF IsModule
<1>3. /\ DOMAIN ms = 1 .. N + 1 /\ ms[N + 1] = node
      /\ \A n \in 1 .. N : ms[n] = ns[n]
  <2>1. PICK X : X = Node(D) \cup {node}
    OBVIOUS
  <2>2. ns \in Seq(X) /\ node \in X
    BY <1>2, <2>1
  <2> QED BY <1>1, <2>2
<1>4. ASSUME NEW n \in 1 .. N PROVE ListHeld(ms[n]) /\ OperandHeld(ms, n)
  <2>1. ListHeld(ns[n]) /\ OperandHeld(ns, n)
    BY <1>1 DEF Shaped
  <2>2. \A m \in 1 .. n - 1 : ms[m] = ns[m]
    BY <1>3
  <2> QED BY <1>3, <2>1, <2>2 DEF OperandHeld
<1>5. \A n \in 1 .. N + 1 : n \in 1 .. N \/ n = N + 1
  OBVIOUS
<1>6. OperandHeld(ms, N + 1) /\ ListHeld(ms[N + 1])
  BY <1>1, <1>3
<1> QED BY <1>3, <1>4, <1>5, <1>6 DEF Shaped

LEMMA FoldInvInit == CompilerInit => FoldInv
BY DEF CompilerInit, FoldInv, Shaped

LEMMA EmitFolds ==
  ASSUME CompilerInv, FoldInv, Emit
  PROVE  FoldInv'
<1>1. IsModule(nodes) /\ Shaped(nodes) /\ pc = "build" /\ pc' = pc
  BY DEF CompilerInv, CompilerTypes, FoldInv, Emit
<1>2. PICK t \in Templates : \E inputs \in [1 .. t.arity -> 1 .. Len(nodes) + Forward] :
         UnaryShape(t, inputs) /\ nodes' = Append(nodes, NewNode(t.op, inputs, t.dims, << >>))
  BY DEF Emit
<1>3. PICK inputs \in [1 .. t.arity -> 1 .. Len(nodes) + Forward] :
         UnaryShape(t, inputs) /\ nodes' = Append(nodes, NewNode(t.op, inputs, t.dims, << >>))
  BY <1>2
<1> DEFINE node == NewNode(t.op, inputs, t.dims, << >>)
<1>4. /\ node.op = t.op /\ node.inputs = inputs /\ node.dims = t.dims /\ node.data = << >>
  BY DEF NewNode
<1>5. t.dims \in Seq(Int)
  BY TemplatesAssumption
<1> HIDE DEF node
<1>6. ListHeld(node)
  BY <1>4 DEF ListHeld, HoldsData
<1>7. PICK N \in Nat : N = Len(nodes) /\ DOMAIN nodes = 1 .. N
  BY <1>1, ModuleFacts
<1>8. nodes'[N + 1] = node /\ \A n \in 1 .. N : nodes'[n] = nodes[n]
  <2>1. PICK D : nodes \in Seq(Node(D))
    BY <1>1 DEF IsModule
  <2>2. PICK X : X = Node(D) \cup {node}
    OBVIOUS
  <2>3. nodes \in Seq(X) /\ node \in X /\ nodes' = Append(nodes, node)
    BY <1>3, <2>1, <2>2 DEF node
  <2> QED BY <1>7, <2>3
<1>9. OperandHeld(nodes', N + 1)
  <2> SUFFICES ASSUME t.op \in {"Relu", "Gelu", "Cast", "Reshape"}, Len(inputs) = 1,
                      inputs[1] \in 1 .. (N + 1) - 1
               PROVE  Holds(nodes'[inputs[1]].dims, t.dims)
    BY <1>4, <1>8 DEF OperandHeld
  <2>1. PICK m \in DOMAIN nodes : m = inputs[1] /\ nodes'[m] = nodes[m]
    BY <1>7, <1>8
  <2>2. nodes[m].dims \in Seq(Int)
    BY <1>1, DimsType
  <2>3. IF t.op = "Reshape" THEN infer_reshape(nodes[m].dims, t.dims) = Ok(t.dims)
                            ELSE t.dims = nodes[m].dims
    BY <1>3, <2>1 DEF UnaryShape
  <2>4. Holds(nodes[m].dims, t.dims)
    <3>1. CASE t.op = "Reshape"
      BY <1>5, <2>2, <2>3, <3>1, ReshapeHolds
    <3>2. CASE t.op # "Reshape"
      <4>1. Positive(t.dims) => Size(t.dims) \in Int
        BY <1>5, PositiveStrides DEF Size
      <4> QED BY <2>3, <3>2, <4>1 DEF Holds
    <3> QED BY <3>1, <3>2
  <2> QED BY <2>1, <2>4
<1>10. Shaped(nodes')
  BY <1>1, <1>3, <1>6, <1>7, <1>9, ShapedGrows DEF node
<1> QED BY <1>1, <1>10 DEF FoldInv

LEMMA EmitConstantFolds ==
  ASSUME CompilerInv, FoldInv, EmitConstant
  PROVE  FoldInv'
<1>1. IsModule(nodes) /\ Shaped(nodes) /\ pc = "build" /\ pc' = pc
  BY DEF CompilerInv, CompilerTypes, FoldInv, EmitConstant
<1>2. PICK p \in Payloads : nodes' = Append(nodes, NewNode("Constant", << >>, p.dims, p.data))
  BY DEF EmitConstant
<1> DEFINE node == NewNode("Constant", << >>, p.dims, p.data)
<1>3. /\ node.op = "Constant" /\ node.dims = p.dims /\ node.data = p.data
  BY DEF NewNode
<1>4. p.dims \in Seq(Int) /\ p.data \in Seq(Int)
  BY PayloadsAssumption
<1> HIDE DEF node
<1>5. ListHeld(node)
  <2>1. PICK d \in Seq(Int) : d = p.data
    BY <1>4
  <2>2. Len(d) \in Nat /\ DOMAIN d = 1 .. Len(d) /\ d = [i \in 1 .. Len(d) |-> d[i]]
    OBVIOUS
  <2> QED BY <1>3, <2>1, <2>2 DEF ListHeld, IsList
<1>6. PICK N \in Nat : N = Len(nodes)
  BY <1>1, ModuleFacts
<1>7. OperandHeld(nodes', N + 1)
  <2>1. PICK D : nodes \in Seq(Node(D))
    BY <1>1 DEF IsModule
  <2>2. PICK X : X = Node(D) \cup {node}
    OBVIOUS
  <2>3. nodes \in Seq(X) /\ node \in X /\ nodes' = Append(nodes, node)
    BY <1>2, <2>1, <2>2 DEF node
  <2>4. nodes'[N + 1] = node
    BY <1>6, <2>3
  <2> QED BY <1>3, <2>4 DEF OperandHeld
<1>8. Shaped(nodes')
  BY <1>1, <1>2, <1>5, <1>6, <1>7, ShapedGrows DEF node
<1> QED BY <1>1, <1>8 DEF FoldInv

(* A pass begins: every constant has its data as its value.                *)
LEMMA RunPipelineFolds ==
  ASSUME CompilerInv, FoldInv, RunPipeline
  PROVE  FoldInv'
<1>1. /\ IsModule(nodes) /\ Shaped(nodes) /\ nodes' = nodes /\ source'.nodes = nodes
      /\ validate(nodes) \/ pc' = "ready"
  BY DEF CompilerInv, CompilerTypes, FoldInv, RunPipeline
<1>2. CASE pc' = "ready"
  BY <1>1, <1>2 DEF FoldInv
<1>3. CASE validate(nodes)
  <2>1. ASSUME NEW n \in DOMAIN nodes PROVE DataGood(nodes, nodes, n)
    <3> SUFFICES ASSUME Clean(nodes, n), HoldsData(nodes[n])
                 PROVE  GoodData(nodes[n].data, nodes[n].dims, Values(nodes)[n])
      BY DEF DataGood
    <3>1. Values(nodes)[n] = ValueAt(Values(nodes), nodes, n)
      BY <1>1, <1>3, ValuesAre
    <3>2. nodes[n].data = Values(nodes)[n]
      BY <3>1 DEF ValueAt, ValueFrom, HoldsData
    <3>3. n \notin Overfull(nodes)
      BY <1>1, <1>3, CleanFacts
    <3> QED BY <1>1, <3>2, <3>3, ConstantFits DEF GoodData
  <2>2. FoldedFrom(nodes, nodes)
    BY <1>1, <2>1 DEF FoldedFrom
  <2> QED BY <1>1, <2>2 DEF FoldInv
<1> QED BY <1>1, <1>2, <1>3

-----------------------------------------------------------------------------
(* What constant_fold puts into a node.  Data that fill the result's shape *)
(* fill the operands' shapes, which are no larger and have as many: so the *)
(* operands hold their values, and no dimension was stretched.             *)
LEMMA ListFunction ==
  ASSUME NEW L \in Nat, NEW f, f = [i \in 1 .. L |-> f[i]]
  PROVE  IsList(f) /\ Len(f) = L
<1>1. PICK X : X = {f[i] : i \in 1 .. L}
  OBVIOUS
<1>2. \A i \in 1 .. L : f[i] \in X
  BY <1>1
<1>3. f \in [1 .. L -> X]
  BY <1>2
<1>4. f \in Seq(X) /\ DOMAIN f = 1 .. L
  BY <1>3
<1>5. Len(f) = L
  BY <1>4
<1> QED BY <1>4, <1>5 DEF IsList

LEMMA FoldedBinary ==
  ASSUME CompilerInv, FoldInv, pc = "fold", NEW c \in DOMAIN nodes, c = cursor,
         nodes[c].op \in {"Add", "Mul"}, Foldable(nodes[c]),
         Clean(source.nodes, c)
  PROVE  GoodData(FoldedData(nodes[c]), nodes[c].dims, Values(source.nodes)[c])
<1> DEFINE src == source.nodes
           V == Values(src)
<1>1. /\ IsModule(nodes) /\ Shaped(nodes) /\ FoldedFrom(nodes, src) /\ validate(src)
      /\ nodes[c] = src[c] /\ c \in Nat /\ Clean(src, c)
  <2>1. c >= cursor /\ c \in Nat
    BY ModuleFacts DEF CompilerInv, CompilerTypes
  <2> QED BY <2>1 DEF CompilerInv, CompilerTypes, ValidInv, FoldInv
<1> HIDE DEF src
<1>2. PICK N \in Nat : N = Len(nodes) /\ N = Len(src) /\ DOMAIN nodes = 1 .. N /\ DOMAIN src = 1 .. N
  BY <1>1, ModuleFacts DEF FoldedFrom
<1>3. ValidNode(src, c) /\ V[c] = ValueAt(V, src, c)
  BY <1>1, <1>2, ValuesAre DEF validate, FoldedFrom
<1>4. PICK node : node = nodes[c] /\ node = src[c]
  BY <1>1
<1>5. PICK q : q = node.inputs
  OBVIOUS
<1>6. PICK dims : dims = node.dims
  OBVIOUS
<1>7. q \in Seq(Nat) /\ dims \in Seq(Int)
  BY <1>1, <1>4, <1>5, <1>6, ModuleFacts, DimsType
<1>8. Len(q) = 2 /\ \A i \in DOMAIN q : q[i] \in 1 .. c - 1
  BY <1>3, <1>4, <1>5 DEF ValidNode, Arity
<1>9. PICK a, b : a = q[1] /\ b = q[2]
  OBVIOUS
<1>10. DOMAIN q = 1 .. 2 /\ a \in 1 .. N /\ b \in 1 .. N
  <2>1. DOMAIN q = 1 .. 2
    BY <1>7, <1>8
  <2>2. 1 \in 1 .. 2 /\ 2 \in 1 .. 2
    OBVIOUS
  <2>3. a \in 1 .. c - 1 /\ b \in 1 .. c - 1
    BY <1>8, <1>9, <2>1, <2>2
  <2> QED BY <1>1, <1>2, <2>1, <2>3
<1>11. PICK x, y : x = nodes[a].data /\ y = nodes[b].data
  OBVIOUS
<1>12. PICK l, r : l = nodes[a].dims /\ r = nodes[b].dims
  OBVIOUS
<1>13. /\ HoldsData(nodes[a]) /\ HoldsData(nodes[b]) /\ Len(x) = Len(y)
  BY <1>4, <1>5, <1>9, <1>11 DEF Foldable, HasData, HoldsData
<1>26. /\ GoodData(nodes[a].data, nodes[a].dims, V[a])
       /\ GoodData(nodes[b].data, nodes[b].dims, V[b])
  <2>1. c \in DOMAIN src
    BY <1>2
  <2>2. Clean(src, a) /\ Clean(src, b)
    BY <1>1, <1>4, <1>5, <1>9, <1>10, <2>1, CleanFacts DEF FoldedFrom
  <2>3. DataGood(nodes, src, a) /\ DataGood(nodes, src, b)
    BY <1>1, <1>2, <1>10 DEF FoldedFrom
  <2> QED BY <1>13, <2>2, <2>3 DEF DataGood
<1>14. /\ l \in Seq(Int) /\ r \in Seq(Int) /\ Positive(l) /\ Positive(r)
       /\ IsList(x) /\ IsList(y) /\ Len(x) <= Size(l) /\ Len(y) <= Size(r)
       /\ x # << >> /\ y # << >>
  <2>1. l \in Seq(Int) /\ r \in Seq(Int)
    BY <1>1, <1>2, <1>10, <1>12, DimsType
  <2> QED BY <1>11, <1>12, <1>13, <1>26, <2>1 DEF GoodData, HoldsData
<1>15. l = src[a].dims /\ r = src[b].dims
  BY <1>1, <1>2, <1>10, <1>12 DEF FoldedFrom
<1>16. infer_broadcast(l, r) = Ok(dims)
  BY <1>3, <1>4, <1>5, <1>6, <1>9, <1>15 DEF ValidNode
<1>17. Stretches(l, dims) /\ Stretches(r, dims)
  BY <1>7, <1>14, <1>16, BroadcastStretches
<1>18. PICK L \in Nat : L = Len(x) /\ L = Len(y) /\ DOMAIN x = 1 .. L /\ DOMAIN y = 1 .. L
  BY <1>13, <1>14 DEF IsList
<1>19. Positive(dims) /\ Size(dims) \in Int /\ Size(l) \in Int /\ Size(r) \in Int
  <2>1. Positive(dims)
    BY <1>17 DEF Stretches
  <2> QED BY <1>7, <1>14, <2>1, PositiveStrides DEF Size
<1>20. Size(l) <= Size(dims) /\ Size(r) <= Size(dims)
  BY <1>7, <1>14, <1>17, StretchedSize
<1>21. PICK d : d = FoldedData(node)
  OBVIOUS
<1>22. d = [i \in 1 .. L |-> Apply(node.op, x[i], y[i])]
  BY <1>5, <1>8, <1>9, <1>11, <1>18, <1>21 DEF FoldedData
<1>23. IsList(d) /\ Len(d) = L
  <2>1. d = [i \in 1 .. L |-> d[i]]
    BY <1>22
  <2> QED BY <2>1, ListFunction
<1>24. ASSUME L = Size(dims) PROVE d = V[c]
  <2>1. L = Size(l) /\ L = Size(r) /\ Size(l) = Size(dims) /\ Size(r) = Size(dims)
    BY <1>14, <1>18, <1>19, <1>20, <1>24
  <2>2. x = V[a] /\ y = V[b]
    BY <1>11, <1>12, <1>18, <1>26, <2>1 DEF GoodData
  <2>3. \A k \in 1 .. L : LinedUp(l, dims, k) = k /\ LinedUp(r, dims, k) = k
    <3>1. /\ \A j \in Nat : FromRight(l, j) = FromRight(dims, j)
          /\ \A j \in Nat : FromRight(r, j) = FromRight(dims, j)
      BY <1>7, <1>14, <1>17, <2>1, StretchedSize
    <3>2. Len(l) <= Len(dims) /\ Len(r) <= Len(dims)
      BY <1>17 DEF Stretches
    <3> QED BY <1>7, <1>14, <2>1, <3>1, <3>2, LinedUpSelf
  <2>4. PICK args : args = [i \in 1 .. 2 |-> V[q[i]]]
    OBVIOUS
  <2>5. args[1] = x /\ args[2] = y /\ DOMAIN args = 1 .. 2
    BY <1>9, <2>2, <2>4
  <2>6. \A i \in DOMAIN args : args[i] # << >>
    BY <1>14, <2>5
  <2>7. V[c] = ValueFrom(args, src, c)
    BY <1>3, <1>4, <1>5, <1>10, <2>4 DEF ValueAt
  <2>8. node.op \in {"Add", "Mul"} /\ node.op # "Constant"
    BY <1>4
  <2>9. V[c] = [k \in 1 .. Size(dims) |->
                  Apply(node.op, args[1][LinedUp(src[q[1]].dims, dims, k)],
                                 args[2][LinedUp(src[q[2]].dims, dims, k)])]
    BY <1>4, <1>5, <1>6, <2>6, <2>7, <2>8 DEF ValueFrom
  <2>10. V[c] = [k \in 1 .. L |-> Apply(node.op, x[LinedUp(l, dims, k)], y[LinedUp(r, dims, k)])]
    BY <1>9, <1>15, <1>24, <2>5, <2>9
  <2> HIDE DEF V
  <2>11. V[c] = [k \in 1 .. L |-> Apply(node.op, x[k], y[k])]
    BY <2>3, <2>10
  <2> QED BY <1>22, <2>11
<1>25. GoodData(d, dims, V[c])
  BY <1>14, <1>18, <1>19, <1>20, <1>23, <1>24 DEF GoodData
<1> QED BY <1>4, <1>6, <1>21, <1>25 DEF V, src

LEMMA FoldedUnary ==
  ASSUME CompilerInv, FoldInv, pc = "fold", NEW c \in DOMAIN nodes, c = cursor,
         nodes[c].op \in {"Relu", "Gelu", "Cast", "Reshape"}, Foldable(nodes[c]),
         Clean(source.nodes, c)
  PROVE  GoodData(FoldedData(nodes[c]), nodes[c].dims, Values(source.nodes)[c])
<1> DEFINE src == source.nodes
           V == Values(src)
<1>1. /\ IsModule(nodes) /\ Shaped(nodes) /\ FoldedFrom(nodes, src) /\ validate(src)
      /\ nodes[c] = src[c] /\ c \in Nat /\ Clean(src, c)
  <2>1. c >= cursor /\ c \in Nat
    BY ModuleFacts DEF CompilerInv, CompilerTypes
  <2> QED BY <2>1 DEF CompilerInv, CompilerTypes, ValidInv, FoldInv
<1> HIDE DEF src
<1>2. PICK N \in Nat : N = Len(nodes) /\ N = Len(src) /\ DOMAIN nodes = 1 .. N /\ DOMAIN src = 1 .. N
  BY <1>1, ModuleFacts DEF FoldedFrom
<1>3. ValidNode(src, c) /\ V[c] = ValueAt(V, src, c)
  BY <1>1, <1>2, ValuesAre DEF validate, FoldedFrom
<1>4. PICK node : node = nodes[c] /\ node = src[c]
  BY <1>1
<1>5. PICK q : q = node.inputs
  OBVIOUS
<1>6. PICK dims : dims = node.dims
  OBVIOUS
<1>7. q \in Seq(Nat) /\ dims \in Seq(Int)
  BY <1>1, <1>4, <1>5, <1>6, ModuleFacts, DimsType
<1>8. Len(q) = 1 /\ \A i \in DOMAIN q : q[i] \in 1 .. c - 1
  BY <1>3, <1>4, <1>5 DEF ValidNode, Arity
<1>9. PICK a : a = q[1]
  OBVIOUS
<1>10. DOMAIN q = 1 .. 1 /\ a \in 1 .. c - 1 /\ a \in 1 .. N
  <2>1. DOMAIN q = 1 .. 1
    BY <1>7, <1>8
  <2>2. a \in 1 .. c - 1
    BY <1>8, <1>9, <2>1
  <2> QED BY <1>1, <1>2, <2>1, <2>2
<1>11. PICK x : x = nodes[a].data
  OBVIOUS
<1>12. PICK l : l = nodes[a].dims
  OBVIOUS
<1>13. HoldsData(nodes[a])
  BY <1>4, <1>5, <1>9 DEF Foldable, HasData, HoldsData
<1>24. GoodData(nodes[a].data, nodes[a].dims, V[a])
  <2>1. c \in DOMAIN src
    BY <1>2
  <2>2. Clean(src, a)
    BY <1>1, <1>4, <1>5, <1>9, <1>10, <2>1, CleanFacts DEF FoldedFrom
  <2>3. DataGood(nodes, src, a)
    BY <1>1, <1>2, <1>10 DEF FoldedFrom
  <2> QED BY <1>13, <2>2, <2>3 DEF DataGood
<1>14. l \in Seq(Int) /\ Positive(l) /\ IsList(x) /\ Len(x) <= Size(l)
  <2>1. l \in Seq(Int)
    BY <1>1, <1>2, <1>10, <1>12, DimsType
  <2> QED BY <1>11, <1>12, <1>24, <2>1 DEF GoodData
<1>15. l = src[a].dims
  BY <1>1, <1>2, <1>10, <1>12 DEF FoldedFrom
<1>16. Positive(dims) /\ Size(l) <= Size(dims)
  <2>1. OperandHeld(src, c)
    BY <1>1, <1>2 DEF FoldedFrom, Shaped
  <2>2. Holds(l, dims)
    BY <1>4, <1>5, <1>6, <1>8, <1>9, <1>10, <1>15, <2>1 DEF OperandHeld
  <2> QED BY <1>14, <2>2 DEF Holds
<1>17. Size(dims) \in Int /\ Size(l) \in Int
  <2>1. Size(dims) \in Int
    BY <1>7, <1>16, PositiveStrides DEF Size
  <2>2. Size(l) \in Int
    BY <1>14, PositiveStrides DEF Size
  <2> QED BY <2>1, <2>2
<1>18. PICK L \in Nat : L = Len(x) /\ DOMAIN x = 1 .. L
  BY <1>14 DEF IsList
<1>19. PICK d : d = FoldedData(node)
  OBVIOUS
<1>20. d = [i \in 1 .. L |-> Apply(node.op, x[i], x[i])]
  BY <1>5, <1>8, <1>9, <1>11, <1>18, <1>19 DEF FoldedData
<1>21. IsList(d) /\ Len(d) = L
  <2>1. d = [i \in 1 .. L |-> d[i]]
    BY <1>20
  <2> QED BY <2>1, ListFunction
<1>22. ASSUME L = Size(dims) PROVE d = V[c]
  <2>1. L = Size(l)
    BY <1>14, <1>16, <1>17, <1>18, <1>22
  <2>2. x = V[a]
    BY <1>11, <1>12, <1>18, <1>24, <2>1 DEF GoodData
  <2>3. PICK args : args = [i \in 1 .. 1 |-> V[q[i]]]
    OBVIOUS
  <2>4. args[1] = x
    BY <1>9, <2>2, <2>3
  <2>5. V[c] = ValueFrom(args, src, c)
    BY <1>3, <1>4, <1>5, <1>10, <2>3 DEF ValueAt
  <2>6. V[c] = [k \in DOMAIN args[1] |-> Apply(node.op, args[1][k], 0)]
    <3>1. node.op \in {"Relu", "Gelu", "Cast", "Reshape"}
      BY <1>4
    <3>2. node.op # "Constant" /\ node.op \notin {"Add", "Mul"}
      BY <3>1
    <3> QED BY <1>4, <2>5, <3>1, <3>2 DEF ValueFrom
  <2> HIDE DEF V
  <2>7. V[c] = [k \in 1 .. L |-> Apply(node.op, x[k], 0)]
    BY <1>18, <2>4, <2>6
  <2>8. \A k \in 1 .. L : Apply(node.op, x[k], x[k]) = Apply(node.op, x[k], 0)
    BY <1>4 DEF Apply
  <2> QED BY <1>20, <2>7, <2>8
<1>23. GoodData(d, dims, V[c])
  BY <1>14, <1>16, <1>17, <1>18, <1>21, <1>22 DEF GoodData
<1> QED BY <1>4, <1>6, <1>19, <1>23 DEF V, src

(* Whatever the operands hold, the result is a list.                       *)
LEMMA FoldedList ==
  ASSUME Shaped(nodes), IsModule(nodes), validate(nodes), NEW c \in DOMAIN nodes, Foldable(nodes[c])
  PROVE  IsList(FoldedData(nodes[c]))
<1>1. PICK q \in Seq(Nat) : q = nodes[c].inputs
  BY ModuleFacts
<1>2. PICK a : a = q[1]
  OBVIOUS
<1>3. Len(q) \in {1, 2} /\ HoldsData(nodes[a])
  <2>1. Len(q) = Arity(nodes[c].op)
    BY <1>1 DEF validate, ValidNode
  <2> QED BY <1>1, <1>2, <2>1 DEF Foldable, Arity, HasData, HoldsData
<1>4. a \in DOMAIN nodes
  <2>1. 1 \in DOMAIN q
    BY <1>3
  <2>2. a \in 1 .. c - 1
    BY <1>1, <1>2, <2>1 DEF validate, ValidNode
  <2>3. PICK N \in Nat : DOMAIN nodes = 1 .. N
    BY ModuleFacts
  <2> QED BY <2>2, <2>3
<1>5. PICK x : x = nodes[a].data
  OBVIOUS
<1>6. IsList(x)
  BY <1>3, <1>4, <1>5 DEF Shaped, ListHeld
<1>7. PICK L \in Nat : DOMAIN x = 1 .. L
  BY <1>6 DEF IsList
<1>8. PICK y : y = nodes[q[Len(q)]].data
  OBVIOUS
<1>9. PICK d : d = FoldedData(nodes[c])
  OBVIOUS
<1>10. d = [i \in 1 .. L |-> Apply(nodes[c].op, x[i], y[i])]
  BY <1>1, <1>2, <1>5, <1>7, <1>8, <1>9 DEF FoldedData
<1>11. d = [i \in 1 .. L |-> d[i]]
  BY <1>10
<1> QED BY <1>9, <1>11, ListFunction

LEMMA FoldNodeFolds ==
  ASSUME CompilerInv, FoldInv, FoldNode
  PROVE  FoldInv'
<1> DEFINE src == source.nodes
<1>1. /\ IsModule(nodes) /\ Shaped(nodes) /\ FoldedFrom(nodes, src)
      /\ pc = "fold" /\ pc' = "fold" /\ source' = source
      /\ cursor \in Nat /\ cursor' = cursor + 1 /\ cursor \in 1 .. Len(nodes) + 1
      /\ cursor <= Len(nodes)
      /\ \A n \in DOMAIN nodes : n >= cursor => nodes[n] = src[n]
      /\ validate(nodes)
  BY DEF CompilerInv, CompilerTypes, ValidInv, FoldInv, FoldNode
<1>2. PICK N \in Nat : N = Len(nodes) /\ DOMAIN nodes = 1 .. N
  BY <1>1, ModuleFacts
<1>3. PICK c \in 1 .. N : c = cursor
  BY <1>1, <1>2
<1>4. CASE ~Foldable(nodes[c])
  <2>1. nodes' = nodes
    BY <1>3, <1>4 DEF FoldNode
  <2>2. \A n \in DOMAIN nodes' : n >= cursor' => nodes'[n] = src[n]
    BY <1>1, <1>2, <2>1
  <2> QED BY <1>1, <2>1, <2>2 DEF FoldInv
<1>5. CASE Foldable(nodes[c])
  <2>1. PICK d : d = FoldedData(nodes[c])
    OBVIOUS
  <2>0. IsList(d)
    BY <1>1, <1>2, <1>5, <2>1, FoldedList
  <2>2. Clean(src, c) => GoodData(d, nodes[c].dims, Values(src)[c])
    <3>1. nodes[c].op \in {"Add", "Mul"} \/ nodes[c].op \in {"Relu", "Gelu", "Cast", "Reshape"}
      BY <1>5 DEF Foldable
    <3> QED BY <1>1, <1>2, <1>3, <1>5, <2>1, <3>1, FoldedBinary, FoldedUnary
  <2>3. PICK node : node = Constant(nodes[c], d)
    OBVIOUS
  <2>4. node.op = "Constant" /\ node.dims = nodes[c].dims /\ node.data = d
    <3>1. PICK D : nodes \in Seq(Node(D))
      BY <1>1 DEF IsModule
    <3>2. PICK old \in Node(D) : old = nodes[c]
      BY <1>2, <3>1
    <3>3. node = [op |-> "Constant", inputs |-> << >>, dims |-> old.dims,
                  layout |-> old.layout, data |-> d]
      BY <2>3, <3>2, ConstantIs
    <3> QED BY <3>2, <3>3
  <2>5. PICK ms : ms = nodes'
    OBVIOUS
  <2>6. /\ DOMAIN ms = 1 .. N /\ ms[c] = node
        /\ \A n \in 1 .. N : n # c => ms[n] = nodes[n]
    <3>1. ms = [nodes EXCEPT ![c] = Constant(@, FoldedData(nodes[c]))]
      BY <1>3, <1>5, <2>5 DEF FoldNode, Folded, Constant
    <3>2. ms = [nodes EXCEPT ![c] = node]
      BY <2>1, <2>3, <3>1
    <3> QED BY <1>2, <3>2
  <2>7. \A n \in 1 .. N : ms[n].dims = nodes[n].dims
    BY <2>4, <2>6
  <2>8. Shaped(ms)
    <3>1. ListHeld(ms[c]) /\ OperandHeld(ms, c)
      BY <2>0, <2>4, <2>6 DEF ListHeld, OperandHeld
    <3>2. ASSUME NEW n \in 1 .. N, n # c PROVE ListHeld(ms[n]) /\ OperandHeld(ms, n)
      <4>1. ListHeld(nodes[n]) /\ OperandHeld(nodes, n)
        BY <1>1, <1>2 DEF Shaped
      <4>2. \A m \in 1 .. n - 1 : m \in 1 .. N
        BY <1>2
      <4>3. \A m \in 1 .. n - 1 : ms[m].dims = nodes[m].dims
        BY <2>7, <4>2
      <4>4. ms[n] = nodes[n]
        BY <2>6, <3>2
      <4> QED BY <4>1, <4>3, <4>4 DEF OperandHeld
    <3> QED BY <2>6, <3>1, <3>2 DEF Shaped
  <2>9. Len(ms) = N
    <3>1. ms = [i \in 1 .. N |-> ms[i]]
      <4>1. nodes' = [nodes EXCEPT ![c] = Constant(@, FoldedData(nodes[c]))]
        BY <1>3, <1>5 DEF FoldNode, Folded, Constant
      <4> QED BY <1>2, <2>5, <4>1
    <3> QED BY <3>1, ListFunction
  <2>10. FoldedFrom(ms, src)
    <3>1. IsModule(src) /\ Shaped(src) /\ Len(src) = Len(ms)
      BY <1>1, <1>2, <2>9 DEF FoldedFrom
    <3>2. ASSUME NEW n \in 1 .. N
          PROVE  ms[n].dims = src[n].dims /\ DataGood(ms, src, n)
      <4>1. nodes[n].dims = src[n].dims /\ DataGood(nodes, src, n)
        BY <1>1, <1>2 DEF FoldedFrom
      <4>2. CASE n = c
        BY <2>2, <2>4, <2>6, <4>1, <4>2 DEF DataGood
      <4>3. CASE n # c
        BY <2>6, <4>1, <4>3 DEF DataGood
      <4> QED BY <4>2, <4>3
    <3> QED BY <2>6, <3>1, <3>2 DEF FoldedFrom
  <2>11. ASSUME NEW n \in 1 .. N, n >= cursor' PROVE ms[n] = src[n]
    <3>1. n >= cursor /\ n # c
      BY <1>1, <1>3, <2>11
    <3> QED BY <1>1, <1>2, <2>6, <3>1
  <2> QED BY <1>1, <2>5, <2>6, <2>8, <2>10, <2>11 DEF FoldInv
<1> QED BY <1>4, <1>5

LEMMA InferLayoutFolds ==
  ASSUME CompilerInv, FoldInv, InferLayout
  PROVE  FoldInv'
<1> DEFINE src == source.nodes
<1>1. /\ IsModule(nodes) /\ Shaped(nodes) /\ FoldedFrom(nodes, src) /\ validate(nodes)
      /\ pc = "fold" /\ pc' = "fuse" /\ source' = source
  BY DEF CompilerInv, CompilerTypes, ValidInv, FoldInv, InferLayout
<1>2. PICK ms : ms = nodes'
  OBVIOUS
<1>3. \/ ms = [n \in DOMAIN nodes |-> IF nodes[n].op = "MatMul" /\ Len(nodes[n].dims) = 2
                                      THEN Tiled(nodes[n]) ELSE nodes[n]]
      \/ ms = nodes
  BY <1>2 DEF InferLayout, Tiled
<1>4. DOMAIN ms = DOMAIN nodes /\ Len(ms) = Len(nodes)
  BY <1>1, <1>3, TiledKeeps
<1>5. ASSUME NEW n \in DOMAIN nodes
      PROVE  /\ ms[n].op = nodes[n].op /\ ms[n].inputs = nodes[n].inputs
             /\ ms[n].dims = nodes[n].dims /\ ms[n].data = nodes[n].data
  <2>1. PICK D : nodes \in Seq(Node(D))
    BY <1>1 DEF IsModule
  <2>2. PICK node \in Node(D) : node = nodes[n]
    BY <2>1
  <2>3. node = [op |-> node.op, inputs |-> node.inputs, dims |-> node.dims,
                layout |-> node.layout, data |-> node.data]
    BY DEF Node
  <2>4. Tiled(node) = [op |-> node.op, inputs |-> node.inputs, dims |-> node.dims,
                       layout |-> "Tiled16", data |-> node.data]
    BY <2>3 DEF Tiled
  <2>5. ms[n] = Tiled(node) \/ ms[n] = node
    BY <1>3, <2>2
  <2> QED BY <2>2, <2>4, <2>5
<1>6. PICK N \in Nat : DOMAIN nodes = 1 .. N
  BY <1>1, ModuleFacts
<1>7. Shaped(ms)
  <2>1. ASSUME NEW n \in DOMAIN nodes PROVE ListHeld(ms[n]) /\ OperandHeld(ms, n)
    <3>1. ListHeld(nodes[n]) /\ OperandHeld(nodes, n)
      BY <1>1 DEF Shaped
    <3>2. \A m \in 1 .. n - 1 : m \in 1 .. N
      BY <1>6
    <3>3. \A m \in 1 .. n - 1 : ms[m].dims = nodes[m].dims
      BY <1>5, <1>6, <3>2
    <3>4. ListHeld(ms[n])
      BY <1>5, <3>1 DEF ListHeld, HoldsData
    <3>5. OperandHeld(ms, n)
      BY <1>5, <3>1, <3>3 DEF OperandHeld
    <3> QED BY <3>4, <3>5
  <2> QED BY <1>4, <2>1 DEF Shaped
<1>8. FoldedFrom(ms, src)
  <2>1. ASSUME NEW n \in DOMAIN nodes
        PROVE  ms[n].dims = src[n].dims /\ DataGood(ms, src, n)
    <3>1. nodes[n].dims = src[n].dims /\ DataGood(nodes, src, n)
      BY <1>1 DEF FoldedFrom
    <3> QED BY <1>5, <3>1 DEF DataGood, HoldsData
  <2> QED BY <1>1, <1>4, <2>1 DEF FoldedFrom
<1> QED BY <1>1, <1>2, <1>7, <1>8 DEF FoldInv

(* What stays after dead_code_eliminate keeps its operands before it.      *)
LEMMA DceSweepFolds ==
  ASSUME CompilerInv, FoldInv, DceSweep
  PROVE  FoldInv'
<1>1. /\ IsModule(nodes) /\ Closure(nodes, live) /\ nodes' = Compact(nodes, live)
      /\ Shaped(nodes) /\ pc' = "ready"
  BY SweepCompacts DEF FoldInv, DceSweep
<1>2. PICK S : S = live
  OBVIOUS
<1>3. PICK ms : ms = nodes'
  OBVIOUS
<1>4. Closure(nodes, S) /\ Compacts(ms, nodes, S)
  BY <1>1, <1>2, <1>3, CompactFacts
<1>5. PICK N \in Nat : N = Len(nodes) /\ DOMAIN nodes = 1 .. N /\ S \subseteq 1 .. N
  BY <1>1, <1>4, ModuleFacts DEF Closure
<1>6. ASSUME NEW k \in DOMAIN ms PROVE ListHeld(ms[k]) /\ OperandHeld(ms, k)
  <2>1. PICK n : n = Nth(S, k)
    OBVIOUS
  <2>2. /\ n \in S /\ Rank(S, n) = k
        /\ ms[k].op = nodes[n].op /\ ms[k].dims = nodes[n].dims /\ ms[k].data = nodes[n].data
        /\ ms[k].inputs = [i \in DOMAIN nodes[n].inputs |-> Rank(S, nodes[n].inputs[i])]
    BY <1>4, <2>1 DEF Compacts
  <2>3. ListHeld(nodes[n]) /\ OperandHeld(nodes, n) /\ n \in 1 .. N
    BY <1>1, <1>5, <2>2 DEF Shaped
  <2>4. ListHeld(ms[k])
    BY <2>2, <2>3 DEF ListHeld, HoldsData
  <2>5. ASSUME ms[k].op \in {"Relu", "Gelu", "Cast", "Reshape"}, Len(ms[k].inputs) = 1,
               ms[k].inputs[1] \in 1 .. k - 1
        PROVE  Holds(ms[ms[k].inputs[1]].dims, ms[k].dims)
    <3>1. nodes[n].inputs \in Seq(Nat) /\ ms[k].inputs \in Seq(Nat)
      BY <1>1, <1>4, <1>5, <2>3, ModuleFacts DEF Compacts
    <3>2. DOMAIN ms[k].inputs = 1 .. 1 /\ DOMAIN nodes[n].inputs = 1 .. 1 /\ Len(nodes[n].inputs) = 1
      <4>1. DOMAIN ms[k].inputs = 1 .. 1
        BY <2>5, <3>1
      <4>2. DOMAIN nodes[n].inputs = DOMAIN ms[k].inputs
        BY <2>2
      <4>3. PICK q \in Seq(Nat) : q = nodes[n].inputs
        BY <3>1
      <4>4. DOMAIN q = 1 .. Len(q) /\ Len(q) \in Nat /\ DOMAIN q = 1 .. 1
        BY <4>1, <4>2, <4>3
      <4>5. Len(q) = 1
        <5>1. PICK h \in Nat : h = Len(q) /\ 1 .. h = 1 .. 1
          BY <4>4
        <5>2. 1 \in 1 .. h
          BY <5>1
        <5>3. h \in 1 .. h
          BY <5>2
        <5> QED BY <5>1, <5>2, <5>3
      <4> QED BY <4>1, <4>2, <4>3, <4>5
    <3>3. PICK j : j = nodes[n].inputs[1]
      OBVIOUS
    <3>4. ms[k].inputs[1] = Rank(S, j)
      BY <2>2, <3>2, <3>3
    <3>5. j \in S /\ j \in 1 .. N
      <4>1. j \in ToSet(nodes[n].inputs)
        BY <3>2, <3>3 DEF ToSet
      <4> QED BY <1>4, <1>5, <2>2, <4>1 DEF Closure
    <3>6. j < n
      <4>1. Rank(S, j) \in 1 .. k - 1 /\ k \in Nat
        <5>1. Cardinality(S) \in Nat /\ DOMAIN ms = 1 .. Cardinality(S)
          BY <1>4, <1>5, CountBound DEF Compacts
        <5> QED BY <2>5, <3>4, <5>1
      <4>2. n < j => Rank(S, n) < Rank(S, j)
        <5>1. n \in Nat /\ j \in Nat /\ N \in Nat
          BY <2>3, <3>5
        <5> QED BY <1>5, <2>2, <3>5, <5>1, RankMonotone
      <4>3. n # j /\ ~(n < j)
        BY <2>2, <4>1, <4>2
      <4> QED BY <2>3, <3>5, <4>3
    <3>7. Holds(nodes[j].dims, nodes[n].dims)
      <4>1. j \in 1 .. n - 1
        BY <2>3, <3>5, <3>6
      <4> QED BY <2>2, <2>3, <2>5, <3>2, <3>3, <4>1 DEF OperandHeld
    <3>8. ms[Rank(S, j)].dims = nodes[j].dims
      <4>1. Rank(S, j) \in DOMAIN ms /\ Nth(S, Rank(S, j)) = j
        BY <1>4, <3>5 DEF Compacts
      <4> QED BY <1>4, <4>1 DEF Compacts
    <3> QED BY <2>2, <3>4, <3>7, <3>8
  <2> QED BY <2>4, <2>5 DEF OperandHeld
<1>7. Shaped(ms)
  BY <1>6 DEF Shaped
<1> QED BY <1>1, <1>3, <1>7 DEF FoldInv

LEMMA FoldInvInductive == CompilerInv /\ FoldInv /\ [CompilerNext]_compilerVars => FoldInv'
<1> SUFFICES ASSUME CompilerInv, FoldInv, [CompilerNext]_compilerVars PROVE FoldInv'
  OBVIOUS
<1>1. CASE UNCHANGED compilerVars
  BY <1>1 DEF compilerVars, FoldInv
<1>2. CASE Emit \/ EmitConstant
  BY <1>2, EmitFolds, EmitConstantFolds
<1>3. CASE SetOutputs
  BY <1>3 DEF SetOutputs, FoldInv
<1>4. CASE RunPipeline \/ FoldNode \/ InferLayout
  BY <1>4, RunPipelineFolds, FoldNodeFolds, InferLayoutFolds
<1>5. CASE FuseRoot \/ FuseExtend
  BY <1>5 DEF FuseRoot, FuseExtend, FoldInv
<1>6. CASE Plan
  BY <1>6 DEF Plan, FoldInv
<1>7. CASE DceBegin
  BY <1>7 DEF DceBegin, FoldInv
<1>8. CASE DceMark
  BY <1>8 DEF DceMark, FoldInv
<1>9. CASE DceSweep
  BY <1>9, DceSweepFolds
<1> QED BY <1>1, <1>2, <1>3, <1>4, <1>5, <1>6, <1>7, <1>8, <1>9 DEF CompilerNext

(* A folded node whose data fill its shape holds the value its expression  *)
(* has in the module the pass was given, unless it depends on a constant   *)
(* with more data than elements.                                           *)
THEOREM FoldingSound == CompilerSpec => []FoldSound
<1>1. FoldInv => FoldSound
  <2> SUFFICES ASSUME FoldInv, pc \in {"fold", "fuse"}, NEW n \in DOMAIN nodes,
                      HasData(n), Len(nodes[n].data) = Size(nodes[n].dims),
                      Reachable(source.nodes, <<n>>) \cap Overfull(source.nodes) = {}
               PROVE  nodes[n].data = Values(source.nodes)[n]
    BY DEF FoldSound
  <2>1. Clean(source.nodes, n) /\ HoldsData(nodes[n]) /\ DataGood(nodes, source.nodes, n)
    BY DEF FoldInv, FoldedFrom, HasData, HoldsData, Clean
  <2> QED BY <2>1 DEF DataGood, GoodData
<1>2. CompilerInit => CompilerInv /\ FoldInv
  BY CompilerInvInit, FoldInvInit
<1>3. CompilerInv /\ FoldInv /\ [CompilerNext]_compilerVars => (CompilerInv /\ FoldInv)'
  BY CompilerInvInductive, FoldInvInductive
<1> QED BY <1>1, <1>2, <1>3, PTL DEF CompilerSpec

-----------------------------------------------------------------------------
(* Graph.  A node that was fused has one bias input more than it was given *)
(* and did not have it before; the others have what they were given.       *)
GraphNode == [op : {"Input", "Gemm", "Softmax", "FusedGemmBias"}, inputs : Seq(Nat), bias : BOOLEAN]

OneBias(node, inputs, ids) == \E i \in ids \ ToSet(inputs) : node.inputs = Append(inputs, i)

FusedOrAsGiven(node, inputs, ids) ==
  IF node.op = "FusedGemmBias" THEN OneBias(node, inputs, ids) ELSE node.inputs = inputs

GraphInv ==
  /\ graph \in Seq(GraphNode) /\ given \in Seq(Seq(Nat)) /\ Len(given) = Len(graph)
  /\ \A n \in DOMAIN graph : FusedOrAsGiven(graph[n], given[n], G!BiasIds)

LEMMA SameToSet == ASSUME NEW s PROVE G!ToSet(s) = ToSet(s)
BY DEF ToSet, G!ToSet

LEMMA OneBiasMore ==
  ASSUME NEW node, NEW inputs, NEW ids, NEW more, ids \subseteq more, FusedOrAsGiven(node, inputs, ids)
  PROVE  FusedOrAsGiven(node, inputs, more)
BY DEF FusedOrAsGiven, OneBias

(* A node after another one, in terms of the sequences alone.              *)
LEMMA GraphGrows ==
  ASSUME GraphInv, NEW node \in GraphNode, NEW inputs \in Seq(Nat),
         node.op # "FusedGemmBias", node.inputs = inputs,
         graph' = Append(graph, node), given' = Append(given, inputs)
  PROVE  GraphInv' /\ G!BiasIds \subseteq G!BiasIds'
<1>0. PICK n \in Nat : n = Len(graph)
  BY DEF GraphInv
<1>1. DOMAIN graph = 1 .. n /\ DOMAIN given = 1 .. n /\ Len(given) = n
  BY <1>0 DEF GraphInv
<1>2. /\ graph' \in Seq(GraphNode) /\ given' \in Seq(Seq(Nat)) /\ Len(given') = Len(graph')
      /\ DOMAIN graph' = 1 .. n + 1
      /\ \A k \in 1 .. n : graph'[k] = graph[k] /\ given'[k] = given[k]
      /\ graph'[n + 1] = node /\ given'[n + 1] = inputs
  BY <1>0, <1>1 DEF GraphInv
<1>3. G!BiasIds \subseteq G!BiasIds'
  <2>1. \A k \in DOMAIN graph : k \in DOMAIN graph' /\ graph'[k] = graph[k]
    BY <1>1, <1>2
  <2> QED BY <2>1 DEF G!BiasIds
<1>4. \A k \in 1 .. n + 1 : FusedOrAsGiven(graph'[k], given'[k], G!BiasIds')
  <2> SUFFICES ASSUME NEW k \in 1 .. n + 1 PROVE FusedOrAsGiven(graph'[k], given'[k], G!BiasIds')
    OBVIOUS
  <2>1. CASE k \in 1 .. n
    <3>1. FusedOrAsGiven(graph[k], given[k], G!BiasIds)
      BY <1>1, <2>1 DEF GraphInv
    <3>2. FusedOrAsGiven(graph[k], given[k], G!BiasIds')
      BY <1>3, <3>1, OneBiasMore
    <3> QED BY <1>2, <2>1, <3>2
  <2>2. CASE k = n + 1
    BY <1>2, <2>2 DEF FusedOrAsGiven
  <2>3. k \in 1 .. n \/ k = n + 1
    OBVIOUS
  <2> QED BY <2>1, <2>2, <2>3
<1> QED BY <1>2, <1>3, <1>4 DEF GraphInv

LEMMA AddKeeps ==
  ASSUME GraphInv, NEW op \in {"Input", "Gemm", "Softmax"}, NEW inputs \in Seq(Nat),
         NEW bias \in BOOLEAN, G!add(op, inputs, bias)
  PROVE  GraphInv' /\ G!BiasIds \subseteq G!BiasIds'
<1> DEFINE node == [op |-> op, inputs |-> inputs, bias |-> bias]
<1>1. graph' = Append(graph, node) /\ given' = Append(given, inputs)
  BY DEF G!add
<1>2. node \in GraphNode /\ node.inputs = inputs /\ node.op # "FusedGemmBias"
  BY DEF GraphNode
<1> HIDE DEF node
<1> QED BY <1>1, <1>2, GraphGrows

(* The input fuse_linear_bias adds is the first that may be added.         *)
LEMMA FirstCandidate ==
  ASSUME NEW S, S \subseteq Nat, S # {}
  PROVE  G!Min(S) \in S
<1>1. \E x \in S : \A y \in S : x <= y
  BY LeastOf
<1> QED BY <1>1 DEF G!Min

LEMMA BiasIdsNat == GraphInv => G!BiasIds \subseteq Nat
<1> SUFFICES ASSUME GraphInv, NEW i \in G!BiasIds PROVE i \in Nat
  OBVIOUS
<1>1. PICK n \in DOMAIN graph : i = n - 1
  BY DEF G!BiasIds
<1>2. Len(graph) \in Nat /\ DOMAIN graph = 1 .. Len(graph)
  BY DEF GraphInv
<1> QED BY <1>1, <1>2

(* One node of the rewritten graph.                                        *)
LEMMA FusedNodeFacts ==
  ASSUME NEW node \in GraphNode, NEW inputs \in Seq(Nat), G!BiasIds \subseteq Nat,
         FusedOrAsGiven(node, inputs, G!BiasIds)
  PROVE  /\ G!FusedNode(node) \in GraphNode
         /\ FusedOrAsGiven(G!FusedNode(node), inputs, G!BiasIds)
         /\ G!FusedNode(node).op = "Input" <=> node.op = "Input"
         /\ G!FusedNode(node).bias = node.bias
         /\ \/ G!FusedNode(node) = node
            \/ /\ node.op = "Gemm" /\ G!Candidates(node) # {}
               /\ ToSet(G!FusedNode(node).inputs) =
                    ToSet(node.inputs) \cup {G!Min(G!Candidates(node))}
<1>0. node = [op |-> node.op, inputs |-> node.inputs, bias |-> node.bias] /\ node.inputs \in Seq(Nat)
  BY DEF GraphNode
<1>1. CASE ~(node.op = "Gemm" /\ G!Candidates(node) # {})
  <2>1. G!FusedNode(node) = node
    BY <1>1 DEF G!FusedNode
  <2> QED BY <2>1
<1>2. CASE node.op = "Gemm" /\ G!Candidates(node) # {}
  <2>1. PICK c : c = G!Min(G!Candidates(node))
    OBVIOUS
  <2>2. c \in G!BiasIds \ ToSet(node.inputs) /\ c \in Nat
    <3>1. G!Candidates(node) = G!BiasIds \ ToSet(node.inputs)
      BY SameToSet DEF G!Candidates
    <3>2. G!Candidates(node) \subseteq Nat
      BY <3>1
    <3>3. G!Min(G!Candidates(node)) \in G!Candidates(node)
      BY <1>2, <3>2, FirstCandidate
    <3> QED BY <2>1, <3>1, <3>2, <3>3
  <2> DEFINE r == [node EXCEPT !.op = "FusedGemmBias"]
             m == [r EXCEPT !.inputs = Append(node.inputs, c)]
  <2>3. G!FusedNode(node) = m
    <3>1. G!FusedNode(node) = [node EXCEPT !.op = "FusedGemmBias", !.inputs = Append(@, c)]
      BY <1>2, <2>1 DEF G!FusedNode
    <3> QED BY <1>0, <3>1
  <2>4. r = [op |-> "FusedGemmBias", inputs |-> node.inputs, bias |-> node.bias]
    <3>1. node = [op |-> node.op, inputs |-> node.inputs, bias |-> node.bias]
      BY <1>0
    <3> QED BY <3>1
  <2> HIDE DEF r
  <2>5. m = [op |-> "FusedGemmBias", inputs |-> Append(node.inputs, c), bias |-> node.bias]
    <3>1. PICK s : s = Append(node.inputs, c)
      OBVIOUS
    <3>2. [r EXCEPT !.inputs = s] = [op |-> "FusedGemmBias", inputs |-> s, bias |-> node.bias]
      BY <2>4
    <3> QED BY <3>1, <3>2
  <2> HIDE DEF m
  <2>6. Append(node.inputs, c) \in Seq(Nat) /\ node.bias \in BOOLEAN
    BY <1>0, <2>2 DEF GraphNode
  <2>7. m \in GraphNode /\ m.op = "FusedGemmBias" /\ m.inputs = Append(node.inputs, c) /\ m.bias = node.bias
    BY <2>5, <2>6 DEF GraphNode
  <2>8. node.inputs = inputs
    BY <1>2 DEF FusedOrAsGiven
  <2>9. FusedOrAsGiven(m, inputs, G!BiasIds)
    BY <2>2, <2>7, <2>8 DEF FusedOrAsGiven, OneBias
  <2>10. ToSet(m.inputs) = ToSet(node.inputs) \cup {c}
    <3>1. PICK k \in Nat : k = Len(node.inputs)
      BY <1>0
    <3>2. PICK s : s = Append(node.inputs, c)
      OBVIOUS
    <3>3. DOMAIN s = 1 .. k + 1 /\ (\A i \in 1 .. k : s[i] = node.inputs[i]) /\ s[k + 1] = c
      BY <1>0, <2>2, <3>1, <3>2
    <3>4. DOMAIN node.inputs = 1 .. k
      BY <1>0, <3>1
    <3>5. ToSet(s) = ToSet(node.inputs) \cup {c}
      <4>1. \A x : x \in ToSet(s) <=> \E i \in 1 .. k + 1 : s[i] = x
        BY <3>3 DEF ToSet
      <4>2. \A x : x \in ToSet(node.inputs) <=> \E i \in 1 .. k : node.inputs[i] = x
        BY <3>4 DEF ToSet
      <4>3. \A x : (\E i \in 1 .. k + 1 : s[i] = x) <=> (\E i \in 1 .. k : node.inputs[i] = x) \/ x = c
        BY <3>3
      <4> QED BY <4>1, <4>2, <4>3
    <3> QED BY <2>7, <3>2, <3>5
  <2> QED BY <1>2, <2>1, <2>3, <2>7, <2>9, <2>10
<1> QED BY <1>1, <1>2

LEMMA FuseFacts ==
  ASSUME GraphInv, G!fuse_linear_bias
  PROVE  /\ GraphInv' /\ G!BiasIds' = G!BiasIds
         /\ G!validate /\ G!BiasFirst => G!validate'
<1>0. PICK n \in Nat : n = Len(graph)
  BY DEF GraphInv
<1>1. DOMAIN graph = 1 .. n /\ DOMAIN given = 1 .. n /\ given' = given /\ G!BiasIds \subseteq Nat
  BY <1>0, BiasIdsNat DEF GraphInv, G!fuse_linear_bias
<1>2. CASE ~G!validate
  <2>1. graph' = graph
    BY <1>2 DEF G!fuse_linear_bias
  <2> QED BY <1>1, <1>2, <2>1 DEF GraphInv, G!BiasIds
<1>3. CASE G!validate
  <2>1. graph' = [k \in 1 .. n |-> G!FusedNode(graph[k])]
    BY <1>1, <1>3 DEF G!fuse_linear_bias
  <2>2. \A k \in 1 .. n : graph[k] \in GraphNode /\ given[k] \in Seq(Nat)
                          /\ FusedOrAsGiven(graph[k], given[k], G!BiasIds)
    <3>1. (\A k \in 1 .. n : graph[k] \in GraphNode) /\ (\A k \in 1 .. n : given[k] \in Seq(Nat))
      BY <1>1 DEF GraphInv
    <3>2. \A k \in 1 .. n : FusedOrAsGiven(graph[k], given[k], G!BiasIds)
      BY <1>1 DEF GraphInv
    <3> QED BY <3>1, <3>2
  <2>3. \A k \in 1 .. n : G!FusedNode(graph[k]) \in GraphNode
    BY <1>1, <2>2, FusedNodeFacts
  <2>4. graph' \in Seq(GraphNode) /\ Len(graph') = n /\ DOMAIN graph' = 1 .. n
    BY <2>1, <2>3
  <2>5. \A k \in 1 .. n : /\ (graph'[k].op = "Input" <=> graph[k].op = "Input")
                          /\ graph'[k].bias = graph[k].bias
    BY <1>1, <2>1, <2>2, FusedNodeFacts
  <2>6. G!BiasIds' = G!BiasIds
    BY <1>1, <2>4, <2>5 DEF G!BiasIds
  <2>7. \A k \in 1 .. n : FusedOrAsGiven(graph'[k], given'[k], G!BiasIds')
    <3> SUFFICES ASSUME NEW k \in 1 .. n PROVE FusedOrAsGiven(graph'[k], given'[k], G!BiasIds')
      OBVIOUS
    <3>1. FusedOrAsGiven(G!FusedNode(graph[k]), given[k], G!BiasIds)
      BY <1>1, <2>2, FusedNodeFacts
    <3>2. graph'[k] = G!FusedNode(graph[k]) /\ given'[k] = given[k]
      BY <1>1, <2>1
    <3> QED BY <2>6, <3>1, <3>2
  <2>8. GraphInv'
    <3>1. (given \in Seq(Seq(Nat)) /\ Len(given) = n)'
      BY <1>0, <1>1 DEF GraphInv
    <3> QED BY <2>4, <2>7, <3>1 DEF GraphInv
  <2>9. ASSUME G!BiasFirst PROVE G!validate'
    <3> SUFFICES ASSUME NEW k \in 1 .. n, NEW i \in ToSet(graph'[k].inputs) PROVE i \in 0 .. k - 2
      BY <2>4, SameToSet DEF G!validate
    <3>1. graph'[k] = G!FusedNode(graph[k])
      BY <2>1
    <3>2. CASE i \in ToSet(graph[k].inputs)
      BY <1>1, <1>3, <3>2, SameToSet DEF G!validate
    <3>3. CASE /\ graph[k].op = "Gemm" /\ G!Candidates(graph[k]) # {}
               /\ i = G!Min(G!Candidates(graph[k]))
      <4>1. G!Candidates(graph[k]) \subseteq Nat
        BY <1>1 DEF G!Candidates
      <4>2. i \in Nat
        BY <3>3, <4>1, FirstCandidate
      <4>3. i < k - 1
        BY <1>1, <2>9, <3>3 DEF G!BiasFirst
      <4> QED BY <4>2, <4>3
    <3>4. \/ i \in ToSet(graph[k].inputs)
          \/ /\ graph[k].op = "Gemm" /\ G!Candidates(graph[k]) # {}
             /\ i = G!Min(G!Candidates(graph[k]))
      <4>1. \/ G!FusedNode(graph[k]) = graph[k]
            \/ /\ graph[k].op = "Gemm" /\ G!Candidates(graph[k]) # {}
               /\ ToSet(G!FusedNode(graph[k]).inputs) =
                    ToSet(graph[k].inputs) \cup {G!Min(G!Candidates(graph[k]))}
        BY <1>1, <2>2, FusedNodeFacts
      <4> QED BY <3>1, <4>1
    <3> QED BY <3>2, <3>3, <3>4
  <2> QED BY <2>6, <2>8, <2>9
<1> QED BY <1>2, <1>3

LEMMA GraphInvInit == G!Init => GraphInv
<1> SUFFICES ASSUME G!Init PROVE GraphInv
  OBVIOUS
<1>1. graph = << >> /\ given = << >>
  BY DEF G!Init
<1> QED BY <1>1 DEF GraphInv

(* Additions are of a kind.                                                *)
LEMMA Additions ==
  ASSUME G!Next, GraphInv
  PROVE  \/ \E op \in {"Input", "Gemm", "Softmax"}, inputs \in Seq(Nat), bias \in BOOLEAN :
              G!add(op, inputs, bias)
         \/ G!fuse_linear_bias
<1>1. ASSUME NEW bias \in BOOLEAN, G!input(bias)
      PROVE  \E op \in {"Input", "Gemm", "Softmax"}, inputs \in Seq(Nat), b \in BOOLEAN :
               G!add(op, inputs, b)
  <2>1. G!add("Input", << >>, bias) /\ << >> \in Seq(Nat)
    BY <1>1 DEF G!input
  <2> QED BY <2>1
<1>2. ASSUME NEW op \in {"Gemm", "Softmax"}, NEW k \in 0 .. MaxInputs,
             NEW inputs \in [1 .. k -> 0 .. Len(graph) + Beyond], G!add(op, inputs, FALSE)
      PROVE  \E o \in {"Input", "Gemm", "Softmax"}, i \in Seq(Nat), b \in BOOLEAN : G!add(o, i, b)
  <2>1. k \in Nat /\ Len(graph) + Beyond \in Nat
    BY GraphAssumption DEF GraphInv
  <2>2. inputs \in [1 .. k -> Nat]
    BY <2>1
  <2>3. inputs \in Seq(Nat)
    BY <2>1, <2>2
  <2> QED BY <1>2, <2>3
<1> QED BY <1>1, <1>2 DEF G!Next

LEMMA GraphSteps ==
  ASSUME GraphInv, [G!Next]_G!vars
  PROVE  /\ GraphInv' /\ G!BiasIds \subseteq G!BiasIds'
         /\ G!fuse_linear_bias /\ G!validate /\ G!BiasFirst => G!validate'
<1>1. CASE G!Next
  <2>1. ASSUME NEW op \in {"Input", "Gemm", "Softmax"}, NEW inputs \in Seq(Nat),
               NEW bias \in BOOLEAN, G!add(op, inputs, bias)
        PROVE  GraphInv' /\ G!BiasIds \subseteq G!BiasIds'
    BY <2>1, AddKeeps
  <2>2. G!fuse_linear_bias =>
          /\ GraphInv' /\ G!BiasIds' = G!BiasIds
          /\ (G!validate /\ G!BiasFirst => G!validate')
    BY FuseFacts
  <2> QED BY <1>1, <2>1, <2>2, Additions
<1>2. CASE UNCHANGED G!vars
  BY <1>2, FuseFacts DEF G!vars, GraphInv, G!BiasIds
<1> QED BY <1>1, <1>2

(* After a step, nodes that are fused are as the invariant says.           *)
LEMMA FusedOnceMore ==
  ASSUME GraphInv, [G!Next]_G!vars
  PROVE  \A n \in DOMAIN graph : graph'[n].op = "FusedGemmBias" =>
           \E i \in G!BiasIds' \ G!ToSet(given[n]) : graph'[n].inputs = Append(given[n], i)
<1> SUFFICES ASSUME NEW n \in DOMAIN graph, graph'[n].op = "FusedGemmBias"
             PROVE  OneBias(graph'[n], given[n], G!BiasIds')
  BY SameToSet DEF OneBias
<1>1. GraphInv'
  BY GraphSteps
<1>2. n \in DOMAIN graph' /\ given'[n] = given[n]
  <2>0. PICK len \in Nat : len = Len(graph)
    BY DEF GraphInv
  <2>1. DOMAIN graph = 1 .. len /\ DOMAIN given = 1 .. len /\ Len(given) = len /\ graph \in Seq(GraphNode)
    BY <2>0 DEF GraphInv
  <2>2. CASE UNCHANGED G!vars
    BY <2>2 DEF G!vars
  <2>3. ASSUME NEW op, NEW inputs \in Seq(Nat), NEW bias, G!add(op, inputs, bias)
        PROVE  n \in DOMAIN graph' /\ given'[n] = given[n]
    <3>1. given' = Append(given, inputs) /\ given \in Seq(Seq(Nat))
      BY <2>3 DEF G!add, GraphInv
    <3>2. Len(given') = len + 1 /\ given'[n] = given[n]
      <4>1. \A S, q, e : q \in Seq(S) /\ e \in S /\ Len(q) = len =>
              Len(Append(q, e)) = len + 1 /\ \A i \in 1 .. len : Append(q, e)[i] = q[i]
        OBVIOUS
      <4> QED BY <2>1, <3>1, <4>1
    <3>3. DOMAIN graph' = 1 .. len + 1
      <4>1. graph' \in Seq(GraphNode) /\ Len(graph') = len + 1
        BY <1>1, <3>2 DEF GraphInv
      <4> QED BY <4>1
    <3> QED BY <2>1, <3>2, <3>3
  <2>4. CASE G!fuse_linear_bias
    <3>1. given' = given
      BY <2>4 DEF G!fuse_linear_bias
    <3>2. DOMAIN graph' = 1 .. len
      BY <1>1, <2>1, <3>1 DEF GraphInv
    <3> QED BY <2>1, <3>1, <3>2
  <2> QED BY <2>2, <2>3, <2>4, Additions
<1>3. FusedOrAsGiven(graph'[n], given'[n], G!BiasIds')
  BY <1>1, <1>2 DEF GraphInv
<1> QED BY <1>2, <1>3 DEF FusedOrAsGiven

(* A node is fused once, with the inputs it was given and one bias input   *)
(* more, and the graph stays valid where biases come first                 *)
(* (Graph::fuse_linear_bias).                                              *)
THEOREM GraphFusedOnce == G!Spec => FuseKeepsValid
<1>1. G!Init => GraphInv
  BY GraphInvInit
<1>2. GraphInv /\ [G!Next]_G!vars => GraphInv'
  BY GraphSteps
<1> DEFINE A == /\ \A n \in DOMAIN graph : graph'[n].op = "FusedGemmBias" =>
                     \E i \in G!BiasIds' \ G!ToSet(given[n]) : graph'[n].inputs = Append(given[n], i)
                /\ G!fuse_linear_bias /\ G!validate /\ G!BiasFirst => G!validate'
<1>3. GraphInv /\ [G!Next]_G!vars => A
  BY GraphSteps, FusedOnceMore
<1>4. FuseKeepsValid <=> [][A]_G!vars
  BY DEF FuseKeepsValid, G!FuseKeepsValid
<1> HIDE DEF A
<1>5. G!Spec => [][A]_G!vars
  BY <1>1, <1>2, <1>3, PTL DEF G!Spec
<1> QED BY <1>4, <1>5
=============================================================================
