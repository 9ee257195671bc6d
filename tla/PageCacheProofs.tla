--------------------------- MODULE PageCacheProofs ---------------------------
(***************************************************************************)
(* Proofs about the page cache of the Kama pool, for an address space, a   *)
(* granularity and a budget of any size: the page map and the free lists   *)
(* are exact, whole free origins stay within the budget, and the page      *)
(* cache implements SpanPool.  The first part proves the same of v2: its   *)
(* two maps and its lists are exact, and it implements SpanPool too.       *)
(***************************************************************************)
EXTENDS MCPageCache, SelectionProofs

-----------------------------------------------------------------------------
(* The page cache of v2.                                                   *)

(* Spans, given by first page and length, that lie in the address space    *)
(* and do not overlap; and the pages in them.                              *)
Tiled(S) ==
  /\ S \in [Page -> Nat]
  /\ \A b \in Page : b + S[b] <= NumPages + 1
  /\ \A b, c \in Page : b < c /\ S[b] > 0 /\ S[c] > 0 => b + S[b] <= c

Covers(S, p) == \E b \in Page : b <= p /\ p < b + S[b]

(* The spans in G are in the lists of their lengths, once each; no other   *)
(* span is in a list.                                                      *)
Holds(L, S, G) ==
  /\ L \in [Page -> Seq(Page)]
  /\ G \subseteq Page /\ \A b \in G : S[b] > 0
  /\ \A k \in Page : IsInjective(L[k]) /\ ToSet(L[k]) = {b \in G : S[b] = k}

(* Runs of pages <<address, length>> the system has mapped.                *)
Mapped(U) ==
  /\ U \subseteq Page \X Page
  /\ \A a \in U : a[1] + a[2] <= NumPages + 1
  /\ \A a, o \in U : \A p \in Page :
       a[1] <= p /\ p < a[1] + a[2] /\ o[1] <= p /\ p < o[1] + o[2] => a = o

InMapped(U, p) == \E a \in U : a[1] <= p /\ p < a[1] + a[2]

FreeIn(S, A) == {b \in Page : S[b] > 0 /\ A[b] = 0}

(* No two free spans are neighbours.                                       *)
Apart(S, G) == \A b \in G : b + S[b] \notin G

StateV2(S, L, U, A) ==
  /\ Tiled(S) /\ Mapped(U)
  /\ \A p \in Page : Covers(S, p) <=> InMapped(U, p)
  /\ A \in [Page -> Nat]
  /\ \A b \in Page : A[b] > 0 => A[b] = S[b]
  /\ Holds(L, S, FreeIn(S, A))
  /\ Apart(S, FreeIn(S, A))

(* The changes allocateSpan and deallocateSpan are made of.                *)
IsCut(T, S, b, n)  == T = [S EXCEPT ![b] = n, ![b + n] = S[b] - n]
IsJoin(T, S, a, c) == T = [S EXCEPT ![a] = S[a] + S[c], ![c] = 0]
IsSet(T, S, b, n)  == T = [S EXCEPT ![b] = n]

CutAt(T, S, b, n) ==
  /\ b + n \in Page /\ b + n # b /\ S[b + n] = 0
  /\ T[b] = n /\ T[b + n] = S[b] - n
  /\ \A c \in Page : c # b /\ c # b + n => T[c] = S[c]
  /\ Tiled(T)
  /\ \A p \in Page : Covers(T, p) <=> Covers(S, p)

Popped(L, k)     == [L EXCEPT ![k] = Tail(@)]
Fronted(L, k, b) == [L EXCEPT ![k] = <<b>> \o @]
Dropped(L, k, b) == [L EXCEPT ![k] = Kept(@, {i \in DOMAIN @ : @[i] # b})]

SameOn(G, T, S) == \A b \in G : T[b] = S[b]

InvV2 == StateV2(spans, freeSpansV2, systemAllocsV2, asked)

-----------------------------------------------------------------------------
(* Cutting, joining and adding spans.                                      *)

(* The greatest of some numbers below a bound.                             *)
LEMMA GreatestOf ==
  ASSUME NEW n \in Nat, NEW S, S \subseteq Nat, \A y \in S : y < n, S # {}
  PROVE  \E x \in S : \A y \in S : x >= y
<1> DEFINE R == {n - y : y \in S}
<1>0. \A y \in S : n - y \in Nat
  OBVIOUS
<1>1. R \subseteq Nat /\ R # {}
  BY <1>0
<1>2. PICK r \in R : \A q \in R : r <= q
  BY <1>1, LeastOf
<1>3. PICK x \in S : r = n - x
  OBVIOUS
<1>4. \A y \in S : n - x <= n - y
  BY <1>2, <1>3
<1> QED BY <1>4

LEMMA TiledCut ==
  ASSUME NEW S, Tiled(S), NEW b \in Page, NEW n \in Nat, 0 < n, n < S[b],
         NEW T, IsCut(T, S, b, n)
  PROVE  CutAt(T, S, b, n)
<1>1. /\ S \in [Page -> Nat] /\ \A c \in Page : c + S[c] <= NumPages + 1
      /\ \A d, c \in Page : d < c /\ S[d] > 0 /\ S[c] > 0 => d + S[d] <= c
  BY DEF Tiled
<1>2. b + n \in Page /\ b + n # b /\ S[b] \in Nat
  <2> DEFINE m == S[b]
  <2>1. m \in Nat /\ b + m <= NumPages + 1 /\ n < m
    BY <1>1
  <2> HIDE DEF m
  <2>2. b \in Nat /\ b >= 1
    BY DEF Page
  <2>3. b + n \in Nat /\ b + n >= 1 /\ b + n <= NumPages /\ b + n # b
    BY <2>1, <2>2, NumPagesAssumption
  <2>4. b + n \in Page
    BY <2>3 DEF Page
  <2> QED BY <2>1, <2>3, <2>4 DEF m
<1>3. S[b + n] = 0
  <2>1. S[b + n] \in Nat
    BY <1>1, <1>2
  <2> QED BY <1>1, <1>2, <2>1 DEF Page
<1>4. /\ T \in [Page -> Nat] /\ T[b] = n /\ T[b + n] = S[b] - n
      /\ \A c \in Page : c # b /\ c # b + n => T[c] = S[c]
  BY <1>1, <1>2 DEF IsCut
<1>s. \A c \in Page : S[c] \in Nat /\ T[c] \in Nat /\ c \in Nat
  BY <1>1, <1>4 DEF Page
<1>5. \A c \in Page : c + T[c] <= NumPages + 1
  <2> TAKE c \in Page
  <2>1. CASE c = b
    <3>1. S[b] \in Nat /\ b + S[b] <= NumPages + 1 /\ T[b] = n /\ b \in Nat
      BY <1>1, <1>4, <1>s
    <3> QED BY <2>1, <3>1, NumPagesAssumption
  <2>2. CASE c = b + n
    <3>1. c + T[c] = b + S[b]
      BY <1>4, <1>s, <2>2
    <3> QED BY <1>1, <3>1
  <2>3. CASE c # b /\ c # b + n
    BY <1>1, <1>4, <2>3
  <2> QED BY <2>1, <2>2, <2>3
<1>6. \A d, c \in Page : d < c /\ T[d] > 0 /\ T[c] > 0 => d + T[d] <= c
  <2> SUFFICES ASSUME NEW d \in Page, NEW c \in Page, d < c, T[d] > 0, T[c] > 0
               PROVE  d + T[d] <= c
    OBVIOUS
  <2>1. CASE d = b
    <3>1. c # b /\ (c = b + n \/ (S[c] > 0 /\ T[c] = S[c]))
      BY <1>4, <1>s, <2>1
    <3> QED BY <1>1, <1>4, <1>s, <2>1, <3>1
  <2>2. CASE d = b + n
    <3>1. c # b /\ c # b + n
      BY <1>s, <2>2
    <3>2. S[c] > 0 /\ b < c
      BY <1>4, <1>s, <2>2, <3>1
    <3>3. b + S[b] <= c
      BY <1>1, <3>2
    <3> QED BY <1>4, <1>s, <2>2, <3>3
  <2>3. CASE d # b /\ d # b + n
    <3>1. S[d] > 0 /\ T[d] = S[d]
      BY <1>4, <2>3
    <3>2. CASE c = b
      BY <1>1, <1>4, <1>s, <3>1, <3>2
    <3>3. CASE c = b + n
      <4>1. ~(b < d)
        <5>1. b < d => b + S[b] <= d
          BY <1>1, <3>1
        <5> QED BY <1>s, <3>3, <5>1
      <4>2. d < b
        BY <1>s, <2>3, <4>1
      <4>3. d + S[d] <= b
        BY <1>1, <1>s, <3>1, <4>2
      <4> QED BY <1>s, <3>1, <3>3, <4>3
    <3>4. CASE c # b /\ c # b + n
      BY <1>1, <1>4, <3>1, <3>4
    <3> QED BY <3>2, <3>3, <3>4
  <2> QED BY <2>1, <2>2, <2>3
<1>7. \A p \in Page : Covers(T, p) <=> Covers(S, p)
  <2> TAKE p \in Page
  <2>1. ASSUME NEW c \in Page, c <= p, p < c + T[c] PROVE Covers(S, p)
    <3>1. CASE c = b \/ c = b + n
      <4>1. b <= p /\ p < b + S[b]
        BY <1>4, <1>s, <2>1, <3>1
      <4> QED BY <4>1 DEF Covers
    <3>2. CASE c # b /\ c # b + n
      BY <1>4, <2>1, <3>2 DEF Covers
    <3> QED BY <3>1, <3>2
  <2>2. ASSUME NEW c \in Page, c <= p, p < c + S[c] PROVE Covers(T, p)
    <3>1. CASE c = b /\ p < b + n
      BY <1>4, <2>2, <3>1 DEF Covers
    <3>2. CASE c = b /\ p >= b + n
      BY <1>2, <1>4, <2>2, <3>2 DEF Covers, Page
    <3>3. CASE c # b
      <4>1. c # b + n
        BY <1>3, <1>s, <2>2
      <4> QED BY <1>4, <2>2, <3>3, <4>1 DEF Covers
    <3> QED BY <1>s, <3>1, <3>2, <3>3
  <2> QED BY <2>1, <2>2 DEF Covers
<1> QED BY <1>2, <1>3, <1>4, <1>5, <1>6, <1>7 DEF Tiled, CutAt

LEMMA TiledJoin ==
  ASSUME NEW S, Tiled(S), NEW a \in Page, NEW c \in Page,
         S[a] > 0, S[c] > 0, c = a + S[a],
         NEW T, IsJoin(T, S, a, c)
  PROVE  /\ a # c /\ T[a] = S[a] + S[c] /\ T[c] = 0
         /\ \A d \in Page : d # a /\ d # c => T[d] = S[d]
         /\ Tiled(T)
         /\ \A p \in Page : Covers(T, p) <=> Covers(S, p)
<1>1. /\ S \in [Page -> Nat] /\ \A d \in Page : d + S[d] <= NumPages + 1
      /\ \A d, e \in Page : d < e /\ S[d] > 0 /\ S[e] > 0 => d + S[d] <= e
  BY DEF Tiled
<1>2. a # c /\ S[a] \in Nat /\ S[c] \in Nat
  BY <1>1 DEF Page
<1>3. /\ T \in [Page -> Nat] /\ T[a] = S[a] + S[c] /\ T[c] = 0
      /\ \A d \in Page : d # a /\ d # c => T[d] = S[d]
  BY <1>1, <1>2 DEF IsJoin
<1>s. \A d \in Page : S[d] \in Nat /\ T[d] \in Nat /\ d \in Nat
  BY <1>1, <1>3 DEF Page
<1>4. \A d \in Page : d + T[d] <= NumPages + 1
  BY <1>1, <1>2, <1>3 DEF Page
<1>5. \A d, e \in Page : d < e /\ T[d] > 0 /\ T[e] > 0 => d + T[d] <= e
  <2> SUFFICES ASSUME NEW d \in Page, NEW e \in Page, d < e, T[d] > 0, T[e] > 0
               PROVE  d + T[d] <= e
    OBVIOUS
  <2>1. d # c /\ e # c /\ S[d] > 0 /\ S[e] > 0
    BY <1>3
  <2>2. CASE d = a
    <3>1. ~(e < c)
      BY <1>1, <1>s, <2>1, <2>2
    <3>2. c < e
      BY <1>s, <2>1, <3>1
    <3>3. c + S[c] <= e
      BY <1>1, <2>1, <3>2
    <3> QED BY <1>3, <1>s, <2>2, <3>3
  <2>3. CASE d # a
    BY <1>1, <1>3, <2>1, <2>3
  <2> QED BY <2>2, <2>3
<1>6. \A p \in Page : Covers(T, p) <=> Covers(S, p)
  <2> TAKE p \in Page
  <2>1. ASSUME NEW d \in Page, d <= p, p < d + T[d] PROVE Covers(S, p)
    <3>1. CASE d = a /\ p < c
      BY <1>2, <1>3, <2>1, <3>1 DEF Covers, Page
    <3>2. CASE d = a /\ p >= c
      BY <1>2, <1>3, <2>1, <3>2 DEF Covers, Page
    <3>3. CASE d # a
      <4>1. d # c
        BY <1>3, <1>s, <2>1 DEF Page
      <4> QED BY <1>3, <2>1, <3>3, <4>1 DEF Covers
    <3> QED BY <3>1, <3>2, <3>3 DEF Page
  <2>2. ASSUME NEW d \in Page, d <= p, p < d + S[d] PROVE Covers(T, p)
    <3>1. CASE d = a \/ d = c
      <4>1. a <= p /\ p < a + T[a]
        BY <1>3, <1>s, <2>2, <3>1
      <4> QED BY <4>1 DEF Covers
    <3>2. CASE d # a /\ d # c
      BY <1>3, <2>2, <3>2 DEF Covers
    <3> QED BY <3>1, <3>2
  <2> QED BY <2>1, <2>2 DEF Covers
<1> QED BY <1>2, <1>3, <1>4, <1>5, <1>6 DEF Tiled

LEMMA TiledAdd ==
  ASSUME NEW S, Tiled(S), NEW b \in Page, NEW n \in Nat, 0 < n, b + n <= NumPages + 1,
         \A p \in Page : b <= p /\ p < b + n => ~Covers(S, p),
         NEW T, IsSet(T, S, b, n)
  PROVE  /\ S[b] = 0 /\ T[b] = n /\ \A c \in Page : c # b => T[c] = S[c]
         /\ Tiled(T)
         /\ \A p \in Page : Covers(T, p) <=> Covers(S, p) \/ (b <= p /\ p < b + n)
<1>1. /\ S \in [Page -> Nat] /\ \A d \in Page : d + S[d] <= NumPages + 1
      /\ \A d, e \in Page : d < e /\ S[d] > 0 /\ S[e] > 0 => d + S[d] <= e
  BY DEF Tiled
<1>2. \A p, c \in Page : b <= p /\ p < b + n => ~(c <= p /\ p < c + S[c])
  BY DEF Covers
<1>3. S[b] = 0
  BY <1>1, <1>2 DEF Page
<1>4. T \in [Page -> Nat] /\ T[b] = n /\ \A c \in Page : c # b => T[c] = S[c]
  BY <1>1 DEF IsSet
<1>5. \A d \in Page : d + T[d] <= NumPages + 1
  BY <1>1, <1>4 DEF Page
<1>6. \A d, e \in Page : d < e /\ T[d] > 0 /\ T[e] > 0 => d + T[d] <= e
  <2> SUFFICES ASSUME NEW d \in Page, NEW e \in Page, d < e, T[d] > 0, T[e] > 0
               PROVE  d + T[d] <= e
    OBVIOUS
  <2>1. CASE d = b
    <3>1. T[e] = S[e] /\ T[d] = n
      BY <1>4, <2>1 DEF Page
    <3>2. ~(b <= e /\ e < b + n /\ e <= e /\ e < e + S[e])
      BY <1>2
    <3> QED BY <1>1, <2>1, <3>1, <3>2 DEF Page
  <2>2. CASE e = b
    <3>1. T[d] = S[d]
      BY <1>4, <2>2 DEF Page
    <3>2. ~(b <= b /\ b < b + n /\ d <= b /\ b < d + S[d])
      BY <1>2
    <3> QED BY <1>1, <2>2, <3>1, <3>2 DEF Page
  <2>3. CASE d # b /\ e # b
    BY <1>1, <1>4, <2>3
  <2> QED BY <2>1, <2>2, <2>3
<1>7. \A p \in Page : Covers(T, p) <=> Covers(S, p) \/ (b <= p /\ p < b + n)
  <2> TAKE p \in Page
  <2>1. ASSUME NEW c \in Page, c <= p, p < c + S[c] PROVE c # b
    BY <1>3, <2>1 DEF Page
  <2>2. Covers(S, p) => Covers(T, p)
    BY <1>4, <2>1 DEF Covers
  <2>3. Covers(T, p) => Covers(S, p) \/ (b <= p /\ p < b + n)
    BY <1>4 DEF Covers
  <2>4. b <= p /\ p < b + n => Covers(T, p)
    BY <1>4 DEF Covers
  <2> QED BY <2>2, <2>3, <2>4
<1> QED BY <1>3, <1>4, <1>5, <1>6, <1>7 DEF Tiled

-----------------------------------------------------------------------------
(* The lists.                                                              *)

LEMMA SameLengths ==
  ASSUME NEW L, NEW S, NEW T, NEW G, Holds(L, S, G), SameOn(G, T, S)
  PROVE  Holds(L, T, G)
<1>1. \A k : {b \in G : T[b] = k} = {b \in G : S[b] = k}
  BY DEF SameOn
<1> QED BY <1>1 DEF Holds, SameOn

(* The first span of a list is taken.                                      *)
LEMMA HeadLeaves ==
  ASSUME NEW L, NEW S, NEW G, Holds(L, S, G), NEW k \in Page, L[k] # << >>
  PROVE  /\ Head(L[k]) \in G /\ S[Head(L[k])] = k
         /\ Holds(Popped(L, k), S, G \ {Head(L[k])})
<1> DEFINE b == Head(L[k])
           M == [L EXCEPT ![k] = Tail(@)]
<1>1. /\ L \in [Page -> Seq(Page)] /\ G \subseteq Page /\ \A c \in G : S[c] > 0
      /\ \A l \in Page : IsInjective(L[l]) /\ ToSet(L[l]) = {c \in G : S[c] = l}
  BY DEF Holds
<1>2. L[k] \in Seq(Page) /\ IsInjective(L[k])
  BY <1>1
<1>3. /\ b \in ToSet(L[k]) /\ Tail(L[k]) \in Seq(Page) /\ IsInjective(Tail(L[k]))
      /\ ToSet(Tail(L[k])) = ToSet(L[k]) \ {b}
  BY <1>2, TailSet
<1> HIDE DEF b
<1>4. b \in G /\ S[b] = k
  BY <1>1, <1>3
<1>5. M \in [Page -> Seq(Page)] /\ M[k] = Tail(L[k]) /\ \A l \in Page : l # k => M[l] = L[l]
  BY <1>1, <1>3
<1> HIDE DEF M
<1>6. ASSUME NEW l \in Page
      PROVE  IsInjective(M[l]) /\ ToSet(M[l]) = {c \in G \ {b} : S[c] = l}
  <2>1. CASE l = k
    BY <1>1, <1>3, <1>5, <2>1
  <2>2. CASE l # k
    BY <1>1, <1>4, <1>5, <2>2
  <2> QED BY <2>1, <2>2
<1>7. Holds(M, S, G \ {b})
  BY <1>1, <1>5, <1>6 DEF Holds
<1> QED BY <1>4, <1>7 DEF b, M, Popped

(* A span is put at the front of its list.                                 *)
LEMMA FrontEnters ==
  ASSUME NEW L, NEW S, NEW G, Holds(L, S, G), NEW b \in Page, b \notin G, S[b] \in Page
  PROVE  Holds(Fronted(L, S[b], b), S, G \cup {b})
<1> DEFINE k == S[b]
           M == [L EXCEPT ![k] = <<b>> \o @]
<1>1. /\ L \in [Page -> Seq(Page)] /\ G \subseteq Page /\ \A c \in G : S[c] > 0
      /\ \A l \in Page : IsInjective(L[l]) /\ ToSet(L[l]) = {c \in G : S[c] = l}
  BY DEF Holds
<1>2. L[k] \in Seq(Page) /\ IsInjective(L[k]) /\ b \notin ToSet(L[k])
  BY <1>1
<1>3. /\ <<b>> \o L[k] \in Seq(Page) /\ IsInjective(<<b>> \o L[k])
      /\ ToSet(<<b>> \o L[k]) = ToSet(L[k]) \cup {b}
  BY <1>2, ConsSet
<1>4. /\ M \in [Page -> Seq(Page)] /\ M[k] = <<b>> \o L[k]
      /\ \A l \in Page : l # k => M[l] = L[l]
  BY <1>1, <1>3
<1> HIDE DEF M
<1>5. ASSUME NEW l \in Page
      PROVE  IsInjective(M[l]) /\ ToSet(M[l]) = {c \in G \cup {b} : S[c] = l}
  <2>1. CASE l = k
    BY <1>1, <1>3, <1>4, <2>1
  <2>2. CASE l # k
    BY <1>1, <1>4, <2>2
  <2> QED BY <2>1, <2>2
<1>6. S[b] > 0
  BY DEF Page
<1>7. Holds(M, S, G \cup {b})
  BY <1>1, <1>4, <1>5, <1>6 DEF Holds
<1> QED BY <1>7 DEF M, Fronted

(* A span is unlinked, wherever it is in its list.                         *)
LEMMA UnlinkedLeaves ==
  ASSUME NEW L, NEW S, NEW G, Holds(L, S, G), NEW b \in G, S[b] \in Page
  PROVE  Holds(Dropped(L, S[b], b), S, G \ {b})
<1> DEFINE k == S[b]
           t == Kept(L[k], {i \in DOMAIN L[k] : L[k][i] # b})
           M == [L EXCEPT ![k] = t]
<1>1. /\ L \in [Page -> Seq(Page)] /\ G \subseteq Page /\ \A c \in G : S[c] > 0
      /\ \A l \in Page : IsInjective(L[l]) /\ ToSet(L[l]) = {c \in G : S[c] = l}
  BY DEF Holds
<1>2. L[k] \in Seq(Page) /\ IsInjective(L[k])
  BY <1>1
<1>3. t \in Seq(Page) /\ IsInjective(t) /\ ToSet(t) = ToSet(L[k]) \ {b}
  BY <1>2, KeptSet
<1> HIDE DEF t
<1>4. M \in [Page -> Seq(Page)] /\ M[k] = t /\ \A l \in Page : l # k => M[l] = L[l]
  BY <1>1, <1>3
<1> HIDE DEF M
<1>5. ASSUME NEW l \in Page
      PROVE  IsInjective(M[l]) /\ ToSet(M[l]) = {c \in G \ {b} : S[c] = l}
  <2>1. CASE l = k
    BY <1>1, <1>3, <1>4, <2>1
  <2>2. CASE l # k
    BY <1>1, <1>4, <2>2
  <2> QED BY <2>1, <2>2
<1>6. Holds(M, S, G \ {b})
  BY <1>1, <1>4, <1>5 DEF Holds
<1> QED BY <1>6 DEF M, t, Dropped
-----------------------------------------------------------------------------
(* The steps, as changes of spans S, lists L, mapped runs U and lengths    *)
(* in use A.                                                               *)

LEMMA StateFacts ==
  ASSUME NEW S, NEW L, NEW U, NEW A, StateV2(S, L, U, A)
  PROVE  /\ \A b \in Page : S[b] \in Nat /\ A[b] \in Nat /\ b \in Nat /\ b >= 1
         /\ \A b \in Page : S[b] = 0 => A[b] = 0
         /\ \A b \in FreeIn(S, A) : b \in Page /\ S[b] > 0 /\ A[b] = 0 /\ S[b] \in Page
         /\ \A b \in Page : S[b] <= NumPages /\ b + S[b] <= NumPages + 1 /\ b <= NumPages
         /\ \A b, c \in Page : b < c /\ S[b] > 0 /\ S[c] > 0 => b + S[b] <= c
<1>1. /\ S \in [Page -> Nat] /\ A \in [Page -> Nat] /\ \A b \in Page : A[b] > 0 => A[b] = S[b]
      /\ \A b \in Page : b + S[b] <= NumPages + 1
      /\ \A b, c \in Page : b < c /\ S[b] > 0 /\ S[c] > 0 => b + S[b] <= c
  BY DEF StateV2, Tiled
<1>2. \A b \in Page : S[b] \in Nat /\ A[b] \in Nat /\ b \in Nat /\ b >= 1 /\ b <= NumPages
  BY <1>1, NumPagesAssumption DEF Page
<1>3. \A b \in Page : S[b] <= NumPages
  BY <1>1, <1>2, NumPagesAssumption
<1>4. \A b \in Page : S[b] > 0 => S[b] \in Page
  BY <1>2, <1>3, NumPagesAssumption DEF Page
<1>5. \A b \in Page : S[b] = 0 => A[b] = 0
  BY <1>1, <1>2
<1> QED BY <1>1, <1>2, <1>3, <1>4, <1>5 DEF FreeIn

(* A span behind a cut one does not end inside it.                         *)
LEMMA EndsElsewhere ==
  ASSUME NEW x \in Nat, NEW s \in Nat, NEW a \in Nat, NEW t \in Nat, NEW n \in Nat,
         0 < s, 0 < n, n < t, x # a,
         x < a => x + s <= a, a < x => a + t <= x
  PROVE  x + s # a + n
  OBVIOUS

LEMMA CutServes ==
  ASSUME NEW S, NEW L, NEW U, NEW A, StateV2(S, L, U, A),
         NEW n \in Nat, 0 < n, NEW k \in Page, L[k] # << >>,
         NEW b, b = Head(L[k]), n < S[b],
         NEW T, IsCut(T, S, b, n),
         NEW M, M = Fronted(Popped(L, k), S[b] - n, b + n),
         NEW B, IsSet(B, A, b, n)
  PROVE  StateV2(T, M, U, B)
<1> DEFINE G == FreeIn(S, A)
           H == FreeIn(T, B)
           P == Popped(L, k)
<1>1. /\ Tiled(S) /\ Mapped(U) /\ \A p \in Page : Covers(S, p) <=> InMapped(U, p)
      /\ A \in [Page -> Nat] /\ \A c \in Page : A[c] > 0 => A[c] = S[c]
      /\ Holds(L, S, G) /\ Apart(S, G)
  BY DEF StateV2
<1> HIDE DEF G, H
<1>2. b \in G /\ S[b] = k /\ Holds(P, S, G \ {b})
  BY <1>1, HeadLeaves
<1> HIDE DEF P
<1>3. b \in Page /\ S[b] > 0 /\ A[b] = 0 /\ S[b] \in Nat /\ b \in Nat /\ S[b] \in Page
  BY <1>2, StateFacts DEF G
<1>4. /\ b + n \in Page /\ b + n # b /\ S[b + n] = 0
      /\ T[b] = n /\ T[b + n] = S[b] - n
      /\ \A c \in Page : c # b /\ c # b + n => T[c] = S[c]
      /\ Tiled(T) /\ \A p \in Page : Covers(T, p) <=> Covers(S, p)
  <2>1. CutAt(T, S, b, n)
    BY <1>1, <1>3, TiledCut
  <2> QED BY <2>1 DEF CutAt
<1>5. /\ B \in [Page -> Nat] /\ B[b] = n /\ \A c \in Page : c # b => B[c] = A[c]
  BY <1>1, <1>3 DEF IsSet
<1>6. A[b + n] = 0 /\ S[b] - n > 0 /\ S[b] - n \in Nat
  BY <1>3, <1>4, StateFacts
<1>7. S[b] - n \in Page
  BY <1>3, <1>6, NumPagesAssumption DEF Page
<1>8. H = (G \ {b}) \cup {b + n}
  <2>1. ASSUME NEW c \in Page PROVE c \in H <=> c \in (G \ {b}) \cup {b + n}
    <3>1. CASE c = b
      BY <1>4, <1>5, <3>1 DEF FreeIn, H
    <3>2. CASE c = b + n
      BY <1>4, <1>5, <1>6, <3>2 DEF FreeIn, H
    <3>3. CASE c # b /\ c # b + n
      BY <1>4, <1>5, <3>3 DEF FreeIn, G, H
    <3> QED BY <3>1, <3>2, <3>3
  <2>2. H \subseteq Page /\ G \subseteq Page /\ b + n \in Page
    BY <1>4 DEF FreeIn, G, H
  <2> QED BY <2>1, <2>2
<1>9. b + n \notin G
  BY <1>4 DEF FreeIn, G, H
<1>10. Holds(M, T, H)
  <2>1. SameOn(G \ {b}, T, S)
    BY <1>4, <1>9 DEF FreeIn, G, SameOn
  <2>2. Holds(P, T, G \ {b})
    BY <1>2, <2>1, SameLengths
  <2>3. b + n \notin G \ {b} /\ T[b + n] \in Page
    BY <1>4, <1>7, <1>9
  <2>4. Holds(Fronted(P, T[b + n], b + n), T, (G \ {b}) \cup {b + n})
    BY <1>4, <2>2, <2>3, FrontEnters
  <2>5. M = Fronted(P, T[b + n], b + n)
    BY <1>4 DEF P
  <2> QED BY <1>8, <2>4, <2>5
<1>11. Apart(T, H)
  <2> SUFFICES ASSUME NEW x \in H, NEW y \in H, y = x + T[x] PROVE FALSE
    BY DEF Apart
  <2>f. /\ \A c \in Page : S[c] \in Nat /\ T[c] \in Nat /\ c \in Nat
        /\ \A d, c \in Page : d < c /\ S[d] > 0 /\ S[c] > 0 => d + S[d] <= c
        /\ G \subseteq Page /\ \A c \in G : S[c] > 0
    BY <1>4, StateFacts DEF Tiled, FreeIn, G
  <2>1. CASE x = b + n
    <3>0. T[b + n] = S[b] - n /\ S[b] \in Nat /\ n \in Nat /\ b \in Nat
      BY <1>3, <1>4
    <3>1. y = b + S[b]
      BY <2>1, <3>0
    <3>2. y # b + n /\ y \in G
      BY <1>3, <1>8, <3>1
    <3> QED BY <1>1, <1>2, <3>1, <3>2 DEF Apart
  <2>2. CASE x # b + n /\ y = b + n
    <3>1. x \in G /\ x # b /\ T[x] = S[x]
      BY <1>4, <1>8, <2>2, <2>f
    <3>2. x < b => x + S[x] <= b
      BY <1>3, <2>f, <3>1
    <3>3. b < x => b + S[b] <= x
      BY <1>3, <2>f, <3>1
    <3>4. x \in Nat /\ S[x] \in Nat /\ 0 < S[x]
      BY <2>f, <3>1
    <3>5. S[b] \in Nat /\ n < S[b] /\ b \in Nat
      BY <1>3
    <3>6. x + S[x] # b + n
      BY <3>1, <3>2, <3>3, <3>4, <3>5, EndsElsewhere
    <3> QED BY <2>2, <3>1, <3>6
  <2>3. CASE x # b + n /\ y # b + n
    <3>1. x \in G /\ y \in G /\ T[x] = S[x]
      BY <1>4, <1>8, <2>3, <2>f
    <3> QED BY <1>1, <3>1 DEF Apart
  <2> QED BY <2>1, <2>2, <2>3
<1>12. \A c \in Page : B[c] > 0 => B[c] = T[c]
  BY <1>1, <1>4, <1>5, <1>6
<1> QED BY <1>1, <1>4, <1>5, <1>10, <1>11, <1>12 DEF StateV2, G, H

LEMMA WholeServes ==
  ASSUME NEW S, NEW L, NEW U, NEW A, StateV2(S, L, U, A),
         NEW k \in Page, L[k] # << >>, NEW b, b = Head(L[k]),
         NEW M, M = Popped(L, k),
         NEW B, IsSet(B, A, b, S[b])
  PROVE  StateV2(S, M, U, B)
<1> DEFINE G == FreeIn(S, A)
           H == FreeIn(S, B)
<1>1. /\ Tiled(S) /\ Mapped(U) /\ \A p \in Page : Covers(S, p) <=> InMapped(U, p)
      /\ A \in [Page -> Nat] /\ \A c \in Page : A[c] > 0 => A[c] = S[c]
      /\ Holds(L, S, G) /\ Apart(S, G)
  BY DEF StateV2
<1> HIDE DEF G, H
<1>2. b \in G /\ S[b] = k /\ Holds(M, S, G \ {b})
  BY <1>1, HeadLeaves
<1>3. b \in Page /\ S[b] > 0 /\ S[b] \in Nat
  BY <1>2, StateFacts DEF G
<1>4. /\ B \in [Page -> Nat] /\ B[b] = S[b] /\ \A c \in Page : c # b => B[c] = A[c]
  BY <1>1, <1>3 DEF IsSet
<1>5. H = G \ {b}
  BY <1>3, <1>4 DEF FreeIn, G, H
<1>6. Apart(S, H)
  BY <1>1, <1>5 DEF Apart
<1>7. \A c \in Page : B[c] > 0 => B[c] = S[c]
  BY <1>1, <1>4
<1> QED BY <1>1, <1>2, <1>4, <1>5, <1>6, <1>7 DEF StateV2, G, H

LEMMA SystemMaps ==
  ASSUME NEW S, NEW L, NEW U, NEW A, StateV2(S, L, U, A),
         NEW n \in Nat, 0 < n, NEW b \in Page, b + n <= NumPages + 1,
         \A a \in U : \A p \in Page :
           ~(b <= p /\ p < b + n /\ a[1] <= p /\ p < a[1] + a[2]),
         NEW T, IsSet(T, S, b, n),
         NEW V, V = U \cup {<<b, n>>},
         NEW B, IsSet(B, A, b, n)
  PROVE  StateV2(T, L, V, B)
<1> DEFINE G == FreeIn(S, A)
           H == FreeIn(T, B)
<1>1. /\ Tiled(S) /\ Mapped(U) /\ \A p \in Page : Covers(S, p) <=> InMapped(U, p)
      /\ A \in [Page -> Nat] /\ \A c \in Page : A[c] > 0 => A[c] = S[c]
      /\ Holds(L, S, G) /\ Apart(S, G)
  BY DEF StateV2
<1> HIDE DEF G, H
<1>2. \A p \in Page : b <= p /\ p < b + n => ~Covers(S, p)
  BY <1>1 DEF InMapped
<1>3. /\ S[b] = 0 /\ T[b] = n /\ \A c \in Page : c # b => T[c] = S[c]
      /\ Tiled(T)
      /\ \A p \in Page : Covers(T, p) <=> Covers(S, p) \/ (b <= p /\ p < b + n)
  BY <1>1, <1>2, TiledAdd
<1>4. /\ B \in [Page -> Nat] /\ B[b] = n /\ \A c \in Page : c # b => B[c] = A[c]
  BY <1>1 DEF IsSet
<1>5. H = G
  BY <1>3, <1>4 DEF FreeIn, G, H
<1>6. SameOn(G, T, S)
  BY <1>3 DEF FreeIn, G, SameOn
<1>7. Holds(L, T, H)
  BY <1>1, <1>5, <1>6, SameLengths
<1>8. Apart(T, H)
  BY <1>1, <1>5, <1>6 DEF Apart, SameOn
<1>9. \A c \in Page : B[c] > 0 => B[c] = T[c]
  BY <1>1, <1>3, <1>4
<1>10. n \in Page
  BY NumPagesAssumption DEF Page
<1>11. /\ <<b, n>> \in Page \X Page /\ <<b, n>>[1] = b /\ <<b, n>>[2] = n
  BY <1>10
<1>12. Mapped(V)
  <2>1. /\ U \subseteq Page \X Page /\ \A a \in U : a[1] + a[2] <= NumPages + 1
        /\ \A a, o \in U : \A p \in Page :
             a[1] <= p /\ p < a[1] + a[2] /\ o[1] <= p /\ p < o[1] + o[2] => a = o
    BY <1>1 DEF Mapped
  <2>2. \A a, o \in V : \A p \in Page :
          a[1] <= p /\ p < a[1] + a[2] /\ o[1] <= p /\ p < o[1] + o[2] => a = o
    BY <1>11, <2>1
  <2> QED BY <1>11, <2>1, <2>2 DEF Mapped
<1>13. \A p \in Page : InMapped(V, p) <=> InMapped(U, p) \/ (b <= p /\ p < b + n)
  BY <1>11 DEF InMapped
<1>14. \A p \in Page : Covers(T, p) <=> InMapped(V, p)
  BY <1>1, <1>3, <1>13
<1> QED BY <1>3, <1>4, <1>7, <1>8, <1>9, <1>12, <1>14 DEF StateV2, G, H
-----------------------------------------------------------------------------
(* deallocateSpan between the look-up of the span at b and its insertion:  *)
(* b is nobody's any more, but in no list yet.                             *)
Half(S, L, U, A, b) ==
  /\ Tiled(S) /\ Mapped(U)
  /\ \A p \in Page : Covers(S, p) <=> InMapped(U, p)
  /\ A \in [Page -> Nat]
  /\ \A c \in Page : A[c] > 0 => A[c] = S[c]
  /\ b \in FreeIn(S, A)
  /\ Holds(L, S, FreeIn(S, A) \ {b})
  /\ Apart(S, FreeIn(S, A) \ {b})

RightDone(S, A, b) == b + S[b] \notin FreeIn(S, A)
LeftDone(S, A, b)  == \A x \in FreeIn(S, A) : x + S[x] # b

LEMMA ReturnBegins ==
  ASSUME NEW S, NEW L, NEW U, NEW A, StateV2(S, L, U, A),
         NEW b \in Page, A[b] > 0, NEW B, IsSet(B, A, b, 0)
  PROVE  Half(S, L, U, B, b) /\ FreeIn(S, B) = FreeIn(S, A) \cup {b} /\ b \notin FreeIn(S, A)
<1>1. /\ Tiled(S) /\ Mapped(U) /\ \A p \in Page : Covers(S, p) <=> InMapped(U, p)
      /\ A \in [Page -> Nat] /\ \A c \in Page : A[c] > 0 => A[c] = S[c]
      /\ Holds(L, S, FreeIn(S, A)) /\ Apart(S, FreeIn(S, A))
  BY DEF StateV2
<1>2. B \in [Page -> Nat] /\ B[b] = 0 /\ \A c \in Page : c # b => B[c] = A[c]
  BY <1>1 DEF IsSet
<1>3. S[b] > 0
  BY <1>1
<1>4. b \notin FreeIn(S, A) /\ FreeIn(S, B) = FreeIn(S, A) \cup {b}
  BY <1>2, <1>3 DEF FreeIn
<1>5. FreeIn(S, B) \ {b} = FreeIn(S, A)
  BY <1>4
<1>6. \A c \in Page : B[c] > 0 => B[c] = S[c]
  BY <1>1, <1>2
<1> QED BY <1>1, <1>2, <1>4, <1>5, <1>6 DEF Half

LEMMA HalfFacts ==
  ASSUME NEW S, NEW L, NEW U, NEW A, NEW b, Half(S, L, U, A, b)
  PROVE  /\ S \in [Page -> Nat] /\ A \in [Page -> Nat]
         /\ \A c \in Page : S[c] \in Nat /\ c \in Nat /\ c >= 1 /\ c <= NumPages
                            /\ c + S[c] <= NumPages + 1 /\ (S[c] > 0 => S[c] \in Page)
         /\ \A c \in FreeIn(S, A) : c \in Page /\ S[c] > 0 /\ A[c] = 0
         /\ \A c, d \in Page : c < d /\ S[c] > 0 /\ S[d] > 0 => c + S[c] <= d
<1>1. /\ S \in [Page -> Nat] /\ A \in [Page -> Nat]
      /\ \A c \in Page : c + S[c] <= NumPages + 1
      /\ \A c, d \in Page : c < d /\ S[c] > 0 /\ S[d] > 0 => c + S[c] <= d
  BY DEF Half, Tiled
<1>2. \A c \in Page : S[c] \in Nat /\ c \in Nat /\ c >= 1 /\ c <= NumPages
  BY <1>1, NumPagesAssumption DEF Page
<1>3. \A c \in Page : S[c] > 0 => S[c] \in Page
  BY <1>1, <1>2, NumPagesAssumption DEF Page
<1> QED BY <1>1, <1>2, <1>3 DEF FreeIn

(* Two neighbours that are both nobody's become one span named a; the one  *)
(* in a list, c, leaves it.                                                *)
LEMMA NeighboursJoin ==
  ASSUME NEW S, NEW L, NEW U, NEW A, NEW b, Half(S, L, U, A, b),
         NEW a \in FreeIn(S, A), NEW d \in FreeIn(S, A), d = a + S[a],
         NEW c \in {a, d}, c # b, b \in {a, d},
         NEW T, IsJoin(T, S, a, d)
  PROVE  /\ Half(T, Dropped(L, S[c], c), U, A, a)
         /\ FreeIn(T, A) = FreeIn(S, A) \ {d} /\ a # d
         /\ T[a] = S[a] + S[d] /\ \A x \in Page : x # a /\ x # d => T[x] = S[x]
<1> DEFINE G == FreeIn(S, A)
           H == FreeIn(T, A)
           M == Dropped(L, S[c], c)
<1>1. /\ Tiled(S) /\ Mapped(U) /\ \A p \in Page : Covers(S, p) <=> InMapped(U, p)
      /\ A \in [Page -> Nat] /\ \A x \in Page : A[x] > 0 => A[x] = S[x]
      /\ Holds(L, S, G \ {b}) /\ Apart(S, G \ {b})
  BY DEF Half
<1> HIDE DEF G, H, M
<1>2. /\ a \in Page /\ d \in Page /\ S[a] > 0 /\ S[d] > 0 /\ A[a] = 0 /\ A[d] = 0
      /\ a \in G /\ d \in G
  BY HalfFacts DEF G
<1>3. /\ a # d /\ T[a] = S[a] + S[d] /\ T[d] = 0
      /\ \A x \in Page : x # a /\ x # d => T[x] = S[x]
      /\ Tiled(T)
      /\ \A p \in Page : Covers(T, p) <=> Covers(S, p)
  BY <1>1, <1>2, TiledJoin
<1>4. S[a] \in Nat /\ S[d] \in Nat /\ S[c] \in Page /\ a \in Nat /\ T[a] > 0
  BY <1>2, <1>3, HalfFacts
<1>5. H = G \ {d}
  <2>1. ASSUME NEW x \in Page PROVE x \in H <=> x \in G \ {d}
    <3>1. CASE x = a
      BY <1>2, <1>3, <1>4, <3>1 DEF FreeIn, H
    <3>2. CASE x = d
      BY <1>3, <3>2 DEF FreeIn, H
    <3>3. CASE x # a /\ x # d
      BY <1>3, <3>3 DEF FreeIn, G, H
    <3> QED BY <3>1, <3>2, <3>3
  <2>2. H \subseteq Page /\ G \subseteq Page
    BY DEF FreeIn, G, H
  <2> QED BY <2>1, <2>2
<1>6. H \ {a} = (G \ {b}) \ {c} /\ c \in G \ {b}
  BY <1>2, <1>3, <1>5
<1>7. Holds(M, T, H \ {a})
  <2>1. Holds(M, S, (G \ {b}) \ {c})
    BY <1>1, <1>4, <1>6, UnlinkedLeaves DEF M
  <2>2. SameOn((G \ {b}) \ {c}, T, S)
    BY <1>3, <1>6, <1>5 DEF SameOn, FreeIn, G
  <2> QED BY <1>6, <2>1, <2>2, SameLengths
<1>8. Apart(T, H \ {a})
  <2>1. \A x \in H \ {a} : x \in G \ {b} /\ T[x] = S[x]
    BY <1>3, <1>5, <1>6 DEF FreeIn, G
  <2> QED BY <1>1, <2>1 DEF Apart
<1>9. \A x \in Page : A[x] > 0 => A[x] = T[x]
  BY <1>1, <1>2, <1>3
<1>10. a \in H
  BY <1>2, <1>3, <1>5
<1> QED BY <1>1, <1>3, <1>5, <1>7, <1>8, <1>9, <1>10 DEF Half, G, H, M

LEMMA JoinRight ==
  ASSUME NEW S, NEW L, NEW U, NEW A, NEW b, Half(S, L, U, A, b),
         NEW c, c = b + S[b], c \in FreeIn(S, A), NEW T, IsJoin(T, S, b, c)
  PROVE  /\ Half(T, Dropped(L, S[c], c), U, A, b) /\ RightDone(T, A, b)
         /\ FreeIn(T, A) = FreeIn(S, A) \ {c} /\ c # b
         /\ T[b] = S[b] + S[c] /\ \A x \in Page : x # b /\ x # c => T[x] = S[x]
<1>0. /\ b \in FreeIn(S, A) /\ b \in Page /\ S[b] > 0 /\ S[b] \in Nat /\ b \in Nat
      /\ c \in Page /\ S[c] > 0 /\ S[c] \in Nat
  BY HalfFacts DEF Half
<1>1. c # b
  BY <1>0
<1>2. /\ Half(T, Dropped(L, S[c], c), U, A, b)
      /\ FreeIn(T, A) = FreeIn(S, A) \ {c}
      /\ T[b] = S[b] + S[c] /\ \A x \in Page : x # b /\ x # c => T[x] = S[x]
  BY <1>0, <1>1, NeighboursJoin
<1>3. RightDone(T, A, b)
  <2>1. b + T[b] = c + S[c]
    BY <1>0, <1>2
  <2>2. c + S[c] \notin FreeIn(S, A) \ {b}
    BY <1>1 DEF Half, Apart
  <2>3. c + S[c] # b
    BY <1>0
  <2> QED BY <1>2, <2>1, <2>2, <2>3 DEF RightDone
<1> QED BY <1>1, <1>2, <1>3

LEMMA JoinLeft ==
  ASSUME NEW S, NEW L, NEW U, NEW A, NEW b, Half(S, L, U, A, b), RightDone(S, A, b),
         NEW a \in FreeIn(S, A), a + S[a] = b, NEW T, IsJoin(T, S, a, b)
  PROVE  /\ Half(T, Dropped(L, S[a], a), U, A, a)
         /\ RightDone(T, A, a) /\ LeftDone(T, A, a)
         /\ T[a] = S[a] + S[b]
<1>0. /\ b \in FreeIn(S, A) /\ b \in Page /\ S[b] > 0 /\ S[b] \in Nat /\ b \in Nat
      /\ a \in Page /\ S[a] > 0 /\ S[a] \in Nat /\ a \in Nat
  BY HalfFacts DEF Half
<1>1. a # b
  BY <1>0
<1>2. /\ Half(T, Dropped(L, S[a], a), U, A, a)
      /\ FreeIn(T, A) = FreeIn(S, A) \ {b}
      /\ T[a] = S[a] + S[b] /\ \A x \in Page : x # a /\ x # b => T[x] = S[x]
  BY <1>0, <1>1, NeighboursJoin
<1>3. RightDone(T, A, a)
  <2>1. a + T[a] = b + S[b]
    BY <1>0, <1>2
  <2> QED BY <1>2, <2>1 DEF RightDone
<1>4. LeftDone(T, A, a)
  <2> SUFFICES ASSUME NEW x \in FreeIn(T, A), x + T[x] = a PROVE FALSE
    BY DEF LeftDone
  <2>1. x \in FreeIn(S, A) /\ x # b
    BY <1>2
  <2>2. x \in Page /\ x \in Nat /\ S[x] \in Nat
    BY <2>1, HalfFacts
  <2>3. CASE x = a
    BY <1>0, <1>2, <2>3
  <2>4. CASE x # a
    <3>1. x + S[x] = a /\ a \in FreeIn(S, A) \ {b} /\ x \in FreeIn(S, A) \ {b}
      BY <1>1, <1>2, <2>1, <2>2, <2>4
    <3> QED BY <3>1 DEF Half, Apart
  <2> QED BY <2>3, <2>4
<1> QED BY <1>2, <1>3, <1>4

LEMMA ReturnEnds ==
  ASSUME NEW S, NEW L, NEW U, NEW A, NEW b, Half(S, L, U, A, b),
         RightDone(S, A, b), LeftDone(S, A, b)
  PROVE  StateV2(S, Fronted(L, S[b], b), U, A)
<1> DEFINE G == FreeIn(S, A)
<1>0. b \in G /\ b \in Page /\ S[b] \in Page
  BY HalfFacts DEF Half
<1>1. (G \ {b}) \cup {b} = G
  BY <1>0
<1>2. Holds(Fronted(L, S[b], b), S, (G \ {b}) \cup {b})
  <2>1. Holds(L, S, G \ {b}) /\ b \notin G \ {b}
    BY DEF Half
  <2> HIDE DEF G
  <2> QED BY <1>0, <2>1, FrontEnters
<1>3. Apart(S, G)
  <2> SUFFICES ASSUME NEW x \in G, x + S[x] \in G PROVE FALSE
    BY DEF Apart
  <2>1. x # b
    BY DEF RightDone
  <2>2. x + S[x] # b
    BY DEF LeftDone
  <2> QED BY <2>1, <2>2 DEF Half, Apart
<1> QED BY <1>1, <1>2, <1>3 DEF Half, StateV2
-----------------------------------------------------------------------------
(* The actions of v2.                                                      *)

LEMMA SameOperators ==
  /\ V2!Page = Page
  /\ \A q, S : V2!Kept(q, S) = Kept(q, S)
  /\ \A s : V2!ToSet(s) = ToSet(s) /\ (V2!IsInjective(s) <=> IsInjective(s))
  /\ \A S : V2!Cardinality(S) = Cardinality(S)
<1>1. V2!Page = Page
  BY DEF V2!Page, Page
<1>2. \A s : V2!ToSet(s) = ToSet(s)
  BY DEF V2!ToSet, ToSet
<1>3. \A s : V2!IsInjective(s) <=> IsInjective(s)
  BY DEF V2!IsInjective, IsInjective
<1>0. \A S : V2!Cardinality(S) = Cardinality(S)
  BY DEF V2!Cardinality, Cardinality
<1>4. \A S, i : V2!Rank(S, i) = Rank(S, i)
  BY <1>0 DEF V2!Rank, Rank
<1>5. \A S, k : V2!Nth(S, k) = Nth(S, k)
  BY <1>4 DEF V2!Nth, Nth
<1>6. \A q, S : V2!Kept(q, S) = Kept(q, S)
  BY <1>0, <1>5 DEF V2!Kept, Kept
<1> QED BY <1>0, <1>1, <1>2, <1>3, <1>6

LEMMA FreeListed ==
  ASSUME InvV2, NEW x \in Page
  PROVE  V2!InList(x) <=> x \in FreeIn(spans, asked)
<1>1. Holds(freeSpansV2, spans, FreeIn(spans, asked))
  BY DEF InvV2, StateV2
<1>2. /\ spans[x] \in Nat /\ (spans[x] > 0 => spans[x] \in Page)
      /\ \A y \in FreeIn(spans, asked) : spans[y] > 0
  <2>1. spans[x] \in Nat /\ spans[x] <= NumPages
    BY StateFacts DEF InvV2
  <2> QED BY <2>1, NumPagesAssumption DEF Page, FreeIn
<1>3. CASE spans[x] > 0
  BY <1>1, <1>2, <1>3, SameOperators DEF V2!InList, Holds
<1>4. CASE ~(spans[x] > 0)
  BY <1>2, <1>4 DEF V2!InList
<1> QED BY <1>3, <1>4

LEMMA FitsLeastV2 ==
  ASSUME NEW n \in Nat \ {0}, V2!Fits(n) # {}
  PROVE  /\ V2!Min(V2!Fits(n)) \in Page /\ n <= V2!Min(V2!Fits(n))
         /\ freeSpansV2[V2!Min(V2!Fits(n))] # << >>
<1>1. /\ V2!Fits(n) \subseteq Nat /\ V2!Fits(n) \subseteq Page
      /\ \A k \in V2!Fits(n) : n <= k /\ freeSpansV2[k] # << >>
  BY NumPagesAssumption DEF V2!Fits, Page
<1>2. \E x \in V2!Fits(n) : \A y \in V2!Fits(n) : x <= y
  BY <1>1, LeastOf
<1>3. V2!Min(V2!Fits(n)) \in V2!Fits(n)
  BY <1>2 DEF V2!Min
<1> QED BY <1>1, <1>3

LEMMA CachedKeepsV2 ==
  ASSUME InvV2, NEW n \in 1 .. MaxRequest, V2!AllocateCached(n)
  PROVE  InvV2' /\ \E b \in FreeIn(spans, asked) : n <= spans[b] /\ asked' = [asked EXCEPT ![b] = n]
<1> DEFINE k == V2!Min(V2!Fits(n))
           b == Head(freeSpansV2[k])
           m == spans[b]
<1>0. n \in Nat \ {0} /\ n \in Nat /\ 0 < n
  OBVIOUS
<1>1. V2!Fits(n) # {} /\ asked' = [asked EXCEPT ![b] = n] /\ systemAllocsV2' = systemAllocsV2
  BY DEF V2!AllocateCached
<1>2. k \in Page /\ n <= k /\ freeSpansV2[k] # << >>
  BY <1>0, <1>1, FitsLeastV2
<1>3. IF m > n
      THEN /\ spans' = V2!Split(b, n, m)
           /\ freeSpansV2' = Fronted(Popped(freeSpansV2, k), m - n, b + n)
      ELSE freeSpansV2' = Popped(freeSpansV2, k) /\ spans' = spans
  BY DEF V2!AllocateCached, Fronted, Popped
<1> HIDE DEF k
<1>4. StateV2(spans, freeSpansV2, systemAllocsV2, asked)
  BY DEF InvV2
<1>5. b \in FreeIn(spans, asked) /\ spans[b] = k
  <2>1. Holds(freeSpansV2, spans, FreeIn(spans, asked))
    BY <1>4 DEF StateV2
  <2> QED BY <1>2, <2>1, HeadLeaves
<1>6. k \in Nat /\ n \in Nat
  BY <1>0, <1>2 DEF Page
<1> HIDE DEF b
<1>7. IsSet(asked', asked, b, n)
  BY <1>1 DEF IsSet
<1>8. CASE m > n
  <2>1. IsCut(spans', spans, b, n) /\ freeSpansV2' = Fronted(Popped(freeSpansV2, k), spans[b] - n, b + n)
    BY <1>3, <1>8 DEF IsCut, V2!Split
  <2>2. n < spans[b] /\ b = Head(freeSpansV2[k])
    BY <1>8, <1>5, <1>6 DEF b
  <2> HIDE DEF m
  <2>3. StateV2(spans', freeSpansV2', systemAllocsV2, asked')
    BY <1>0, <1>2, <1>4, <1>7, <2>1, <2>2, CutServes
  <2> QED BY <1>1, <1>2, <1>5, <2>3 DEF InvV2
<1>9. CASE ~(m > n)
  <2>1. n = spans[b] /\ b = Head(freeSpansV2[k])
    BY <1>2, <1>5, <1>6, <1>9 DEF b
  <2>2. freeSpansV2' = Popped(freeSpansV2, k) /\ spans' = spans
    BY <1>3, <1>9
  <2>3. IsSet(asked', asked, b, spans[b])
    BY <1>7, <2>1
  <2> HIDE DEF m
  <2>4. StateV2(spans, freeSpansV2', systemAllocsV2, asked')
    BY <1>2, <1>4, <2>1, <2>2, <2>3, WholeServes
  <2> QED BY <1>1, <1>2, <1>5, <2>2, <2>4 DEF InvV2
<1> QED BY <1>8, <1>9

LEMMA SystemKeepsV2 ==
  ASSUME InvV2, NEW n \in 1 .. MaxRequest, NEW b \in Page, V2!AllocateSystem(n, b)
  PROVE  /\ InvV2' /\ asked' = [asked EXCEPT ![b] = n] /\ b + n <= NumPages + 1
         /\ \A p \in Page : b <= p /\ p < b + n => ~Covers(spans, p)
<1>0. n \in Nat /\ 0 < n /\ b \in Nat
  BY DEF Page
<1>1. /\ V2!Run(b, n) \subseteq Page
      /\ \A a \in systemAllocsV2 : V2!Run(b, n) \cap V2!Run(a[1], a[2]) = {}
      /\ systemAllocsV2' = systemAllocsV2 \cup {<<b, n>>}
      /\ spans' = [spans EXCEPT ![b] = n] /\ asked' = [asked EXCEPT ![b] = n]
      /\ freeSpansV2' = freeSpansV2
  BY SameOperators DEF V2!AllocateSystem
<1>2. b + n <= NumPages + 1
  <2>1. b + n - 1 \in V2!Run(b, n)
    BY <1>0 DEF V2!Run
  <2>2. b + n - 1 \in Page
    BY <1>1, <2>1
  <2> QED BY <1>0, <2>2, NumPagesAssumption DEF Page
<1>3. StateV2(spans, freeSpansV2, systemAllocsV2, asked)
  BY DEF InvV2
<1>4. systemAllocsV2 \subseteq Page \X Page
  BY <1>3 DEF StateV2, Mapped
<1>5. \A a \in systemAllocsV2 : \A p \in Page :
        ~(b <= p /\ p < b + n /\ a[1] <= p /\ p < a[1] + a[2])
  <2> SUFFICES ASSUME NEW a \in systemAllocsV2, NEW p \in Page,
                      b <= p, p < b + n, a[1] <= p, p < a[1] + a[2]
               PROVE  FALSE
    OBVIOUS
  <2>1. a[1] \in Nat /\ a[2] \in Nat /\ p \in Nat
    BY <1>4 DEF Page
  <2>2. p \in V2!Run(b, n) /\ p \in V2!Run(a[1], a[2])
    BY <1>0, <2>1 DEF V2!Run
  <2> QED BY <1>1, <2>2
<1>6. IsSet(spans', spans, b, n) /\ IsSet(asked', asked, b, n)
  BY <1>1 DEF IsSet
<1>7. StateV2(spans', freeSpansV2, systemAllocsV2', asked')
  BY <1>0, <1>1, <1>2, <1>3, <1>5, <1>6, SystemMaps
<1>8. \A p \in Page : b <= p /\ p < b + n => ~Covers(spans, p)
  BY <1>3, <1>5 DEF StateV2, InMapped
<1> QED BY <1>1, <1>2, <1>7, <1>8 DEF InvV2

(* The predecessor of b in spanMap_ is the free span that ends at b, if    *)
(* there is one.                                                           *)
LEMMA LeftNeighbour ==
  ASSUME InvV2, NEW b \in Page, spans[b] > 0
  PROVE  /\ V2!MergesLeft(b) =>
              LET a == V2!Max(V2!Before(b))
              IN  a \in FreeIn(spans, asked) /\ a + spans[a] = b /\ a # b
         /\ ~V2!MergesLeft(b) => LeftDone(spans, asked, b)
<1>f. /\ \A x \in Page : spans[x] \in Nat /\ x \in Nat
      /\ \A x, y \in Page : x < y /\ spans[x] > 0 /\ spans[y] > 0 => x + spans[x] <= y
      /\ \A x \in FreeIn(spans, asked) : x \in Page /\ spans[x] > 0
  BY StateFacts DEF InvV2
<1>b. \A x : x \in V2!Before(b) <=> x \in Page /\ x < b /\ spans[x] > 0
  BY NumPagesAssumption DEF V2!Before, Page
<1>1. ASSUME NEW x \in V2!Before(b), x + spans[x] = b
      PROVE  V2!Max(V2!Before(b)) = x
  <2>1. \A y \in V2!Before(b) : x >= y
    BY <1>1, <1>b, <1>f
  <2>2. PICK z : z = V2!Max(V2!Before(b))
    OBVIOUS
  <2>3. z \in V2!Before(b) /\ \A y \in V2!Before(b) : z >= y
    BY <1>1, <2>1, <2>2 DEF V2!Max
  <2>4. z >= x /\ x >= z /\ x \in Nat /\ z \in Nat
    BY <1>1, <1>b, <1>f, <2>1, <2>3
  <2>5. x = z
    BY <2>4
  <2> QED BY <2>2, <2>5
<1>2. ASSUME V2!MergesLeft(b)
      PROVE  LET a == V2!Max(V2!Before(b))
             IN  a \in FreeIn(spans, asked) /\ a + spans[a] = b /\ a # b
  <2> DEFINE a == V2!Max(V2!Before(b))
  <2>1. a + spans[a] = b /\ V2!InList(a)
    BY <1>2 DEF V2!MergesLeft
  <2>2. V2!Before(b) # {} /\ V2!Before(b) \subseteq Nat /\ \A y \in V2!Before(b) : y < b
    BY <1>2, <1>b, <1>f DEF V2!MergesLeft
  <2>3. \E x \in V2!Before(b) : \A y \in V2!Before(b) : x >= y
    BY <1>f, <2>2, GreatestOf
  <2>4. a \in V2!Before(b)
    BY <2>3 DEF V2!Max
  <2> HIDE DEF a
  <2>5. a \in Page /\ a < b
    BY <1>b, <2>4
  <2>6. a # b
    BY <1>f, <2>5
  <2> QED BY <2>1, <2>5, <2>6, FreeListed DEF a
<1>3. ASSUME NEW x \in FreeIn(spans, asked), x + spans[x] = b
      PROVE  V2!MergesLeft(b)
  <2>1. x \in V2!Before(b) /\ x \in Page
    BY <1>3, <1>b, <1>f
  <2>2. V2!Max(V2!Before(b)) = x
    BY <1>1, <1>3, <2>1
  <2>3. V2!InList(x)
    BY <2>1, FreeListed
  <2> QED BY <1>3, <2>1, <2>2, <2>3 DEF V2!MergesLeft
<1> QED BY <1>2, <1>3 DEF LeftDone

LEMMA DeallocateKeepsV2 ==
  ASSUME InvV2, NEW b \in Page, V2!DeallocateSpan(b)
  PROVE  InvV2' /\ asked[b] > 0 /\ asked' = [asked EXCEPT ![b] = 0]
<1> DEFINE n     == asked[b]
           c     == b + n
           right == V2!MergesRight(b, n)
           left  == V2!MergesLeft(b)
           a     == IF left THEN V2!Max(V2!Before(b)) ELSE b
           m     == n + (IF right THEN spans[c] ELSE 0)
           whole == m + (IF left THEN spans[a] ELSE 0)
           L     == freeSpansV2
           l1    == IF right THEN V2!Unlinked(L, c) ELSE L
           l2    == IF left THEN V2!Unlinked(l1, a) ELSE l1
           U     == systemAllocsV2
           S1    == IF right THEN [spans EXCEPT ![b] = spans[b] + spans[c], ![c] = 0] ELSE spans
           S2    == IF left THEN [S1 EXCEPT ![a] = S1[a] + S1[b], ![b] = 0] ELSE S1
<1>1. /\ asked[b] > 0 /\ spans[b] > 0 /\ asked' = [asked EXCEPT ![b] = 0]
      /\ systemAllocsV2' = U
  BY DEF V2!DeallocateSpan
<1>2. /\ spans' = [p \in Page |-> IF p = a THEN whole
                                  ELSE IF p = b \/ (right /\ p = c) THEN 0 ELSE spans[p]]
      /\ freeSpansV2' = [l2 EXCEPT ![whole] = <<a>> \o @]
  BY SameOperators DEF V2!DeallocateSpan
<1> HIDE DEF n, c, right, left, a, m, whole, L, l1, l2, U, S1, S2
<1>s. StateV2(spans, L, U, asked)
  BY DEF InvV2, L, U
<1>f. /\ spans \in [Page -> Nat] /\ asked[b] = spans[b]
      /\ \A x \in Page : spans[x] \in Nat /\ x \in Nat
      /\ \A x \in FreeIn(spans, asked) : x \in Page /\ spans[x] > 0
  BY <1>1, <1>s, StateFacts DEF StateV2, Tiled
<1>n. n = spans[b] /\ c = b + spans[b] /\ n \in Nat /\ c # b
  BY <1>1, <1>f DEF n, c
<1>3. PICK B : B = asked'
  OBVIOUS
<1>4. /\ Half(spans, L, U, B, b) /\ FreeIn(spans, B) = FreeIn(spans, asked) \cup {b}
      /\ b \notin FreeIn(spans, asked)
  <2>1. IsSet(B, asked, b, 0)
    BY <1>1, <1>3 DEF IsSet
  <2> QED BY <1>1, <1>s, <2>1, ReturnBegins
(* The right neighbour.                                                    *)
<1>5. /\ Half(S1, l1, U, B, b) /\ RightDone(S1, B, b)
      /\ S1 \in [Page -> Nat] /\ S1[b] = m /\ m \in Nat
      /\ right => c \in Page /\ S1[c] = 0 /\ FreeIn(S1, B) = FreeIn(spans, B) \ {c}
      /\ ~right => FreeIn(S1, B) = FreeIn(spans, B)
      /\ \A x \in Page : x # b /\ (right => x # c) => S1[x] = spans[x]
  <2>1. CASE right
    <3>1. c \in FreeIn(spans, asked) /\ c \in Page
      BY <2>1, FreeListed DEF right, V2!MergesRight, c, Page, V2!Page
    <3>2. S1 = [spans EXCEPT ![b] = spans[b] + spans[c], ![c] = 0]
      BY <2>1 DEF S1
    <3>3. IsJoin(S1, spans, b, c) /\ c \in FreeIn(spans, B)
      BY <1>4, <3>1, <3>2 DEF IsJoin
    <3>4. /\ Half(S1, Dropped(L, spans[c], c), U, B, b) /\ RightDone(S1, B, b)
          /\ FreeIn(S1, B) = FreeIn(spans, B) \ {c}
          /\ S1[b] = spans[b] + spans[c] /\ \A x \in Page : x # b /\ x # c => S1[x] = spans[x]
      BY <1>4, <1>n, <3>3, JoinRight
    <3>5. l1 = Dropped(L, spans[c], c)
      BY <2>1, SameOperators DEF l1, V2!Unlinked, V2!Without, Dropped
    <3>6. S1 \in [Page -> Nat] /\ S1[c] = 0
      BY <1>f, <3>1, <3>2
    <3>7. m = spans[b] + spans[c] /\ m \in Nat
      BY <1>f, <1>n, <2>1, <3>1 DEF m
    <3> QED BY <2>1, <3>1, <3>4, <3>5, <3>6, <3>7
  <2>2. CASE ~right
    <3>1. S1 = spans /\ l1 = L /\ m = spans[b]
      BY <1>f, <1>n, <2>2 DEF S1, l1, m
    <3>2. RightDone(spans, B, b)
      <4>1. c \notin FreeIn(spans, asked)
        BY <1>f, <2>2, FreeListed DEF right, V2!MergesRight, c, Page, V2!Page
      <4> QED BY <1>4, <1>n, <4>1 DEF RightDone
    <3> QED BY <1>4, <1>f, <2>2, <3>1, <3>2
  <2> QED BY <2>1, <2>2
(* The left neighbour.                                                     *)
<1>6. /\ Half(S2, l2, U, B, a) /\ RightDone(S2, B, a) /\ LeftDone(S2, B, a)
      /\ S2[a] = whole
      /\ S2 = [p \in Page |-> IF p = a THEN whole
                              ELSE IF p = b \/ (right /\ p = c) THEN 0 ELSE spans[p]]
  <2>1. CASE left
    <3>1. a \in FreeIn(spans, asked) /\ a + spans[a] = b /\ a # b
      BY <1>1, <2>1, LeftNeighbour DEF left, a
    <3>2. a # c /\ a \in Page /\ spans[a] \in Nat
      BY <1>f, <1>n, <3>1
    <3>3. a \in FreeIn(S1, B) /\ S1[a] = spans[a]
      BY <1>4, <1>5, <3>1, <3>2
    <3>4. S2 = [S1 EXCEPT ![a] = S1[a] + S1[b], ![b] = 0]
      BY <2>1 DEF S2
    <3>5. /\ Half(S2, Dropped(l1, S1[a], a), U, B, a)
          /\ RightDone(S2, B, a) /\ LeftDone(S2, B, a) /\ S2[a] = S1[a] + S1[b]
      <4>1. IsJoin(S2, S1, a, b) /\ a + S1[a] = b
        BY <3>1, <3>3, <3>4 DEF IsJoin
      <4> QED BY <1>5, <3>3, <4>1, JoinLeft
    <3>6. l2 = Dropped(l1, S1[a], a)
      BY <2>1, <3>3, SameOperators DEF l2, V2!Unlinked, V2!Without, Dropped
    <3>7. whole = S1[a] + S1[b]
      BY <1>5, <2>1, <3>2, <3>3 DEF whole
    <3>8. S2 = [p \in Page |-> IF p = a THEN whole
                               ELSE IF p = b \/ (right /\ p = c) THEN 0 ELSE spans[p]]
      <4>1. S2 = [p \in Page |-> IF p = a THEN S1[a] + S1[b] ELSE IF p = b THEN 0 ELSE S1[p]]
        BY <1>5, <3>1, <3>4
      <4>2. \A p \in Page : p # a /\ p # b =>
              S1[p] = IF right /\ p = c THEN 0 ELSE spans[p]
        BY <1>5
      <4> QED BY <3>7, <4>1, <4>2
    <3> QED BY <3>5, <3>6, <3>7, <3>8
  <2>2. CASE ~left
    <3>1. S2 = S1 /\ l2 = l1 /\ a = b /\ whole = m
      BY <1>5, <2>2 DEF S2, l2, a, whole
    <3>2. LeftDone(S1, B, b)
      <4>1. LeftDone(spans, asked, b)
        BY <1>1, <2>2, LeftNeighbour DEF left
      <4> SUFFICES ASSUME NEW x \in FreeIn(S1, B), x + S1[x] = b PROVE FALSE
        BY DEF LeftDone
      <4>2. x \in FreeIn(spans, B) /\ x \in Page /\ S1[x] > 0
        BY <1>5 DEF FreeIn
      <4>3. CASE x = b
        BY <1>f, <4>2, <4>3, <1>5
      <4>4. CASE x # b
        <5>1. x \in FreeIn(spans, asked) /\ S1[x] = spans[x]
          BY <1>4, <1>5, <4>2, <4>4
        <5> QED BY <4>1, <5>1 DEF LeftDone
      <4> QED BY <4>3, <4>4
    <3>3. S1 = [p \in Page |-> IF p = b THEN m
                               ELSE IF p = b \/ (right /\ p = c) THEN 0 ELSE spans[p]]
      <4>1. S1 = [p \in Page |-> S1[p]]
        BY <1>5
      <4>2. \A p \in Page : S1[p] = IF p = b THEN m
                               ELSE IF p = b \/ (right /\ p = c) THEN 0 ELSE spans[p]
        BY <1>5
      <4> QED BY <4>1, <4>2
    <3> QED BY <1>5, <3>1, <3>2, <3>3
  <2> QED BY <2>1, <2>2
<1>7. spans' = S2 /\ freeSpansV2' = Fronted(l2, S2[a], a)
  BY <1>2, <1>6 DEF Fronted
<1>8. StateV2(S2, Fronted(l2, S2[a], a), U, B)
  BY <1>6, ReturnEnds
<1> QED BY <1>1, <1>3, <1>7, <1>8 DEF InvV2

-----------------------------------------------------------------------------
(* The theorems about v2.                                                  *)

LEMMA InitV2 == V2!Init => InvV2
<1> SUFFICES ASSUME V2!Init PROVE InvV2
  OBVIOUS
<1> DEFINE S == [b \in Page |-> 0]
           L == [k \in Page |-> << >>]
<1>1. spans = S /\ asked = S /\ freeSpansV2 = L /\ systemAllocsV2 = {}
  BY SameOperators DEF V2!Init
<1>2. Tiled(S)
  BY NumPagesAssumption DEF Tiled, Page
<1>3. \A p \in Page : ~Covers(S, p) /\ ~InMapped({}, p)
  BY NumPagesAssumption DEF Covers, InMapped, Page
<1>4. FreeIn(S, S) = {}
  BY DEF FreeIn
<1>5. Holds(L, S, {})
  <2>1. << >> \in Seq(Page) /\ IsInjective(<< >>) /\ ToSet(<< >>) = {}
    BY DEF IsInjective, ToSet
  <2> QED BY <2>1 DEF Holds
<1>6. Mapped({}) /\ Apart(S, {})
  BY DEF Mapped, Apart
<1>7. S \in [Page -> Nat] /\ \A b \in Page : S[b] > 0 => S[b] = S[b]
  OBVIOUS
<1> HIDE DEF S, L
<1> QED BY <1>1, <1>2, <1>3, <1>4, <1>5, <1>6, <1>7 DEF InvV2, StateV2

LEMMA InductiveV2 == V2!Spec => []InvV2
<1>1. InvV2 /\ [V2!Next]_(V2!vars) => InvV2'
  <2> SUFFICES ASSUME InvV2, [V2!Next]_(V2!vars) PROVE InvV2'
    OBVIOUS
  <2>1. ASSUME NEW n \in 1 .. MaxRequest, V2!AllocateCached(n) PROVE InvV2'
    BY <2>1, CachedKeepsV2
  <2>2. ASSUME NEW n \in 1 .. MaxRequest, NEW b \in Page, V2!AllocateSystem(n, b) PROVE InvV2'
    BY <2>2, SystemKeepsV2
  <2>3. ASSUME NEW b \in Page, V2!DeallocateSpan(b) PROVE InvV2'
    BY <2>3, DeallocateKeepsV2
  <2>4. CASE UNCHANGED V2!vars
    BY <2>4 DEF V2!vars, InvV2
  <2> QED BY <2>1, <2>2, <2>3, <2>4, SameOperators DEF V2!Next
<1> QED BY <1>1, InitV2, PTL DEF V2!Spec

(* Two sets with at most one member each.                                  *)
LEMMA SameCount ==
  ASSUME NEW X, NEW Y, \A x, y \in X : x = y, \A x, y \in Y : x = y, X = {} <=> Y = {}
  PROVE  Cardinality(X) = Cardinality(Y)
<1>1. CASE X = {}
  BY <1>1
<1>2. CASE X # {}
  <2>1. PICK x \in X, y \in Y : TRUE
    BY <1>2
  <2>2. X = {x} /\ Y = {y}
    BY <2>1
  <2> QED BY <2>2, FS_Singleton
<1> QED BY <1>1, <1>2

LEMMA ExactV2 == InvV2 => SpansExact
<1> SUFFICES ASSUME InvV2 PROVE SpansExact
  OBVIOUS
<1> DEFINE G == FreeIn(spans, asked)
<1>1. /\ Tiled(spans) /\ Mapped(systemAllocsV2)
      /\ \A p \in Page : Covers(spans, p) <=> InMapped(systemAllocsV2, p)
      /\ asked \in [Page -> Nat] /\ \A b \in Page : asked[b] > 0 => asked[b] = spans[b]
      /\ Holds(freeSpansV2, spans, G) /\ Apart(spans, G)
  BY DEF InvV2, StateV2
<1>f. /\ \A b \in Page : spans[b] \in Nat /\ asked[b] \in Nat /\ b \in Nat
      /\ \A b, c \in Page : b < c /\ spans[b] > 0 /\ spans[c] > 0 => b + spans[b] <= c
  BY StateFacts DEF InvV2
<1>2. V2!Free = G
  BY FreeListed, SameOperators DEF V2!Free, FreeIn
<1> HIDE DEF G
<1>3. ASSUME NEW p \in Page
      PROVE  Cardinality({b \in Page : p \in V2!Run(b, spans[b])})
             = Cardinality({a \in systemAllocsV2 : p \in V2!Run(a[1], a[2])})
  <2> DEFINE X == {b \in Page : p \in V2!Run(b, spans[b])}
             Y == {a \in systemAllocsV2 : p \in V2!Run(a[1], a[2])}
  <2>1. \A b \in Page : b \in X <=> b <= p /\ p < b + spans[b]
    BY <1>f DEF V2!Run
  <2>2. \A a \in systemAllocsV2 : a[1] \in Nat /\ a[2] \in Nat
    BY <1>1 DEF Mapped, Page
  <2>3. p \in Nat /\ \A a \in systemAllocsV2 : a \in Y <=> a[1] <= p /\ p < a[1] + a[2]
    BY <1>f, <2>2 DEF V2!Run
  <2>4. \A b, c \in X : b = c
    <3> SUFFICES ASSUME NEW b \in X, NEW c \in X, b # c PROVE FALSE
      OBVIOUS
    <3>1. b \in Page /\ c \in Page /\ b <= p /\ p < b + spans[b] /\ c <= p /\ p < c + spans[c]
      BY <2>1
    <3> HIDE DEF X
    <3>2. spans[b] > 0 /\ spans[c] > 0 /\ (b < c \/ c < b)
      BY <1>f, <2>3, <3>1
    <3>3. (b < c => b + spans[b] <= c) /\ (c < b => c + spans[c] <= b)
      BY <1>f, <3>1, <3>2
    <3> QED BY <1>f, <2>3, <3>1, <3>2, <3>3
  <2>5. \A a, o \in Y : a = o
    BY <1>1, <2>3 DEF Mapped
  <2>6. X = {} <=> Y = {}
    <3>1. X # {} <=> Covers(spans, p)
      BY <2>1 DEF Covers
    <3>2. Y # {} <=> InMapped(systemAllocsV2, p)
      BY <2>3 DEF InMapped
    <3> QED BY <1>1, <3>1, <3>2
  <2> HIDE DEF X, Y
  <2>7. Cardinality(X) = Cardinality(Y)
    BY <2>4, <2>5, <2>6, SameCount
  <2> QED BY <2>7 DEF X, Y
<1>4. \A b \in Page : spans[b] > 0 => asked[b] = (IF b \in G THEN 0 ELSE spans[b])
  BY <1>1, <1>f DEF G, FreeIn
<1>5. \A k \in Page : /\ IsInjective(freeSpansV2[k])
                      /\ \A b \in ToSet(freeSpansV2[k]) : spans[b] = k
  BY <1>1 DEF Holds
<1>6. \A b \in G : b + spans[b] \notin G
  BY <1>1 DEF Apart
<1> QED BY <1>2, <1>3, <1>4, <1>5, <1>6, SameOperators DEF SpansExact, V2!SpansExact

(* v2 keeps its spans and lists exact, for an address space of any size    *)
(* and requests of any length, merges across system allocations included.  *)
THEOREM SpansStayExact == V2!Spec => []SpansExact
BY InductiveV2, ExactV2, PTL

(* A span handed out lies in the address space and overlaps none in use.   *)
LEMMA ServesPoolV2 ==
  ASSUME InvV2, NEW b \in Page, NEW n \in Nat, 0 < n, b + n <= NumPages + 1,
         \A c \in Page : asked[c] > 0 => c + asked[c] <= b \/ b + n <= c,
         asked' = [asked EXCEPT ![b] = n]
  PROVE  V2!Pool!Next
<1>1. n \in Page /\ b \in Nat
  BY NumPagesAssumption DEF Page
<1>2. \A c \in Page : c \in Nat /\ asked[c] \in Nat
  BY StateFacts DEF InvV2
<1>3. V2!Pool!Run(b, n) \subseteq Page
  BY <1>1, NumPagesAssumption DEF V2!Pool!Run, Page
<1>4. V2!Pool!Run(b, n) \cap V2!Pool!InUse = {}
  <2> SUFFICES ASSUME NEW c \in Page, NEW p \in V2!Pool!Run(b, n), p \in V2!Pool!Run(c, asked[c])
               PROVE  FALSE
    BY SameOperators DEF V2!Pool!InUse
  <2>1. p \in Int /\ b <= p /\ p < b + n
    BY <1>1 DEF V2!Pool!Run
  <2>2. c <= p /\ p < c + asked[c]
    BY <1>2 DEF V2!Pool!Run
  <2> QED BY <1>1, <1>2, <2>1, <2>2
<1>5. V2!Pool!AllocateSpan(b, n)
  BY <1>3, <1>4, SameOperators DEF V2!Pool!AllocateSpan
<1> QED BY <1>1, <1>5, SameOperators DEF V2!Pool!Next

(* v2 implements SpanPool: spans found in a list or cut from one, and runs *)
(* the system maps, are free; everything else is invisible to the callers. *)
THEOREM SpanPoolImplementedV2 == V2!Spec => V2ImplementsSpanPool
<1>1. V2!Init => V2!Pool!Init
  BY SameOperators DEF V2!Init, V2!Pool!Init
<1>2. InvV2 /\ [V2!Next]_(V2!vars) => [V2!Pool!Next]_asked
  <2> SUFFICES ASSUME InvV2, [V2!Next]_(V2!vars) PROVE V2!Pool!Next \/ asked' = asked
    OBVIOUS
  <2>f. /\ \A x \in Page : /\ spans[x] \in Nat /\ asked[x] \in Nat /\ x \in Nat
                             /\ x + spans[x] <= NumPages + 1
                             /\ (asked[x] > 0 => asked[x] = spans[x])
        /\ \A x, y \in Page : x < y /\ spans[x] > 0 /\ spans[y] > 0 => x + spans[x] <= y
    BY StateFacts DEF InvV2, StateV2
  <2>1. ASSUME NEW n \in 1 .. MaxRequest, V2!AllocateCached(n) PROVE V2!Pool!Next
    <3>1. PICK b \in FreeIn(spans, asked) : n <= spans[b] /\ asked' = [asked EXCEPT ![b] = n]
      BY <2>1, CachedKeepsV2
    <3>2. b \in Page /\ spans[b] > 0 /\ asked[b] = 0 /\ n \in Nat /\ 0 < n
      BY <3>1 DEF FreeIn
    <3>3. b + n <= NumPages + 1
      BY <2>f, <3>1, <3>2, NumPagesAssumption
    <3>4. ASSUME NEW c \in Page, asked[c] > 0 PROVE c + asked[c] <= b \/ b + n <= c
      <4>1. c # b /\ asked[c] = spans[c]
        BY <2>f, <3>2, <3>4
      <4>2. c < b \/ b < c
        BY <2>f, <3>2, <4>1
      <4>3. (c < b => c + spans[c] <= b) /\ (b < c => b + spans[b] <= c)
        BY <2>f, <3>2, <3>4, <4>1
      <4> QED BY <2>f, <3>1, <3>2, <4>1, <4>2, <4>3
    <3> QED BY <3>1, <3>2, <3>3, <3>4, ServesPoolV2
  <2>2. ASSUME NEW n \in 1 .. MaxRequest, NEW b \in Page, V2!AllocateSystem(n, b)
        PROVE  V2!Pool!Next
    <3>1. /\ asked' = [asked EXCEPT ![b] = n] /\ b + n <= NumPages + 1
          /\ \A p \in Page : b <= p /\ p < b + n => ~Covers(spans, p)
      BY <2>2, SystemKeepsV2
    <3>2. ASSUME NEW c \in Page, asked[c] > 0 PROVE c + asked[c] <= b \/ b + n <= c
      <4>1. \A p \in Page : b <= p /\ p < b + n => ~(c <= p /\ p < c + spans[c])
        BY <3>1 DEF Covers
      <4>2. asked[c] = spans[c] /\ spans[c] \in Nat /\ b \in Nat /\ c \in Nat /\ n \in Nat /\ 0 < n
        BY <2>f, <3>2
      <4>3. ~(b <= c /\ c < b + n) /\ ~(c <= b /\ b < c + spans[c])
        BY <3>2, <4>1, <4>2
      <4> QED BY <4>2, <4>3
    <3>3. n \in Nat /\ 0 < n
      OBVIOUS
    <3> QED BY <3>1, <3>2, <3>3, ServesPoolV2
  <2>3. ASSUME NEW b \in Page, V2!DeallocateSpan(b) PROVE V2!Pool!Next
    <3>1. V2!Pool!DeallocateSpan(b)
      BY <2>3, DeallocateKeepsV2 DEF V2!Pool!DeallocateSpan
    <3> QED BY <3>1, SameOperators DEF V2!Pool!Next
  <2>4. CASE UNCHANGED V2!vars
    BY <2>4 DEF V2!vars
  <2> QED BY <2>1, <2>2, <2>3, <2>4, SameOperators DEF V2!Next
<1> QED BY <1>1, <1>2, InductiveV2, PTL
        DEF V2!Spec, V2ImplementsSpanPool, V2!V2ImplementsSpanPool, V2!Pool!Spec

-----------------------------------------------------------------------------
(* The page cache of v3.                                                   *)
USE NumPagesAssumption, MaxRequestAssumption, GranularityAssumption, MaxCachedPagesAssumption

-----------------------------------------------------------------------------
(* The inductive invariant.                                                *)

TypeInv ==
  /\ numPages \in [Page -> Nat] /\ originAddr \in [Page -> Nat] /\ originPages \in [Page -> Nat]
  /\ inFreeList \in [Page -> BOOLEAN] /\ isLarge \in [Page -> BOOLEAN]
  /\ pageMap \in [Page -> Page \cup {0}]
  /\ freeSpans \in [Page -> Seq(Page)]
  /\ systemAllocs \subseteq Page \X Page

(* The page map and the origins, in the arithmetic of page numbers.        *)
MapInv ==
  /\ \A b, p \in Page : pageMap[p] = b <=> b <= p /\ p < b + numPages[b]
  /\ \A b \in Page : b + numPages[b] <= NumPages + 1
  /\ \A b \in Page : numPages[b] > 0 =>
       /\ <<originAddr[b], originPages[b]>> \in systemAllocs
       /\ originAddr[b] <= b /\ b + numPages[b] <= originAddr[b] + originPages[b]
  /\ \A a \in systemAllocs : a[1] + a[2] <= NumPages + 1
  /\ \A a, o \in systemAllocs : \A p \in Page :
       a[1] <= p /\ p < a[1] + a[2] /\ o[1] <= p /\ p < o[1] + o[2] => a = o
  /\ \A p \in Page : pageMap[p] # 0 <=> \E a \in systemAllocs : a[1] <= p /\ p < a[1] + a[2]

(* Pages of free spans, and those of free spans that are whole origins.    *)
FreePages  == {p \in Page : pageMap[p] # 0 /\ inFreeList[pageMap[p]]}
WholePages == {p \in FreePages : OwnsOrigin(pageMap[p])}

FreeInv ==
  /\ \A b \in Page : inFreeList[b] => numPages[b] > 0
  /\ \A k \in Page : /\ IsInjective(freeSpans[k])
                     /\ ToSet(freeSpans[k]) = {b \in Page : inFreeList[b] /\ numPages[b] = k}
  /\ cachedFreePages = Cardinality(FreePages)

(* The span deallocateSpan works on is in no list.                         *)
OpInv ==
  \/ op = Idle
  \/ /\ op \in [pc : {"next", "prev", "insert"}, span : Page]
     /\ numPages[op.span] > 0 /\ ~inFreeList[op.span]

(* No two free neighbours of one origin; and the span that deallocateSpan  *)
(* works on has no such neighbour on the sides it has looked at.           *)
NoNeighbours ==
  \A b, c \in Page :
    inFreeList[b] /\ inFreeList[c] /\ c = b + numPages[b] => originAddr[b] # originAddr[c]

NextDone ==
  op.pc \in {"prev", "insert"} =>
    \A c \in Page : inFreeList[c] /\ c = op.span + numPages[op.span] =>
      originAddr[c] # originAddr[op.span]

PrevDone ==
  op.pc = "insert" =>
    \A c \in Page : inFreeList[c] /\ op.span = c + numPages[c] =>
      originAddr[c] # originAddr[op.span]

BudgetInv == Cardinality(WholePages) <= MaxCachedPages

CacheInv ==
  /\ TypeInv /\ MapInv /\ FreeInv /\ BudgetInv
  /\ OpInv /\ NoNeighbours /\ NextDone /\ PrevDone

-----------------------------------------------------------------------------
(* Counting pages.                                                         *)

LEMMA RunCount ==
  ASSUME NEW b \in Page, NEW n \in Nat
  PROVE  /\ IsFiniteSet(Run(b, n)) /\ Cardinality(Run(b, n)) = n
         /\ \A p \in Int : p \in Run(b, n) <=> b <= p /\ p < b + n
<1>1. b \in Int /\ b + n - 1 \in Int /\ b \in Nat
  BY DEF Page
<1>2. IsFiniteSet(b .. b + n - 1) /\ Cardinality(b .. b + n - 1) = IF b > b + n - 1 THEN 0 ELSE (b + n - 1) - b + 1
  BY <1>1, FS_Interval
<1>3. \A p \in Int : p \in b .. b + n - 1 <=> b <= p /\ p < b + n
  BY <1>1
<1>4. (IF b > b + n - 1 THEN 0 ELSE (b + n - 1) - b + 1) = n
  BY <1>1
<1> QED BY <1>2, <1>3, <1>4 DEF Run

LEMMA PagesFinite ==
  ASSUME NEW S, S \subseteq Page
  PROVE  IsFiniteSet(S) /\ Cardinality(S) \in Nat
BY CountBound DEF Page

LEMMA FewerPages ==
  ASSUME NEW S, S \subseteq Page, NEW b \in Page, NEW n \in Nat, Run(b, n) \subseteq S
  PROVE  Cardinality(S \ Run(b, n)) = Cardinality(S) - n
<1> DEFINE R == Run(b, n)
<1>1. IsFiniteSet(R) /\ Cardinality(R) = n
  BY RunCount
<1>2. IsFiniteSet(S)
  BY PagesFinite
<1> HIDE DEF R
<1>3. S \cap R = R
  BY DEF R
<1>4. Cardinality(S \ R) = Cardinality(S) - Cardinality(R)
  BY <1>2, <1>3, FS_Difference
<1> QED BY <1>1, <1>4 DEF R

LEMMA MorePages ==
  ASSUME NEW S, S \subseteq Page, NEW b \in Page, NEW n \in Nat, Run(b, n) \cap S = {}
  PROVE  Cardinality(S \cup Run(b, n)) = Cardinality(S) + n
<1> DEFINE R == Run(b, n)
<1>1. IsFiniteSet(R) /\ Cardinality(R) = n
  BY RunCount
<1>2. IsFiniteSet(S) /\ Cardinality(S) \in Nat
  BY PagesFinite
<1> HIDE DEF R
<1>3. S \cap R = {}
  BY DEF R
<1>4. Cardinality(S \cup R) = Cardinality(S) + Cardinality(R) - Cardinality(S \cap R)
  BY <1>1, <1>2, FS_Union
<1>5. Cardinality(S \cap R) = 0
  BY <1>3, FS_EmptySet
<1> QED BY <1>1, <1>2, <1>4, <1>5 DEF R

LEMMA SubPages ==
  ASSUME NEW S, NEW T, S \subseteq T, T \subseteq Page
  PROVE  Cardinality(S) \in Nat /\ Cardinality(T) \in Nat /\ Cardinality(S) <= Cardinality(T)
BY PagesFinite, FS_Subset

LEMMA RoundUpPositive ==
  ASSUME NEW n \in Nat \ {0}
  PROVE  RoundUp(n) \in Nat /\ RoundUp(n) >= 1
<1> DEFINE i == n + Granularity - 1
           q == i \div Granularity
<1>1. i \in Nat /\ i >= Granularity
  OBVIOUS
<1> HIDE DEF i
<1>2. q \in Nat /\ i % Granularity \in 0 .. Granularity - 1 /\ i = q * Granularity + (i % Granularity)
  BY <1>1, Z3
<1> DEFINE r == i % Granularity
<1>3. r \in Nat /\ r < Granularity
  BY <1>2
<1> HIDE DEF q, r
<1>4. q # 0
  <2>1. ASSUME q = 0 PROVE FALSE
    <3>1. q * Granularity = 0
      BY <2>1
    <3>2. i = 0 + r
      BY <1>2, <3>1 DEF r
    <3> QED BY <1>1, <1>3, <3>2
  <2> QED BY <2>1
<1>5. q * Granularity \in Nat /\ q * Granularity >= 1
  <2>1. q \in Nat /\ q >= 1
    BY <1>2, <1>4
  <2> QED BY <2>1, Z3
<1> QED BY <1>5 DEF RoundUp, q, i

-----------------------------------------------------------------------------
(* Facts of every state.                                                   *)

LEMMA SpanFacts ==
  ASSUME TypeInv, MapInv, NEW b \in Page
  PROVE  /\ b \in Nat /\ b >= 1 /\ b <= NumPages /\ numPages[b] \in Nat
         /\ originAddr[b] \in Nat /\ originPages[b] \in Nat
         /\ b + numPages[b] <= NumPages + 1
         /\ numPages[b] > 0 => /\ pageMap[b] = b /\ originAddr[b] \in Page /\ originPages[b] \in Page
                               /\ <<originAddr[b], originPages[b]>> \in systemAllocs
                               /\ originAddr[b] <= b
                               /\ b + numPages[b] <= originAddr[b] + originPages[b]
<1>1. b \in Nat /\ b >= 1 /\ b <= NumPages
  BY DEF Page
<1>2. numPages[b] \in Nat /\ originAddr[b] \in Nat /\ originPages[b] \in Nat
  BY DEF TypeInv
<1>3. b + numPages[b] <= NumPages + 1
  BY DEF MapInv
<1>4. ASSUME numPages[b] > 0
      PROVE  /\ pageMap[b] = b /\ <<originAddr[b], originPages[b]>> \in systemAllocs
             /\ originAddr[b] <= b /\ b + numPages[b] <= originAddr[b] + originPages[b]
  BY <1>1, <1>2, <1>4 DEF MapInv
<1>5. ASSUME numPages[b] > 0
      PROVE  originAddr[b] \in Page /\ originPages[b] \in Page
  BY <1>4, <1>5 DEF TypeInv
<1> QED BY <1>1, <1>2, <1>3, <1>4, <1>5

(* Cutting a span in two.                                                  *)
Splits(b, n, m) ==
  /\ numPages[b] = m /\ 0 < n /\ n < m
  /\ numPages'    = [numPages EXCEPT ![b] = n, ![b + n] = m - n]
  /\ originAddr'  = [originAddr EXCEPT ![b + n] = originAddr[b]]
  /\ originPages' = [originPages EXCEPT ![b + n] = originPages[b]]
  /\ pageMap'     = SplitMap(b, n, m)
  /\ UNCHANGED systemAllocs

LEMMA SplitFacts ==
  ASSUME TypeInv, MapInv, NEW b \in Page, NEW n \in Nat, NEW m \in Nat, Splits(b, n, m)
  PROVE  /\ b + n \in Page /\ b + n # b /\ numPages[b + n] = 0
         /\ numPages' \in [Page -> Nat] /\ numPages'[b] = n /\ numPages'[b + n] = m - n
         /\ \A c \in Page : c # b /\ c # b + n => numPages'[c] = numPages[c]
         /\ originAddr' \in [Page -> Nat] /\ originAddr'[b + n] = originAddr[b]
         /\ \A c \in Page : c # b + n => originAddr'[c] = originAddr[c]
         /\ originPages' \in [Page -> Nat] /\ originPages'[b + n] = originPages[b]
         /\ \A c \in Page : c # b + n => originPages'[c] = originPages[c]
         /\ pageMap' \in [Page -> Page \cup {0}]
         /\ \A p \in Page : pageMap'[p] = IF b <= p /\ p < b + n THEN b
                                          ELSE IF b + n <= p /\ p < b + m THEN b + n ELSE pageMap[p]
<1>h. /\ numPages[b] = m /\ 0 < n /\ n < m
      /\ numPages'    = [numPages EXCEPT ![b] = n, ![b + n] = m - n]
      /\ originAddr'  = [originAddr EXCEPT ![b + n] = originAddr[b]]
      /\ originPages' = [originPages EXCEPT ![b + n] = originPages[b]]
      /\ pageMap'     = SplitMap(b, n, m)
  BY DEF Splits
<1>t. /\ numPages \in [Page -> Nat] /\ originAddr \in [Page -> Nat] /\ originPages \in [Page -> Nat]
      /\ pageMap \in [Page -> Page \cup {0}]
  BY DEF TypeInv
<1>1. b \in Nat /\ b >= 1 /\ b + m <= NumPages + 1
  BY <1>h, SpanFacts
<1> DEFINE r == b + n
<1>2. r \in Page /\ r # b /\ r \in Nat /\ b <= r /\ r < b + m
  BY <1>h, <1>1 DEF Page
<1>3. m - n \in Nat
  BY <1>h
<1>4. pageMap[r] = b
  BY <1>h, <1>2 DEF MapInv
<1> HIDE DEF r
<1>5. numPages[r] = 0
  <2>1. ASSUME numPages[r] > 0 PROVE FALSE
    BY <1>2, <1>4, <2>1, SpanFacts
  <2> QED BY <1>2, <1>t, <2>1
<1>6. /\ numPages' \in [Page -> Nat] /\ numPages'[b] = n /\ numPages'[r] = m - n
      /\ \A c \in Page : c # b /\ c # r => numPages'[c] = numPages[c]
  BY <1>h, <1>t, <1>2, <1>3 DEF r
<1>7. /\ originAddr' \in [Page -> Nat] /\ originAddr'[r] = originAddr[b]
      /\ \A c \in Page : c # r => originAddr'[c] = originAddr[c]
      /\ originPages' \in [Page -> Nat] /\ originPages'[r] = originPages[b]
      /\ \A c \in Page : c # r => originPages'[c] = originPages[c]
  BY <1>h, <1>t, <1>2 DEF r
<1>8. \A p \in Page : /\ p \in Run(b, n) <=> b <= p /\ p < b + n
                      /\ p \in Run(b + n, m - n) <=> b + n <= p /\ p < b + m
  <2> TAKE p \in Page
  <2>1. p \in Int /\ b + n + (m - n) = b + m
    BY <1>1 DEF Page
  <2>2. \A x \in Nat, y \in Nat : p \in Run(x, y) <=> x <= p /\ p < x + y
    BY <2>1 DEF Run
  <2>3. b + n \in Nat
    BY <1>1
  <2> QED BY <1>1, <1>3, <2>1, <2>2, <2>3
<1>9. /\ pageMap' \in [Page -> Page \cup {0}]
      /\ \A p \in Page : pageMap'[p] = IF b <= p /\ p < b + n THEN b
                                       ELSE IF r <= p /\ p < b + m THEN r ELSE pageMap[p]
  BY <1>h, <1>t, <1>2, <1>8 DEF SplitMap, Registered, r
<1> QED BY <1>2, <1>5, <1>6, <1>7, <1>9 DEF r

LEMMA SplitKeepsMap ==
  ASSUME TypeInv, MapInv, NEW b \in Page, NEW n \in Nat, NEW m \in Nat, Splits(b, n, m)
  PROVE  MapInv'
<1> DEFINE r == b + n
<1>h. numPages[b] = m /\ 0 < n /\ n < m /\ systemAllocs' = systemAllocs
  BY DEF Splits
<1>1. /\ r \in Page /\ r # b /\ numPages[r] = 0
      /\ numPages' \in [Page -> Nat] /\ numPages'[b] = n /\ numPages'[r] = m - n
      /\ \A c \in Page : c # b /\ c # r => numPages'[c] = numPages[c]
      /\ originAddr'[r] = originAddr[b]
      /\ \A c \in Page : c # r => originAddr'[c] = originAddr[c]
      /\ originPages'[r] = originPages[b]
      /\ \A c \in Page : c # r => originPages'[c] = originPages[c]
      /\ \A p \in Page : pageMap'[p] = IF b <= p /\ p < r THEN b
                                       ELSE IF r <= p /\ p < b + m THEN r ELSE pageMap[p]
  BY SplitFacts
<1>2. r = b + n
  OBVIOUS
<1> HIDE DEF r
<1>3. /\ b \in Nat /\ b >= 1 /\ b + m <= NumPages + 1 /\ r \in Nat
      /\ <<originAddr[b], originPages[b]>> \in systemAllocs
      /\ originAddr[b] \in Nat /\ originPages[b] \in Nat
      /\ originAddr[b] <= b /\ b + m <= originAddr[b] + originPages[b]
  <2>1. r \in Nat
    BY <1>1, SpanFacts
  <2>2. numPages[b] > 0
    BY <1>h
  <2> QED BY <1>h, <2>1, <2>2, SpanFacts
<1>4. \A p \in Page : pageMap[p] = b <=> b <= p /\ p < b + m
  BY <1>h DEF MapInv
<1>5. \A p \in Page : p \in Nat /\ p >= 1
  BY DEF Page
<1>6. ASSUME NEW c \in Page, NEW p \in Page
      PROVE  pageMap'[p] = c <=> c <= p /\ p < c + numPages'[c]
  <2>1. CASE c = b
    BY <1>h, <1>1, <1>2, <1>3, <1>4, <1>5, <2>1
  <2>2. CASE c = r
    <3>1. pageMap[p] # r
      BY <1>1, <1>5 DEF MapInv
    <3> QED BY <1>h, <1>1, <1>2, <1>3, <1>4, <1>5, <2>2, <3>1
  <2>3. CASE c # b /\ c # r
    <3>1. numPages'[c] = numPages[c] /\ (pageMap[p] = c <=> c <= p /\ p < c + numPages[c])
      BY <1>1, <2>3 DEF MapInv
    <3>2. CASE b <= p /\ p < b + m
      <4>1. pageMap[p] = b /\ pageMap'[p] \in {b, r}
        BY <1>1, <1>2, <1>3, <1>4, <1>5, <3>2
      <4> QED BY <2>3, <3>1, <4>1
    <3>3. CASE ~(b <= p /\ p < b + m)
      <4>1. pageMap'[p] = pageMap[p]
        BY <1>h, <1>1, <1>2, <1>3, <1>5, <3>3
      <4> QED BY <3>1, <4>1
    <3> QED BY <3>2, <3>3
  <2> QED BY <2>1, <2>2, <2>3
<1>7. ASSUME NEW c \in Page
      PROVE  /\ c + numPages'[c] <= NumPages + 1
             /\ numPages'[c] > 0 =>
                  /\ <<originAddr'[c], originPages'[c]>> \in systemAllocs'
                  /\ originAddr'[c] <= c /\ c + numPages'[c] <= originAddr'[c] + originPages'[c]
  <2>1. CASE c = b
    BY <1>h, <1>1, <1>3, <2>1
  <2>2. CASE c = r
    BY <1>h, <1>1, <1>2, <1>3, <2>2
  <2>3. CASE c # b /\ c # r
    BY <1>h, <1>1, <2>3, SpanFacts
  <2> QED BY <2>1, <2>2, <2>3
<1>8. ASSUME NEW p \in Page
      PROVE  pageMap'[p] # 0 <=> \E a \in systemAllocs : a[1] <= p /\ p < a[1] + a[2]
  <2>1. pageMap[p] # 0 <=> \E a \in systemAllocs : a[1] <= p /\ p < a[1] + a[2]
    BY DEF MapInv
  <2>2. pageMap'[p] # 0 <=> pageMap[p] # 0
    <3>1. b # 0 /\ r # 0
      BY <1>3, <1>2
    <3>2. CASE b <= p /\ p < b + m
      BY <1>1, <1>2, <1>3, <1>4, <1>5, <3>1, <3>2
    <3>3. CASE ~(b <= p /\ p < b + m)
      BY <1>h, <1>1, <1>2, <1>3, <1>5, <3>3
    <3> QED BY <3>2, <3>3
  <2> QED BY <2>1, <2>2
<1> QED BY <1>h, <1>6, <1>7, <1>8 DEF MapInv

(* Merging two neighbours of one origin.                                   *)
Merges(l, r) ==
  /\ numPages[l] > 0 /\ numPages[r] > 0 /\ r = l + numPages[l] /\ originAddr[l] = originAddr[r]
  /\ numPages'    = [numPages EXCEPT ![l] = @ + numPages[r], ![r] = 0]
  /\ originAddr'  = [originAddr EXCEPT ![r] = 0]
  /\ originPages' = [originPages EXCEPT ![r] = 0]
  /\ pageMap'     = Registered(pageMap, r, numPages[r], l)
  /\ UNCHANGED systemAllocs

LEMMA MergeFacts ==
  ASSUME TypeInv, MapInv, NEW l \in Page, NEW r \in Page, Merges(l, r)
  PROVE  /\ r # l
         /\ numPages' \in [Page -> Nat] /\ numPages'[l] = numPages[l] + numPages[r] /\ numPages'[r] = 0
         /\ \A c \in Page : c # l /\ c # r => numPages'[c] = numPages[c]
         /\ originAddr' \in [Page -> Nat] /\ originPages' \in [Page -> Nat]
         /\ \A c \in Page : c # r => originAddr'[c] = originAddr[c] /\ originPages'[c] = originPages[c]
         /\ pageMap' \in [Page -> Page \cup {0}]
         /\ \A p \in Page : pageMap'[p] = IF pageMap[p] = r THEN l ELSE pageMap[p]
         /\ originPages[l] = originPages[r]
<1>h. /\ numPages[l] > 0 /\ numPages[r] > 0 /\ r = l + numPages[l] /\ originAddr[l] = originAddr[r]
      /\ numPages'    = [numPages EXCEPT ![l] = numPages[l] + numPages[r], ![r] = 0]
      /\ originAddr'  = [originAddr EXCEPT ![r] = 0]
      /\ originPages' = [originPages EXCEPT ![r] = 0]
      /\ pageMap'     = Registered(pageMap, r, numPages[r], l)
  BY DEF Merges
<1>t. /\ numPages \in [Page -> Nat] /\ originAddr \in [Page -> Nat] /\ originPages \in [Page -> Nat]
      /\ pageMap \in [Page -> Page \cup {0}]
  BY DEF TypeInv
<1>1. l \in Nat /\ r \in Nat /\ numPages[l] \in Nat /\ numPages[r] \in Nat
  BY SpanFacts
<1>2. r # l
  BY <1>h, <1>1
<1>3. numPages[l] + numPages[r] \in Nat
  BY <1>1
<1>4. /\ numPages' \in [Page -> Nat] /\ numPages'[l] = numPages[l] + numPages[r] /\ numPages'[r] = 0
      /\ \A c \in Page : c # l /\ c # r => numPages'[c] = numPages[c]
  BY <1>h, <1>t, <1>2, <1>3
<1>5. /\ originAddr' \in [Page -> Nat] /\ originPages' \in [Page -> Nat]
      /\ \A c \in Page : c # r => originAddr'[c] = originAddr[c] /\ originPages'[c] = originPages[c]
  BY <1>h, <1>t
<1>6. \A p \in Page : p \in Run(r, numPages[r]) <=> pageMap[p] = r
  <2> TAKE p \in Page
  <2>1. p \in Int
    BY DEF Page
  <2>2. p \in Run(r, numPages[r]) <=> r <= p /\ p < r + numPages[r]
    BY <1>1, <2>1, RunCount
  <2> QED BY <2>2 DEF MapInv
<1>7. /\ pageMap' \in [Page -> Page \cup {0}]
      /\ \A p \in Page : pageMap'[p] = IF pageMap[p] = r THEN l ELSE pageMap[p]
  BY <1>h, <1>t, <1>6 DEF Registered
<1>8. originPages[l] = originPages[r]
  <2> DEFINE o == originAddr[l]
             a == <<o, originPages[l]>>
             d == <<o, originPages[r]>>
  <2>1. o \in Page /\ a \in systemAllocs /\ d \in systemAllocs /\ originPages[l] \in Page /\ originPages[r] \in Page
    BY <1>h, SpanFacts
  <2>2. o <= o /\ o < o + originPages[l] /\ o < o + originPages[r]
    BY <2>1 DEF Page
  <2>3. a[1] = o /\ a[2] = originPages[l] /\ d[1] = o /\ d[2] = originPages[r]
    OBVIOUS
  <2> HIDE DEF a, d
  <2>4. a = d
    BY <2>1, <2>2, <2>3 DEF MapInv
  <2> QED BY <2>3, <2>4
<1> QED BY <1>2, <1>4, <1>5, <1>7, <1>8

LEMMA MergeKeepsMap ==
  ASSUME TypeInv, MapInv, NEW l \in Page, NEW r \in Page, Merges(l, r)
  PROVE  MapInv'
<1>h. /\ numPages[l] > 0 /\ numPages[r] > 0 /\ r = l + numPages[l] /\ originAddr[l] = originAddr[r]
      /\ systemAllocs' = systemAllocs
  BY DEF Merges
<1>1. /\ r # l /\ numPages'[l] = numPages[l] + numPages[r] /\ numPages'[r] = 0
      /\ \A c \in Page : c # l /\ c # r => numPages'[c] = numPages[c]
      /\ \A c \in Page : c # r => originAddr'[c] = originAddr[c] /\ originPages'[c] = originPages[c]
      /\ \A p \in Page : pageMap'[p] = IF pageMap[p] = r THEN l ELSE pageMap[p]
      /\ originPages[l] = originPages[r]
  BY MergeFacts
<1>2. l \in Nat /\ r \in Nat /\ numPages[l] \in Nat /\ numPages[r] \in Nat /\ l # 0
  <2>1. l \in Nat /\ r \in Nat /\ l # 0
    BY DEF Page
  <2> QED BY <2>1, SpanFacts
<1>3. \A b, p \in Page : pageMap[p] = b <=> b <= p /\ p < b + numPages[b]
  BY DEF MapInv
<1>5. \A p \in Page : p \in Nat /\ p >= 1
  BY DEF Page
<1>6. ASSUME NEW c \in Page, NEW p \in Page
      PROVE  pageMap'[p] = c <=> c <= p /\ p < c + numPages'[c]
  <2>1. CASE c = l
    <3>1. pageMap[p] = l <=> l <= p /\ p < l + numPages[l]
      BY <1>3
    <3>2. pageMap[p] = r <=> r <= p /\ p < r + numPages[r]
      BY <1>3
    <3> QED BY <1>h, <1>1, <1>2, <1>5, <2>1, <3>1, <3>2
  <2>2. CASE c = r
    <3>1. pageMap'[p] # r
      BY <1>1
    <3>2. ~(r <= p /\ p < r + 0)
      BY <1>2, <1>5
    <3> QED BY <1>1, <2>2, <3>1, <3>2
  <2>3. CASE c # l /\ c # r
    BY <1>1, <1>3, <2>3
  <2> QED BY <2>1, <2>2, <2>3
<1>7. ASSUME NEW c \in Page
      PROVE  /\ c + numPages'[c] <= NumPages + 1
             /\ numPages'[c] > 0 =>
                  /\ <<originAddr'[c], originPages'[c]>> \in systemAllocs'
                  /\ originAddr'[c] <= c /\ c + numPages'[c] <= originAddr'[c] + originPages'[c]
  <2>1. CASE c = l
    <3>1. /\ r + numPages[r] <= NumPages + 1
          /\ r + numPages[r] <= originAddr[r] + originPages[r]
          /\ originAddr[l] <= l /\ <<originAddr[l], originPages[l]>> \in systemAllocs
      BY <1>h, SpanFacts
    <3>2. l + numPages'[l] = r + numPages[r]
      BY <1>h, <1>1, <1>2
    <3> QED BY <1>h, <1>1, <2>1, <3>1, <3>2
  <2>2. CASE c = r
    <3>1. c \in Nat /\ c <= NumPages /\ numPages'[c] = 0
      BY <1>1, <2>2 DEF Page
    <3> QED BY <3>1
  <2>3. CASE c # l /\ c # r
    BY <1>h, <1>1, <2>3, SpanFacts
  <2> QED BY <2>1, <2>2, <2>3
<1>8. ASSUME NEW p \in Page
      PROVE  pageMap'[p] # 0 <=> \E a \in systemAllocs : a[1] <= p /\ p < a[1] + a[2]
  <2>1. pageMap[p] # 0 <=> \E a \in systemAllocs : a[1] <= p /\ p < a[1] + a[2]
    BY DEF MapInv
  <2>2. r # 0
    BY <1>5
  <2> QED BY <1>1, <1>2, <2>1, <2>2
<1> QED BY <1>h, <1>6, <1>7, <1>8 DEF MapInv

(* A new origin from the system.                                           *)
Maps(b, m) ==
  /\ Run(b, m) \subseteq Page /\ m >= 1
  /\ \A a \in systemAllocs : Run(b, m) \cap Run(a[1], a[2]) = {}
  /\ systemAllocs' = systemAllocs \cup {<<b, m>>}
  /\ numPages'     = [numPages EXCEPT ![b] = m]
  /\ originAddr'   = [originAddr EXCEPT ![b] = b]
  /\ originPages'  = [originPages EXCEPT ![b] = m]
  /\ pageMap'      = Registered(pageMap, b, m, b)

LEMMA MapsFacts ==
  ASSUME TypeInv, MapInv, NEW b \in Page, NEW m \in Nat, Maps(b, m)
  PROVE  /\ numPages' \in [Page -> Nat] /\ numPages'[b] = m /\ m \in Page /\ b + m <= NumPages + 1
         /\ \A c \in Page : c # b => numPages'[c] = numPages[c]
         /\ originAddr' \in [Page -> Nat] /\ originPages' \in [Page -> Nat]
         /\ originAddr'[b] = b /\ originPages'[b] = m
         /\ \A c \in Page : c # b => originAddr'[c] = originAddr[c] /\ originPages'[c] = originPages[c]
         /\ pageMap' \in [Page -> Page \cup {0}]
         /\ \A p \in Page : pageMap'[p] = IF b <= p /\ p < b + m THEN b ELSE pageMap[p]
         /\ \A p \in Page : b <= p /\ p < b + m => pageMap[p] = 0
         /\ numPages[b] = 0
         /\ \A a \in systemAllocs : \A p \in Page : ~(b <= p /\ p < b + m /\ a[1] <= p /\ p < a[1] + a[2])
         /\ systemAllocs' \subseteq Page \X Page
<1>h. /\ Run(b, m) \subseteq Page /\ m >= 1
      /\ \A a \in systemAllocs : Run(b, m) \cap Run(a[1], a[2]) = {}
      /\ systemAllocs' = systemAllocs \cup {<<b, m>>}
      /\ numPages'     = [numPages EXCEPT ![b] = m]
      /\ originAddr'   = [originAddr EXCEPT ![b] = b]
      /\ originPages'  = [originPages EXCEPT ![b] = m]
      /\ pageMap'      = Registered(pageMap, b, m, b)
  BY DEF Maps
<1>t. /\ numPages \in [Page -> Nat] /\ originAddr \in [Page -> Nat] /\ originPages \in [Page -> Nat]
      /\ pageMap \in [Page -> Page \cup {0}] /\ systemAllocs \subseteq Page \X Page
  BY DEF TypeInv
<1>1. b \in Nat /\ b >= 1 /\ b \in Page
  BY DEF Page
<1>2. \A x \in Page, y \in Nat, p \in Int : p \in Run(x, y) <=> x <= p /\ p < x + y
  BY RunCount
<1>3. m \in Page /\ b + m <= NumPages + 1
  <2>1. b + m - 1 \in Int /\ b <= b + m - 1 /\ b + m - 1 < b + m
    BY <1>h, <1>1
  <2>2. b + m - 1 \in Page
    BY <1>h, <1>2, <2>1
  <2> QED BY <1>h, <1>1, <2>2 DEF Page
<1>4. /\ numPages' \in [Page -> Nat] /\ numPages'[b] = m
      /\ \A c \in Page : c # b => numPages'[c] = numPages[c]
      /\ originAddr' \in [Page -> Nat] /\ originPages' \in [Page -> Nat]
      /\ originAddr'[b] = b /\ originPages'[b] = m
      /\ \A c \in Page : c # b => originAddr'[c] = originAddr[c] /\ originPages'[c] = originPages[c]
  BY <1>h, <1>t, <1>1
<1>5. \A p \in Page : p \in Run(b, m) <=> b <= p /\ p < b + m
  BY <1>2 DEF Page
<1>6. /\ pageMap' \in [Page -> Page \cup {0}]
      /\ \A p \in Page : pageMap'[p] = IF b <= p /\ p < b + m THEN b ELSE pageMap[p]
  BY <1>h, <1>t, <1>5 DEF Registered
<1>7. \A a \in systemAllocs : \A p \in Page : ~(b <= p /\ p < b + m /\ a[1] <= p /\ p < a[1] + a[2])
  <2> SUFFICES ASSUME NEW a \in systemAllocs, NEW p \in Page,
                      b <= p /\ p < b + m /\ a[1] <= p /\ p < a[1] + a[2]
               PROVE  FALSE
    OBVIOUS
  <2>1. a[1] \in Page /\ a[2] \in Nat /\ p \in Int
    <3>1. a[1] \in Page /\ a[2] \in Page
      BY <1>t
    <3> QED BY <3>1 DEF Page
  <2>2. p \in Run(a[1], a[2])
    BY <1>2, <2>1
  <2>3. p \in Run(b, m)
    BY <1>5
  <2> QED BY <1>h, <2>2, <2>3
<1>8. \A p \in Page : b <= p /\ p < b + m => pageMap[p] = 0
  BY <1>7 DEF MapInv
<1>9. numPages[b] = 0
  <2>1. pageMap[b] = 0
    BY <1>h, <1>1, <1>8
  <2>2. numPages[b] > 0 => pageMap[b] = b
    BY SpanFacts
  <2> QED BY <1>t, <1>1, <2>1, <2>2
<1>10. systemAllocs' \subseteq Page \X Page
  BY <1>h, <1>t, <1>3
<1> QED BY <1>3, <1>4, <1>6, <1>7, <1>8, <1>9, <1>10

LEMMA MapsKeepsMap ==
  ASSUME TypeInv, MapInv, NEW b \in Page, NEW m \in Nat, Maps(b, m)
  PROVE  MapInv'
<1>h. systemAllocs' = systemAllocs \cup {<<b, m>>} /\ m >= 1
  BY DEF Maps
<1>1. /\ numPages'[b] = m /\ m \in Page /\ b + m <= NumPages + 1
      /\ \A c \in Page : c # b => numPages'[c] = numPages[c]
      /\ originAddr'[b] = b /\ originPages'[b] = m
      /\ \A c \in Page : c # b => originAddr'[c] = originAddr[c] /\ originPages'[c] = originPages[c]
      /\ \A p \in Page : pageMap'[p] = IF b <= p /\ p < b + m THEN b ELSE pageMap[p]
      /\ \A p \in Page : b <= p /\ p < b + m => pageMap[p] = 0
      /\ numPages[b] = 0
      /\ \A a \in systemAllocs : \A p \in Page : ~(b <= p /\ p < b + m /\ a[1] <= p /\ p < a[1] + a[2])
  BY MapsFacts
<1>2. \A p \in Page : p \in Nat /\ p >= 1 /\ p # 0
  BY DEF Page
<1>3. <<b, m>>[1] = b /\ <<b, m>>[2] = m
  OBVIOUS
<1> DEFINE n == <<b, m>>
<1> HIDE DEF n
<1>4. n[1] = b /\ n[2] = m /\ systemAllocs' = systemAllocs \cup {n}
  BY <1>h, <1>3 DEF n
<1>5. ASSUME NEW c \in Page, NEW p \in Page
      PROVE  pageMap'[p] = c <=> c <= p /\ p < c + numPages'[c]
  <2>0. pageMap[p] = c <=> c <= p /\ p < c + numPages[c]
    BY DEF MapInv
  <2>1. CASE c = b
    <3>1. pageMap[p] # b
      BY <1>1, <1>2, <2>0, <2>1
    <3> QED BY <1>1, <2>1, <3>1
  <2>2. CASE c # b
    BY <1>1, <1>2, <2>0, <2>2
  <2> QED BY <2>1, <2>2
<1>6. ASSUME NEW c \in Page
      PROVE  /\ c + numPages'[c] <= NumPages + 1
             /\ numPages'[c] > 0 =>
                  /\ <<originAddr'[c], originPages'[c]>> \in systemAllocs'
                  /\ originAddr'[c] <= c /\ c + numPages'[c] <= originAddr'[c] + originPages'[c]
  <2>1. CASE c = b
    BY <1>h, <1>1, <1>2, <2>1
  <2>2. CASE c # b
    BY <1>h, <1>1, <2>2, SpanFacts
  <2> QED BY <2>1, <2>2
<1>7. \A a \in systemAllocs' : a[1] + a[2] <= NumPages + 1
  BY <1>1, <1>4 DEF MapInv
<1>8. ASSUME NEW a \in systemAllocs', NEW o \in systemAllocs', NEW p \in Page,
             a[1] <= p /\ p < a[1] + a[2] /\ o[1] <= p /\ p < o[1] + o[2]
      PROVE  a = o
  <2>1. CASE a = n /\ o = n
    BY <2>1
  <2>2. CASE a = n /\ o # n
    BY <1>1, <1>4, <1>8, <2>2
  <2>3. CASE a # n /\ o = n
    BY <1>1, <1>4, <1>8, <2>3
  <2>4. CASE a # n /\ o # n
    BY <1>4, <1>8, <2>4 DEF MapInv
  <2> QED BY <2>1, <2>2, <2>3, <2>4
<1>9. ASSUME NEW p \in Page
      PROVE  pageMap'[p] # 0 <=> \E a \in systemAllocs' : a[1] <= p /\ p < a[1] + a[2]
  <2>1. pageMap[p] # 0 <=> \E a \in systemAllocs : a[1] <= p /\ p < a[1] + a[2]
    BY DEF MapInv
  <2>2. CASE b <= p /\ p < b + m
    BY <1>1, <1>2, <1>4, <2>2
  <2>3. CASE ~(b <= p /\ p < b + m)
    BY <1>1, <1>4, <2>1, <2>3
  <2> QED BY <2>2, <2>3
<1> QED BY <1>5, <1>6, <1>7, <1>8, <1>9 DEF MapInv

(* A span that is a whole origin goes back to the system.                  *)
Releases(b) ==
  /\ numPages[b] > 0 /\ OwnsOrigin(b)
  /\ pageMap'      = Registered(pageMap, b, numPages[b], 0)
  /\ systemAllocs' = {a \in systemAllocs : a[1] # originAddr[b]}
  /\ numPages'     = [numPages EXCEPT ![b] = 0]
  /\ originAddr'   = [originAddr EXCEPT ![b] = 0]
  /\ originPages'  = [originPages EXCEPT ![b] = 0]

LEMMA ReleaseFacts ==
  ASSUME TypeInv, MapInv, NEW b \in Page, Releases(b)
  PROVE  /\ numPages' \in [Page -> Nat] /\ numPages'[b] = 0
         /\ \A c \in Page : c # b => numPages'[c] = numPages[c]
         /\ originAddr' \in [Page -> Nat] /\ originPages' \in [Page -> Nat]
         /\ \A c \in Page : c # b => originAddr'[c] = originAddr[c] /\ originPages'[c] = originPages[c]
         /\ pageMap' \in [Page -> Page \cup {0}]
         /\ \A p \in Page : pageMap'[p] = IF pageMap[p] = b THEN 0 ELSE pageMap[p]
<1>h. /\ pageMap'      = Registered(pageMap, b, numPages[b], 0)
      /\ numPages'     = [numPages EXCEPT ![b] = 0]
      /\ originAddr'   = [originAddr EXCEPT ![b] = 0]
      /\ originPages'  = [originPages EXCEPT ![b] = 0]
  BY DEF Releases
<1>t. /\ numPages \in [Page -> Nat] /\ originAddr \in [Page -> Nat] /\ originPages \in [Page -> Nat]
      /\ pageMap \in [Page -> Page \cup {0}]
  BY DEF TypeInv
<1>1. \A p \in Page : p \in Run(b, numPages[b]) <=> pageMap[p] = b
  <2> TAKE p \in Page
  <2>1. p \in Int /\ numPages[b] \in Nat
    BY <1>t DEF Page
  <2>2. p \in Run(b, numPages[b]) <=> b <= p /\ p < b + numPages[b]
    BY <2>1, RunCount
  <2> QED BY <2>2 DEF MapInv
<1>2. /\ pageMap' \in [Page -> Page \cup {0}]
      /\ \A p \in Page : pageMap'[p] = IF pageMap[p] = b THEN 0 ELSE pageMap[p]
  BY <1>h, <1>t, <1>1 DEF Registered
<1> QED BY <1>h, <1>t, <1>2

LEMMA ReleaseKeepsMap ==
  ASSUME TypeInv, MapInv, NEW b \in Page, Releases(b)
  PROVE  MapInv' /\ systemAllocs' \subseteq Page \X Page
<1>h. /\ numPages[b] > 0 /\ originAddr[b] = b /\ numPages[b] = originPages[b]
      /\ systemAllocs' = {a \in systemAllocs : a[1] # b}
  BY DEF Releases, OwnsOrigin
<1>1. /\ numPages'[b] = 0 /\ \A c \in Page : c # b => numPages'[c] = numPages[c]
      /\ \A c \in Page : c # b => originAddr'[c] = originAddr[c] /\ originPages'[c] = originPages[c]
      /\ \A p \in Page : pageMap'[p] = IF pageMap[p] = b THEN 0 ELSE pageMap[p]
  BY ReleaseFacts
<1>2. \A p \in Page : p \in Nat /\ p >= 1 /\ p # 0
  BY DEF Page
<1>3. \A c, p \in Page : pageMap[p] = c <=> c <= p /\ p < c + numPages[c]
  BY DEF MapInv
<1>4. numPages[b] \in Nat /\ b + numPages[b] <= NumPages + 1 /\ <<b, numPages[b]>> \in systemAllocs
  BY <1>h, SpanFacts
<1> DEFINE n == <<b, numPages[b]>>
<1>5. n[1] = b /\ n[2] = numPages[b] /\ n \in systemAllocs
  BY <1>4
<1> HIDE DEF n
<1>6. \A a \in systemAllocs : a[1] = b => a = n
  <2> SUFFICES ASSUME NEW a \in systemAllocs, a[1] = b PROVE a = n
    OBVIOUS
  <2>1. a[2] \in Page
    BY DEF TypeInv
  <2>2. a[1] <= b /\ b < a[1] + a[2] /\ n[1] <= b /\ b < n[1] + n[2]
    BY <1>h, <1>2, <1>4, <1>5, <2>1
  <2> QED BY <1>5, <2>2 DEF MapInv
<1>7. \A a \in systemAllocs : a # n => \A p \in Page : a[1] <= p /\ p < a[1] + a[2] => pageMap[p] # b
  <2> SUFFICES ASSUME NEW a \in systemAllocs, NEW p \in Page,
                      a[1] <= p, p < a[1] + a[2], pageMap[p] = b
               PROVE  a = n
    OBVIOUS
  <2>1. n[1] <= p /\ p < n[1] + n[2]
    BY <1>3, <1>5
  <2> QED BY <1>5, <2>1 DEF MapInv
<1>8. systemAllocs' = systemAllocs \ {n}
  BY <1>h, <1>5, <1>6
<1>9. ASSUME NEW c \in Page, NEW p \in Page
      PROVE  pageMap'[p] = c <=> c <= p /\ p < c + numPages'[c]
  <2>1. CASE c = b
    BY <1>1, <1>2, <2>1
  <2>2. CASE c # b
    BY <1>1, <1>2, <1>3, <2>2
  <2> QED BY <2>1, <2>2
<1>10. ASSUME NEW c \in Page
       PROVE  /\ c + numPages'[c] <= NumPages + 1
              /\ numPages'[c] > 0 =>
                   /\ <<originAddr'[c], originPages'[c]>> \in systemAllocs'
                   /\ originAddr'[c] <= c /\ c + numPages'[c] <= originAddr'[c] + originPages'[c]
  <2>1. CASE c = b
    <3>1. c \in Nat /\ c <= NumPages /\ numPages'[c] = 0
      BY <1>1, <2>1 DEF Page
    <3> QED BY <3>1
  <2>2. CASE c # b
    <3>1. /\ numPages'[c] = numPages[c] /\ originAddr'[c] = originAddr[c]
          /\ originPages'[c] = originPages[c]
      BY <1>1, <2>2
    <3>2. /\ c + numPages[c] <= NumPages + 1
          /\ numPages[c] > 0 =>
                   /\ <<originAddr[c], originPages[c]>> \in systemAllocs
                   /\ originAddr[c] <= c /\ c + numPages[c] <= originAddr[c] + originPages[c]
                   /\ pageMap[c] = c
      BY SpanFacts
    <3>3. numPages[c] > 0 => <<originAddr[c], originPages[c]>> # n
      <4> SUFFICES ASSUME numPages[c] > 0, <<originAddr[c], originPages[c]>> = n PROVE FALSE
        OBVIOUS
      <4>1. originAddr[c] = b /\ originPages[c] = numPages[b]
        BY <1>5
      <4>2. numPages[c] \in Nat
        BY SpanFacts
      <4>3. b <= c /\ c < b + numPages[b]
        BY <1>2, <1>4, <3>2, <4>1, <4>2
      <4>4. pageMap[c] = b
        BY <1>3, <4>3
      <4> QED BY <2>2, <3>2, <4>4
    <3> QED BY <1>8, <3>1, <3>2, <3>3
  <2> QED BY <2>1, <2>2
<1>11. ASSUME NEW p \in Page
       PROVE  pageMap'[p] # 0 <=> \E a \in systemAllocs' : a[1] <= p /\ p < a[1] + a[2]
  <2>1. pageMap[p] # 0 <=> \E a \in systemAllocs : a[1] <= p /\ p < a[1] + a[2]
    BY DEF MapInv
  <2>2. CASE pageMap[p] = b
    <3>1. n[1] <= p /\ p < n[1] + n[2]
      BY <1>3, <1>5, <2>2
    <3>2. pageMap'[p] = 0
      BY <1>1, <2>2
    <3> QED BY <1>7, <1>8, <2>2, <3>2
  <2>3. CASE pageMap[p] # b
    <3>1. ~(n[1] <= p /\ p < n[1] + n[2])
      BY <1>3, <1>5, <2>3
    <3> QED BY <1>1, <1>8, <2>1, <2>3, <3>1
  <2> QED BY <2>2, <2>3
<1>12. /\ \A a \in systemAllocs' : a[1] + a[2] <= NumPages + 1
       /\ \A a, o \in systemAllocs' : \A p \in Page :
            a[1] <= p /\ p < a[1] + a[2] /\ o[1] <= p /\ p < o[1] + o[2] => a = o
  BY <1>8 DEF MapInv
<1>13. systemAllocs' \subseteq Page \X Page
  BY <1>8 DEF TypeInv
<1> QED BY <1>9, <1>10, <1>11, <1>12, <1>13 DEF MapInv

-----------------------------------------------------------------------------
(* Steps and the free spans.                                               *)

(* Free spans other than x stay as they are.                               *)
Untouched(x) ==
  \A c \in Page : inFreeList[c] /\ c # x =>
    /\ numPages'[c] = numPages[c]
    /\ originAddr'[c] = originAddr[c] /\ originPages'[c] = originPages[c]

LEMMA PagesKept ==
  ASSUME MapInv, MapInv', NEW c \in Page, numPages'[c] = numPages[c], NEW p \in Page
  PROVE  pageMap'[p] = c <=> pageMap[p] = c
<1>1. pageMap[p] = c <=> c <= p /\ p < c + numPages[c]
  BY DEF MapInv
<1>2. pageMap'[p] = c <=> c <= p /\ p < c + numPages'[c]
  BY DEF MapInv
<1> QED BY <1>1, <1>2

(* No span becomes free or stops being free.                               *)
LEMMA FreeSame ==
  ASSUME CacheInv, TypeInv', MapInv', UNCHANGED <<inFreeList, listVars>>, Untouched(0)
  PROVE  FreeInv' /\ BudgetInv' /\ NoNeighbours'
<1>0. inFreeList' = inFreeList /\ freeSpans' = freeSpans /\ cachedFreePages' = cachedFreePages
  BY DEF listVars
<1>1. \A c \in Page : inFreeList[c] => /\ numPages'[c] = numPages[c] /\ originAddr'[c] = originAddr[c]
                                       /\ originPages'[c] = originPages[c]
  BY DEF Untouched, Page
<1>2. \A p \in Page, c \in Page : inFreeList[c] => (pageMap'[p] = c <=> pageMap[p] = c)
  BY <1>1, PagesKept DEF CacheInv
<1>3. \A p \in Page : /\ pageMap[p] # 0 <=> pageMap[p] \in Page
                      /\ pageMap'[p] # 0 <=> pageMap'[p] \in Page
  <2>1. pageMap \in [Page -> Page \cup {0}] /\ pageMap' \in [Page -> Page \cup {0}]
    BY DEF CacheInv, TypeInv
  <2>2. 0 \notin Page
    BY DEF Page
  <2> QED BY <2>1, <2>2
<1>4. FreePages' = FreePages
  BY <1>0, <1>2, <1>3 DEF FreePages
<1>5. WholePages' = WholePages
  <2>1. \A p \in FreePages : pageMap'[p] = pageMap[p] /\ pageMap[p] \in Page /\ inFreeList[pageMap[p]]
    BY <1>2, <1>3 DEF FreePages
  <2>2. \A p \in FreePages : OwnsOrigin(pageMap[p])' <=> OwnsOrigin(pageMap[p])
    BY <1>1, <2>1 DEF OwnsOrigin
  <2> QED BY <1>4, <2>2 DEF WholePages
<1>6. FreeInv'
  <2>1. \A c \in Page : inFreeList'[c] => numPages'[c] > 0
    BY <1>0, <1>1 DEF CacheInv, FreeInv
  <2>2. \A k \in Page : /\ IsInjective(freeSpans'[k])
                        /\ ToSet(freeSpans'[k]) = {b \in Page : inFreeList'[b] /\ numPages'[b] = k}
    <3> TAKE k \in Page
    <3>1. /\ IsInjective(freeSpans[k])
          /\ ToSet(freeSpans[k]) = {b \in Page : inFreeList[b] /\ numPages[b] = k}
      BY DEF CacheInv, FreeInv
    <3> QED BY <1>0, <1>1, <3>1
  <2>3. cachedFreePages' = Cardinality(FreePages')
    BY <1>0, <1>4 DEF CacheInv, FreeInv
  <2> QED BY <2>1, <2>2, <2>3 DEF FreeInv
<1>7. BudgetInv'
  BY <1>5 DEF CacheInv, BudgetInv
<1>8. NoNeighbours'
  BY <1>0, <1>1 DEF CacheInv, NoNeighbours
<1> QED BY <1>6, <1>7, <1>8

(* Span x leaves the lists.                                                *)
Leaves(x, list) ==
  /\ inFreeList[x]
  /\ inFreeList' = [inFreeList EXCEPT ![x] = FALSE]
  /\ freeSpans' = [freeSpans EXCEPT ![numPages[x]] = list]
  /\ list \in Seq(Page) /\ IsInjective(list) /\ ToSet(list) = ToSet(freeSpans[numPages[x]]) \ {x}
  /\ cachedFreePages' = cachedFreePages - numPages[x]
  /\ Untouched(x)

LEMMA FreeLess ==
  ASSUME CacheInv, MapInv', TypeInv', NEW x \in Page, NEW list, Leaves(x, list)
  PROVE  FreeInv' /\ BudgetInv' /\ NoNeighbours'
<1>h. /\ inFreeList[x]
      /\ inFreeList' = [inFreeList EXCEPT ![x] = FALSE]
      /\ freeSpans' = [freeSpans EXCEPT ![numPages[x]] = list]
      /\ list \in Seq(Page) /\ IsInjective(list) /\ ToSet(list) = ToSet(freeSpans[numPages[x]]) \ {x}
      /\ cachedFreePages' = cachedFreePages - numPages[x]
  BY DEF Leaves
<1>t. /\ inFreeList \in [Page -> BOOLEAN] /\ freeSpans \in [Page -> Seq(Page)] /\ numPages \in [Page -> Nat]
      /\ TypeInv /\ MapInv
  BY DEF CacheInv, TypeInv
<1>0. ~inFreeList'[x] /\ \A c \in Page : c # x => inFreeList'[c] = inFreeList[c]
  BY <1>h, <1>t
<1>1. \A c \in Page : inFreeList[c] /\ c # x =>
        /\ numPages'[c] = numPages[c] /\ originAddr'[c] = originAddr[c]
        /\ originPages'[c] = originPages[c]
  BY DEF Untouched, Leaves
<1>2. \A p \in Page, c \in Page : inFreeList[c] /\ c # x => (pageMap'[p] = c <=> pageMap[p] = c)
  BY <1>1, PagesKept DEF CacheInv
<1>3. \A p \in Page : /\ pageMap[p] # 0 <=> pageMap[p] \in Page
                      /\ pageMap'[p] # 0 <=> pageMap'[p] \in Page
  <2>1. pageMap \in [Page -> Page \cup {0}] /\ pageMap' \in [Page -> Page \cup {0}]
    BY DEF CacheInv, TypeInv
  <2>2. 0 \notin Page
    BY DEF Page
  <2> QED BY <2>1, <2>2
<1> DEFINE m == numPages[x]
           R == Run(x, m)
<1>4. m \in Nat /\ m > 0 /\ m \in Page
  <2>1. m \in Nat /\ m > 0
    BY <1>h, <1>t DEF CacheInv, FreeInv
  <2>2. x \in Nat /\ x >= 1 /\ x + m <= NumPages + 1
    BY <1>t, SpanFacts
  <2> QED BY <2>1, <2>2 DEF Page
<1>5. \A p \in Page : p \in R <=> pageMap[p] = x
  <2> TAKE p \in Page
  <2>1. p \in Int
    BY DEF Page
  <2>2. p \in R <=> x <= p /\ p < x + m
    BY <1>4, <2>1, RunCount
  <2> QED BY <1>t, <2>2 DEF MapInv
<1>6. R \subseteq FreePages
  <2>1. R \subseteq Page
    <3>1. x \in Nat /\ x >= 1 /\ x + m <= NumPages + 1
      BY <1>t, SpanFacts
    <3> QED BY <1>4, <3>1 DEF Run, Page
  <2> QED BY <1>h, <1>3, <1>5, <2>1 DEF FreePages
<1>7. FreePages' = FreePages \ R
  <2>1. \A p \in Page : p \in FreePages' <=> p \in FreePages /\ p \notin R
    BY <1>0, <1>2, <1>3, <1>5 DEF FreePages
  <2>2. FreePages \subseteq Page /\ FreePages' \subseteq Page
    BY DEF FreePages
  <2> QED BY <2>1, <2>2
<1>8. Cardinality(FreePages') = Cardinality(FreePages) - m
  <2>1. FreePages \subseteq Page
    BY DEF FreePages
  <2> HIDE DEF m
  <2> QED BY <1>4, <1>6, <1>7, <2>1, FewerPages
<1>9. FreeInv'
  <2>1. \A c \in Page : inFreeList'[c] => numPages'[c] > 0
    BY <1>0, <1>1 DEF CacheInv, FreeInv
  <2>2. /\ freeSpans'[m] = list /\ \A k \in Page : k # m => freeSpans'[k] = freeSpans[k]
    BY <1>h, <1>t, <1>4
  <2>3. \A k \in Page : /\ IsInjective(freeSpans'[k])
                        /\ ToSet(freeSpans'[k]) = {b \in Page : inFreeList'[b] /\ numPages'[b] = k}
    <3> TAKE k \in Page
    <3>1. /\ IsInjective(freeSpans[k])
          /\ ToSet(freeSpans[k]) = {b \in Page : inFreeList[b] /\ numPages[b] = k}
      BY DEF CacheInv, FreeInv
    <3>2. \A b \in Page : inFreeList'[b] /\ numPages'[b] = k <=> inFreeList[b] /\ b # x /\ numPages[b] = k
      BY <1>0, <1>1
    <3>3. CASE k = m
      BY <1>h, <2>2, <3>1, <3>2, <3>3
    <3>4. CASE k # m
      BY <2>2, <3>1, <3>2, <3>4
    <3> QED BY <3>3, <3>4
  <2>4. cachedFreePages' = Cardinality(FreePages')
    BY <1>h, <1>8 DEF CacheInv, FreeInv
  <2> QED BY <2>1, <2>3, <2>4 DEF FreeInv
<1>10. BudgetInv'
  <2>1. WholePages' \subseteq WholePages
    <3>1. \A p \in FreePages' : /\ p \in FreePages /\ pageMap'[p] = pageMap[p]
                                /\ pageMap[p] \in Page /\ inFreeList[pageMap[p]] /\ pageMap[p] # x
      BY <1>0, <1>2, <1>3 DEF FreePages
    <3>2. \A p \in FreePages' : OwnsOrigin(pageMap[p])' <=> OwnsOrigin(pageMap[p])
      BY <1>1, <3>1 DEF OwnsOrigin
    <3> QED BY <3>1, <3>2 DEF WholePages
  <2>2. WholePages \subseteq Page
    BY DEF WholePages, FreePages
  <2>3. Cardinality(WholePages) <= MaxCachedPages
    BY DEF CacheInv, BudgetInv
  <2>4. Cardinality(WholePages') \in Nat /\ Cardinality(WholePages) \in Nat /\ Cardinality(WholePages') <= Cardinality(WholePages)
    BY <2>1, <2>2, SubPages
  <2>5. Cardinality(WholePages') <= MaxCachedPages
    BY <2>3, <2>4
  <2> QED BY <2>5 DEF BudgetInv
<1>11. NoNeighbours'
  BY <1>0, <1>1 DEF CacheInv, NoNeighbours
<1> QED BY <1>9, <1>10, <1>11

-----------------------------------------------------------------------------
(* allocateSpan.                                                           *)

LEMMA ListHead ==
  ASSUME CacheInv, NEW k \in Page, freeSpans[k] # << >>
  PROVE  LET b == Head(freeSpans[k])
             l == Tail(freeSpans[k])
         IN  /\ b \in Page /\ inFreeList[b] /\ numPages[b] = k
             /\ l \in Seq(Page) /\ IsInjective(l) /\ ToSet(l) = ToSet(freeSpans[k]) \ {b}
<1>1. /\ freeSpans[k] \in Seq(Page) /\ IsInjective(freeSpans[k])
      /\ ToSet(freeSpans[k]) = {b \in Page : inFreeList[b] /\ numPages[b] = k}
  BY DEF CacheInv, TypeInv, FreeInv
<1> DEFINE q == freeSpans[k]
<1> HIDE DEF q
<1>2. /\ Head(q) \in Page /\ Head(q) \in ToSet(q)
      /\ Tail(q) \in Seq(Page) /\ IsInjective(Tail(q)) /\ ToSet(Tail(q)) = ToSet(q) \ {Head(q)}
  BY <1>1, TailSet DEF q
<1> QED BY <1>1, <1>2 DEF q

LEMMA FitsLeast ==
  ASSUME NEW n \in Nat \ {0}, Fits(n) # {}
  PROVE  /\ Min(Fits(n)) \in Page /\ n <= Min(Fits(n))
         /\ freeSpans[Min(Fits(n))] # << >>
<1>1. Fits(n) \subseteq Nat /\ Fits(n) \subseteq Page /\ \A k \in Fits(n) : n <= k /\ freeSpans[k] # << >>
  BY DEF Fits, Page
<1>2. \E x \in Fits(n) : \A y \in Fits(n) : x <= y
  BY <1>1, LeastOf
<1>3. Min(Fits(n)) \in Fits(n)
  BY <1>2 DEF Min
<1> QED BY <1>1, <1>3

(* The part of a span that stays free takes its place in the lists.        *)
Cuts(b, n, m, r, j, list) ==
  /\ r = b + n /\ j = m - n
  /\ inFreeList[b] /\ Splits(b, n, m)
  /\ list \in Seq(Page) /\ IsInjective(list) /\ ToSet(list) = ToSet(freeSpans[m]) \ {b}
  /\ freeSpans' = [freeSpans EXCEPT ![m] = list, ![j] = <<r>> \o freeSpans[j]]
  /\ cachedFreePages' = cachedFreePages - m + j
  /\ inFreeList' = [inFreeList EXCEPT ![b] = FALSE, ![r] = TRUE]
  /\ isLarge' \in [Page -> BOOLEAN]
  /\ op = Idle /\ op' = Idle

LEMMA AllocateSplitKeeps ==
  ASSUME CacheInv, NEW b \in Page, NEW n \in Nat, NEW m \in Page, NEW r, NEW j, NEW list,
         Cuts(b, n, m, r, j, list)
  PROVE  CacheInv'
<1>d. /\ r = b + n /\ j = m - n
      /\ inFreeList[b] /\ Splits(b, n, m)
      /\ list \in Seq(Page) /\ IsInjective(list) /\ ToSet(list) = ToSet(freeSpans[m]) \ {b}
      /\ freeSpans' = [freeSpans EXCEPT ![m] = list, ![j] = <<r>> \o freeSpans[j]]
      /\ cachedFreePages' = cachedFreePages - m + j
      /\ inFreeList' = [inFreeList EXCEPT ![b] = FALSE, ![r] = TRUE]
      /\ isLarge' \in [Page -> BOOLEAN]
      /\ op = Idle /\ op' = Idle
  BY DEF Cuts
<1>t. /\ TypeInv /\ MapInv /\ inFreeList \in [Page -> BOOLEAN] /\ freeSpans \in [Page -> Seq(Page)]
      /\ isLarge \in [Page -> BOOLEAN] /\ systemAllocs \subseteq Page \X Page
  BY DEF CacheInv, TypeInv
<1>m. m \in Nat
  BY DEF Page
<1>h. /\ numPages[b] = m /\ 0 < n /\ n < m /\ systemAllocs' = systemAllocs
  BY <1>d DEF Splits
<1>1. /\ r \in Page /\ r # b /\ numPages[r] = 0
      /\ numPages' \in [Page -> Nat] /\ numPages'[b] = n /\ numPages'[r] = j
      /\ \A c \in Page : c # b /\ c # r => numPages'[c] = numPages[c]
      /\ originAddr' \in [Page -> Nat] /\ originAddr'[r] = originAddr[b]
      /\ \A c \in Page : c # r => originAddr'[c] = originAddr[c]
      /\ originPages' \in [Page -> Nat] /\ originPages'[r] = originPages[b]
      /\ \A c \in Page : c # r => originPages'[c] = originPages[c]
      /\ pageMap' \in [Page -> Page \cup {0}]
      /\ \A p \in Page : pageMap'[p] = IF b <= p /\ p < b + n THEN b
                                       ELSE IF r <= p /\ p < b + m THEN r ELSE pageMap[p]
  <2> DEFINE x == b + n  y == m - n
  <2>1. /\ x \in Page /\ x # b /\ numPages[x] = 0
        /\ numPages' \in [Page -> Nat] /\ numPages'[b] = n /\ numPages'[x] = y
        /\ \A c \in Page : c # b /\ c # x => numPages'[c] = numPages[c]
        /\ originAddr' \in [Page -> Nat] /\ originAddr'[x] = originAddr[b]
        /\ \A c \in Page : c # x => originAddr'[c] = originAddr[c]
        /\ originPages' \in [Page -> Nat] /\ originPages'[x] = originPages[b]
        /\ \A c \in Page : c # x => originPages'[c] = originPages[c]
        /\ pageMap' \in [Page -> Page \cup {0}]
        /\ \A p \in Page : pageMap'[p] = IF b <= p /\ p < b + n THEN b
                                         ELSE IF x <= p /\ p < b + m THEN x ELSE pageMap[p]
    <3>1. TypeInv /\ MapInv /\ Splits(b, n, m)
      BY <1>t, <1>d
    <3> HIDE <1>t, <1>d
    <3> QED BY <3>1, <1>m, SplitFacts
  <2>2. x = r /\ y = j
    BY <1>d
  <2> HIDE DEF x, y
  <2> QED BY <2>1, <2>2
<1>2. MapInv'
  BY <1>t, <1>m, <1>d, SplitKeepsMap
<1>3. j \in Page /\ j # m /\ j \in Nat /\ j > 0
  BY <1>h, <1>m, <1>d DEF Page
<1>r. r = b + n /\ b \in Nat /\ b >= 1 /\ r + j = b + m /\ j = m - n
  BY <1>m, <1>d DEF Page
<1>4. \A p \in Page : p \in Nat /\ p >= 1 /\ p # 0
  BY DEF Page
<1>5. ~inFreeList[r]
  BY <1>1 DEF CacheInv, FreeInv
<1>6. /\ inFreeList' \in [Page -> BOOLEAN] /\ ~inFreeList'[b] /\ inFreeList'[r]
      /\ \A c \in Page : c # b /\ c # r => inFreeList'[c] = inFreeList[c]
  BY <1>d, <1>t, <1>1
<1>7. /\ \A k \in Page : /\ freeSpans[k] \in Seq(Page) /\ IsInjective(freeSpans[k])
                         /\ ToSet(freeSpans[k]) = {c \in Page : inFreeList[c] /\ numPages[c] = k}
  BY <1>t DEF CacheInv, FreeInv
<1> DEFINE q == <<r>> \o freeSpans[j]
<1>8. q \in Seq(Page) /\ IsInjective(q) /\ ToSet(q) = ToSet(freeSpans[j]) \cup {r}
  <2>1. r \notin ToSet(freeSpans[j])
    BY <1>3, <1>5, <1>7
  <2>2. freeSpans[j] \in Seq(Page) /\ IsInjective(freeSpans[j]) /\ r \in Page
    BY <1>1, <1>3, <1>7
  <2> DEFINE f == freeSpans[j]
  <2> HIDE DEF f
  <2>3. <<r>> \o f \in Seq(Page) /\ IsInjective(<<r>> \o f) /\ ToSet(<<r>> \o f) = ToSet(f) \cup {r}
    BY <2>1, <2>2, ConsSet DEF f
  <2> QED BY <2>3 DEF f
<1>9. freeSpans' = [freeSpans EXCEPT ![m] = list, ![j] = q]
  BY <1>d
<1> HIDE DEF q
<1>10. /\ freeSpans' \in [Page -> Seq(Page)] /\ freeSpans'[m] = list /\ freeSpans'[j] = q
       /\ \A k \in Page : k # m /\ k # j => freeSpans'[k] = freeSpans[k]
  BY SMTT(30), <1>d, <1>t, <1>3, <1>8, <1>9
<1>11. TypeInv'
  BY <1>d, <1>h, <1>t, <1>1, <1>6, <1>10 DEF TypeInv
<1>12. \A c \in Page : inFreeList'[c] => numPages'[c] > 0
  BY <1>1, <1>3, <1>6 DEF CacheInv, FreeInv
<1>13. \A k \in Page : /\ IsInjective(freeSpans'[k])
                       /\ ToSet(freeSpans'[k]) = {c \in Page : inFreeList'[c] /\ numPages'[c] = k}
  <2> TAKE k \in Page
  <2>1. ToSet(freeSpans[k]) = {c \in Page : inFreeList[c] /\ numPages[c] = k}
    BY <1>7
  <2>2. \A c \in Page : inFreeList'[c] /\ numPages'[c] = k <=>
                          \/ c # b /\ c # r /\ inFreeList[c] /\ numPages[c] = k
                          \/ c = r /\ k = j
    BY <1>1, <1>6
  <2>3. CASE k = m
    <3>1. ToSet(freeSpans'[k]) = ToSet(freeSpans[k]) \ {b} /\ IsInjective(freeSpans'[k]) /\ k # j
      BY <1>d, <1>3, <1>10, <2>3
    <3>2. r \notin ToSet(freeSpans[k])
      BY <1>5, <2>1
    <3> QED BY <2>1, <2>2, <3>1, <3>2
  <2>4. CASE k = j
    <3>1. ToSet(freeSpans'[k]) = ToSet(freeSpans[k]) \cup {r}
      BY <1>8, <1>10, <2>4
    <3>2. b \notin ToSet(freeSpans[k])
      BY <1>h, <1>3, <2>1, <2>4
    <3>3. IsInjective(freeSpans'[k])
      BY <1>8, <1>10, <2>4
    <3>4. ToSet(freeSpans'[k]) \subseteq Page
      BY <1>1, <2>1, <3>1
    <3>5. \A c \in Page : c \in ToSet(freeSpans'[k]) <=> inFreeList'[c] /\ numPages'[c] = k
      BY <1>1, <1>5, <2>1, <2>2, <2>4, <3>1, <3>2
    <3> QED BY <3>3, <3>4, <3>5
  <2>5. CASE k # m /\ k # j
    <3>1. freeSpans'[k] = freeSpans[k] /\ IsInjective(freeSpans[k])
      BY <1>7, <1>10, <2>5
    <3>2. b \notin ToSet(freeSpans[k]) /\ r \notin ToSet(freeSpans[k])
      BY <1>h, <1>5, <2>1, <2>5
    <3> QED BY <2>1, <2>2, <2>5, <3>1, <3>2
  <2> QED BY <2>3, <2>4, <2>5
<1>14. \A p \in Page : pageMap[p] = b <=> b <= p /\ p < b + m
  BY <1>t, <1>h DEF MapInv
<1>15. \A p \in Page : pageMap[p] # r
  <2> TAKE p \in Page
  <2>1. pageMap[p] = r <=> r <= p /\ p < r + numPages[r]
    BY <1>t, <1>1 DEF MapInv
  <2>2. p \in Nat /\ r \in Nat /\ numPages[r] = 0
    BY <1>1, <1>4
  <2> QED BY <2>1, <2>2
<1>16. \A p \in Page : /\ pageMap[p] # 0 <=> pageMap[p] \in Page
                       /\ pageMap'[p] # 0 <=> pageMap'[p] \in Page
  <2>1. pageMap \in [Page -> Page \cup {0}]
    BY <1>t DEF TypeInv
  <2>2. 0 \notin Page
    BY DEF Page
  <2> QED BY <1>1, <2>1, <2>2
<1> DEFINE R == Run(b, n)
<1>17. \A p \in Page : p \in R <=> b <= p /\ p < b + n
  <2> TAKE p \in Page
  <2>1. p \in Int
    BY DEF Page
  <2> QED BY <2>1, RunCount
<1>18. R \subseteq Page
  <2>1. b + m <= NumPages + 1
    BY <1>t, <1>h, SpanFacts
  <2> QED BY <1>h, <1>m, <1>r, <2>1 DEF Run, Page
<1> HIDE DEF R
<1>19. \A p \in Page : p \in FreePages' <=> p \in FreePages /\ p \notin R
  <2> TAKE p \in Page
  <2>1. CASE b <= p /\ p < b + n
    BY <1>1, <1>6, <1>17, <2>1 DEF FreePages
  <2>2. CASE ~(b <= p /\ p < b + n) /\ r <= p /\ p < b + m
    <3>1. pageMap'[p] = r /\ b <= p
      BY <1>h, <1>r, <1>1, <1>4, <2>2
    <3>2. pageMap[p] = b
      BY <1>14, <2>2, <3>1
    <3> QED BY SMTT(30), <1>d, <1>1, <1>4, <1>6, <1>17, <2>2, <3>1, <3>2 DEF FreePages
  <2>3. CASE ~(b <= p /\ p < b + n) /\ ~(r <= p /\ p < b + m)
    <3>1. pageMap'[p] = pageMap[p]
      BY <1>1, <2>3
    <3>2. pageMap[p] # b
      BY <1>r, <1>14, <1>4, <2>3
    <3> QED BY <1>6, <1>15, <1>16, <1>17, <2>3, <3>1, <3>2 DEF FreePages
  <2> QED BY <2>1, <2>2, <2>3
<1>20. R \subseteq FreePages
  <2>1. \A p \in R : pageMap[p] = b
    BY <1>h, <1>m, <1>r, <1>4, <1>14, <1>17, <1>18
  <2> QED BY <1>d, <1>4, <1>18, <2>1 DEF FreePages
<1>21. FreePages' = FreePages \ R /\ FreePages \subseteq Page
  <2>1. FreePages \subseteq Page /\ FreePages' \subseteq Page
    BY DEF FreePages
  <2> QED BY <1>19, <2>1
<1>22. Cardinality(FreePages') = Cardinality(FreePages) - n
  BY <1>20, <1>21, FewerPages DEF R
<1>23. FreeInv'
  <2>1. cachedFreePages = Cardinality(FreePages) /\ Cardinality(FreePages) \in Nat
    BY <1>21, PagesFinite DEF CacheInv, FreeInv
  <2>2. cachedFreePages' = Cardinality(FreePages')
    BY <1>d, <1>h, <1>m, <1>22, <2>1
  <2> QED BY <1>12, <1>13, <2>2 DEF FreeInv
<1>24. BudgetInv'
  <2>1. ASSUME NEW p \in WholePages' PROVE p \in WholePages
    <3>1. p \in Page /\ p \in FreePages' /\ OwnsOrigin(pageMap[p])' /\ p \in FreePages /\ p \notin R
      BY <1>19, <2>1 DEF WholePages, FreePages
    <3>2. CASE r <= p /\ p < b + m
      <4>1. pageMap'[p] = r
        BY <1>h, <1>r, <1>1, <1>4, <3>1, <3>2
      <4>2. originAddr'[r] <= b /\ originAddr'[r] \in Nat
        <5>1. numPages[b] > 0
          BY <1>h, <1>m
        <5>2. originAddr[b] <= b /\ originAddr[b] \in Nat
          BY <1>t, <5>1, SpanFacts
        <5> QED BY <1>1, <5>2
      <4>3. originAddr'[r] = r
        BY <3>1, <4>1 DEF OwnsOrigin
      <4> QED BY <1>h, <1>r, <4>2, <4>3
    <3>3. CASE ~(r <= p /\ p < b + m)
      <4>0. ~(b <= p /\ p < b + n) /\ pageMap[p] \in Page
        BY <1>16, <1>17, <3>1 DEF FreePages
      <4>1. pageMap'[p] = pageMap[p] /\ pageMap[p] # r
        BY <1>1, <1>15, <3>1, <3>3, <4>0
      <4>3. pageMap[p] # b
        BY <1>r, <1>4, <1>14, <3>1, <3>3, <4>0
      <4>2. OwnsOrigin(pageMap[p])
        BY <1>1, <3>1, <4>0, <4>1, <4>3 DEF OwnsOrigin
      <4> QED BY <3>1, <4>2 DEF WholePages
    <3> QED BY <3>2, <3>3
  <2>2. WholePages \subseteq Page /\ WholePages' \subseteq WholePages
    BY <2>1 DEF WholePages, FreePages
  <2>3. Cardinality(WholePages) <= MaxCachedPages
    BY DEF CacheInv, BudgetInv
  <2>4. Cardinality(WholePages') \in Nat /\ Cardinality(WholePages) \in Nat /\ Cardinality(WholePages') <= Cardinality(WholePages)
    BY <2>2, SubPages
  <2>5. Cardinality(WholePages') <= MaxCachedPages
    BY <2>3, <2>4
  <2> QED BY <2>5 DEF BudgetInv
<1>25. NoNeighbours'
  <2> SUFFICES ASSUME NEW x \in Page, NEW y \in Page, inFreeList'[x], inFreeList'[y],
                      y = x + numPages'[x]
               PROVE  originAddr'[x] # originAddr'[y]
    BY DEF NoNeighbours
  <2>0. x # b /\ y # b
    BY <1>6
  <2>1. CASE x = r
    <3>1. y = b + numPages[b] /\ y # r
      BY <1>h, <1>r, <1>1, <1>3, <1>4, <2>1
    <3>2. inFreeList[y] /\ originAddr'[y] = originAddr[y]
      BY <1>1, <1>6, <2>0, <3>1
    <3>3. originAddr[b] # originAddr[y]
      BY <1>d, <3>1, <3>2 DEF CacheInv, NoNeighbours
    <3> QED BY <1>1, <2>1, <3>2, <3>3
  <2>2. CASE x # r /\ y = r
    <3> DEFINE p == r - 1
    <3>1. numPages'[x] = numPages[x] /\ numPages[x] \in Nat /\ numPages[x] > 0
      <4>1. inFreeList[x]
        BY <1>6, <2>0, <2>2
      <4> QED BY <1>t, <1>1, <2>0, <2>2, <4>1 DEF CacheInv, TypeInv, FreeInv
    <3>2. p \in Nat /\ b <= p /\ p < b + m /\ x <= p /\ p < x + numPages[x]
      BY <1>h, <1>m, <1>r, <1>4, <2>2, <3>1
    <3>3. p \in Page
      <4>1. b + m <= NumPages + 1
        BY <1>h, <1>t, SpanFacts
      <4> QED BY <1>m, <1>r, <3>2, <4>1 DEF Page
    <3> HIDE DEF p
    <3>4. pageMap[p] = b /\ pageMap[p] = x
      BY <1>t, <1>14, <3>2, <3>3 DEF MapInv
    <3> QED BY <2>0, <3>4
  <2>3. CASE x # r /\ y # r
    <3>1. inFreeList[x] /\ inFreeList[y] /\ y = x + numPages[x]
      BY <1>1, <1>6, <2>0, <2>3
    <3>2. originAddr[x] # originAddr[y]
      BY <3>1 DEF CacheInv, NoNeighbours
    <3> QED BY <1>1, <2>3, <3>2
  <2> QED BY <2>1, <2>2, <2>3
<1>26. OpInv' /\ NextDone' /\ PrevDone'
  BY <1>d DEF OpInv, NextDone, PrevDone, Idle
<1> QED BY <1>2, <1>11, <1>23, <1>24, <1>25, <1>26 DEF CacheInv

LEMMA AllocateCachedKeeps ==
  ASSUME CacheInv, NEW n \in 1 .. MaxRequest, NEW large \in BOOLEAN, AllocateCached(n, large)
  PROVE  CacheInv'
<1> DEFINE k == Min(Fits(n))
           q == freeSpans[k]
           b == Head(q)
           m == numPages[b]
           list == Tail(q)
<1>0. n \in Nat \ {0} /\ n \in Nat
  OBVIOUS
<1>1. /\ op = Idle /\ op' = Idle /\ Fits(n) # {} /\ systemAllocs' = systemAllocs
      /\ isLarge' = [isLarge EXCEPT ![b] = large]
  BY DEF AllocateCached
<1>2. k \in Page /\ n <= k /\ q # << >>
  BY <1>0, <1>1, FitsLeast
<1>3. IF m > n
      THEN /\ freeSpans'       = [[freeSpans EXCEPT ![k] = list] EXCEPT ![m - n] = <<b + n>> \o @]
           /\ cachedFreePages' = cachedFreePages - m + (m - n)
           /\ numPages'        = [numPages EXCEPT ![b] = n, ![b + n] = m - n]
           /\ originAddr'      = [originAddr EXCEPT ![b + n] = originAddr[b]]
           /\ originPages'     = [originPages EXCEPT ![b + n] = originPages[b]]
           /\ inFreeList'      = [inFreeList EXCEPT ![b] = FALSE, ![b + n] = TRUE]
           /\ pageMap'         = SplitMap(b, n, m)
      ELSE /\ freeSpans'       = [freeSpans EXCEPT ![k] = list]
           /\ cachedFreePages' = cachedFreePages - m
           /\ inFreeList'      = [inFreeList EXCEPT ![b] = FALSE]
           /\ UNCHANGED <<numPages, originAddr, originPages, pageMap>>
  BY DEF AllocateCached
<1> HIDE DEF k
<1>4. /\ b \in Page /\ inFreeList[b] /\ m = k
      /\ list \in Seq(Page) /\ IsInjective(list) /\ ToSet(list) = ToSet(q) \ {b}
  BY <1>2, ListHead
<1> HIDE DEF b, list, m
<1>5. isLarge \in [Page -> BOOLEAN] /\ freeSpans \in [Page -> Seq(Page)] /\ TypeInv /\ MapInv
  BY DEF CacheInv, TypeInv
<1>6. isLarge' \in [Page -> BOOLEAN]
  BY <1>1, <1>4, <1>5
<1>7. k \in Nat
  BY <1>2 DEF Page
<1>8. CASE m > n
  <2> DEFINE r == b + n
             j == m - n
  <2>1. j \in Page /\ j # k
    BY <1>0, <1>2, <1>4, <1>7, <1>8 DEF Page
  <2>2. numPages[b] = m /\ 0 < n /\ n < m
    BY <1>0, <1>4, <1>7, <1>8 DEF m
  <2>3. Splits(b, n, m)
    BY <1>1, <1>3, <1>8, <2>2 DEF Splits
  <2>4. /\ freeSpans' = [[freeSpans EXCEPT ![k] = list] EXCEPT ![j] = <<r>> \o @]
        /\ cachedFreePages' = cachedFreePages - m + j
        /\ inFreeList' = [inFreeList EXCEPT ![b] = FALSE, ![r] = TRUE]
    BY <1>3, <1>8
  <2>5. r = b + n /\ j = m - n
    OBVIOUS
  <2> HIDE DEF r, j
  <2>6. [freeSpans EXCEPT ![k] = list][j] = freeSpans[j]
    BY <1>5, <2>1
  <2>7. freeSpans' = [freeSpans EXCEPT ![m] = list, ![j] = <<r>> \o freeSpans[j]]
    BY <1>4, <2>4, <2>6
  <2>8. ToSet(list) = ToSet(freeSpans[m]) \ {b}
    BY <1>4
  <2>9. Cuts(b, n, m, r, j, list)
    BY <1>1, <1>4, <1>6, <2>3, <2>4, <2>5, <2>7, <2>8 DEF Cuts
  <2>10. m \in Page
    BY <1>2, <1>4
  <2> QED BY <1>0, <1>4, <2>9, <2>10, AllocateSplitKeeps
<1>9. CASE ~(m > n)
  <2>1. /\ freeSpans' = [freeSpans EXCEPT ![k] = list]
        /\ cachedFreePages' = cachedFreePages - m
        /\ inFreeList' = [inFreeList EXCEPT ![b] = FALSE]
        /\ UNCHANGED <<numPages, originAddr, originPages, pageMap>>
    BY <1>3, <1>9
  <2>2. MapInv'
    BY <1>1, <1>5, <2>1 DEF MapInv
  <2>3. freeSpans' \in [Page -> Seq(Page)] /\ inFreeList' \in [Page -> BOOLEAN]
    <3>1. inFreeList \in [Page -> BOOLEAN]
      BY <1>5 DEF TypeInv
    <3> QED BY <1>2, <1>4, <1>5, <2>1, <3>1
  <2>4. TypeInv'
    BY <1>1, <1>5, <1>6, <2>1, <2>3 DEF TypeInv
  <2>5. numPages[b] = k
    BY <1>4 DEF m
  <2>6. Untouched(b)
    BY <2>1 DEF Untouched
  <2>7. Leaves(b, list)
    BY <1>4, <2>1, <2>5, <2>6 DEF Leaves
  <2>8. FreeInv' /\ BudgetInv' /\ NoNeighbours'
    BY <1>4, <2>2, <2>4, <2>7, FreeLess
  <2>9. OpInv' /\ NextDone' /\ PrevDone'
    BY <1>1 DEF OpInv, NextDone, PrevDone, Idle
  <2> QED BY <2>2, <2>4, <2>8, <2>9 DEF CacheInv
<1> QED BY <1>8, <1>9

LEMMA AllocateSystemKeeps ==
  ASSUME CacheInv, NEW n \in 1 .. MaxRequest, NEW large \in BOOLEAN, NEW b \in Page,
         AllocateSystem(n, large, b)
  PROVE  CacheInv'
<1> DEFINE m == RoundUp(n)
<1>1. m \in Nat /\ m >= 1
  BY RoundUpPositive
<1>2. /\ op = Idle /\ op' = Idle /\ UNCHANGED <<inFreeList, listVars>> /\ Maps(b, m)
      /\ isLarge' = [isLarge EXCEPT ![b] = large]
  BY <1>1 DEF AllocateSystem, Maps
<1> HIDE DEF m
<1>3. TypeInv /\ MapInv
  BY DEF CacheInv
<1>4. MapInv'
  BY <1>1, <1>2, <1>3, MapsKeepsMap
<1>5. /\ numPages' \in [Page -> Nat] /\ originAddr' \in [Page -> Nat] /\ originPages' \in [Page -> Nat]
      /\ pageMap' \in [Page -> Page \cup {0}] /\ systemAllocs' \subseteq Page \X Page
      /\ \A c \in Page : c # b => /\ numPages'[c] = numPages[c] /\ originAddr'[c] = originAddr[c]
                                  /\ originPages'[c] = originPages[c]
      /\ numPages[b] = 0
  BY <1>1, <1>2, <1>3, MapsFacts
<1>6. TypeInv'
  <2>1. isLarge' \in [Page -> BOOLEAN]
    BY <1>2, <1>3 DEF TypeInv
  <2> QED BY <1>2, <1>3, <1>5, <2>1 DEF TypeInv, listVars
<1>7. ~inFreeList[b]
  BY <1>5 DEF CacheInv, FreeInv
<1>8. Untouched(0)
  BY <1>5, <1>7 DEF Untouched
<1>9. FreeInv' /\ BudgetInv' /\ NoNeighbours'
  BY <1>2, <1>4, <1>6, <1>8, FreeSame
<1>10. OpInv' /\ NextDone' /\ PrevDone'
  BY <1>2 DEF OpInv, NextDone, PrevDone, Idle
<1> QED BY <1>4, <1>6, <1>9, <1>10 DEF CacheInv

-----------------------------------------------------------------------------
(* deallocateSpan.                                                         *)

LEMMA ReleaseKeeps ==
  ASSUME CacheInv, NEW b \in Page, numPages[b] > 0, ~inFreeList[b], OwnsOrigin(b), ReleaseOrigin(b)
  PROVE  CacheInv'
<1>1. /\ Releases(b) /\ op' = Idle /\ UNCHANGED <<inFreeList, listVars>>
      /\ isLarge' = [isLarge EXCEPT ![b] = FALSE]
  BY DEF ReleaseOrigin, Releases
<1>2. TypeInv /\ MapInv
  BY DEF CacheInv
<1>3. MapInv' /\ systemAllocs' \subseteq Page \X Page
  BY <1>1, <1>2, ReleaseKeepsMap
<1>4. /\ numPages' \in [Page -> Nat] /\ originAddr' \in [Page -> Nat] /\ originPages' \in [Page -> Nat]
      /\ pageMap' \in [Page -> Page \cup {0}]
      /\ \A c \in Page : c # b => /\ numPages'[c] = numPages[c] /\ originAddr'[c] = originAddr[c]
                                  /\ originPages'[c] = originPages[c]
  BY <1>1, <1>2, ReleaseFacts
<1>5. TypeInv'
  <2>1. isLarge' \in [Page -> BOOLEAN]
    BY <1>1, <1>2 DEF TypeInv
  <2> QED BY <1>1, <1>2, <1>3, <1>4, <2>1 DEF TypeInv, listVars
<1>6. Untouched(0)
  BY <1>4 DEF Untouched
<1>7. FreeInv' /\ BudgetInv' /\ NoNeighbours'
  BY <1>1, <1>3, <1>5, <1>6, FreeSame
<1>8. OpInv' /\ NextDone' /\ PrevDone'
  BY <1>1 DEF OpInv, NextDone, PrevDone, Idle
<1> QED BY <1>3, <1>5, <1>7, <1>8 DEF CacheInv

LEMMA DeallocateSpanKeeps ==
  ASSUME CacheInv, NEW b \in Page, DeallocateSpan(b)
  PROVE  CacheInv'
<1>1. op = Idle /\ numPages[b] > 0 /\ ~inFreeList[b]
  BY DEF DeallocateSpan, Live
<1>2. CASE isLarge[b] /\ OwnsOrigin(b)
  BY <1>1, <1>2, ReleaseKeeps DEF DeallocateSpan
<1>3. CASE ~(isLarge[b] /\ OwnsOrigin(b))
  <2>1. /\ isLarge' = [isLarge EXCEPT ![b] = FALSE] /\ op' = At("next", b)
        /\ UNCHANGED <<numPages, originAddr, originPages, inFreeList, pageMap, listVars, systemAllocs>>
    BY <1>3 DEF DeallocateSpan
  <2>2. TypeInv /\ MapInv
    BY DEF CacheInv
  <2>3. MapInv'
    BY <2>1, <2>2 DEF MapInv
  <2>4. TypeInv'
    <3>1. isLarge' \in [Page -> BOOLEAN]
      BY <2>1, <2>2 DEF TypeInv
    <3> QED BY <2>1, <2>2, <3>1 DEF TypeInv, listVars
  <2>5. Untouched(0)
    BY <2>1 DEF Untouched
  <2>6. FreeInv' /\ BudgetInv' /\ NoNeighbours'
    BY <2>1, <2>3, <2>4, <2>5, FreeSame
  <2>7. OpInv' /\ NextDone' /\ PrevDone'
    BY <1>1, <2>1 DEF OpInv, NextDone, PrevDone, At
  <2> QED BY <2>3, <2>4, <2>6, <2>7 DEF CacheInv
<1> QED BY <1>2, <1>3

(* Two neighbours become one; x, one of them, was free.                    *)
Joins(l, r, x, y) ==
  /\ x \in {l, r} /\ y \in {l, r} /\ x # y
  /\ inFreeList[x] /\ ~inFreeList[y] /\ numPages[y] > 0
  /\ r = l + numPages[l] /\ originAddr[l] = originAddr[r]
  /\ Merge(l, r, x) /\ UNCHANGED systemAllocs

LEMMA MergeKeeps ==
  ASSUME CacheInv, NEW l \in Page, NEW r \in Page, NEW x \in Page, NEW y \in Page, Joins(l, r, x, y)
  PROVE  /\ TypeInv' /\ MapInv' /\ FreeInv' /\ BudgetInv' /\ NoNeighbours'
         /\ numPages'[l] = numPages[l] + numPages[r] /\ numPages[l] > 0 /\ numPages[r] > 0
         /\ originAddr'[l] = originAddr[l] /\ originAddr[r] = originAddr[l]
         /\ ~inFreeList'[x] /\ ~inFreeList'[y]
         /\ \A c \in Page : c # x => inFreeList'[c] = inFreeList[c]
         /\ \A c \in Page : c # l /\ c # r => /\ numPages'[c] = numPages[c]
                                              /\ originAddr'[c] = originAddr[c]
<1> DEFINE k == numPages[x]
           f == freeSpans[k]
           list == Without(f, x)
<1>0. /\ x \in {l, r} /\ y \in {l, r} /\ x # y
      /\ inFreeList[x] /\ ~inFreeList[y] /\ numPages[y] > 0
      /\ r = l + numPages[l] /\ originAddr[l] = originAddr[r] /\ UNCHANGED systemAllocs
  BY DEF Joins
<1>1. /\ freeSpans' = [freeSpans EXCEPT ![k] = list]
      /\ cachedFreePages' = cachedFreePages - k
      /\ inFreeList' = [inFreeList EXCEPT ![x] = FALSE]
      /\ numPages' = [numPages EXCEPT ![l] = @ + numPages[r], ![r] = 0]
      /\ originAddr' = [originAddr EXCEPT ![r] = 0]
      /\ originPages' = [originPages EXCEPT ![r] = 0]
      /\ pageMap' = Registered(pageMap, r, numPages[r], l)
      /\ UNCHANGED isLarge
  BY DEF Joins, Merge, Unlinked
<1>2. /\ TypeInv /\ MapInv /\ inFreeList \in [Page -> BOOLEAN] /\ freeSpans \in [Page -> Seq(Page)]
  BY DEF CacheInv, TypeInv
<1>3. k > 0 /\ k \in Nat /\ k \in Page
  <2>1. k > 0 /\ k \in Nat /\ x \in Nat /\ x >= 1 /\ x + k <= NumPages + 1
    BY <1>0, <1>2, SpanFacts DEF CacheInv, FreeInv
  <2> QED BY <2>1 DEF Page
<1>4. numPages[l] > 0 /\ numPages[r] > 0
  BY <1>0, <1>3
<1>5. Merges(l, r)
  BY <1>0, <1>1, <1>4 DEF Merges
<1>6. /\ r # l /\ numPages' \in [Page -> Nat] /\ numPages'[l] = numPages[l] + numPages[r] /\ numPages'[r] = 0
      /\ \A c \in Page : c # l /\ c # r => numPages'[c] = numPages[c]
      /\ originAddr' \in [Page -> Nat] /\ originPages' \in [Page -> Nat]
      /\ \A c \in Page : c # r => originAddr'[c] = originAddr[c] /\ originPages'[c] = originPages[c]
      /\ pageMap' \in [Page -> Page \cup {0}]
  BY SMTT(30), <1>2, <1>5, MergeFacts
<1>7. MapInv'
  BY <1>2, <1>5, MergeKeepsMap
<1>8. f \in Seq(Page) /\ IsInjective(f)
  BY <1>2, <1>3 DEF CacheInv, FreeInv
<1> HIDE DEF f
<1>9. list \in Seq(Page) /\ IsInjective(list) /\ ToSet(list) = ToSet(f) \ {x}
  BY <1>8, KeptSet DEF Without
<1> HIDE DEF list
<1>10. /\ inFreeList' \in [Page -> BOOLEAN] /\ ~inFreeList'[x]
       /\ \A c \in Page : c # x => inFreeList'[c] = inFreeList[c]
  BY <1>1, <1>2
<1>11. TypeInv'
  <2>1. freeSpans' \in [Page -> Seq(Page)]
    BY <1>1, <1>2, <1>3, <1>9
  <2> QED BY <1>0, <1>1, <1>2, <1>6, <1>10, <2>1 DEF TypeInv
<1>12. Untouched(x)
  BY <1>0, <1>6 DEF Untouched
<1>13. Leaves(x, list)
  BY <1>0, <1>1, <1>9, <1>12 DEF Leaves, f
<1>14. FreeInv' /\ BudgetInv' /\ NoNeighbours'
  BY <1>2, <1>7, <1>11, <1>13, FreeLess
<1> QED BY <1>0, <1>2, <1>4, <1>6, <1>7, <1>10, <1>11, <1>14

LEMMA Listed ==
  ASSUME CacheInv, NEW b \in Page, inFreeList[b]
  PROVE  InList(b) /\ numPages[b] > 0
<1>1. numPages[b] > 0 /\ numPages[b] \in Nat /\ b \in Nat /\ b >= 1 /\ b + numPages[b] <= NumPages + 1
  BY SpanFacts DEF CacheInv, FreeInv
<1>2. numPages[b] \in Page
  BY <1>1 DEF Page
<1> QED BY <1>1, <1>2 DEF CacheInv, FreeInv, InList

LEMMA MergeNextKeeps ==
  ASSUME CacheInv, MergeNext
  PROVE  CacheInv'
<1> DEFINE b == op.span
           n == FindSpan(b + numPages[b])
<1>1. /\ op.pc = "next" /\ op' = At("prev", b) /\ UNCHANGED systemAllocs
      /\ IF NextMerges(b, n) THEN Merge(b, n, n) ELSE UNCHANGED <<spanVars, pageMap, listVars>>
  BY DEF MergeNext
<1>2. b \in Page /\ numPages[b] > 0 /\ ~inFreeList[b]
  BY <1>1 DEF CacheInv, OpInv, Idle
<1>3. TypeInv /\ MapInv
  BY DEF CacheInv
<1>4. op'.pc = "prev" /\ op'.span = b
  BY <1>1 DEF At
<1>5. b \in Nat /\ numPages[b] \in Nat
  BY <1>2, <1>3, SpanFacts
<1>n. n = FindSpan(b + numPages[b])
  OBVIOUS
<1> HIDE DEF b, n
<1>6. CASE NextMerges(b, n)
  <2>1. n # b /\ inFreeList[n] /\ n = b + numPages[b] /\ originAddr[n] = originAddr[b] /\ n # 0
    BY <1>6 DEF NextMerges
  <2>2. n \in Page
    BY <1>3, <1>n, <2>1 DEF FindSpan, TypeInv
  <2>3. Merge(b, n, n)
    BY <1>1, <1>6
  <2>4. /\ TypeInv' /\ MapInv' /\ FreeInv' /\ BudgetInv' /\ NoNeighbours'
        /\ numPages'[b] = numPages[b] + numPages[n] /\ numPages[n] > 0
        /\ originAddr'[b] = originAddr[b]
        /\ ~inFreeList'[n] /\ ~inFreeList'[b]
        /\ \A c \in Page : c # n => inFreeList'[c] = inFreeList[c]
        /\ \A c \in Page : c # b /\ c # n => /\ numPages'[c] = numPages[c]
                                             /\ originAddr'[c] = originAddr[c]
    <3>1. Joins(b, n, n, b)
      BY <1>1, <1>2, <2>1, <2>3 DEF Joins
    <3> QED BY <1>2, <2>2, <3>1, MergeKeeps
  <2>5. OpInv'
    <3>1. numPages[n] \in Nat
      BY <1>3, <2>2, SpanFacts
    <3>2. numPages'[b] > 0
      BY <1>2, <1>5, <2>4, <3>1
    <3> QED BY <1>1, <1>2, <2>4, <3>2 DEF OpInv, At
  <2>6. NextDone'
    <3> SUFFICES ASSUME NEW c \in Page, inFreeList'[c], c = b + numPages'[b]
                 PROVE  originAddr'[c] # originAddr'[b]
      BY <1>4 DEF NextDone
    <3>0. numPages[n] \in Nat
      BY <1>3, <2>2, SpanFacts
    <3>1. c = n + numPages[n] /\ c # n /\ c # b
      BY <1>5, <2>1, <2>4, <3>0
    <3>2. inFreeList[c] /\ originAddr'[c] = originAddr[c]
      BY <2>4, <3>1
    <3>3. originAddr[n] # originAddr[c]
      BY <2>1, <2>2, <3>1, <3>2 DEF CacheInv, NoNeighbours
    <3> QED BY <2>1, <2>4, <3>2, <3>3
  <2>7. PrevDone'
    BY <1>4 DEF PrevDone
  <2> QED BY <2>4, <2>5, <2>6, <2>7 DEF CacheInv
<1>7. CASE ~NextMerges(b, n)
  <2>1. UNCHANGED <<spanVars, pageMap, listVars>> /\ UNCHANGED systemAllocs
    BY <1>1, <1>7
  <2>2. MapInv'
    BY <1>3, <2>1 DEF MapInv, spanVars
  <2>3. TypeInv'
    BY <1>3, <2>1 DEF TypeInv, spanVars, listVars
  <2>4. Untouched(0) /\ UNCHANGED <<inFreeList, listVars>>
    BY <2>1 DEF Untouched, spanVars
  <2>5. FreeInv' /\ BudgetInv' /\ NoNeighbours'
    BY <2>2, <2>3, <2>4, FreeSame
  <2>6. OpInv'
    BY <1>1, <1>2, <2>1 DEF OpInv, At, spanVars
  <2>7. NextDone'
    <3> SUFFICES ASSUME NEW c \in Page, inFreeList[c], c = b + numPages[b],
                        originAddr[c] = originAddr[b]
                 PROVE  FALSE
      BY <1>4, <2>1 DEF NextDone, spanVars
    <3>1. InList(c) /\ numPages[c] > 0
      BY Listed
    <3>2. pageMap[c] = c
      BY <1>3, <3>1, SpanFacts
    <3>3. n = c
      BY <1>n, <3>2 DEF FindSpan
    <3>4. c # 0 /\ c # b
      BY <1>2 DEF Page
    <3> QED BY <1>7, <3>1, <3>3, <3>4 DEF NextMerges
  <2>8. PrevDone'
    BY <1>4 DEF PrevDone
  <2> QED BY <2>2, <2>3, <2>5, <2>6, <2>7, <2>8 DEF CacheInv
<1> QED BY <1>6, <1>7

LEMMA MergePrevKeeps ==
  ASSUME CacheInv, MergePrev
  PROVE  CacheInv'
<1> DEFINE b == op.span
           q == FindSpan(b - 1)
<1>1. /\ op.pc = "prev" /\ UNCHANGED systemAllocs
      /\ IF PrevMerges(b, q) THEN op' = At("insert", q) /\ Merge(q, b, q)
         ELSE op' = At("insert", b) /\ UNCHANGED <<spanVars, pageMap, listVars>>
  BY DEF MergePrev
<1>2. b \in Page /\ numPages[b] > 0 /\ ~inFreeList[b]
  BY <1>1 DEF CacheInv, OpInv, Idle
<1>3. TypeInv /\ MapInv
  BY DEF CacheInv
<1>4. \A c \in Page : inFreeList[c] /\ c = b + numPages[b] => originAddr[c] # originAddr[b]
  BY <1>1 DEF CacheInv, NextDone
<1>5. b \in Nat /\ numPages[b] \in Nat
  BY <1>2, <1>3, SpanFacts
<1>n. q = FindSpan(b - 1)
  OBVIOUS
<1> HIDE DEF b, q
<1>6. CASE PrevMerges(b, q)
  <2>1. q # b /\ inFreeList[q] /\ b = q + numPages[q] /\ originAddr[q] = originAddr[b] /\ q # 0
    BY <1>6 DEF PrevMerges
  <2>2. q \in Page
    BY <1>3, <1>n, <2>1 DEF FindSpan, TypeInv
  <2>3. Merge(q, b, q) /\ op' = At("insert", q)
    BY <1>1, <1>6
  <2>4. /\ TypeInv' /\ MapInv' /\ FreeInv' /\ BudgetInv' /\ NoNeighbours'
        /\ numPages'[q] = numPages[q] + numPages[b] /\ numPages[q] > 0
        /\ originAddr'[q] = originAddr[q]
        /\ ~inFreeList'[q] /\ ~inFreeList'[b]
        /\ \A c \in Page : c # q => inFreeList'[c] = inFreeList[c]
        /\ \A c \in Page : c # q /\ c # b => /\ numPages'[c] = numPages[c]
                                             /\ originAddr'[c] = originAddr[c]
    <3>1. Joins(q, b, q, b)
      BY <1>1, <1>2, <2>1, <2>3 DEF Joins
    <3> QED BY <1>2, <2>2, <3>1, MergeKeeps
  <2>0. op'.pc = "insert" /\ op'.span = q /\ numPages[q] \in Nat /\ q \in Nat
    BY <1>3, <2>2, <2>3, SpanFacts DEF At
  <2>5. OpInv'
    <3>2. numPages'[q] > 0
      BY <1>2, <1>5, <2>0, <2>4
    <3> QED BY <2>2, <2>3, <2>4, <3>2 DEF OpInv, At
  <2>6. NextDone'
    <3> SUFFICES ASSUME NEW c \in Page, inFreeList'[c], c = q + numPages'[q]
                 PROVE  originAddr'[c] # originAddr'[q]
      BY <2>0 DEF NextDone
    <3>1. c = b + numPages[b] /\ c # q /\ c # b
      BY <1>2, <1>5, <2>0, <2>1, <2>4
    <3>2. inFreeList[c] /\ originAddr'[c] = originAddr[c]
      BY <2>4, <3>1
    <3>3. originAddr[b] # originAddr[c]
      BY <1>4, <3>1, <3>2
    <3> QED BY <2>1, <2>4, <3>2, <3>3
  <2>7. PrevDone'
    <3> SUFFICES ASSUME NEW c \in Page, inFreeList'[c], q = c + numPages'[c]
                 PROVE  originAddr'[c] # originAddr'[q]
      BY <2>0 DEF PrevDone
    <3>1. c # q /\ c # b
      BY <2>4
    <3>2. inFreeList[c] /\ originAddr'[c] = originAddr[c] /\ q = c + numPages[c]
      BY <2>4, <3>1
    <3>3. originAddr[c] # originAddr[q]
      BY <2>1, <2>2, <3>2 DEF CacheInv, NoNeighbours
    <3> QED BY <2>4, <3>2, <3>3
  <2> QED BY <2>4, <2>5, <2>6, <2>7 DEF CacheInv
<1>7. CASE ~PrevMerges(b, q)
  <2>1. UNCHANGED <<spanVars, pageMap, listVars>> /\ UNCHANGED systemAllocs /\ op' = At("insert", b)
    BY <1>1, <1>7
  <2>0. op'.pc = "insert" /\ op'.span = b
    BY <2>1 DEF At
  <2>2. MapInv'
    BY <1>3, <2>1 DEF MapInv, spanVars
  <2>3. TypeInv'
    BY <1>3, <2>1 DEF TypeInv, spanVars, listVars
  <2>4. Untouched(0) /\ UNCHANGED <<inFreeList, listVars>>
    BY <2>1 DEF Untouched, spanVars
  <2>5. FreeInv' /\ BudgetInv' /\ NoNeighbours'
    BY <2>2, <2>3, <2>4, FreeSame
  <2>6. OpInv'
    BY <1>2, <2>1 DEF OpInv, At, spanVars
  <2>7. NextDone'
    BY <1>4, <2>0, <2>1 DEF NextDone, spanVars
  <2>8. PrevDone'
    <3> SUFFICES ASSUME NEW c \in Page, inFreeList[c], b = c + numPages[c],
                        originAddr[c] = originAddr[b]
                 PROVE  FALSE
      BY <2>0, <2>1 DEF PrevDone, spanVars
    <3>1. InList(c) /\ numPages[c] > 0
      BY Listed
    <3>2. c \in Nat /\ numPages[c] \in Nat /\ originAddr[c] <= c /\ originAddr[c] \in Nat
      BY <1>3, <3>1, SpanFacts
    <3>3. b - 1 \in Page /\ c <= b - 1 /\ b - 1 < c + numPages[c]
      BY <1>2, <1>5, <3>1, <3>2 DEF Page
    <3>4. pageMap[b - 1] = c
      BY <1>3, <3>3 DEF MapInv
    <3>5. q = c
      BY <1>n, <3>3, <3>4 DEF FindSpan
    <3>6. c # 0 /\ c # b /\ b # originAddr[b]
      BY <1>5, <3>1, <3>2 DEF Page
    <3> QED BY <1>7, <3>1, <3>5, <3>6 DEF PrevMerges
  <2> QED BY <2>2, <2>3, <2>5, <2>6, <2>7, <2>8 DEF CacheInv
<1> QED BY <1>6, <1>7

(* Span x enters the list of its length.                                   *)
Enters(x) ==
  /\ numPages[x] > 0 /\ ~inFreeList[x]
  /\ inFreeList'      = [inFreeList EXCEPT ![x] = TRUE]
  /\ freeSpans'       = [freeSpans EXCEPT ![numPages[x]] = <<x>> \o @]
  /\ cachedFreePages' = cachedFreePages + numPages[x]
  /\ UNCHANGED <<numPages, originAddr, originPages, isLarge, pageMap, systemAllocs>>

LEMMA EnterKeeps ==
  ASSUME CacheInv, NEW x \in Page, Enters(x)
  PROVE  /\ TypeInv' /\ MapInv' /\ FreeInv'
         /\ FreePages \subseteq FreePages'
         /\ Cardinality(FreePages') = cachedFreePages + numPages[x]
         /\ inFreeList'[x] /\ \A c \in Page : c # x => inFreeList'[c] = inFreeList[c]
<1>h. /\ numPages[x] > 0 /\ ~inFreeList[x]
      /\ inFreeList'      = [inFreeList EXCEPT ![x] = TRUE]
      /\ freeSpans'       = [freeSpans EXCEPT ![numPages[x]] = <<x>> \o freeSpans[numPages[x]]]
      /\ cachedFreePages' = cachedFreePages + numPages[x]
      /\ numPages' = numPages /\ originAddr' = originAddr /\ originPages' = originPages
      /\ isLarge' = isLarge /\ pageMap' = pageMap /\ systemAllocs' = systemAllocs
  BY DEF Enters
<1>t. /\ inFreeList \in [Page -> BOOLEAN] /\ freeSpans \in [Page -> Seq(Page)] /\ numPages \in [Page -> Nat]
      /\ pageMap \in [Page -> Page \cup {0}] /\ TypeInv /\ MapInv
  BY DEF CacheInv, TypeInv
<1>0. /\ inFreeList' \in [Page -> BOOLEAN] /\ inFreeList'[x]
      /\ \A c \in Page : c # x => inFreeList'[c] = inFreeList[c]
  BY <1>h, <1>t
<1>1. MapInv'
  BY <1>h, <1>t DEF MapInv
<1> DEFINE m == numPages[x]
           R == Run(x, m)
           f == freeSpans[m]
           list == <<x>> \o f
<1>2. x \in Nat /\ x >= 1 /\ x + m <= NumPages + 1 /\ m \in Nat /\ m > 0
  BY <1>h, <1>t, SpanFacts
<1>3. m \in Page
  BY <1>2 DEF Page
<1>4. f \in Seq(Page) /\ IsInjective(f) /\ ToSet(f) = {b \in Page : inFreeList[b] /\ numPages[b] = m}
  BY <1>t, <1>3 DEF CacheInv, FreeInv
<1>5. x \notin ToSet(f)
  BY <1>h, <1>4
<1> HIDE DEF f
<1>6. list \in Seq(Page) /\ IsInjective(list) /\ ToSet(list) = ToSet(f) \cup {x}
  BY <1>4, <1>5, ConsSet
<1>7. freeSpans'[m] = list /\ \A k \in Page : k # m => freeSpans'[k] = freeSpans[k]
  BY <1>h, <1>t, <1>3 DEF f
<1>8. freeSpans' \in [Page -> Seq(Page)]
  BY <1>h, <1>t, <1>3, <1>6 DEF f
<1> HIDE DEF list
<1>9. TypeInv'
  BY <1>h, <1>t, <1>0, <1>8 DEF TypeInv
<1>10. \A p \in Page : p \in R <=> pageMap[p] = x
  <2> TAKE p \in Page
  <2>1. p \in Int
    BY DEF Page
  <2>2. p \in R <=> x <= p /\ p < x + m
    BY <1>2, <2>1, RunCount
  <2> QED BY <1>t, <2>2 DEF MapInv
<1>11. R \subseteq Page
  BY <1>2 DEF Run, Page
<1>12. FreePages' = FreePages \cup R /\ FreePages \subseteq Page /\ R \cap FreePages = {}
  <2>1. 0 \notin Page
    BY DEF Page
  <2>2. \A p \in Page : pageMap[p] # 0 <=> pageMap[p] \in Page
    BY <1>t, <2>1
  <2>3. \A p \in Page : p \in FreePages' <=> p \in FreePages \/ p \in R
    BY <1>h, <1>0, <1>10, <2>1, <2>2 DEF FreePages
  <2>4. \A p \in Page : ~(p \in FreePages /\ p \in R)
    BY <1>h, <1>10 DEF FreePages
  <2>5. FreePages \subseteq Page /\ FreePages' \subseteq Page
    BY DEF FreePages
  <2> QED BY <1>11, <2>3, <2>4, <2>5
<1>13. Cardinality(FreePages') = Cardinality(FreePages) + m
  <2> HIDE DEF m
  <2> QED BY <1>2, <1>12, MorePages
<1>14. cachedFreePages = Cardinality(FreePages)
  BY DEF CacheInv, FreeInv
<1>15. FreeInv'
  <2>1. \A c \in Page : inFreeList'[c] => numPages'[c] > 0
    BY <1>h, <1>0 DEF CacheInv, FreeInv
  <2>3. \A k \in Page : /\ IsInjective(freeSpans'[k])
                        /\ ToSet(freeSpans'[k]) = {b \in Page : inFreeList'[b] /\ numPages'[b] = k}
    <3> TAKE k \in Page
    <3>1. /\ IsInjective(freeSpans[k])
          /\ ToSet(freeSpans[k]) = {b \in Page : inFreeList[b] /\ numPages[b] = k}
      BY DEF CacheInv, FreeInv
    <3>2. \A b \in Page : inFreeList'[b] /\ numPages'[b] = k <=> (inFreeList[b] /\ numPages[b] = k) \/ (b = x /\ k = m)
      BY <1>h, <1>0
    <3>3. CASE k = m
      BY <1>4, <1>6, <1>7, <3>2, <3>3
    <3>4. CASE k # m
      BY <1>7, <3>1, <3>2, <3>4
    <3> QED BY <3>3, <3>4
  <2>4. cachedFreePages' = Cardinality(FreePages')
    BY <1>h, <1>13, <1>14
  <2> QED BY <2>1, <2>3, <2>4 DEF FreeInv
<1> QED BY <1>0, <1>1, <1>9, <1>12, <1>13, <1>14, <1>15

LEMMA InsertFreeKeeps ==
  ASSUME CacheInv, InsertFree
  PROVE  CacheInv'
<1> DEFINE b == op.span
<1>1. op.pc = "insert" /\ op # Idle
  BY DEF InsertFree, Idle
<1>2. b \in Page /\ numPages[b] > 0 /\ ~inFreeList[b]
  BY <1>1 DEF CacheInv, OpInv
<1>3. CASE OwnsOrigin(b) /\ OverBudget(numPages[b])
  <2>1. ReleaseOrigin(b)
    BY <1>3 DEF InsertFree
  <2> HIDE DEF b
  <2> QED BY <1>2, <1>3, <2>1, ReleaseKeeps
<1>4. CASE ~(OwnsOrigin(b) /\ OverBudget(numPages[b]))
  <2>1. Enters(b) /\ op' = Idle
    BY <1>2, <1>4 DEF InsertFree, Enters
  <2>2. /\ \A c \in Page : inFreeList[c] /\ c = b + numPages[b] => originAddr[c] # originAddr[b]
        /\ \A c \in Page : inFreeList[c] /\ b = c + numPages[c] => originAddr[c] # originAddr[b]
    BY <1>1 DEF CacheInv, NextDone, PrevDone
  <2> HIDE DEF b
  <2>3. /\ TypeInv' /\ MapInv' /\ FreeInv'
        /\ FreePages \subseteq FreePages'
        /\ Cardinality(FreePages') = cachedFreePages + numPages[b]
        /\ inFreeList'[b] /\ \A c \in Page : c # b => inFreeList'[c] = inFreeList[c]
    BY <1>2, <2>1, EnterKeeps
  <2>4. numPages' = numPages /\ originAddr' = originAddr /\ originPages' = originPages /\ pageMap' = pageMap
    BY <2>1 DEF Enters
  <2>5. NoNeighbours'
    <3> SUFFICES ASSUME NEW c \in Page, NEW d \in Page,
                        inFreeList'[c], inFreeList'[d], d = c + numPages[c]
                 PROVE  originAddr[c] # originAddr[d]
      BY <2>4 DEF NoNeighbours
    <3>1. \A e \in Page : e \in Nat /\ numPages[e] \in Nat
      BY SpanFacts DEF CacheInv
    <3>2. CASE c = b
      <4>1. d # b
        BY <1>2, <3>1, <3>2
      <4> QED BY <2>2, <2>3, <3>2, <4>1
    <3>3. CASE d = b
      <4>1. c # b
        BY <1>2, <3>1, <3>3
      <4> QED BY <2>2, <2>3, <3>3, <4>1
    <3>4. CASE c # b /\ d # b
      BY <2>3, <3>4 DEF CacheInv, NoNeighbours
    <3> QED BY <3>2, <3>3, <3>4
  <2>6. BudgetInv'
    <3>1. WholePages' \subseteq FreePages' /\ FreePages' \subseteq Page
      BY DEF WholePages, FreePages
    <3>2. CASE OwnsOrigin(b)
      <4>1. ~(cachedFreePages + numPages[b] > MaxCachedPages)
        BY <1>4, <3>2 DEF OverBudget
      <4>2. /\ Cardinality(WholePages') \in Nat /\ Cardinality(FreePages') \in Nat
            /\ Cardinality(WholePages') <= Cardinality(FreePages')
        BY <3>1, SubPages
      <4>3. ~(Cardinality(FreePages') > MaxCachedPages)
        BY <2>3, <4>1
      <4>4. Cardinality(WholePages') <= MaxCachedPages
        BY <4>2, <4>3
      <4> QED BY <4>4 DEF BudgetInv
    <3>3. CASE ~OwnsOrigin(b)
      <4>1. WholePages' \subseteq WholePages
        <5> SUFFICES ASSUME NEW p \in WholePages' PROVE p \in WholePages
          OBVIOUS
        <5>1. p \in Page /\ pageMap[p] # 0 /\ inFreeList'[pageMap[p]] /\ OwnsOrigin(pageMap[p])
          BY <2>4 DEF WholePages, FreePages, OwnsOrigin
        <5>2. pageMap[p] \in Page /\ pageMap[p] # b
          BY <3>3, <5>1 DEF CacheInv, TypeInv
        <5> QED BY <2>3, <5>1, <5>2 DEF WholePages, FreePages
      <4>2. WholePages \subseteq Page
        BY DEF WholePages, FreePages
      <4>3. Cardinality(WholePages) <= MaxCachedPages
        BY DEF CacheInv, BudgetInv
      <4>4. /\ Cardinality(WholePages') \in Nat /\ Cardinality(WholePages) \in Nat
            /\ Cardinality(WholePages') <= Cardinality(WholePages)
        BY <4>1, <4>2, SubPages
      <4>5. Cardinality(WholePages') <= MaxCachedPages
        BY <4>3, <4>4
      <4> QED BY <4>5 DEF BudgetInv
    <3> QED BY <3>2, <3>3
  <2>7. OpInv' /\ NextDone' /\ PrevDone'
    BY <2>1 DEF OpInv, NextDone, PrevDone, Idle
  <2> QED BY <2>3, <2>5, <2>6, <2>7 DEF CacheInv
<1> QED BY <1>3, <1>4

-----------------------------------------------------------------------------
(* The invariant is inductive.                                             *)

LEMMA InitCache ==
  ASSUME Init
  PROVE  CacheInv
<1>1. TypeInv
  BY DEF Init, TypeInv
<1>2. MapInv
  BY DEF Init, MapInv, Page
<1>3. FreePages = {} /\ WholePages = {}
  BY DEF Init, FreePages, WholePages
<1>4. Cardinality(FreePages) = 0 /\ Cardinality(WholePages) = 0
  BY <1>3, FS_EmptySet
<1>5. FreeInv
  <2>1. IsInjective(<< >>) /\ ToSet(<< >>) = {}
    BY DEF IsInjective, ToSet
  <2> QED BY <1>4, <2>1 DEF Init, FreeInv
<1>6. BudgetInv
  BY <1>4 DEF BudgetInv
<1>7. OpInv /\ NoNeighbours /\ NextDone /\ PrevDone
  BY DEF Init, OpInv, NoNeighbours, NextDone, PrevDone, Idle
<1> QED BY <1>1, <1>2, <1>5, <1>6, <1>7 DEF CacheInv

LEMMA Stutters ==
  ASSUME CacheInv, UNCHANGED vars
  PROVE  CacheInv'
<1>1. TypeInv' /\ MapInv'
  BY DEF CacheInv, TypeInv, MapInv, vars, spanVars, listVars
<1>2. FreeInv' /\ BudgetInv' /\ NoNeighbours'
  <2>1. Untouched(0) /\ UNCHANGED <<inFreeList, listVars>>
    BY DEF Untouched, vars, spanVars
  <2> QED BY <1>1, <2>1, FreeSame
<1>3. OpInv' /\ NextDone' /\ PrevDone'
  BY DEF CacheInv, OpInv, NextDone, PrevDone, vars, spanVars
<1> QED BY <1>1, <1>2, <1>3 DEF CacheInv

LEMMA Inductive == Spec => []CacheInv
<1>1. Init => CacheInv
  BY InitCache
<1>2. CacheInv /\ [Next]_vars => CacheInv'
  <2> SUFFICES ASSUME CacheInv, [Next]_vars PROVE CacheInv'
    OBVIOUS
  <2>1. ASSUME NEW n \in 1 .. MaxRequest, NEW large \in BOOLEAN, AllocateCached(n, large)
        PROVE  CacheInv'
    BY <2>1, AllocateCachedKeeps
  <2>2. ASSUME NEW n \in 1 .. MaxRequest, NEW large \in BOOLEAN, NEW b \in Page,
               AllocateSystem(n, large, b)
        PROVE  CacheInv'
    BY <2>2, AllocateSystemKeeps
  <2>3. ASSUME NEW b \in Page, DeallocateSpan(b)
        PROVE  CacheInv'
    BY <2>3, DeallocateSpanKeeps
  <2>4. CASE MergeNext
    BY <2>4, MergeNextKeeps
  <2>5. CASE MergePrev
    BY <2>5, MergePrevKeeps
  <2>6. CASE InsertFree
    BY <2>6, InsertFreeKeeps
  <2>7. CASE UNCHANGED vars
    BY <2>7, Stutters
  <2> QED BY <2>1, <2>2, <2>3, <2>4, <2>5, <2>6, <2>7 DEF Next
<1> QED BY <1>1, <1>2, PTL DEF Spec

-----------------------------------------------------------------------------
(* The properties.                                                         *)

(* The condition of a page in terms of runs.                               *)
LEMMA InRun ==
  ASSUME NEW b \in Nat, NEW n \in Nat, NEW p \in Int
  PROVE  p \in Run(b, n) <=> b <= p /\ p < b + n
BY DEF Run

LEMMA MapExact ==
  ASSUME TypeInv, MapInv
  PROVE  PageMapExact
<1>1. \A p \in Page : p \in Int /\ p \in Nat /\ p # 0
  BY DEF Page
<1>2. \A a \in systemAllocs : a[1] \in Nat /\ a[2] \in Nat
  BY <1>1 DEF TypeInv
<1>3. \A p \in Page : pageMap[p] # 0 <=> \E a \in systemAllocs : p \in Run(a[1], a[2])
  <2> TAKE p \in Page
  <2>1. \A a \in systemAllocs : p \in Run(a[1], a[2]) <=> a[1] <= p /\ p < a[1] + a[2]
    BY <1>1, <1>2, InRun
  <2>2. pageMap[p] # 0 <=> \E a \in systemAllocs : a[1] <= p /\ p < a[1] + a[2]
    BY DEF MapInv
  <2> QED BY <2>1, <2>2
<1>4. \A b \in Page : numPages[b] \in Nat
  BY DEF TypeInv
<1>5. \A b, p \in Page : p \in Run(b, numPages[b]) <=> pageMap[p] = b
  <2> TAKE b, p \in Page
  <2>1. p \in Run(b, numPages[b]) <=> b <= p /\ p < b + numPages[b]
    BY <1>1, <1>4, InRun
  <2> QED BY <2>1 DEF MapInv
<1>6. \A p \in Page : pageMap[p] # 0 => p \in Run(pageMap[p], numPages[pageMap[p]])
  <2> TAKE p \in Page
  <2>1. pageMap[p] # 0 => pageMap[p] \in Page
    BY DEF TypeInv
  <2> QED BY <1>5, <2>1
<1>7. \A b \in Page : \A p \in Run(b, numPages[b]) : p \in Page /\ pageMap[p] = b
  <2> TAKE b \in Page
  <2>1. b \in Nat /\ b >= 1 /\ b + numPages[b] <= NumPages + 1 /\ numPages[b] \in Nat
    BY SpanFacts
  <2>2. Run(b, numPages[b]) \subseteq Page
    BY <2>1 DEF Run, Page
  <2> QED BY <1>5, <2>2
<1>8. \A b \in Page : numPages[b] > 0 =>
        /\ <<originAddr[b], originPages[b]>> \in systemAllocs
        /\ Run(b, numPages[b]) \subseteq Run(originAddr[b], originPages[b])
  <2> SUFFICES ASSUME NEW b \in Page, numPages[b] > 0
               PROVE  /\ <<originAddr[b], originPages[b]>> \in systemAllocs
                      /\ Run(b, numPages[b]) \subseteq Run(originAddr[b], originPages[b])
    OBVIOUS
  <2>1. /\ b \in Nat /\ numPages[b] \in Nat /\ originAddr[b] \in Nat /\ originPages[b] \in Nat
        /\ <<originAddr[b], originPages[b]>> \in systemAllocs
        /\ originAddr[b] <= b /\ b + numPages[b] <= originAddr[b] + originPages[b]
    BY SpanFacts
  <2> QED BY <2>1 DEF Run
<1> QED BY <1>3, <1>6, <1>7, <1>8 DEF PageMapExact

LEMMA PagesOfFree ==
  ASSUME TypeInv, MapInv
  PROVE  /\ PagesOf({b \in Page : inFreeList[b]}) = FreePages
         /\ PagesOf({b \in Page : inFreeList[b] /\ OwnsOrigin(b)}) = WholePages
<1>1. \A b \in Page : Run(b, numPages[b]) = {p \in Page : pageMap[p] = b}
  <2> TAKE b \in Page
  <2>1. \A p \in Run(b, numPages[b]) : p \in Page /\ pageMap[p] = b
    BY MapExact DEF PageMapExact
  <2>2. \A p \in Page : pageMap[p] = b => p \in Run(b, numPages[b])
    <3> SUFFICES ASSUME NEW p \in Page, pageMap[p] = b PROVE p \in Run(b, numPages[b])
      OBVIOUS
    <3>1. b # 0
      BY DEF Page
    <3> QED BY <3>1, MapExact DEF PageMapExact
  <2> QED BY <2>1, <2>2
<1>2. \A p \in Page : pageMap[p] # 0 <=> pageMap[p] \in Page
  BY DEF TypeInv, Page
<1> QED BY <1>1, <1>2 DEF PagesOf, FreePages, WholePages

(* findSpan is exact in every state a cache can reach, between the critical *)
(* sections of deallocateSpan too: no page of a mapped origin is without a *)
(* span, and none leads to a span deleted by a merge.                      *)
THEOREM FindSpanExact == Spec => []PageMapExact
<1>1. CacheInv => PageMapExact
  BY MapExact DEF CacheInv
<1> QED BY <1>1, Inductive, PTL

(* The size-ordered lists, the inFreeList flags and cachedFreePages_       *)
(* agree, and deallocateSpan leaves no two free neighbours of one origin.  *)
THEOREM CacheListsExact == Spec => []FreeListsExact
<1>1. CacheInv => FreeListsExact
  <2> SUFFICES ASSUME CacheInv PROVE FreeListsExact
    OBVIOUS
  <2>1. \A b \in Page : inFreeList[b] <=> \E k \in Page : b \in ToSet(freeSpans[k])
    <3> TAKE b \in Page
    <3>1. ASSUME inFreeList[b] PROVE numPages[b] \in Page
      <4>1. /\ numPages[b] > 0 /\ numPages[b] \in Nat /\ b \in Nat /\ b >= 1
            /\ b + numPages[b] <= NumPages + 1
        BY <3>1, SpanFacts DEF CacheInv, FreeInv
      <4> QED BY <4>1 DEF Page
    <3> QED BY <3>1 DEF CacheInv, FreeInv
  <2>2. \A k \in Page : /\ IsInjective(freeSpans[k])
                        /\ \A b \in ToSet(freeSpans[k]) : numPages[b] = k
    BY DEF CacheInv, FreeInv
  <2>3. cachedFreePages = Cardinality(PagesOf({b \in Page : inFreeList[b]}))
    BY PagesOfFree DEF CacheInv, FreeInv
  <2>4. Coalesced
    BY DEF CacheInv, NoNeighbours, Coalesced
  <2> QED BY <2>1, <2>2, <2>3, <2>4 DEF FreeListsExact
<1> QED BY <1>1, Inductive, PTL

(* The origins deallocateSpan keeps although they are entirely free hold   *)
(* at most kMaxCachedBytes.                                                *)
THEOREM WholeOriginsBounded == Spec => []WholeOriginsWithinBudget
<1>1. CacheInv => WholeOriginsWithinBudget
  <2> SUFFICES ASSUME CacheInv PROVE WholeOriginsWithinBudget
    OBVIOUS
  <2>1. PagesOf({b \in Page : inFreeList[b] /\ OwnsOrigin(b)}) = WholePages
    BY PagesOfFree DEF CacheInv
  <2>2. Cardinality(WholePages) <= MaxCachedPages
    BY DEF CacheInv, BudgetInv
  <2> HIDE DEF WholePages
  <2> QED BY <2>1, <2>2 DEF WholeOriginsWithinBudget
<1> QED BY <1>1, Inductive, PTL

-----------------------------------------------------------------------------
(* PageCache implements SpanPool.                                          *)

(* The spans handed out, as SpanPool sees them.                            *)
Given == [b \in Page |-> IF b \in Live THEN numPages[b] ELSE 0]

LEMMA LiveWhenIdle ==
  ASSUME NEW b \in Page, op = Idle
  PROVE  b \in Live <=> numPages[b] > 0 /\ ~inFreeList[b]
BY DEF Live, Idle, Page

(* No page of a run that leads to no live span is in use.                  *)
LEMMA NotInUse ==
  ASSUME TypeInv, MapInv, NEW R, R \subseteq Page, \A p \in R : pageMap[p] \notin Live
  PROVE  R \cap UNION {Pool!Run(c, Given[c]) : c \in Page} = {}
<1> SUFFICES ASSUME NEW p \in R, NEW c \in Page, p \in Pool!Run(c, Given[c]) PROVE FALSE
  OBVIOUS
<1>1. p \in Page /\ c \in Nat
  BY DEF Page
<1>2. CASE c \in Live
  <2>1. p \in Run(c, numPages[c])
    BY <1>2 DEF Given, Run, Pool!Run
  <2>2. pageMap[p] = c
    BY <2>1, MapExact DEF PageMapExact
  <2> QED BY <1>2, <2>2
<1>3. CASE c \notin Live
  <2>1. Given[c] = 0
    BY <1>3 DEF Given
  <2>2. Pool!Run(c, 0) = {}
    BY <1>1 DEF Pool!Run
  <2> QED BY <2>1, <2>2
<1> QED BY <1>2, <1>3

(* A step that makes b of n pages live and leaves the other spans alone.   *)
Serves(b, n) ==
  /\ Run(b, n) \subseteq Page /\ \A p \in Run(b, n) : pageMap[p] \notin Live
  /\ b \in Live' /\ numPages'[b] = n
  /\ \A c \in Page : c # b => (c \in Live' <=> c \in Live) /\ (c \in Live => numPages'[c] = numPages[c])

LEMMA ServesAllocates ==
  ASSUME TypeInv, MapInv, NEW b \in Page, NEW n \in Page, Serves(b, n)
  PROVE  Pool!Next
<1>1. Run(b, n) \cap UNION {Pool!Run(c, Given[c]) : c \in Page} = {}
  BY NotInUse DEF Serves
<1>2. Given' = [Given EXCEPT ![b] = n]
  <2>1. /\ b \in Live' /\ numPages'[b] = n
        /\ \A c \in Page : c # b => (c \in Live' <=> c \in Live) /\ (c \in Live => numPages'[c] = numPages[c])
    BY DEF Serves
  <2>2. \A c \in Page : (IF c \in Live' THEN numPages'[c] ELSE 0)
                        = IF c = b THEN n ELSE IF c \in Live THEN numPages[c] ELSE 0
    BY <2>1
  <2>3. Given' = [c \in Page |-> IF c = b THEN n ELSE IF c \in Live THEN numPages[c] ELSE 0]
    BY <2>2 DEF Given
  <2> QED BY <2>3 DEF Given
<1>3. Run(b, n) \subseteq Page
  BY DEF Serves
<1>4. Pool!AllocateSpan(b, n)
  BY <1>1, <1>2, <1>3 DEF Pool!AllocateSpan, Pool!InUse, Given, Run, Pool!Run
<1> QED BY <1>4 DEF Pool!Next

LEMMA CachedServes ==
  ASSUME CacheInv, CacheInv', NEW n \in 1 .. MaxRequest, NEW large \in BOOLEAN, AllocateCached(n, large)
  PROVE  Pool!Next
<1> DEFINE k == Min(Fits(n))
           q == freeSpans[k]
           b == Head(q)
           m == numPages[b]
<1>0. n \in Nat \ {0} /\ n \in Nat /\ n \in Page
  BY DEF Page
<1>1. /\ op = Idle /\ op' = Idle /\ Fits(n) # {} /\ systemAllocs' = systemAllocs
  BY DEF AllocateCached
<1>2. k \in Page /\ n <= k /\ q # << >>
  BY <1>0, <1>1, FitsLeast
<1>3. IF m > n
      THEN /\ numPages'        = [numPages EXCEPT ![b] = n, ![b + n] = m - n]
           /\ originAddr'      = [originAddr EXCEPT ![b + n] = originAddr[b]]
           /\ originPages'     = [originPages EXCEPT ![b + n] = originPages[b]]
           /\ inFreeList'      = [inFreeList EXCEPT ![b] = FALSE, ![b + n] = TRUE]
           /\ pageMap'         = SplitMap(b, n, m)
      ELSE /\ inFreeList'      = [inFreeList EXCEPT ![b] = FALSE]
           /\ UNCHANGED <<numPages, originAddr, originPages, pageMap>>
  BY DEF AllocateCached
<1> HIDE DEF k
<1>4. b \in Page /\ inFreeList[b] /\ m = k
  BY <1>2, ListHead
<1>m. m = numPages[b]
  OBVIOUS
<1> HIDE DEF b, m
<1>5. TypeInv /\ MapInv /\ inFreeList \in [Page -> BOOLEAN] /\ m \in Nat /\ b \in Nat /\ b >= 1
  <2>1. TypeInv /\ MapInv
    BY DEF CacheInv
  <2>2. inFreeList \in [Page -> BOOLEAN]
    BY <2>1 DEF TypeInv
  <2> QED BY <1>4, <1>m, <2>1, <2>2, SpanFacts
<1>6. b \notin Live
  BY <1>4 DEF Live
<1>7. Run(b, n) \subseteq Page /\ \A p \in Run(b, n) : pageMap[p] \notin Live
  <2>1. b + m <= NumPages + 1 /\ n <= m
    BY <1>2, <1>4, <1>5, <1>m, SpanFacts
  <2>2. Run(b, n) \subseteq Run(b, numPages[b])
    BY <1>0, <1>5, <1>m, <2>1 DEF Run
  <2>3. \A p \in Run(b, n) : p \in Page /\ pageMap[p] = b
    BY <1>4, <1>5, <2>2, MapExact DEF PageMapExact
  <2> QED BY <1>6, <2>3
<1>8. CASE m > n
  <2> DEFINE r == b + n
  <2>1. Splits(b, n, m)
    BY <1>0, <1>1, <1>3, <1>5, <1>8, <1>m DEF Splits
  <2>2. /\ r \in Page /\ r # b /\ numPages[r] = 0 /\ numPages'[b] = n
        /\ \A c \in Page : c # b /\ c # r => numPages'[c] = numPages[c]
    <3>1. TypeInv /\ MapInv
      BY <1>5
    <3>2. n \in Nat /\ m \in Nat
      BY <1>0, <1>5
    <3> HIDE <1>5, <1>3, <1>0
    <3> QED BY <1>4, <2>1, <3>1, <3>2, SplitFacts
  <2>3. inFreeList' = [inFreeList EXCEPT ![b] = FALSE, ![r] = TRUE]
    BY <1>3, <1>8
  <2> HIDE DEF r
  <2>4. ~inFreeList'[b] /\ inFreeList'[r] /\ \A c \in Page : c # b /\ c # r => inFreeList'[c] = inFreeList[c]
    BY <1>4, <1>5, <2>2, <2>3
  <2>5. /\ b \in Live' /\ r \notin Live' /\ r \notin Live
        /\ \A c \in Page : c # b /\ c # r => (c \in Live' <=> c \in Live)
    <3>1. op.span = 0 /\ op'.span = 0 /\ 0 \notin Page
      BY <1>1 DEF Idle, Page
    <3> QED BY <1>0, <1>4, <2>2, <2>4, <3>1 DEF Live
  <2>6. Serves(b, n)
    BY <1>7, <2>2, <2>5 DEF Serves
  <2> QED BY <1>0, <1>4, <1>5, <2>6, ServesAllocates
<1>9. CASE ~(m > n)
  <2>1. numPages' = numPages /\ n = m
    BY <1>0, <1>2, <1>3, <1>4, <1>5, <1>9
  <2>2. ~inFreeList'[b] /\ \A c \in Page : c # b => inFreeList'[c] = inFreeList[c]
    BY <1>3, <1>4, <1>5, <1>9
  <2>3. b \in Live' /\ \A c \in Page : c # b => (c \in Live' <=> c \in Live)
    <3>1. op.span = 0 /\ op'.span = 0 /\ 0 \notin Page
      BY <1>1 DEF Idle, Page
    <3>2. numPages[b] > 0
      BY <1>0, <1>m, <2>1
    <3> QED BY <1>4, <2>1, <2>2, <3>1, <3>2 DEF Live
  <2>4. Serves(b, n)
    BY <1>7, <1>m, <2>1, <2>3 DEF Serves
  <2> QED BY <1>0, <1>4, <1>5, <2>4, ServesAllocates
<1> QED BY <1>8, <1>9

LEMMA SystemServes ==
  ASSUME CacheInv, NEW n \in 1 .. MaxRequest, NEW large \in BOOLEAN, NEW b \in Page,
         AllocateSystem(n, large, b)
  PROVE  Pool!Next
<1> DEFINE m == RoundUp(n)
<1>1. m \in Nat /\ m >= 1
  BY RoundUpPositive
<1>2. op = Idle /\ op' = Idle /\ inFreeList' = inFreeList /\ Maps(b, m)
  BY <1>1 DEF AllocateSystem, Maps
<1> HIDE DEF m
<1>3. TypeInv /\ MapInv
  BY DEF CacheInv
<1>4. /\ numPages'[b] = m /\ m \in Page
      /\ \A c \in Page : c # b => numPages'[c] = numPages[c]
      /\ \A p \in Page : b <= p /\ p < b + m => pageMap[p] = 0
      /\ numPages[b] = 0
  BY <1>1, <1>2, <1>3, MapsFacts
<1>5. ~inFreeList[b]
  BY <1>4 DEF CacheInv, FreeInv
<1>6. op.span = 0 /\ op'.span = 0 /\ 0 \notin Page
  BY <1>2 DEF Idle, Page
<1>7. b \in Live' /\ \A c \in Page : c # b => (c \in Live' <=> c \in Live)
  BY <1>1, <1>2, <1>4, <1>5, <1>6 DEF Live
<1>8. Run(b, m) \subseteq Page
  BY <1>2 DEF Maps
<1>9. \A p \in Run(b, m) : pageMap[p] \notin Live
  <2> TAKE p \in Run(b, m)
  <2>1. p \in Page /\ p \in Int
    BY <1>8 DEF Page
  <2>2. b <= p /\ p < b + m
    BY <1>1, <2>1, RunCount
  <2>3. pageMap[p] = 0
    BY <1>4, <2>1, <2>2
  <2> QED BY <1>6, <2>3 DEF Live
<1>10. Serves(b, m)
  BY <1>4, <1>7, <1>8, <1>9 DEF Serves
<1> QED BY <1>3, <1>4, <1>10, ServesAllocates

LEMMA DeallocateReturns ==
  ASSUME CacheInv, NEW b \in Page, DeallocateSpan(b)
  PROVE  Pool!Next
<1>1. op = Idle /\ numPages[b] > 0 /\ ~inFreeList[b] /\ b \in Live
  BY DEF DeallocateSpan, Live
<1>2. op.span = 0 /\ 0 \notin Page /\ TypeInv
  BY <1>1 DEF CacheInv, Idle, Page
<1>3. b \notin Live' /\ \A c \in Page : c # b => (c \in Live' <=> c \in Live) /\ numPages'[c] = numPages[c]
  <2>1. CASE isLarge[b] /\ OwnsOrigin(b)
    <3>1. /\ numPages' = [numPages EXCEPT ![b] = 0] /\ inFreeList' = inFreeList /\ op' = Idle
      BY <2>1 DEF DeallocateSpan, ReleaseOrigin
    <3>2. numPages'[b] = 0 /\ \A c \in Page : c # b => numPages'[c] = numPages[c]
      BY <1>2, <3>1 DEF TypeInv
    <3>3. op'.span = 0
      BY <3>1 DEF Idle
    <3> QED BY <1>2, <3>1, <3>2, <3>3 DEF Live
  <2>2. CASE ~(isLarge[b] /\ OwnsOrigin(b))
    <3>1. numPages' = numPages /\ inFreeList' = inFreeList /\ op' = At("next", b)
      BY <2>2 DEF DeallocateSpan
    <3>2. op'.span = b
      BY <3>1 DEF At
    <3> QED BY <1>2, <3>1, <3>2 DEF Live
  <2> QED BY <2>1, <2>2
<1>4. Given' = [Given EXCEPT ![b] = 0] /\ Given[b] > 0
  BY <1>1, <1>3 DEF Given
<1>5. Pool!DeallocateSpan(b)
  BY <1>4 DEF Pool!DeallocateSpan, Given
<1> QED BY <1>5 DEF Pool!Next

LEMMA SameGiven ==
  ASSUME \A c \in Page : (c \in Live' <=> c \in Live) /\ (c \in Live => numPages'[c] = numPages[c])
  PROVE  Given' = Given
BY DEF Given

LEMMA MergeNextStutters ==
  ASSUME CacheInv, MergeNext
  PROVE  Given' = Given
<1> DEFINE b == op.span
           n == FindSpan(b + numPages[b])
<1>1. /\ op.pc = "next" /\ op' = At("prev", b) /\ UNCHANGED systemAllocs
      /\ IF NextMerges(b, n) THEN Merge(b, n, n) ELSE UNCHANGED <<spanVars, pageMap, listVars>>
  BY DEF MergeNext
<1>2. b \in Page /\ numPages[b] > 0 /\ ~inFreeList[b]
  BY <1>1 DEF CacheInv, OpInv, Idle
<1>3. op'.span = b /\ op.span = b /\ TypeInv
  BY <1>1 DEF At, CacheInv
<1>n. n = FindSpan(b + numPages[b])
  OBVIOUS
<1> HIDE DEF b, n
<1>4. CASE NextMerges(b, n)
  <2>1. n # b /\ inFreeList[n] /\ n = b + numPages[b] /\ originAddr[n] = originAddr[b] /\ n # 0
    BY <1>4 DEF NextMerges
  <2>2. n \in Page
    BY <1>3, <1>n, <2>1 DEF FindSpan, TypeInv
  <2>3. Joins(b, n, n, b)
    BY <1>1, <1>2, <1>4, <2>1 DEF Joins
  <2>4. /\ ~inFreeList'[n] /\ ~inFreeList'[b]
        /\ \A c \in Page : c # n => inFreeList'[c] = inFreeList[c]
        /\ \A c \in Page : c # b /\ c # n => numPages'[c] = numPages[c]
    BY <1>2, <2>2, <2>3, MergeKeeps
  <2>5. numPages'[n] = 0
    <3>1. numPages' = [numPages EXCEPT ![b] = @ + numPages[n], ![n] = 0]
      BY <2>3 DEF Joins, Merge
    <3> QED BY <1>3, <2>2, <3>1 DEF TypeInv
  <2>6. \A c \in Page : (c \in Live' <=> c \in Live) /\ (c \in Live => numPages'[c] = numPages[c])
    BY <1>3, <2>1, <2>4, <2>5 DEF Live
  <2> QED BY <2>6, SameGiven
<1>5. CASE ~NextMerges(b, n)
  <2>1. \A c \in Page : (c \in Live' <=> c \in Live) /\ (c \in Live => numPages'[c] = numPages[c])
    BY <1>1, <1>3, <1>5 DEF Live, spanVars
  <2> QED BY <2>1, SameGiven
<1> QED BY <1>4, <1>5

LEMMA MergePrevStutters ==
  ASSUME CacheInv, MergePrev
  PROVE  Given' = Given
<1> DEFINE b == op.span
           q == FindSpan(b - 1)
<1>1. /\ op.pc = "prev" /\ UNCHANGED systemAllocs
      /\ IF PrevMerges(b, q) THEN op' = At("insert", q) /\ Merge(q, b, q)
         ELSE op' = At("insert", b) /\ UNCHANGED <<spanVars, pageMap, listVars>>
  BY DEF MergePrev
<1>2. b \in Page /\ numPages[b] > 0 /\ ~inFreeList[b]
  BY <1>1 DEF CacheInv, OpInv, Idle
<1>3. op.span = b /\ TypeInv
  BY DEF CacheInv
<1>n. q = FindSpan(b - 1)
  OBVIOUS
<1> HIDE DEF b, q
<1>4. CASE PrevMerges(b, q)
  <2>1. q # b /\ inFreeList[q] /\ b = q + numPages[q] /\ originAddr[q] = originAddr[b] /\ q # 0
    BY <1>4 DEF PrevMerges
  <2>2. q \in Page
    BY <1>3, <1>n, <2>1 DEF FindSpan, TypeInv
  <2>3. Joins(q, b, q, b)
    BY <1>1, <1>2, <1>4, <2>1 DEF Joins
  <2>4. /\ ~inFreeList'[q] /\ ~inFreeList'[b]
        /\ \A c \in Page : c # q => inFreeList'[c] = inFreeList[c]
        /\ \A c \in Page : c # q /\ c # b => numPages'[c] = numPages[c]
    BY <1>2, <2>2, <2>3, MergeKeeps
  <2>5. numPages'[b] = 0
    <3>1. numPages' = [numPages EXCEPT ![q] = @ + numPages[b], ![b] = 0]
      BY <2>3 DEF Joins, Merge
    <3> QED BY <1>2, <1>3, <3>1 DEF TypeInv
  <2>6. op'.span = q
    BY <1>1, <1>4 DEF At
  <2>7. \A c \in Page : (c \in Live' <=> c \in Live) /\ (c \in Live => numPages'[c] = numPages[c])
    BY <1>3, <2>1, <2>4, <2>5, <2>6 DEF Live
  <2> QED BY <2>7, SameGiven
<1>5. CASE ~PrevMerges(b, q)
  <2>1. op'.span = b
    BY <1>1, <1>5 DEF At
  <2>2. \A c \in Page : (c \in Live' <=> c \in Live) /\ (c \in Live => numPages'[c] = numPages[c])
    BY <1>1, <1>3, <1>5, <2>1 DEF Live, spanVars
  <2> QED BY <2>2, SameGiven
<1> QED BY <1>4, <1>5

LEMMA InsertFreeStutters ==
  ASSUME CacheInv, InsertFree
  PROVE  Given' = Given
<1> DEFINE b == op.span
<1>1. op.pc = "insert" /\ op # Idle
  BY DEF InsertFree, Idle
<1>2. b \in Page /\ numPages[b] > 0 /\ ~inFreeList[b] /\ TypeInv
  BY <1>1 DEF CacheInv, OpInv
<1>3. op'.span = 0 /\ 0 \notin Page
  BY DEF InsertFree, ReleaseOrigin, Idle, Page
<1>4. CASE OwnsOrigin(b) /\ OverBudget(numPages[b])
  <2>1. numPages' = [numPages EXCEPT ![b] = 0] /\ inFreeList' = inFreeList
    BY <1>4 DEF InsertFree, ReleaseOrigin
  <2>2. numPages'[b] = 0 /\ \A c \in Page : c # b => numPages'[c] = numPages[c]
    BY <1>2, <2>1 DEF TypeInv
  <2>3. \A c \in Page : (c \in Live' <=> c \in Live) /\ (c \in Live => numPages'[c] = numPages[c])
    BY <1>3, <2>1, <2>2 DEF Live
  <2> QED BY <2>3, SameGiven
<1>5. CASE ~(OwnsOrigin(b) /\ OverBudget(numPages[b]))
  <2>1. inFreeList' = [inFreeList EXCEPT ![b] = TRUE] /\ numPages' = numPages
    BY <1>5 DEF InsertFree
  <2>2. inFreeList'[b] /\ \A c \in Page : c # b => inFreeList'[c] = inFreeList[c]
    BY <1>2, <2>1 DEF TypeInv
  <2>3. \A c \in Page : (c \in Live' <=> c \in Live) /\ (c \in Live => numPages'[c] = numPages[c])
    BY <1>3, <2>1, <2>2 DEF Live
  <2> QED BY <2>3, SameGiven
<1> QED BY <1>4, <1>5

(* PageCache hands out runs of pages nobody else holds until they come     *)
(* back: a merge or an insertion in the lists is invisible to the caller,  *)
(* and allocateSpan and deallocateSpan are the two steps of SpanPool.      *)
THEOREM SpanPoolImplemented == Spec => ImplementsSpanPool
<1>1. Init => Pool!Init
  BY DEF Init, Pool!Init, Live
<1>2. CacheInv /\ CacheInv' /\ [Next]_vars => [Pool!Next]_Given
  <2> SUFFICES ASSUME CacheInv, CacheInv', [Next]_vars PROVE Pool!Next \/ Given' = Given
    OBVIOUS
  <2>1. ASSUME NEW n \in 1 .. MaxRequest, NEW large \in BOOLEAN, AllocateCached(n, large)
        PROVE  Pool!Next
    BY <2>1, CachedServes
  <2>2. ASSUME NEW n \in 1 .. MaxRequest, NEW large \in BOOLEAN, NEW b \in Page,
               AllocateSystem(n, large, b)
        PROVE  Pool!Next
    BY <2>2, SystemServes
  <2>3. ASSUME NEW b \in Page, DeallocateSpan(b)
        PROVE  Pool!Next
    BY <2>3, DeallocateReturns
  <2>4. CASE MergeNext
    BY <2>4, MergeNextStutters
  <2>5. CASE MergePrev
    BY <2>5, MergePrevStutters
  <2>6. CASE InsertFree
    BY <2>6, InsertFreeStutters
  <2>7. CASE UNCHANGED vars
    BY <2>7 DEF vars, spanVars, Given, Live
  <2> QED BY <2>1, <2>2, <2>3, <2>4, <2>5, <2>6, <2>7 DEF Next
<1> QED BY <1>1, <1>2, Inductive, PTL DEF Spec, ImplementsSpanPool, Pool!Spec, Given
=============================================================================
