-------------------------- MODULE SelectionProofs --------------------------
(***************************************************************************)
(* Kept(q, S) is what its name says: the elements at the positions in S,   *)
(* all of them, in their order, and nothing else is.                       *)
(***************************************************************************)
EXTENDS Selection, Integers, SequencesExt, FiniteSetTheorems, WellFoundedInduction,
        NaturalsInduction, TLAPS

LEMMA LeastOf ==
  ASSUME NEW S, S \subseteq Nat, S # {}
  PROVE  \E x \in S : \A y \in S : x <= y
<1> DEFINE R == OpToRel(<, Nat)
<1>0. IsWellFoundedOn(R, Nat) /\ \A x, y \in Nat : <<y, x>> \in R <=> y < x
  BY NatLessThanWellFounded DEF OpToRel
<1>1. PICK x \in S : \A y \in S : ~(<<y, x>> \in R)
  BY <1>0, WFMin
<1>2. \A y \in S : x <= y
  <2> TAKE y \in S
  <2>1. x \in Nat /\ y \in Nat
    OBVIOUS
  <2>2. ~(y < x)
    BY <1>0, <1>1, <2>1
  <2> QED BY <2>1, <2>2
<1> QED BY <1>2

LEMMA CountBound ==
  ASSUME NEW n \in Nat, NEW S, S \subseteq 1 .. n
  PROVE  IsFiniteSet(S) /\ Cardinality(S) \in Nat /\ Cardinality(S) <= n
<1>1. IsFiniteSet(1 .. n) /\ Cardinality(1 .. n) = n
  BY FS_Interval
<1>2. IsFiniteSet(S) /\ Cardinality(S) <= Cardinality(1 .. n)
  BY <1>1, FS_Subset
<1> QED BY <1>1, <1>2, FS_CardinalityType

LEMMA RankTypes ==
  ASSUME NEW n \in Nat, NEW S, S \subseteq 1 .. n, NEW i
  PROVE  /\ IsFiniteSet(S) /\ IsFiniteSet({j \in S : j <= i})
         /\ Rank(S, i) \in Nat /\ Cardinality(S) \in Nat /\ Rank(S, i) <= Cardinality(S)
<1>1. IsFiniteSet(1 .. n)
  BY FS_Interval
<1>2. IsFiniteSet(S) /\ IsFiniteSet({j \in S : j <= i})
  BY <1>1, FS_Subset
<1>3. Cardinality({j \in S : j <= i}) <= Cardinality(S)
  BY <1>2, FS_Subset
<1> QED BY <1>2, <1>3, FS_CardinalityType DEF Rank

LEMMA RankMonotone ==
  ASSUME NEW n \in Nat, NEW S, S \subseteq 1 .. n, NEW i \in Nat, NEW k \in S, i < k
  PROVE  Rank(S, i) < Rank(S, k)
<1>s. \A j \in S : j \in Nat /\ 1 <= j /\ j <= n
  OBVIOUS
<1> DEFINE A == {j \in S : j <= i}
           B == {j \in S : j <= k}
<1>0. IsFiniteSet(B)
  BY RankTypes
<1>1. A \subseteq B /\ k \in B /\ k \notin A /\ IsFiniteSet(B)
  <2>1. k \in Nat
    BY <1>s
  <2>2. \A j \in S : j <= i => j <= k
    BY <1>s, <2>1
  <2>3. A \subseteq B
    BY <2>2
  <2>4. k \in B /\ k \notin A
    BY <2>1
  <2> QED BY <1>0, <2>3, <2>4
<1> HIDE DEF A, B
<1>2. Cardinality(A) <= Cardinality(B) /\ (Cardinality(A) = Cardinality(B) => A = B)
  BY <1>1, FS_Subset
<1>3. Cardinality(A) \in Nat /\ Cardinality(B) \in Nat
  BY <1>1, FS_Subset, FS_CardinalityType
<1>4. Cardinality(A) < Cardinality(B)
  BY <1>1, <1>2, <1>3
<1> QED BY <1>4 DEF A, B, Rank

(* Going up by one, the rank grows by at most one, and only at a member.   *)
LEMMA RankStep ==
  ASSUME NEW n \in Nat, NEW S, S \subseteq 1 .. n, NEW i \in Nat
  PROVE  Rank(S, i + 1) = IF i + 1 \in S THEN Rank(S, i) + 1 ELSE Rank(S, i)
<1>s. \A j \in S : j \in Nat /\ 1 <= j /\ j <= n
  OBVIOUS
<1> DEFINE A == {j \in S : j <= i}
           B == {j \in S : j <= i + 1}
<1>0. IsFiniteSet(A)
  BY RankTypes
<1>1. i + 1 \notin A /\ IsFiniteSet(A)
  BY <1>0
<1>p. \A j \in S : j <= i + 1 <=> j <= i \/ j = i + 1
  BY <1>s
<1>2. CASE i + 1 \in S
  <2>1. B = A \cup {i + 1}
    BY <1>p, <1>2
  <2> HIDE DEF A, B
  <2>2. Cardinality(A \cup {i + 1}) = Cardinality(A) + 1
    BY <1>1, FS_AddElement
  <2> QED BY <1>2, <2>1, <2>2 DEF A, B, Rank
<1>3. CASE i + 1 \notin S
  <2>1. B = A
    BY <1>p, <1>3
  <2> QED BY <1>3, <2>1 DEF Rank
<1> QED BY <1>2, <1>3

LEMMA NthIsThere ==
  ASSUME NEW n \in Nat, NEW S, S \subseteq 1 .. n, NEW k \in 1 .. Cardinality(S)
  PROVE  Nth(S, k) \in S /\ Rank(S, Nth(S, k)) = k
<1>s. \A j \in S : j \in Nat /\ 1 <= j /\ j <= n
  OBVIOUS
<1> DEFINE T == {i \in 0 .. n : Rank(S, i) >= k}
<1>0. Cardinality(S) \in Nat /\ \A i \in Nat : Rank(S, i) \in Nat
  BY RankTypes
<1>1. n \in T
  <2>1. {j \in S : j <= n} = S
    BY <1>s
  <2> QED BY <1>0, <2>1 DEF Rank
<1>2. PICK i \in T : \A j \in T : i <= j
  <2>1. T \subseteq Nat /\ T # {}
    BY <1>1
  <2> QED BY <2>1, LeastOf
<1>3. i # 0
  <2>1. {j \in S : j <= 0} = {}
    <3>1. \A j \in S : ~(j <= 0)
      BY <1>s
    <3> QED BY <3>1
  <2>2. Rank(S, 0) = 0
    BY <2>1, FS_EmptySet DEF Rank
  <2> QED BY <2>2, <1>0
<1>4. i \in S /\ Rank(S, i) = k
  <2>1. i - 1 \in Nat /\ i - 1 \in 0 .. n /\ i = (i - 1) + 1
    BY <1>3
  <2>2. ~(Rank(S, i - 1) >= k)
    BY <1>2, <2>1
  <2>3. Rank(S, i) = IF i \in S THEN Rank(S, i - 1) + 1 ELSE Rank(S, i - 1)
    BY <2>1, RankStep
  <2> QED BY <1>0, <2>1, <2>2, <2>3
<1> QED BY <1>4 DEF Nth

(* f lists the members of S in their order.                                *)
Lists(f, m, S) ==
  /\ f \in [1 .. m -> S]
  /\ \A k, l \in 1 .. m : k < l => f[k] < f[l]
  /\ \A i \in S : \E k \in 1 .. m : f[k] = i

LEMMA NthLists ==
  ASSUME NEW n \in Nat, NEW S, S \subseteq 1 .. n
  PROVE  Lists([k \in 1 .. Cardinality(S) |-> Nth(S, k)], Cardinality(S), S)
<1>s. \A j \in S : j \in Nat /\ 1 <= j /\ j <= n
  OBVIOUS
<1> DEFINE m == Cardinality(S)
           f == [k \in 1 .. m |-> Nth(S, k)]
<1>0. m \in Nat
  BY RankTypes
<1>1. \A k \in 1 .. m : f[k] = Nth(S, k) /\ f[k] \in S /\ Rank(S, f[k]) = k
  BY NthIsThere
<1>2. \A i, j \in S : i < j => Rank(S, i) < Rank(S, j)
  BY <1>s, RankMonotone
<1>3. \A i \in S : Rank(S, i) \in 1 .. m
  <2> TAKE i \in S
  <2>1. Rank(S, 0) < Rank(S, i) /\ Rank(S, 0) \in Nat /\ Rank(S, i) \in Nat /\ Rank(S, i) <= m
    <3>1. i \in Nat /\ 0 < i
      BY <1>s
    <3>2. Rank(S, 0) < Rank(S, i)
      BY <3>1, RankMonotone
    <3> QED BY <3>2, RankTypes
  <2> QED BY <1>0, <2>1
<1>4. \A k, l \in 1 .. m : k < l => f[k] < f[l]
  <2> TAKE k, l \in 1 .. m
  <2> HAVE k < l
  <2>0. f[k] \in S /\ f[l] \in S /\ Rank(S, f[k]) = k /\ Rank(S, f[l]) = l /\ k \in Nat /\ l \in Nat
    BY <1>0, <1>1
  <2> HIDE DEF f
  <2>1. f[k] \in Nat /\ f[l] \in Nat /\ ~(f[k] = f[l]) /\ ~(f[l] < f[k])
    <3>1. f[k] \in Nat /\ f[l] \in Nat
      BY <1>s, <2>0
    <3>2. ~(f[l] < f[k])
      <4> SUFFICES ASSUME f[l] < f[k] PROVE FALSE
        OBVIOUS
      <4>1. Rank(S, f[l]) < Rank(S, f[k])
        BY <1>2, <2>0
      <4> QED BY <2>0, <4>1
    <3>3. f[k] # f[l]
      BY <2>0
    <3> QED BY <3>1, <3>2, <3>3
  <2> QED BY <2>1
<1>5. \A i \in S : f[Rank(S, i)] = i
  <2> TAKE i \in S
  <2>1. Rank(S, f[Rank(S, i)]) = Rank(S, i) /\ f[Rank(S, i)] \in S
    BY <1>1, <1>3
  <2> HIDE DEF f
  <2>2. \A j \in S : Rank(S, j) = Rank(S, i) => j = i
    BY <1>0, <1>2, <1>3
  <2> QED BY <2>1, <2>2
<1>6. f \in [1 .. m -> S]
  BY <1>1
<1> QED BY <1>3, <1>4, <1>5, <1>6 DEF Lists

(* Nothing else lists S.                                                   *)
LEMMA ListsIsNth ==
  ASSUME NEW n \in Nat, NEW S, S \subseteq 1 .. n, NEW m \in Nat, NEW f, Lists(f, m, S)
  PROVE  m = Cardinality(S) /\ \A k \in 1 .. m : f[k] = Nth(S, k)
<1>s. \A j \in S : j \in Nat /\ 1 <= j /\ j <= n
  OBVIOUS
<1>0. /\ f \in [1 .. m -> S] /\ \A k, l \in 1 .. m : k < l => f[k] < f[l]
      /\ \A i \in S : \E k \in 1 .. m : f[k] = i
  BY DEF Lists
<1>1. \A k, l \in 1 .. m : f[k] = f[l] => k = l
  <2> TAKE k, l \in 1 .. m
  <2>1. f[k] \in Nat /\ f[l] \in Nat
    BY <1>s, <1>0
  <2> QED BY <1>0, <2>1
<1>2. f \in Bijection(1 .. m, S)
  BY <1>0, <1>1 DEF Bijection, Injection, Surjection, IsInjective
<1>3. Cardinality(S) = m
  BY <1>2, FS_CountingElements DEF ExistsBijection
<1>4. \A k \in 1 .. m : Rank(S, f[k]) = k
  <2> TAKE k \in 1 .. m
  <2> DEFINE A == {j \in S : j <= f[k]}
             g == [l \in 1 .. k |-> f[l]]
  <2>1. \A l \in 1 .. m : f[l] <= f[k] <=> l <= k
    <3> TAKE l \in 1 .. m
    <3>1. f[k] \in Nat /\ f[l] \in Nat
      BY <1>s, <1>0
    <3> QED BY <1>0, <3>1
  <2>2. g \in [1 .. k -> A]
    BY <1>0, <2>1
  <2>3. \A l, h \in 1 .. k : g[l] = g[h] => l = h
    BY <1>1
  <2>4. \A j \in A : \E l \in 1 .. k : g[l] = j
    BY <1>0, <2>1
  <2>5. g \in Bijection(1 .. k, A)
    <3> HIDE DEF g, A
    <3> QED BY <2>2, <2>3, <2>4 DEF Bijection, Injection, Surjection, IsInjective
  <2>6. Cardinality(A) = k
    <3> HIDE DEF g, A
    <3> QED BY <2>5, FS_CountingElements DEF ExistsBijection
  <2> QED BY <2>6 DEF Rank
<1>5. \A k \in 1 .. m : Nth(S, k) \in S /\ Rank(S, Nth(S, k)) = k
  BY <1>3, NthIsThere
<1>6. \A i, j \in S : Rank(S, i) = Rank(S, j) => i = j
  <2> TAKE i, j \in S
  <2>1. Rank(S, i) \in Nat /\ Rank(S, j) \in Nat
    BY RankTypes
  <2>2. (i < j => Rank(S, i) < Rank(S, j)) /\ (j < i => Rank(S, j) < Rank(S, i))
    BY <1>s, RankMonotone
  <2> QED BY <1>s, <2>1, <2>2
<1> QED BY <1>0, <1>3, <1>4, <1>5, <1>6

-----------------------------------------------------------------------------
(* The sequence s is what is left of q when the positions in S stay.       *)
IsKept(s, q, S) ==
  \E g : Lists(g, Len(s), S) /\ \A k \in 1 .. Len(s) : s[k] = q[g[k]]

LEMMA KeptIsKept ==
  ASSUME NEW X, NEW q \in Seq(X), NEW S, S \subseteq DOMAIN q
  PROVE  Kept(q, S) \in Seq(X) /\ Len(Kept(q, S)) = Cardinality(S) /\ IsKept(Kept(q, S), q, S)
<1> DEFINE m == Cardinality(S)
           g == [k \in 1 .. m |-> Nth(S, k)]
<1>1. S \subseteq 1 .. Len(q) /\ Len(q) \in Nat
  OBVIOUS
<1>2. m \in Nat
  BY <1>1, RankTypes
<1>3. Lists(g, m, S)
  BY <1>1, NthLists
<1>4. \A k \in 1 .. m : Nth(S, k) \in S
  BY <1>1, NthIsThere
<1>5. Kept(q, S) \in [1 .. m -> X] /\ \A k \in 1 .. m : Kept(q, S)[k] = q[g[k]]
  BY <1>4 DEF Kept
<1> HIDE DEF g, m
<1>6. Kept(q, S) \in Seq(X) /\ Len(Kept(q, S)) = m
  BY <1>2, <1>5
<1>7. IsKept(Kept(q, S), q, S)
  BY <1>3, <1>5, <1>6 DEF IsKept
<1> QED BY <1>6, <1>7 DEF m

LEMMA KeptOnly ==
  ASSUME NEW X, NEW q \in Seq(X), NEW S, S \subseteq DOMAIN q, NEW s \in Seq(X), IsKept(s, q, S)
  PROVE  s = Kept(q, S)
<1>1. S \subseteq 1 .. Len(q) /\ Len(q) \in Nat /\ Len(s) \in Nat
  OBVIOUS
<1>2. PICK g : Lists(g, Len(s), S) /\ \A k \in 1 .. Len(s) : s[k] = q[g[k]]
  BY DEF IsKept
<1>3. Len(s) = Cardinality(S) /\ \A k \in 1 .. Len(s) : g[k] = Nth(S, k)
  BY <1>1, <1>2, ListsIsNth
<1>4. Kept(q, S) = [k \in 1 .. Len(s) |-> q[g[k]]]
  BY <1>3 DEF Kept
<1>5. s = [k \in 1 .. Len(s) |-> s[k]]
  OBVIOUS
<1> QED BY <1>2, <1>4, <1>5

(* Keeping everything.                                                     *)
LEMMA KeptAll ==
  ASSUME NEW X, NEW q \in Seq(X), NEW S, S = DOMAIN q
  PROVE  IsKept(q, q, S)
<1> DEFINE g == [k \in 1 .. Len(q) |-> k]
<1>1. Lists(g, Len(q), S)
  BY DEF Lists
<1>2. \A k \in 1 .. Len(q) : q[k] = q[g[k]]
  OBVIOUS
<1> HIDE DEF g
<1> QED BY <1>1, <1>2 DEF IsKept

(* One more element that stays.                                            *)
LEMMA KeptAppend ==
  ASSUME NEW X, NEW q \in Seq(X), NEW s \in Seq(X), NEW S, S \subseteq DOMAIN q,
         IsKept(s, q, S), NEW v \in X
  PROVE  IsKept(Append(s, v), Append(q, v), S \cup {Len(q) + 1})
<1>1. PICK g : Lists(g, Len(s), S) /\ \A k \in 1 .. Len(s) : s[k] = q[g[k]]
  BY DEF IsKept
<1> DEFINE n == Len(q)
           m == Len(s)
           T == S \cup {n + 1}
           h == [k \in 1 .. m + 1 |-> IF k = m + 1 THEN n + 1 ELSE g[k]]
<1>2. n \in Nat /\ m \in Nat /\ S \subseteq 1 .. n
  OBVIOUS
<1>3. /\ Len(Append(s, v)) = m + 1
      /\ \A k \in 1 .. m + 1 : Append(s, v)[k] = IF k = m + 1 THEN v ELSE s[k]
  OBVIOUS
<1>4. \A i \in 1 .. n + 1 : Append(q, v)[i] = IF i = n + 1 THEN v ELSE q[i]
  OBVIOUS
<1>5. /\ g \in [1 .. m -> S] /\ \A k, l \in 1 .. m : k < l => g[k] < g[l]
      /\ \A i \in S : \E k \in 1 .. m : g[k] = i
      /\ \A k \in 1 .. m : s[k] = q[g[k]] /\ g[k] \in 1 .. n
  BY <1>1, <1>2 DEF Lists
<1> HIDE DEF n, m
<1>6. h \in [1 .. m + 1 -> T]
  BY <1>2, <1>5
<1>7. \A k, l \in 1 .. m + 1 : k < l => h[k] < h[l]
  BY <1>2, <1>5
<1>8. \A i \in T : \E k \in 1 .. m + 1 : h[k] = i
  <2> TAKE i \in T
  <2>1. CASE i = n + 1
    <3>1. m + 1 \in 1 .. m + 1 /\ h[m + 1] = n + 1
      BY <1>2
    <3> QED BY <2>1, <3>1
  <2>2. CASE i \in S
    <3>1. PICK k \in 1 .. m : g[k] = i
      BY <1>5, <2>2
    <3>2. k \in 1 .. m + 1 /\ h[k] = g[k]
      BY <1>2
    <3> QED BY <3>1, <3>2
  <2> QED BY <2>1, <2>2
<1>9. \A k \in 1 .. m + 1 : Append(s, v)[k] = Append(q, v)[h[k]]
  <2> TAKE k \in 1 .. m + 1
  <2>1. CASE k = m + 1
    <3>1. h[k] = n + 1 /\ n + 1 \in 1 .. n + 1
      BY <1>2, <2>1
    <3> HIDE DEF h
    <3> QED BY <1>3, <1>4, <2>1, <3>1
  <2>2. CASE k \in 1 .. m
    <3>1. h[k] = g[k] /\ g[k] \in 1 .. n + 1 /\ g[k] # n + 1 /\ k # m + 1
      BY <1>2, <1>5, <2>2
    <3>2. s[k] = q[g[k]]
      BY <1>5, <2>2
    <3> HIDE DEF h
    <3> QED BY <1>3, <1>4, <3>1, <3>2
  <2>3. k = m + 1 \/ k \in 1 .. m
    BY <1>2
  <2> QED BY <2>1, <2>2, <2>3
<1> HIDE DEF h, T
<1>10. Lists(h, m + 1, T)
  BY <1>6, <1>7, <1>8 DEF Lists
<1>11. IsKept(Append(s, v), Append(q, v), T)
  BY ZenonT(30), <1>3, <1>9, <1>10 DEF IsKept
<1> QED BY <1>11 DEF T, n

(* Positions that hold a value of V.                                       *)
Holding(q, V) == {i \in DOMAIN q : q[i] \in V}

(* Keeping some values of one sequence after another ...                   *)
LEMMA KeptConcat ==
  ASSUME NEW X, NEW a \in Seq(X), NEW b \in Seq(X), NEW c \in Seq(X), NEW d \in Seq(X), NEW V,
         IsKept(a, b, Holding(b, V)), IsKept(c, d, Holding(d, V))
  PROVE  IsKept(a \o c, b \o d, Holding(b \o d, V))
<1>1. PICK g : Lists(g, Len(a), Holding(b, V)) /\ \A k \in 1 .. Len(a) : a[k] = b[g[k]]
  BY DEF IsKept
<1>2. PICK h : Lists(h, Len(c), Holding(d, V)) /\ \A k \in 1 .. Len(c) : c[k] = d[h[k]]
  BY DEF IsKept
<1> DEFINE m == Len(a)  n == Len(b)  o == Len(c)  p == Len(d)
           f == [k \in 1 .. m + o |-> IF k <= m THEN g[k] ELSE n + h[k - m]]
           H == Holding(b \o d, V)
<1>3. m \in Nat /\ n \in Nat /\ o \in Nat /\ p \in Nat
  OBVIOUS
<1>4. /\ Len(a \o c) = m + o
      /\ \A k \in 1 .. m + o : (a \o c)[k] = IF k <= m THEN a[k] ELSE c[k - m]
      /\ DOMAIN (b \o d) = 1 .. n + p
      /\ \A k \in 1 .. n + p : (b \o d)[k] = IF k <= n THEN b[k] ELSE d[k - n]
  OBVIOUS
<1>5. /\ \A k \in 1 .. m : g[k] \in 1 .. n /\ b[g[k]] \in V /\ a[k] = b[g[k]]
      /\ \A k, l \in 1 .. m : k < l => g[k] < g[l]
      /\ \A i \in 1 .. n : b[i] \in V => \E k \in 1 .. m : g[k] = i
  <2>1. Holding(b, V) = {i \in 1 .. n : b[i] \in V}
    BY DEF Holding
  <2>2. /\ g \in [1 .. m -> Holding(b, V)]
        /\ \A k, l \in 1 .. m : k < l => g[k] < g[l]
        /\ \A i \in Holding(b, V) : \E k \in 1 .. m : g[k] = i
    BY <1>1 DEF Lists
  <2> HIDE DEF m, n
  <2> QED BY <1>1, <2>1, <2>2 DEF m
<1>6. /\ \A k \in 1 .. o : h[k] \in 1 .. p /\ d[h[k]] \in V /\ c[k] = d[h[k]]
      /\ \A k, l \in 1 .. o : k < l => h[k] < h[l]
      /\ \A i \in 1 .. p : d[i] \in V => \E k \in 1 .. o : h[k] = i
  BY <1>2 DEF Lists, Holding
<1>7. H = {i \in 1 .. n + p : (IF i <= n THEN b[i] ELSE d[i - n]) \in V}
  BY <1>4 DEF Holding
<1> HIDE DEF m, n, o, p, H
<1>8. \A k \in 1 .. m + o : f[k] \in H
  <2> TAKE k \in 1 .. m + o
  <2>1. CASE k <= m
    BY <1>3, <1>5, <1>7, <2>1
  <2>2. CASE ~(k <= m)
    <3>1. k - m \in 1 .. o /\ f[k] = n + h[k - m]
      BY <1>3, <2>2
    <3>2. h[k - m] \in 1 .. p /\ d[h[k - m]] \in V
      BY <1>6, <3>1
    <3>3. f[k] \in 1 .. n + p /\ ~(f[k] <= n) /\ f[k] - n = h[k - m]
      BY <1>3, <3>1, <3>2
    <3> QED BY <1>7, <3>2, <3>3
  <2> QED BY <2>1, <2>2
<1>9. \A k, l \in 1 .. m + o : k < l => f[k] < f[l]
  <2> TAKE k, l \in 1 .. m + o
  <2> HAVE k < l
  <2>1. CASE l <= m
    BY <1>3, <1>5, <2>1
  <2>2. CASE k <= m /\ ~(l <= m)
    <3>1. l - m \in 1 .. o /\ f[l] = n + h[l - m]
      BY <1>3, <2>2
    <3>2. h[l - m] \in 1 .. p /\ k \in 1 .. m /\ f[k] = g[k]
      BY <1>3, <1>6, <2>2, <3>1
    <3>3. g[k] \in 1 .. n
      BY <1>5, <3>2
    <3> QED BY <1>3, <3>1, <3>2, <3>3
  <2>3. CASE ~(k <= m)
    <3>1. l - m \in 1 .. o /\ f[l] = n + h[l - m] /\ k - m \in 1 .. o /\ f[k] = n + h[k - m] /\ k - m < l - m
      BY <1>3, <2>3
    <3>2. h[l - m] \in 1 .. p /\ h[k - m] \in 1 .. p /\ h[k - m] < h[l - m]
      BY <1>6, <3>1
    <3> QED BY <1>3, <3>1, <3>2
  <2> QED BY <2>1, <2>2, <2>3
<1>10. \A i \in H : \E k \in 1 .. m + o : f[k] = i
  <2> TAKE i \in H
  <2>0. i \in 1 .. n + p
    BY <1>7
  <2>1. CASE i <= n
    <3>1. i \in 1 .. n /\ b[i] \in V
      BY <1>3, <1>7, <2>0, <2>1
    <3>2. PICK k \in 1 .. m : g[k] = i
      BY <1>5, <3>1
    <3>3. k \in 1 .. m + o /\ f[k] = i
      BY <1>3, <3>2
    <3> QED BY <3>3
  <2>2. CASE ~(i <= n)
    <3>1. i - n \in 1 .. p /\ d[i - n] \in V
      BY <1>3, <1>7, <2>0, <2>2
    <3>2. PICK k \in 1 .. o : h[k] = i - n
      BY <1>6, <3>1
    <3>3. k + m \in 1 .. m + o /\ ~(k + m <= m) /\ (k + m) - m = k
      BY <1>3
    <3>4. f[k + m] = n + h[k]
      BY <3>3
    <3>5. f[k + m] = i
      BY <1>3, <2>0, <3>2, <3>4
    <3> QED BY <3>3, <3>5
  <2> QED BY <2>1, <2>2
<1>11. \A k \in 1 .. m + o : (a \o c)[k] = (b \o d)[f[k]]
  <2> TAKE k \in 1 .. m + o
  <2>1. CASE k <= m
    <3>1. k \in 1 .. m /\ f[k] = g[k] /\ (a \o c)[k] = a[k]
      BY <1>3, <1>4, <2>1
    <3>2. g[k] \in 1 .. n /\ a[k] = b[g[k]]
      BY <1>5, <3>1
    <3>3. g[k] \in 1 .. n + p /\ g[k] <= n
      BY <1>3, <3>2
    <3> HIDE DEF f
    <3> QED BY <1>4, <3>1, <3>2, <3>3
  <2>2. CASE ~(k <= m)
    <3>0. f[k] = n + h[k - m] /\ (a \o c)[k] = c[k - m]
      BY <1>4, <2>2
    <3>1. k - m \in 1 .. o
      BY <1>3, <2>2
    <3>2. h[k - m] \in 1 .. p /\ c[k - m] = d[h[k - m]]
      BY <1>6, <3>1
    <3> HIDE DEF f
    <3>3. f[k] \in 1 .. n + p /\ ~(f[k] <= n) /\ f[k] - n = h[k - m]
      <4> DEFINE x == h[k - m]
      <4>1. x \in 1 .. p /\ f[k] = n + x
        BY <3>0, <3>2
      <4> HIDE DEF x
      <4>2. f[k] \in 1 .. n + p /\ ~(f[k] <= n) /\ f[k] - n = x
        BY <1>3, <4>1
      <4> QED BY <4>2 DEF x
    <3> QED BY <1>4, <3>0, <3>2, <3>3
  <2> QED BY <2>1, <2>2
<1>12. f \in [1 .. m + o -> H]
  BY <1>8
<1> HIDE DEF f
<1>13. Lists(f, m + o, H)
  BY <1>9, <1>10, <1>12 DEF Lists
<1>14. IsKept(a \o c, b \o d, H)
  <2> DEFINE ac == a \o c
             bd == b \o d
  <2>1. Len(ac) = m + o /\ \A k \in 1 .. m + o : ac[k] = bd[f[k]]
    BY <1>4, <1>11
  <2> HIDE DEF ac, bd
  <2>2. IsKept(ac, bd, H)
    BY <1>13, <2>1 DEF IsKept
  <2> QED BY <2>2 DEF ac, bd
<1> QED BY <1>14 DEF H

(* ... and of what was kept already.                                       *)
LEMMA KeptKept ==
  ASSUME NEW X, NEW s \in Seq(X), NEW q \in Seq(X), NEW r \in Seq(X), NEW V,
         NEW T, T \subseteq DOMAIN r,
         IsKept(q, r, T), IsKept(s, q, Holding(q, V))
  PROVE  IsKept(s, r, {i \in T : r[i] \in V})
<1>1. PICK g : Lists(g, Len(q), T) /\ \A k \in 1 .. Len(q) : q[k] = r[g[k]]
  BY DEF IsKept
<1>2. PICK h : Lists(h, Len(s), Holding(q, V)) /\ \A k \in 1 .. Len(s) : s[k] = q[h[k]]
  BY DEF IsKept
<1> DEFINE m == Len(s)  n == Len(q)
           U == {i \in T : r[i] \in V}
           f == [k \in 1 .. m |-> g[h[k]]]
<1>3. m \in Nat /\ n \in Nat /\ T \subseteq Nat
  OBVIOUS
<1>4. /\ \A k \in 1 .. m : h[k] \in 1 .. n /\ q[h[k]] \in V /\ s[k] = q[h[k]]
      /\ \A k, l \in 1 .. m : k < l => h[k] < h[l]
      /\ \A i \in 1 .. n : q[i] \in V => \E k \in 1 .. m : h[k] = i
  BY <1>2 DEF Lists, Holding
<1>5. /\ \A k \in 1 .. n : g[k] \in T /\ q[k] = r[g[k]]
      /\ \A k, l \in 1 .. n : k < l => g[k] < g[l]
      /\ \A i \in T : \E k \in 1 .. n : g[k] = i
  BY <1>1 DEF Lists
<1> HIDE DEF m, n
<1>6. f \in [1 .. m -> U]
  BY <1>4, <1>5
<1>7. \A k, l \in 1 .. m : k < l => f[k] < f[l]
  BY <1>4, <1>5
<1>8. \A i \in U : \E k \in 1 .. m : f[k] = i
  <2> TAKE i \in U
  <2>1. PICK k \in 1 .. n : g[k] = i
    BY <1>5
  <2>2. q[k] \in V
    BY <1>5, <2>1
  <2>3. PICK l \in 1 .. m : h[l] = k
    BY <1>4, <2>2
  <2> QED BY <2>1, <2>3
<1>9. \A k \in 1 .. m : s[k] = r[f[k]]
  BY <1>4, <1>5
<1> HIDE DEF f, U
<1>10. Lists(f, m, U)
  BY <1>6, <1>7, <1>8 DEF Lists
<1>11. IsKept(s, r, U)
  BY <1>9, <1>10 DEF IsKept, m
<1> QED BY <1>11 DEF U

(* What is kept was there.                                                 *)
LEMMA KeptMembers ==
  ASSUME NEW X, NEW q \in Seq(X), NEW S, S \subseteq DOMAIN q
  PROVE  /\ Kept(q, S) \in Seq(X) /\ Len(Kept(q, S)) <= Len(q)
         /\ \A k \in DOMAIN Kept(q, S) : \E i \in S : Kept(q, S)[k] = q[i]
         /\ \A i \in S : \E k \in DOMAIN Kept(q, S) : Kept(q, S)[k] = q[i]
<1>1. Kept(q, S) \in Seq(X) /\ Len(Kept(q, S)) = Cardinality(S) /\ IsKept(Kept(q, S), q, S)
  BY KeptIsKept
<1>2. PICK g : Lists(g, Len(Kept(q, S)), S)
               /\ \A k \in 1 .. Len(Kept(q, S)) : Kept(q, S)[k] = q[g[k]]
  BY <1>1 DEF IsKept
<1>3. Len(q) \in Nat /\ S \subseteq 1 .. Len(q)
  OBVIOUS
<1>4. Cardinality(S) <= Len(q)
  BY <1>3, CountBound
<1> DEFINE s == Kept(q, S)
<1>5. s \in Seq(X) /\ Len(s) <= Len(q)
  BY <1>1, <1>4
<1>6. /\ g \in [1 .. Len(s) -> S] /\ \A i \in S : \E k \in 1 .. Len(s) : g[k] = i
      /\ \A k \in 1 .. Len(s) : s[k] = q[g[k]]
  BY <1>2 DEF Lists
<1> HIDE DEF s
<1>7. DOMAIN s = 1 .. Len(s)
  BY <1>5
<1>8. (\A k \in DOMAIN s : \E i \in S : s[k] = q[i]) /\ \A i \in S : \E k \in DOMAIN s : s[k] = q[i]
  BY <1>6, <1>7
<1> QED BY <1>5, <1>8 DEF s

-----------------------------------------------------------------------------
(* Linked lists without repetition, as sets.                               *)

LEMMA SetOf ==
  ASSUME NEW X, NEW s \in Seq(X)
  PROVE  /\ ToSet(s) \subseteq X /\ DOMAIN s = 1 .. Len(s) /\ Len(s) \in Nat
         /\ (s = << >> <=> ToSet(s) = {}) /\ (s = << >> <=> Len(s) = 0)
         /\ \A x : x \in ToSet(s) <=> \E i \in 1 .. Len(s) : s[i] = x
<1>1. /\ DOMAIN s = 1 .. Len(s) /\ Len(s) \in Nat /\ \A i \in 1 .. Len(s) : s[i] \in X
      /\ s = << >> <=> Len(s) = 0
  OBVIOUS
<1>2. \A x : x \in ToSet(s) <=> \E i \in 1 .. Len(s) : s[i] = x
  BY <1>1 DEF ToSet
<1>3. ToSet(s) \subseteq X
  BY <1>1, <1>2
<1>4. CASE s = << >>
  BY <1>1, <1>2, <1>3, <1>4
<1>5. CASE s # << >>
  <2>1. 1 \in 1 .. Len(s)
    BY <1>1, <1>5
  <2>2. s[1] \in ToSet(s)
    BY <1>2, <2>1
  <2> QED BY <1>1, <1>2, <1>3, <1>5, <2>2
<1> QED BY <1>4, <1>5

LEMMA TailSet ==
  ASSUME NEW X, NEW s \in Seq(X), s # << >>, IsInjective(s)
  PROVE  /\ Head(s) \in X /\ Head(s) \in ToSet(s) /\ Len(s) > 0
         /\ Tail(s) \in Seq(X) /\ Len(Tail(s)) = Len(s) - 1
         /\ IsInjective(Tail(s)) /\ ToSet(Tail(s)) = ToSet(s) \ {Head(s)}
<1> DEFINE t == Tail(s)
<1>1. /\ t \in Seq(X) /\ Len(t) = Len(s) - 1 /\ Len(s) \in Nat /\ Len(s) > 0
      /\ \A i \in 1 .. Len(t) : t[i] = s[i + 1]
      /\ Head(s) = s[1] /\ Head(s) \in X
  OBVIOUS
<1> HIDE DEF t
<1>2. \A i, j \in 1 .. Len(s) : s[i] = s[j] => i = j
  BY DEF IsInjective
<1>3. DOMAIN t = 1 .. Len(t)
  BY <1>1
<1>4. IsInjective(t)
  <2> SUFFICES ASSUME NEW i \in 1 .. Len(t), NEW j \in 1 .. Len(t), t[i] = t[j] PROVE i = j
    BY <1>3 DEF IsInjective
  <2>1. i + 1 \in 1 .. Len(s) /\ j + 1 \in 1 .. Len(s) /\ s[i + 1] = s[j + 1]
    BY <1>1
  <2>2. i + 1 = j + 1
    BY <1>2, <2>1
  <2> QED BY <2>2
<1>5. ToSet(t) = ToSet(s) \ {Head(s)}
  <2>1. ASSUME NEW x \in ToSet(t) PROVE x \in ToSet(s) /\ x # Head(s)
    <3>1. PICK i \in 1 .. Len(t) : t[i] = x
      BY <1>1, <2>1, SetOf
    <3>2. i + 1 \in 1 .. Len(s) /\ s[i + 1] = x /\ i + 1 # 1 /\ 1 \in 1 .. Len(s)
      BY <1>1, <3>1
    <3>3. x # s[1]
      BY <1>2, <3>2
    <3> QED BY <1>1, <3>2, <3>3, SetOf
  <2>2. ASSUME NEW x \in ToSet(s), x # Head(s) PROVE x \in ToSet(t)
    <3>1. PICK i \in 1 .. Len(s) : s[i] = x
      BY <2>2, SetOf
    <3>2. i # 1
      BY <1>1, <2>2, <3>1
    <3>3. i - 1 \in 1 .. Len(t) /\ (i - 1) + 1 = i
      BY <1>1, <3>2
    <3>4. t[i - 1] = x
      BY <1>1, <3>1, <3>3
    <3> QED BY <1>1, <3>3, <3>4, SetOf
  <2> QED BY <2>1, <2>2
<1>6. Head(s) \in ToSet(s)
  <2>1. 1 \in 1 .. Len(s)
    BY <1>1
  <2> QED BY <1>1, <2>1, SetOf
<1> QED BY <1>1, <1>4, <1>5, <1>6 DEF t

LEMMA ConsSet ==
  ASSUME NEW X, NEW s \in Seq(X), IsInjective(s), NEW x \in X, x \notin ToSet(s)
  PROVE  /\ <<x>> \o s \in Seq(X) /\ Len(<<x>> \o s) = Len(s) + 1
         /\ IsInjective(<<x>> \o s) /\ ToSet(<<x>> \o s) = ToSet(s) \cup {x}
<1> DEFINE t == <<x>> \o s
<1>1. /\ t \in Seq(X) /\ Len(t) = Len(s) + 1 /\ Len(s) \in Nat
      /\ t[1] = x /\ \A i \in 1 .. Len(s) : t[i + 1] = s[i]
  OBVIOUS
<1> HIDE DEF t
<1>2. \A i, j \in 1 .. Len(s) : s[i] = s[j] => i = j
  BY DEF IsInjective
<1>3. \A i \in 1 .. Len(t) : i = 1 \/ (i - 1 \in 1 .. Len(s) /\ t[i] = s[i - 1])
  <2> TAKE i \in 1 .. Len(t)
  <2>1. i = 1 \/ (i - 1 \in 1 .. Len(s) /\ (i - 1) + 1 = i)
    BY <1>1
  <2> QED BY <1>1, <2>1
<1>4. \A i \in 1 .. Len(s) : s[i] # x
  BY SetOf
<1>5. IsInjective(t)
  <2> SUFFICES ASSUME NEW i \in 1 .. Len(t), NEW j \in 1 .. Len(t), t[i] = t[j] PROVE i = j
    BY <1>1, SetOf DEF IsInjective
  <2>1. CASE i = 1 \/ j = 1
    BY <1>1, <1>3, <1>4, <2>1
  <2>2. CASE i # 1 /\ j # 1
    <3>1. i - 1 = j - 1
      BY <1>2, <1>3, <2>2
    <3> QED BY <1>1, <3>1
  <2> QED BY <2>1, <2>2
<1>6. ToSet(t) = ToSet(s) \cup {x}
  <2>1. ASSUME NEW y \in ToSet(t) PROVE y \in ToSet(s) \cup {x}
    <3>1. PICK i \in 1 .. Len(t) : t[i] = y
      BY <1>1, <2>1, SetOf
    <3> QED BY <1>1, <1>3, <3>1, SetOf
  <2>2. ASSUME NEW y \in ToSet(s) PROVE y \in ToSet(t)
    <3>1. PICK i \in 1 .. Len(s) : s[i] = y
      BY <2>2, SetOf
    <3>2. i + 1 \in 1 .. Len(t) /\ t[i + 1] = y
      BY <1>1, <3>1
    <3> QED BY SMTT(30), <1>1, <3>2, SetOf
  <2>3. x \in ToSet(t)
    <3>1. 1 \in 1 .. Len(t)
      BY <1>1
    <3> QED BY <1>1, <3>1, SetOf
  <2> QED BY <2>1, <2>2, <2>3
<1> QED BY <1>1, <1>5, <1>6 DEF t

LEMMA AppendSet ==
  ASSUME NEW X, NEW s \in Seq(X), IsInjective(s), NEW x \in X, x \notin ToSet(s)
  PROVE  /\ Append(s, x) \in Seq(X) /\ Len(Append(s, x)) = Len(s) + 1
         /\ IsInjective(Append(s, x)) /\ ToSet(Append(s, x)) = ToSet(s) \cup {x}
<1> DEFINE t == Append(s, x)  n == Len(s)
<1>1. /\ t \in Seq(X) /\ Len(t) = n + 1 /\ n \in Nat
      /\ t[n + 1] = x /\ \A i \in 1 .. n : t[i] = s[i]
  OBVIOUS
<1> HIDE DEF t, n
<1>2. \A i, j \in 1 .. n : s[i] = s[j] => i = j
  BY DEF IsInjective, n
<1>3. \A i \in 1 .. Len(t) : i = n + 1 \/ i \in 1 .. n
  BY <1>1
<1>4. \A i \in 1 .. n : s[i] # x
  BY SetOf DEF n
<1>5. IsInjective(t)
  <2> SUFFICES ASSUME NEW i \in 1 .. Len(t), NEW j \in 1 .. Len(t), t[i] = t[j] PROVE i = j
    BY <1>1, SetOf DEF IsInjective
  <2> QED BY <1>1, <1>2, <1>3, <1>4
<1>6. ToSet(t) = ToSet(s) \cup {x}
  <2>1. \A y : y \in ToSet(t) <=> \E i \in 1 .. n + 1 : t[i] = y
    BY <1>1, SetOf
  <2>2. \A y : y \in ToSet(s) <=> \E i \in 1 .. n : s[i] = y
    BY SetOf DEF n
  <2>3. n + 1 \in 1 .. n + 1 /\ \A i \in 1 .. n : i \in 1 .. n + 1
    BY <1>1
  <2>4. ToSet(t) \subseteq ToSet(s) \cup {x}
    BY <1>1, <1>3, <2>1, <2>2
  <2>5. x \in ToSet(t)
    BY <1>1, <2>1, <2>3
  <2>6. ToSet(s) \subseteq ToSet(t)
    BY <1>1, <2>1, <2>2, <2>3
  <2> QED BY <2>4, <2>5, <2>6
<1> QED BY <1>1, <1>5, <1>6 DEF t, n

LEMMA SplitSet ==
  ASSUME NEW X, NEW s \in Seq(X), IsInjective(s), NEW k \in 0 .. Len(s)
  PROVE  LET a == SubSeq(s, 1, k)
             b == SubSeq(s, k + 1, Len(s))
         IN  /\ a \in Seq(X) /\ Len(a) = k /\ IsInjective(a)
             /\ b \in Seq(X) /\ Len(b) = Len(s) - k /\ IsInjective(b)
             /\ ToSet(a) \cap ToSet(b) = {} /\ ToSet(a) \cup ToSet(b) = ToSet(s)
<1> DEFINE a == SubSeq(s, 1, k)
           b == SubSeq(s, k + 1, Len(s))
           n == Len(s)
<1>1. /\ a \in Seq(X) /\ Len(a) = k /\ \A i \in 1 .. k : a[i] = s[i]
      /\ b \in Seq(X) /\ Len(b) = n - k /\ \A i \in 1 .. n - k : b[i] = s[k + i]
      /\ n \in Nat /\ k \in Nat /\ k <= n
  OBVIOUS
<1> HIDE DEF a, b, n
<1>2. \A i, j \in 1 .. n : s[i] = s[j] => i = j
  BY DEF IsInjective, n
<1>3. \A x : x \in ToSet(a) <=> \E i \in 1 .. k : s[i] = x
  <2> DEFINE I == 1 .. k
  <2>1. \A x : x \in ToSet(a) <=> \E i \in I : a[i] = x
    BY <1>1, SetOf
  <2>2. \A i \in I : a[i] = s[i]
    BY <1>1
  <2> HIDE DEF I
  <2>3. \A x : x \in ToSet(a) <=> \E i \in I : s[i] = x
    BY <2>1, <2>2
  <2> QED BY <2>3 DEF I
<1>4. \A x : x \in ToSet(b) <=> \E i \in 1 .. n - k : s[k + i] = x
  <2> DEFINE I == 1 .. n - k
  <2>1. \A x : x \in ToSet(b) <=> \E i \in I : b[i] = x
    BY <1>1, SetOf
  <2>2. \A i \in I : b[i] = s[k + i]
    BY <1>1
  <2> HIDE DEF I
  <2>3. \A x : x \in ToSet(b) <=> \E i \in I : s[k + i] = x
    BY <2>1, <2>2
  <2> QED BY <2>3 DEF I
<1>5. \A x : x \in ToSet(s) <=> \E i \in 1 .. n : s[i] = x
  BY SetOf DEF n
<1>6. \A i \in 1 .. k : i \in 1 .. n
  BY <1>1
<1>7. \A i \in 1 .. n - k : k + i \in 1 .. n /\ k + i \notin 1 .. k
  BY <1>1
<1>8. \A i \in 1 .. n : i \in 1 .. k \/ (i - k \in 1 .. n - k /\ k + (i - k) = i)
  BY <1>1
<1>9. IsInjective(a)
  BY SMTT(30), <1>1, <1>2, <1>6, SetOf DEF IsInjective
<1>10. IsInjective(b)
  <2> SUFFICES ASSUME NEW i \in 1 .. n - k, NEW j \in 1 .. n - k, b[i] = b[j] PROVE i = j
    BY <1>1, SetOf DEF IsInjective
  <2>1. k + i = k + j
    BY <1>1, <1>2, <1>7
  <2> QED BY <1>1, <2>1
<1>11. ToSet(a) \cap ToSet(b) = {}
  BY <1>2, <1>3, <1>4, <1>6, <1>7
<1>12. ToSet(a) \cup ToSet(b) = ToSet(s)
  <2>1. ASSUME NEW x \in ToSet(s) PROVE x \in ToSet(a) \cup ToSet(b)
    <3>1. PICK i \in 1 .. n : s[i] = x
      BY <1>5, <2>1
    <3>2. CASE i \in 1 .. k
      BY <1>3, <3>1, <3>2
    <3>3. CASE i - k \in 1 .. n - k /\ k + (i - k) = i
      BY <1>4, <3>1, <3>3
    <3> QED BY <1>8, <3>2, <3>3
  <2>2. ToSet(a) \subseteq ToSet(s)
    BY <1>3, <1>5, <1>6
  <2>3. ToSet(b) \subseteq ToSet(s)
    BY <1>4, <1>5, <1>7
  <2> QED BY <2>1, <2>2, <2>3
<1> QED BY <1>1, <1>9, <1>10, <1>11, <1>12 DEF a, b, n

(* The element at a position of two sequences joined.                      *)
LEMMA ConcatAt ==
  ASSUME NEW X, NEW s \in Seq(X), NEW t \in Seq(X), NEW i \in Nat, i >= 1, i <= Len(s) + Len(t)
  PROVE  (s \o t)[i] = IF i <= Len(s) THEN s[i] ELSE t[i - Len(s)]
BY SMTT(30)

(* Unlinking an element.                                                   *)
LEMMA KeptSet ==
  ASSUME NEW X, NEW s \in Seq(X), IsInjective(s), NEW x
  PROVE  LET t == Kept(s, {k \in DOMAIN s : s[k] # x})
         IN  t \in Seq(X) /\ IsInjective(t) /\ ToSet(t) = ToSet(s) \ {x}
<1> DEFINE S == {k \in DOMAIN s : s[k] # x}
           t == Kept(s, S)
<1>1. S \subseteq DOMAIN s
  OBVIOUS
<1> HIDE DEF S
<1>2. t \in Seq(X) /\ IsKept(t, s, S)
  BY <1>1, KeptIsKept
<1> HIDE DEF t
<1>3. PICK g : Lists(g, Len(t), S) /\ \A k \in 1 .. Len(t) : t[k] = s[g[k]]
  BY <1>2 DEF IsKept
<1>4. /\ \A k \in 1 .. Len(t) : g[k] \in S /\ t[k] = s[g[k]] /\ g[k] \in Nat
      /\ \A k, l \in 1 .. Len(t) : k < l => g[k] < g[l]
      /\ \A i \in S : \E k \in 1 .. Len(t) : g[k] = i
  <2>1. S \subseteq Nat
    BY <1>1, SetOf
  <2>2. /\ g \in [1 .. Len(t) -> S] /\ \A k, l \in 1 .. Len(t) : k < l => g[k] < g[l]
        /\ \A i \in S : \E k \in 1 .. Len(t) : g[k] = i
    BY <1>3 DEF Lists
  <2> QED BY <1>3, <2>1, <2>2
<1>5. \A i, j \in S : s[i] = s[j] => i = j
  BY <1>1 DEF IsInjective
<1>6. \A k, l \in 1 .. Len(t) : t[k] = t[l] => k = l
  <2> SUFFICES ASSUME NEW k \in 1 .. Len(t), NEW l \in 1 .. Len(t), t[k] = t[l] PROVE k = l
    OBVIOUS
  <2>1. g[k] = g[l]
    BY <1>4, <1>5
  <2>2. ~(k < l) /\ ~(l < k)
    BY <1>4, <2>1
  <2> QED BY <2>2
<1>7. IsInjective(t)
  BY <1>2, <1>6, SetOf DEF IsInjective
<1>8. \A y : y \in ToSet(t) <=> \E k \in 1 .. Len(t) : t[k] = y
  BY <1>2, SetOf
<1>9. ToSet(t) = {s[i] : i \in S}
  <2>1. \A y : y \in {s[i] : i \in S} <=> \E i \in S : s[i] = y
    OBVIOUS
  <2> QED BY SMTT(30), <1>4, <1>8, <2>1
<1>10. {s[i] : i \in S} = ToSet(s) \ {x}
  BY DEF S, ToSet
<1> QED BY <1>2, <1>7, <1>9, <1>10 DEF t, S

LEMMA SetCount ==
  ASSUME NEW X, NEW s \in Seq(X), IsInjective(s)
  PROVE  IsFiniteSet(ToSet(s)) /\ Cardinality(ToSet(s)) = Len(s)
<1>1. s \in [1 .. Len(s) -> ToSet(s)] /\ Len(s) \in Nat
  BY SetOf
<1>2. s \in Bijection(1 .. Len(s), ToSet(s))
  BY <1>1, SetOf DEF Bijection, Injection, Surjection, IsInjective
<1>3. IsFiniteSet(1 .. Len(s)) /\ ExistsBijection(1 .. Len(s), ToSet(s))
  BY <1>1, <1>2, FS_Interval DEF ExistsBijection
<1> QED BY <1>1, <1>3, FS_Bijection, FS_CountingElements
=============================================================================
