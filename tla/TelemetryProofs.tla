-------------------------- MODULE TelemetryProofs --------------------------
(***************************************************************************)
(* Proofs about TraceRecorder, for any number of threads, names, scopes    *)
(* and events: no event is left open, and a scope whose name no other      *)
(* thread uses ends its own event.  And about Metrics, for any number of   *)
(* threads and objects: summaries are exact.                               *)
(***************************************************************************)
EXTENDS MCTelemetry, SelectionProofs

USE BoundsAssumption

Event == [name : AllNames, start : Int, duration : Int, scope : Nat, ended : BOOLEAN]
Scope == [name : AllNames, id : Nat, at : Nat]

TypeInv ==
  /\ events \in Seq(Event)
  /\ activeEvents \in [AllNames -> Seq(Nat)]
  /\ epoch \in Nat /\ now \in Nat /\ opened \in Nat
  /\ scopes \in [Threads -> Seq(Scope)]

(* Stacks: a thread uses its names, later scopes have greater numbers.     *)
Stacked(t, q) ==
  /\ Len(q) <= MaxDepth
  /\ \A i \in DOMAIN q : q[i].name \in Names[t] /\ q[i].id <= opened
  /\ \A i, j \in DOMAIN q : i < j => q[i].id < q[j].id

StackInv == \A t \in Threads : Stacked(t, scopes[t])

(* active_ lists the open events, each once.                               *)
ListedInv ==
  \A name \in AllNames :
    IsInjective(activeEvents[name]) /\ ToSet(activeEvents[name]) = OpenEvents(name)

CountInv ==
  \A name \in AllNames :
    IsFiniteSet(ScopesOf(name)) /\ Len(activeEvents[name]) <= Cardinality(ScopesOf(name))

(* The k-th open event of name is that of the i-th scope of t.             *)
Begun(t, name, k, i) ==
  /\ scopes[t][i].name = name
  /\ scopes[t][i].id = events[activeEvents[name][k]].scope
  /\ events[activeEvents[name][k]].start = scopes[t][i].at - epoch

(* The open events of a name are those of the innermost scopes of thread   *)
(* t, in their order; outer ones may have been cleared.                    *)
Nested(t, name) ==
  /\ \A k \in DOMAIN activeEvents[name] : \E i \in DOMAIN scopes[t] : Begun(t, name, k, i)
  /\ \A k, l \in DOMAIN activeEvents[name] :
       k < l => events[activeEvents[name][k]].scope < events[activeEvents[name][l]].scope
  /\ \A k \in DOMAIN activeEvents[name] : \A i, j \in DOMAIN scopes[t] :
       Begun(t, name, k, i) /\ i < j /\ scopes[t][j].name = name =>
         \E l \in DOMAIN activeEvents[name] : Begun(t, name, l, j)

OwnInv == \A t \in Threads : \A name \in Names[t] : Own(t, name) => Nested(t, name)

TraceInv == TypeInv /\ StackInv /\ ListedInv /\ CountInv /\ OwnInv

-----------------------------------------------------------------------------
(* Lists and stacks that lose their last element.                          *)
LEMMA FrontFacts ==
  ASSUME NEW X, NEW s \in Seq(X), s # << >>
  PROVE  /\ Len(s) \in Nat \ {0} /\ Last(s) = s[Len(s)] /\ Last(s) \in X
         /\ Front(s) \in Seq(X) /\ Len(Front(s)) = Len(s) - 1
         /\ DOMAIN Front(s) = 1 .. Len(s) - 1
         /\ \A i \in 1 .. Len(s) - 1 : Front(s)[i] = s[i]
<1>1. Len(s) \in Nat \ {0} /\ s[Len(s)] \in X
  OBVIOUS
<1>2. /\ Front(s) \in Seq(X) /\ Len(Front(s)) = Len(s) - 1
      /\ \A i \in 1 .. Len(s) - 1 : Front(s)[i] = s[i]
  <2> DEFINE n == Len(s) - 1
  <2>1. n \in Nat /\ n <= Len(s) /\ Front(s) = SubSeq(s, 1, n)
    BY <1>1 DEF Front
  <2> HIDE DEF n
  <2>2. /\ SubSeq(s, 1, n) \in Seq(X) /\ Len(SubSeq(s, 1, n)) = n
        /\ \A i \in 1 .. n : SubSeq(s, 1, n)[i] = s[i]
    BY <2>1
  <2> QED BY <2>1, <2>2 DEF n
<1> QED BY <1>1, <1>2 DEF Last

LEMMA FrontSet ==
  ASSUME NEW X, NEW s \in Seq(X), s # << >>, IsInjective(s)
  PROVE  IsInjective(Front(s)) /\ ToSet(Front(s)) = ToSet(s) \ {Last(s)} /\ Last(s) \in ToSet(s)
<1> DEFINE f == Front(s)  n == Len(s)
<1>1. /\ n \in Nat \ {0} /\ Last(s) = s[n] /\ DOMAIN f = 1 .. n - 1 /\ DOMAIN s = 1 .. n
      /\ \A i \in 1 .. n - 1 : f[i] = s[i]
  <2>1. Len(s) \in Nat \ {0} /\ DOMAIN s = 1 .. Len(s)
    BY DEF Seq
  <2> QED BY <2>1, FrontFacts
<1> HIDE DEF f, n
<1>2. \A i, j \in 1 .. n : s[i] = s[j] => i = j
  BY <1>1 DEF IsInjective
<1>3. IsInjective(f)
  BY <1>1, <1>2 DEF IsInjective
<1>4. \A x : x \in ToSet(f) <=> \E i \in 1 .. n - 1 : s[i] = x
  BY <1>1 DEF ToSet
<1>5. \A x : x \in ToSet(s) <=> \E i \in 1 .. n : s[i] = x
  BY <1>1 DEF ToSet
<1>6. ToSet(f) = ToSet(s) \ {Last(s)}
  <2> SUFFICES ASSUME NEW x PROVE x \in ToSet(f) <=> x \in ToSet(s) /\ x # s[n]
    BY <1>1
  <2>1. \A i \in 1 .. n : i \in 1 .. n - 1 <=> i # n
    BY <1>1
  <2>2. 1 .. n - 1 \subseteq 1 .. n /\ n \in 1 .. n
    BY <1>1
  <2> QED BY <1>2, <1>4, <1>5, <2>1, <2>2
<1> QED BY <1>1, <1>3, <1>5, <1>6 DEF f

LEMMA NamesOf == \A t \in Threads : Names[t] \subseteq AllNames
BY DEF AllNames

LEMMA ScopeAt ==
  ASSUME TypeInv, NEW t \in Threads, NEW i \in DOMAIN scopes[t]
  PROVE  scopes[t][i].id \in Nat /\ scopes[t][i].at \in Nat /\ scopes[t][i].name \in AllNames
<1>1. scopes[t] \in Seq(Scope)
  BY DEF TypeInv
<1>2. scopes[t][i] \in Scope
  BY <1>1
<1> QED BY <1>2 DEF Scope

(* The scopes of a name, for stacks sc.                                    *)
ScopesIn(sc, name) == {p \in Threads \X (1 .. MaxDepth) :
                         p[2] <= Len(sc[p[1]]) /\ sc[p[1]][p[2]].name = name}

Stacks(sc) == sc \in [Threads -> Seq(Scope)] /\ \A t \in Threads : Len(sc[t]) <= MaxDepth

IsScope(sc, name, t, i) == t \in Threads /\ i \in DOMAIN sc[t] /\ sc[t][i].name = name

LEMMA ScopesAre ==
  ASSUME NEW sc, Stacks(sc), NEW name
  PROVE  \A t, i : <<t, i>> \in ScopesIn(sc, name) <=> IsScope(sc, name, t, i)
<1> SUFFICES ASSUME NEW t \in Threads, NEW i
             PROVE  i \in DOMAIN sc[t] <=> i \in 1 .. MaxDepth /\ i <= Len(sc[t])
  BY DEF ScopesIn, IsScope
<1>1. sc[t] \in Seq(Scope) /\ Len(sc[t]) <= MaxDepth /\ MaxDepth \in Nat
  BY DEF Stacks
<1> QED BY <1>1

LEMMA ScopesNow ==
  ASSUME TypeInv, StackInv, NEW name
  PROVE  \A u, i : <<u, i>> \in ScopesOf(name) <=> IsScope(scopes, name, u, i)
<1>1. ScopesOf(name) = ScopesIn(scopes, name)
  BY DEF ScopesOf, ScopesIn
<1>2. Stacks(scopes)
  BY DEF Stacks, TypeInv, StackInv, Stacked
<1> QED BY <1>1, <1>2, ScopesAre

LEMMA ScopesNext ==
  ASSUME TypeInv', StackInv', NEW name
  PROVE  \A u, i : <<u, i>> \in ScopesOf(name)' <=> IsScope(scopes', name, u, i)
<1>1. scopes' \in [Threads -> Seq(Scope)] /\ \A u \in Threads : Len(scopes'[u]) <= MaxDepth
  BY DEF TypeInv, StackInv, Stacked
<1>2. PICK sc : sc = scopes'
  OBVIOUS
<1>3. ScopesOf(name)' = ScopesIn(sc, name)
  BY <1>2 DEF ScopesOf, ScopesIn
<1>4. Stacks(sc)
  BY <1>1, <1>2 DEF Stacks
<1> HIDE <1>2
<1>5. \A u, i : <<u, i>> \in ScopesOf(name)' <=> IsScope(sc, name, u, i)
  BY <1>3, <1>4, ScopesAre
<1> QED BY <1>2, <1>5

(* A thread opens or leaves a scope: the scopes of its name are one more   *)
(* or one less.                                                            *)
LEMMA PushCounts ==
  ASSUME TypeInv, TypeInv', StackInv, StackInv', NEW t \in Threads, NEW c \in Scope,
         scopes' = [scopes EXCEPT ![t] = Append(@, c)], NEW name,
         IsFiniteSet(ScopesOf(name))
  PROVE  /\ IsFiniteSet(ScopesOf(name)')
         /\ Cardinality(ScopesOf(name)') =
              IF name = c.name THEN Cardinality(ScopesOf(name)) + 1 ELSE Cardinality(ScopesOf(name))
<1> DEFINE new == <<t, Len(scopes[t]) + 1>>
<1>1. \A u, i : <<u, i>> \in ScopesOf(name) <=> IsScope(scopes, name, u, i)
  BY ScopesNow
<1>2. \A u, i : <<u, i>> \in ScopesOf(name)' <=> IsScope(scopes', name, u, i)
  BY ScopesNext
<1>3. scopes[t] \in Seq(Scope) /\ scopes'[t] = Append(scopes[t], c)
      /\ \A u \in Threads : u # t => scopes'[u] = scopes[u]
  BY DEF TypeInv
<1>4. /\ DOMAIN scopes'[t] = DOMAIN scopes[t] \cup {Len(scopes[t]) + 1}
      /\ Len(scopes[t]) + 1 \notin DOMAIN scopes[t]
      /\ scopes'[t][Len(scopes[t]) + 1] = c
      /\ \A i \in DOMAIN scopes[t] : scopes'[t][i] = scopes[t][i]
  BY <1>3
<1>5. \A u, i : <<u, i>> \in ScopesOf(name)' <=>
                  <<u, i>> \in ScopesOf(name) \/ (<<u, i>> = new /\ name = c.name)
  <2> SUFFICES ASSUME NEW u, NEW i
               PROVE  IsScope(scopes', name, u, i) <=>
                        \/ IsScope(scopes, name, u, i)
                        \/ u = t /\ i = Len(scopes[t]) + 1 /\ name = c.name
    <3>1. \A u, i : <<u, i>> = new <=> u = t /\ i = Len(scopes[t]) + 1
      OBVIOUS
    <3> HIDE DEF new
    <3> QED BY ZenonT(30), <1>1, <1>2, <3>1
  <2>1. CASE u = t
    BY <2>1, <1>4 DEF IsScope
  <2>2. CASE u # t
    BY <2>2, <1>3 DEF IsScope
  <2> QED BY <2>1, <2>2
<1>6. \A p \in ScopesOf(name) \cup ScopesOf(name)' : p = <<p[1], p[2]>>
  BY DEF ScopesOf
<1>7. ScopesOf(name)' = IF name = c.name THEN ScopesOf(name) \cup {new} ELSE ScopesOf(name)
  <2>1. \A p : p \in ScopesOf(name)' <=> p \in ScopesOf(name) \/ (p = new /\ name = c.name)
    <3>1. \A p \in ScopesOf(name)' : p \in ScopesOf(name) \/ (p = new /\ name = c.name)
      BY <1>5, <1>6
    <3>2. \A p \in ScopesOf(name) : p \in ScopesOf(name)'
      BY <1>5, <1>6
    <3>3. name = c.name => new \in ScopesOf(name)'
      BY <1>5
    <3> QED BY <3>1, <3>2, <3>3
  <2> HIDE DEF new
  <2> QED BY <2>1
<1>8. new \notin ScopesOf(name)
  BY <1>1, <1>4 DEF IsScope
<1> HIDE DEF new
<1> QED BY <1>7, <1>8, FS_AddElement

LEMMA PopCounts ==
  ASSUME TypeInv, TypeInv', StackInv, StackInv', NEW t \in Threads, scopes[t] # << >>,
         scopes' = [scopes EXCEPT ![t] = Front(@)], NEW name,
         IsFiniteSet(ScopesOf(name))
  PROVE  /\ IsFiniteSet(ScopesOf(name)')
         /\ Cardinality(ScopesOf(name)) \in Nat
         /\ Cardinality(ScopesOf(name)') =
              IF name = Last(scopes[t]).name THEN Cardinality(ScopesOf(name)) - 1
              ELSE Cardinality(ScopesOf(name))
<1> DEFINE old == <<t, Len(scopes[t])>>
<1>1. \A u, i : <<u, i>> \in ScopesOf(name) <=> IsScope(scopes, name, u, i)
  BY ScopesNow
<1>2. \A u, i : <<u, i>> \in ScopesOf(name)' <=> IsScope(scopes', name, u, i)
  BY ScopesNext
<1>3. scopes[t] \in Seq(Scope) /\ scopes'[t] = Front(scopes[t])
      /\ \A u \in Threads : u # t => scopes'[u] = scopes[u]
  BY DEF TypeInv
<1>4. /\ DOMAIN scopes'[t] = DOMAIN scopes[t] \ {Len(scopes[t])}
      /\ Len(scopes[t]) \in DOMAIN scopes[t]
      /\ scopes[t][Len(scopes[t])] = Last(scopes[t])
      /\ \A i \in DOMAIN scopes'[t] : scopes'[t][i] = scopes[t][i]
  <2>1. /\ Len(scopes[t]) \in Nat \ {0} /\ DOMAIN scopes'[t] = 1 .. Len(scopes[t]) - 1
        /\ \A i \in 1 .. Len(scopes[t]) - 1 : scopes'[t][i] = scopes[t][i]
        /\ Last(scopes[t]) = scopes[t][Len(scopes[t])]
    <3>1. scopes[t] \in Seq(Scope) /\ scopes[t] # << >>
      BY <1>3
    <3>2. /\ Len(scopes[t]) \in Nat \ {0} /\ Last(scopes[t]) = scopes[t][Len(scopes[t])]
          /\ DOMAIN Front(scopes[t]) = 1 .. Len(scopes[t]) - 1
          /\ \A i \in 1 .. Len(scopes[t]) - 1 : Front(scopes[t])[i] = scopes[t][i]
      BY <3>1, FrontFacts
    <3> QED BY <1>3, <3>2
  <2>2. DOMAIN scopes[t] = 1 .. Len(scopes[t])
    BY <1>3
  <2> QED BY SMTT(30), <2>1, <2>2
<1>5. \A u, i : <<u, i>> \in ScopesOf(name)' <=> <<u, i>> \in ScopesOf(name) /\ <<u, i>> # old
  <2> SUFFICES ASSUME NEW u, NEW i
               PROVE  IsScope(scopes', name, u, i) <=>
                        /\ IsScope(scopes, name, u, i)
                        /\ ~(u = t /\ i = Len(scopes[t]))
    <3>1. \A u, i : <<u, i>> = old <=> u = t /\ i = Len(scopes[t])
      OBVIOUS
    <3> HIDE DEF old
    <3> QED BY ZenonT(30), <1>1, <1>2, <3>1
  <2>1. CASE u = t
    BY <2>1, <1>4 DEF IsScope
  <2>2. CASE u # t
    BY <2>2, <1>3 DEF IsScope
  <2> QED BY <2>1, <2>2
<1>6. \A p \in ScopesOf(name) \cup ScopesOf(name)' : p = <<p[1], p[2]>>
  BY DEF ScopesOf
<1>7. ScopesOf(name)' = ScopesOf(name) \ {old}
  BY <1>5, <1>6
<1>8. old \in ScopesOf(name) <=> name = Last(scopes[t]).name
  BY <1>1, <1>4 DEF IsScope
<1> HIDE DEF old
<1> QED BY <1>7, <1>8, FS_RemoveElement, FS_CardinalityType

-----------------------------------------------------------------------------
(* A step that leaves the list, the open events and the stack alone.       *)
LEMMA NestedSame ==
  ASSUME NEW t \in Threads, NEW name \in AllNames, Nested(t, name),
         scopes'[t] = scopes[t], activeEvents'[name] = activeEvents[name], epoch' = epoch,
         \A k \in DOMAIN activeEvents[name] :
           /\ events'[activeEvents[name][k]].scope = events[activeEvents[name][k]].scope
           /\ events'[activeEvents[name][k]].start = events[activeEvents[name][k]].start
  PROVE  Nested(t, name)'
<1>1. \A k \in DOMAIN activeEvents[name] : \A i \in DOMAIN scopes[t] :
        Begun(t, name, k, i)' <=> Begun(t, name, k, i)
  BY DEF Begun
<1>2. \A k \in DOMAIN activeEvents[name] : \E i \in DOMAIN scopes'[t] : Begun(t, name, k, i)'
  BY <1>1 DEF Nested
<1>3. \A k, l \in DOMAIN activeEvents[name] :
        k < l => events'[activeEvents[name][k]].scope < events'[activeEvents[name][l]].scope
  BY DEF Nested
<1>4. \A k \in DOMAIN activeEvents[name] : \A i, j \in DOMAIN scopes'[t] :
        Begun(t, name, k, i)' /\ i < j /\ scopes'[t][j].name = name =>
          \E l \in DOMAIN activeEvents[name] : Begun(t, name, l, j)'
  BY <1>1 DEF Nested
<1> QED BY <1>2, <1>3, <1>4 DEF Nested

-----------------------------------------------------------------------------
(* begin(): a scope with the greatest number so far, and its event.        *)
LEMMA BeginKeeps ==
  ASSUME TraceInv, NEW t \in Threads, NEW n \in Names[t], begin(t, n)
  PROVE  TraceInv'
<1>0. TypeInv /\ StackInv /\ ListedInv /\ CountInv /\ OwnInv
  BY DEF TraceInv
<1> DEFINE e == [name |-> n, start |-> now - epoch, duration |-> 0, scope |-> opened + 1,
                 ended |-> FALSE]
           c == [name |-> n, id |-> opened + 1, at |-> now]
           L == Len(events) + 1
<1>i. PICK I : I = Len(scopes[t]) + 1
  OBVIOUS
<1>1. n \in AllNames /\ e \in Event /\ c \in Scope /\ L \in Nat \ {0} /\ I \in Nat \ {0}
  BY <1>0, <1>i, NamesOf DEF TypeInv, Event, Scope
<1>2. /\ opened' = opened + 1 /\ events' = Append(events, e) /\ epoch' = epoch /\ now' = now
      /\ scopes' = [scopes EXCEPT ![t] = Append(@, c)]
  BY DEF begin, elapsed_ms
<1>3. /\ events \in Seq(Event) /\ opened \in Nat /\ scopes[t] \in Seq(Scope)
      /\ activeEvents[n] \in Seq(Nat)
  BY <1>0, <1>1 DEF TypeInv
<1>4. /\ events' \in Seq(Event) /\ Len(events') = L /\ DOMAIN events' = DOMAIN events \cup {L}
      /\ L \notin DOMAIN events /\ events'[L] = e
      /\ \A i \in DOMAIN events : events'[i] = events[i]
  <2> HIDE DEF e
  <2> QED BY SMTT(30), <1>1, <1>2, <1>3
<1>5. activeEvents' = [activeEvents EXCEPT ![n] = Append(@, L)]
  BY <1>2, <1>4 DEF begin
<1>6. /\ activeEvents'[n] = Append(activeEvents[n], L) /\ activeEvents' \in [AllNames -> Seq(Nat)]
      /\ \A m \in AllNames : m # n => activeEvents'[m] = activeEvents[m]
  BY <1>0, <1>1, <1>3, <1>5 DEF TypeInv
<1>7. /\ scopes'[t] = Append(scopes[t], c) /\ scopes'[t] \in Seq(Scope)
      /\ \A u \in Threads : u # t => scopes'[u] = scopes[u]
  BY <1>0, <1>1, <1>2, <1>3 DEF TypeInv
<1>8. /\ DOMAIN scopes'[t] = DOMAIN scopes[t] \cup {I} /\ I \notin DOMAIN scopes[t]
      /\ scopes'[t][I] = c /\ \A i \in DOMAIN scopes[t] : i < I /\ scopes'[t][i] = scopes[t][i]
      /\ Len(scopes'[t]) = I /\ \A i \in DOMAIN scopes[t] : i \in Nat
  <2>1. Len(scopes[t]) \in Nat /\ DOMAIN scopes[t] = 1 .. Len(scopes[t])
    BY <1>3
  <2> HIDE DEF c
  <2>2. /\ Len(Append(scopes[t], c)) = Len(scopes[t]) + 1
        /\ DOMAIN Append(scopes[t], c) = 1 .. Len(scopes[t]) + 1
        /\ Append(scopes[t], c)[Len(scopes[t]) + 1] = c
        /\ \A i \in 1 .. Len(scopes[t]) : Append(scopes[t], c)[i] = scopes[t][i]
    BY <1>1, <1>3
  <2> QED BY <1>i, <1>7, <2>1, <2>2
<1>9. TypeInv'
  BY SMTT(30), <1>0, <1>1, <1>2, <1>4, <1>6, <1>7 DEF TypeInv
<1>10. StackInv'
  <2>1. ASSUME NEW u \in Threads, u # t PROVE Stacked(u, scopes[u])'
    <3>1. /\ Stacked(u, scopes[u]) /\ scopes[u] \in Seq(Scope)
      BY <1>0 DEF StackInv, TypeInv
    <3>2. \A i \in DOMAIN scopes[u] : scopes[u][i].id \in Nat
      BY <1>0, ScopeAt
    <3> QED BY SMTT(30), <1>2, <1>3, <1>7, <2>1, <3>1, <3>2 DEF Stacked
  <2>2. Stacked(t, scopes[t])'
    <3>1. Stacked(t, scopes[t]) /\ Len(scopes[t]) < MaxDepth
      BY <1>0 DEF StackInv, begin
    <3>2. \A i \in DOMAIN scopes[t] : scopes[t][i].id \in Nat /\ scopes[t][i].id <= opened
                                     /\ scopes[t][i].name \in Names[t]
      BY <1>0, <3>1, ScopeAt DEF Stacked
    <3>3. \A i \in DOMAIN scopes'[t] : scopes'[t][i].name \in Names[t] /\ scopes'[t][i].id <= opened'
      BY SMTT(30), <1>2, <1>3, <1>8, <3>2
    <3>4. \A i, j \in DOMAIN scopes'[t] : i < j => scopes'[t][i].id < scopes'[t][j].id
      <4> SUFFICES ASSUME NEW i \in DOMAIN scopes'[t], NEW j \in DOMAIN scopes'[t], i < j
                   PROVE  scopes'[t][i].id < scopes'[t][j].id
        OBVIOUS
      <4>1. i \in DOMAIN scopes[t]
        <5> SUFFICES ASSUME i = I PROVE FALSE
          BY <1>8
        <5>1. j = I \/ (j \in DOMAIN scopes[t] /\ j < I)
          BY <1>8
        <5>2. DOMAIN scopes[t] \subseteq Nat
          BY <1>3
        <5> QED BY <1>1, <5>1, <5>2
      <4>2. CASE j = I
        BY SMTT(30), <1>3, <1>8, <3>2, <4>1, <4>2
      <4>3. CASE j \in DOMAIN scopes[t]
        BY <1>8, <3>1, <4>1, <4>3 DEF Stacked
      <4> QED BY <1>8, <4>2, <4>3
    <3>5. Len(scopes'[t]) <= MaxDepth
      BY <1>3, <1>8, <1>i, <3>1
    <3> QED BY <3>3, <3>4, <3>5 DEF Stacked
  <2> QED BY <2>1, <2>2 DEF StackInv
<1>11. \A m \in AllNames : OpenEvents(m)' = IF m = n THEN OpenEvents(m) \cup {L} ELSE OpenEvents(m)
  BY <1>4 DEF OpenEvents
<1>12. L \notin ToSet(activeEvents[n])
  BY <1>0, <1>1, <1>4 DEF ListedInv, OpenEvents
<1>13. /\ IsInjective(activeEvents'[n]) /\ ToSet(activeEvents'[n]) = ToSet(activeEvents[n]) \cup {L}
       /\ Len(activeEvents'[n]) = Len(activeEvents[n]) + 1
  <2>1. IsInjective(activeEvents[n]) /\ L \in Nat
    BY <1>0, <1>1 DEF ListedInv
  <2> HIDE DEF L
  <2> QED BY <1>3, <1>6, <1>12, <2>1, AppendSet
<1>14. ListedInv'
  BY <1>0, <1>1, <1>6, <1>11, <1>13 DEF ListedInv
<1>15. CountInv'
  <2> SUFFICES ASSUME NEW m \in AllNames
               PROVE  IsFiniteSet(ScopesOf(m)') /\ Len(activeEvents'[m]) <= Cardinality(ScopesOf(m)')
    BY DEF CountInv
  <2>1. /\ IsFiniteSet(ScopesOf(m)) /\ Len(activeEvents[m]) <= Cardinality(ScopesOf(m))
        /\ activeEvents[m] \in Seq(Nat)
    BY <1>0 DEF CountInv, TypeInv
  <2>2. /\ IsFiniteSet(ScopesOf(m)')
        /\ Cardinality(ScopesOf(m)') = IF m = c.name THEN Cardinality(ScopesOf(m)) + 1
                                       ELSE Cardinality(ScopesOf(m))
    <3> HIDE DEF c
    <3> QED BY <1>0, <1>1, <1>2, <1>9, <1>10, <2>1, PushCounts
  <2>3. c.name = n /\ Len(activeEvents[m]) \in Nat /\ Cardinality(ScopesOf(m)) \in Nat
    BY <2>1, FS_CardinalityType
  <2> HIDE DEF c
  <2> QED BY <1>6, <1>13, <2>1, <2>2, <2>3
<1>16. \A m \in AllNames : \A k \in DOMAIN activeEvents[m] : activeEvents[m][k] \in DOMAIN events
  BY <1>0 DEF ListedInv, OpenEvents, ToSet
<1>17. ASSUME NEW u \in Threads, NEW m \in Names[u], Own(u, m), u # t PROVE Nested(u, m)'
  <2>1. m # n /\ m \in AllNames
    BY <1>17, NamesOf DEF Own
  <2>2. Nested(u, m)
    BY <1>0, <1>17 DEF OwnInv
  <2> QED BY <1>2, <1>4, <1>6, <1>7, <1>16, <1>17, <2>1, <2>2, NestedSame
<1>18. ASSUME NEW m \in Names[t], Own(t, m) PROVE Nested(t, m)'
  <2>k. PICK K : K = Len(activeEvents[n]) + 1
    OBVIOUS
  <2>1. Nested(t, m) /\ m \in AllNames /\ activeEvents[m] \in Seq(Nat)
    BY <1>0, <1>18, NamesOf DEF OwnInv, TypeInv
  <2>2. /\ DOMAIN activeEvents'[n] = DOMAIN activeEvents[n] \cup {K} /\ K \notin DOMAIN activeEvents[n]
        /\ activeEvents'[n][K] = L /\ \A k \in DOMAIN activeEvents[n] : activeEvents'[n][k] = activeEvents[n][k] /\ k < K
        /\ K \in Nat /\ DOMAIN activeEvents[n] \subseteq Nat
    <3> HIDE DEF L
    <3>1. Len(activeEvents[n]) \in Nat /\ DOMAIN activeEvents[n] = 1 .. Len(activeEvents[n])
      BY <1>3
    <3>2. /\ DOMAIN Append(activeEvents[n], L) = 1 .. Len(activeEvents[n]) + 1
          /\ Append(activeEvents[n], L)[Len(activeEvents[n]) + 1] = L
          /\ \A i \in 1 .. Len(activeEvents[n]) : Append(activeEvents[n], L)[i] = activeEvents[n][i]
      BY <1>1, <1>3
    <3> QED BY <1>6, <2>k, <3>1, <3>2
  <2>3. \A k \in DOMAIN activeEvents[m] : activeEvents'[m][k] = activeEvents[m][k] /\ k \in DOMAIN activeEvents'[m]
    BY <1>6, <2>1, <2>2
  <2>4. \A k \in DOMAIN activeEvents[m] : events'[activeEvents'[m][k]] = events[activeEvents[m][k]]
    BY <1>4, <1>16, <2>1, <2>3
  <2>5. \A k \in DOMAIN activeEvents[m], i \in DOMAIN scopes[t] : Begun(t, m, k, i)' <=> Begun(t, m, k, i)
    BY <1>2, <1>8, <2>4 DEF Begun
  <2>6. \A i \in DOMAIN scopes[t] : scopes[t][i].id \in Nat /\ scopes[t][i].id <= opened
    BY <1>0, ScopeAt DEF StackInv, Stacked
  <2>7. \A k \in DOMAIN activeEvents[m] : \E i \in DOMAIN scopes[t] :
           Begun(t, m, k, i) /\ events[activeEvents[m][k]].scope = scopes[t][i].id
    BY <2>1 DEF Nested, Begun
  <2>8. CASE m # n
    <3>1. \A k \in DOMAIN activeEvents[m] : ~Begun(t, m, k, I)'
      BY <1>8, <2>8 DEF Begun
    <3>2. activeEvents'[m] = activeEvents[m]
      BY <1>6, <2>1, <2>8
    <3>3. \A k \in DOMAIN activeEvents[m] : \E i \in DOMAIN scopes'[t] : Begun(t, m, k, i)'
      BY <1>8, <2>1, <2>5 DEF Nested
    <3>4. \A k, l \in DOMAIN activeEvents[m] :
            k < l => events'[activeEvents'[m][k]].scope < events'[activeEvents'[m][l]].scope
      BY <2>1, <2>4 DEF Nested
    <3>5. ASSUME NEW k \in DOMAIN activeEvents[m], NEW i \in DOMAIN scopes'[t],
                 NEW j \in DOMAIN scopes'[t], Begun(t, m, k, i)', i < j, scopes'[t][j].name = m
          PROVE  \E l \in DOMAIN activeEvents[m] : Begun(t, m, l, j)'
      <4>1. i \in DOMAIN scopes[t]
        BY <1>8, <3>1, <3>5
      <4>2. j \in DOMAIN scopes[t]
        BY <1>8, <2>8, <3>5
      <4>3. scopes[t][j].name = m /\ Begun(t, m, k, i)
        BY <1>8, <2>5, <3>5, <4>1, <4>2
      <4>4. PICK l \in DOMAIN activeEvents[m] : Begun(t, m, l, j)
        BY <2>1, <3>5, <4>1, <4>2, <4>3 DEF Nested
      <4> QED BY <2>5, <4>2, <4>4
    <3> QED BY <3>2, <3>3, <3>4, <3>5 DEF Nested
  <2>9. CASE m = n
    <3>1. /\ Begun(t, n, K, I)' /\ events'[activeEvents'[n][K]].scope = opened + 1
          /\ scopes'[t][I].id = opened + 1
      BY <1>2, <1>4, <1>8, <2>2 DEF Begun
    <3>2. \A k \in DOMAIN activeEvents'[n] : \E i \in DOMAIN scopes'[t] : Begun(t, n, k, i)'
      BY <1>8, <2>2, <2>5, <2>7, <2>9, <3>1
    <3>3. ASSUME NEW k \in DOMAIN activeEvents'[n], NEW l \in DOMAIN activeEvents'[n], k < l
          PROVE  events'[activeEvents'[n][k]].scope < events'[activeEvents'[n][l]].scope
      <4>1. k \in DOMAIN activeEvents[n]
        BY <2>2, <3>3
      <4>2. CASE l = K
        <5>1. PICK i \in DOMAIN scopes[t] : events[activeEvents[n][k]].scope = scopes[t][i].id
          BY <2>7, <2>9, <4>1
        <5>2. events'[activeEvents'[n][k]].scope <= opened /\ events'[activeEvents'[n][k]].scope \in Nat
          BY <2>4, <2>6, <2>9, <4>1, <5>1
        <5>3. events'[activeEvents'[n][l]].scope = opened + 1
          BY <3>1, <4>2
        <5> QED BY <1>3, <5>2, <5>3
      <4>3. CASE l \in DOMAIN activeEvents[n]
        BY <2>1, <2>4, <2>9, <3>3, <4>1, <4>3 DEF Nested
      <4> QED BY <2>2, <4>2, <4>3
    <3>4. ASSUME NEW k \in DOMAIN activeEvents'[n], NEW i \in DOMAIN scopes'[t],
                 NEW j \in DOMAIN scopes'[t], Begun(t, n, k, i)', i < j, scopes'[t][j].name = n
          PROVE  \E l \in DOMAIN activeEvents'[n] : Begun(t, n, l, j)'
      <4>1. CASE j = I
        BY <2>2, <3>1, <4>1
      <4>2. CASE j \in DOMAIN scopes[t]
        <5>1. i \in DOMAIN scopes[t]
          BY <1>1, <1>8, <3>4, <4>2
        <5>2. k \in DOMAIN activeEvents[n]
          <6> SUFFICES ASSUME k = K PROVE FALSE
            BY <2>2
          <6>1. scopes'[t][i].id = opened + 1
            BY <3>1, <3>4 DEF Begun
          <6> QED BY SMTT(30), <1>3, <1>8, <2>6, <5>1, <6>1
        <5>3. scopes[t][j].name = n /\ Begun(t, n, k, i)
          BY <1>8, <2>5, <2>9, <3>4, <4>2, <5>1, <5>2
        <5>4. PICK l \in DOMAIN activeEvents[n] : Begun(t, n, l, j)
          BY <2>1, <2>9, <3>4, <4>2, <5>1, <5>2, <5>3 DEF Nested
        <5> QED BY <2>2, <2>5, <2>9, <4>2, <5>4
      <4> QED BY <1>8, <4>1, <4>2
    <3> QED BY <2>9, <3>2, <3>3, <3>4 DEF Nested
  <2> QED BY <2>8, <2>9
<1>19. OwnInv'
  BY <1>17, <1>18 DEF OwnInv, Own
<1> QED BY <1>9, <1>10, <1>14, <1>15, <1>19 DEF TraceInv

-----------------------------------------------------------------------------
(* Of a name only t uses, the event listed last is that of t's innermost   *)
(* scope, if this scope has the name.                                      *)
LEMMA LastIsInnermost ==
  ASSUME TypeInv, StackInv, NEW t \in Threads, NEW n \in AllNames, Nested(t, n),
         NEW I, I = Len(scopes[t]), scopes[t] # << >>, scopes[t][I].name = n,
         NEW K, K = Len(activeEvents[n]), activeEvents[n] # << >>
  PROVE  /\ K \in DOMAIN activeEvents[n] /\ Begun(t, n, K, I)
         /\ \A k \in DOMAIN activeEvents[n], i \in DOMAIN scopes[t] : Begun(t, n, k, i) /\ k < K => i < I
<1>1. /\ I \in DOMAIN scopes[t] /\ DOMAIN scopes[t] \subseteq Nat
      /\ \A i \in DOMAIN scopes[t] : i < I \/ i = I
  <2>1. scopes[t] \in Seq(Scope)
    BY DEF TypeInv
  <2>2. Len(scopes[t]) \in Nat \ {0} /\ DOMAIN scopes[t] = 1 .. Len(scopes[t])
    BY <2>1, FrontFacts
  <2> QED BY <2>2
<1>2. /\ K \in DOMAIN activeEvents[n] /\ DOMAIN activeEvents[n] \subseteq Nat
      /\ \A k \in DOMAIN activeEvents[n] : k < K \/ k = K
  <2>1. activeEvents[n] \in Seq(Nat)
    BY DEF TypeInv
  <2>2. Len(activeEvents[n]) \in Nat \ {0} /\ DOMAIN activeEvents[n] = 1 .. Len(activeEvents[n])
    BY <2>1, FrontFacts
  <2> QED BY <2>2
<1>3. PICK j \in DOMAIN scopes[t] : Begun(t, n, K, j)
  BY <1>2 DEF Nested
<1>4. PICK l \in DOMAIN activeEvents[n] : Begun(t, n, l, I)
  BY SMTT(30), <1>1, <1>2, <1>3 DEF Nested
<1>5. /\ \A i \in DOMAIN scopes[t] : scopes[t][i].id \in Nat
      /\ \A i, h \in DOMAIN scopes[t] : i < h => scopes[t][i].id < scopes[t][h].id
  BY ScopeAt DEF StackInv, Stacked
<1>6. scopes[t][I].id <= scopes[t][j].id
  <2>1. /\ scopes[t][I].id = events[activeEvents[n][l]].scope
        /\ scopes[t][j].id = events[activeEvents[n][K]].scope
    BY <1>3, <1>4 DEF Begun
  <2>2. l = K \/ events[activeEvents[n][l]].scope < events[activeEvents[n][K]].scope
    BY <1>2 DEF Nested
  <2>3. scopes[t][I].id = scopes[t][j].id \/ scopes[t][I].id < scopes[t][j].id
    BY <2>1, <2>2
  <2>4. scopes[t][I].id \in Nat
    BY <1>1, <1>5
  <2>5. scopes[t][j].id \in Nat
    BY <1>3, <1>5
  <2> QED BY <2>3, <2>4, <2>5
<1>7. j = I
  BY <1>1, <1>5, <1>6
<1>8. ASSUME NEW k \in DOMAIN activeEvents[n], NEW i \in DOMAIN scopes[t], Begun(t, n, k, i), k < K
      PROVE  i < I
  <2>1. scopes[t][i].id < scopes[t][I].id
    BY <1>2, <1>3, <1>7, <1>8 DEF Begun, Nested
  <2> QED BY <1>1, <1>5, <2>1
<1> QED BY <1>2, <1>3, <1>7, <1>8

-----------------------------------------------------------------------------
(* end(): the innermost scope of a thread, and the event listed last.      *)
LEMMA EndKeeps ==
  ASSUME TraceInv, NEW t \in Threads, end(t)
  PROVE  TraceInv'
<1>0. TypeInv /\ StackInv /\ ListedInv /\ CountInv /\ OwnInv
  BY DEF TraceInv
<1>i. PICK I : I = Len(scopes[t])
  OBVIOUS
<1>n. PICK n : n = Last(scopes[t]).name
  OBVIOUS
<1>1. /\ scopes[t] \in Seq(Scope) /\ scopes[t] # << >> /\ scopes'[t] = Front(scopes[t])
      /\ scopes' = [scopes EXCEPT ![t] = Front(@)]
      /\ \A u \in Threads : u # t => scopes'[u] = scopes[u]
      /\ epoch' = epoch /\ now' = now /\ opened' = opened
  BY <1>0 DEF end, TypeInv
<1>2. /\ I \in Nat \ {0} /\ I \in DOMAIN scopes[t] /\ Last(scopes[t]) = scopes[t][I]
      /\ scopes'[t] \in Seq(Scope) /\ DOMAIN scopes'[t] = DOMAIN scopes[t] \ {I}
      /\ \A i \in DOMAIN scopes'[t] : scopes'[t][i] = scopes[t][i] /\ i < I
      /\ Len(scopes'[t]) = I - 1 /\ DOMAIN scopes[t] \subseteq Nat
  <2>1. Len(scopes[t]) \in Nat \ {0} /\ DOMAIN scopes[t] = 1 .. Len(scopes[t])
    BY <1>1, FrontFacts
  <2>2. /\ Last(scopes[t]) = scopes[t][Len(scopes[t])] /\ Front(scopes[t]) \in Seq(Scope)
        /\ Len(Front(scopes[t])) = Len(scopes[t]) - 1
        /\ DOMAIN Front(scopes[t]) = 1 .. Len(scopes[t]) - 1
        /\ \A i \in 1 .. Len(scopes[t]) - 1 : Front(scopes[t])[i] = scopes[t][i]
    BY <1>1, FrontFacts
  <2> QED BY SMTT(30), <1>1, <1>i, <2>1, <2>2
<1>3. n \in Names[t] /\ n \in AllNames /\ n = scopes[t][I].name /\ activeEvents[n] \in Seq(Nat)
  BY <1>0, <1>2, <1>n, ScopeAt DEF TypeInv, StackInv, Stacked
<1>4. StackInv'
  <2>1. ASSUME NEW u \in Threads, u # t PROVE Stacked(u, scopes[u])'
    BY <1>0, <1>1, <2>1 DEF StackInv, Stacked
  <2>2. Stacked(t, scopes[t])'
    <3>1. Stacked(t, scopes[t])
      BY <1>0 DEF StackInv
    <3>2. Len(scopes'[t]) <= MaxDepth
      BY <1>2, <1>i, <3>1 DEF Stacked
    <3> QED BY <1>1, <1>2, <3>1, <3>2 DEF Stacked
  <2> QED BY <2>1, <2>2 DEF StackInv
<1>5. \A m \in AllNames : \A k \in DOMAIN activeEvents[m] :
        activeEvents[m][k] \in DOMAIN events /\ events[activeEvents[m][k]].name = m
  BY <1>0 DEF ListedInv, OpenEvents, ToSet
<1> DEFINE P == Last(activeEvents[n])
<1>6. activeEvents[n] # << >> =>
        /\ P \in ToSet(activeEvents[n]) /\ P \in DOMAIN events /\ IsInjective(activeEvents'[n])
        /\ activeEvents'[n] = Front(activeEvents[n]) /\ ToSet(activeEvents'[n]) = ToSet(activeEvents[n]) \ {P}
        /\ activeEvents'[n] \in Seq(Nat) /\ activeEvents' = [activeEvents EXCEPT ![n] = activeEvents'[n]]
        /\ events' = [events EXCEPT ![P] = Ended(@)]
  <2>1. ASSUME activeEvents[n] # << >>
        PROVE  /\ activeEvents'[n] = Front(activeEvents[n]) /\ activeEvents' = [activeEvents EXCEPT ![n] = activeEvents'[n]]
               /\ events' = [events EXCEPT ![P] = Ended(@)]
    BY <1>0, <1>3, <1>n, <2>1 DEF end, OpenEvent, Popped, TypeInv
  <2>2. IsInjective(activeEvents[n]) /\ ToSet(activeEvents[n]) = OpenEvents(n)
    BY <1>0, <1>3 DEF ListedInv
  <2>3. ASSUME activeEvents[n] # << >>
        PROVE  /\ P \in ToSet(activeEvents[n]) /\ IsInjective(activeEvents'[n]) /\ activeEvents'[n] \in Seq(Nat)
               /\ ToSet(activeEvents'[n]) = ToSet(activeEvents[n]) \ {P}
    BY SMTT(30), <1>3, <2>1, <2>2, <2>3, FrontSet, FrontFacts
  <2> HIDE DEF P
  <2> QED BY <2>1, <2>2, <2>3 DEF OpenEvents
<1>7. activeEvents[n] = << >> => events' = events /\ activeEvents' = activeEvents
  BY <1>n DEF end
<1> HIDE DEF P
<1>8. \A m \in AllNames : activeEvents[m] \in Seq(Nat) /\ IsInjective(activeEvents[m])
                          /\ ToSet(activeEvents[m]) = OpenEvents(m)
  BY <1>0 DEF ListedInv, TypeInv
<1>9. \A m \in AllNames : m # n => activeEvents'[m] = activeEvents[m]
  BY <1>0, <1>6, <1>7 DEF TypeInv
<1>10. /\ events' \in Seq(Event) /\ DOMAIN events' = DOMAIN events
       /\ \A i \in DOMAIN events :
            /\ events'[i].name = events[i].name /\ events'[i].scope = events[i].scope
            /\ events'[i].start = events[i].start
            /\ events'[i].ended = (events[i].ended \/ (activeEvents[n] # << >> /\ i = P))
  <2>1. events \in Seq(Event) /\ \A i \in DOMAIN events : events[i] \in Event
    BY <1>0 DEF TypeInv
  <2>b. \A i \in DOMAIN events : events[i].ended \in BOOLEAN
    BY <2>1 DEF Event
  <2>2. CASE activeEvents[n] = << >>
    BY <1>7, <2>1, <2>b, <2>2
  <2>3. CASE activeEvents[n] # << >>
    <3>1. P \in DOMAIN events /\ events' = [events EXCEPT ![P] = Ended(@)]
      BY <1>6, <2>3
    <3>2. \A x \in Event : /\ Ended(x) \in Event /\ Ended(x).name = x.name /\ Ended(x).ended = TRUE
                           /\ Ended(x).scope = x.scope /\ Ended(x).start = x.start
      <4> SUFFICES ASSUME NEW x \in Event
                   PROVE  /\ Ended(x) \in Event /\ Ended(x).name = x.name /\ Ended(x).ended = TRUE
                          /\ Ended(x).scope = x.scope /\ Ended(x).start = x.start
        OBVIOUS
      <4>1. now - epoch - x.start \in Int
        BY <1>0 DEF TypeInv, Event
      <4> QED BY <4>1 DEF Ended, Event, elapsed_ms
    <3>4. events' \in Seq(Event) /\ DOMAIN events' = DOMAIN events
          /\ \A i \in DOMAIN events : events'[i] = IF i = P THEN Ended(events[i]) ELSE events[i]
      BY <2>1, <3>1, <3>2
    <3> QED BY <2>1, <2>3, <2>b, <3>2, <3>4
  <2> QED BY <2>2, <2>3
<1>11. TypeInv'
  <2>1. activeEvents' \in [AllNames -> Seq(Nat)]
    BY <1>0, <1>3, <1>6, <1>7 DEF TypeInv
  <2>2. scopes' \in [Threads -> Seq(Scope)]
    BY <1>0, <1>1, <1>2 DEF TypeInv
  <2> QED BY <1>0, <1>1, <1>10, <2>1, <2>2 DEF TypeInv
<1>12. \A m \in AllNames : m # n => OpenEvents(m)' = OpenEvents(m)
  <2>1. activeEvents[n] # << >> => events[P].name = n
    BY <1>3, <1>6, <1>8 DEF OpenEvents
  <2> QED BY <1>10, <2>1 DEF OpenEvents
<1>13. OpenEvents(n)' = IF activeEvents[n] = << >> THEN OpenEvents(n) ELSE OpenEvents(n) \ {P}
  BY <1>10 DEF OpenEvents
<1>14. ListedInv'
  <2> SUFFICES ASSUME NEW m \in AllNames
               PROVE  IsInjective(activeEvents'[m]) /\ ToSet(activeEvents'[m]) = OpenEvents(m)'
    BY DEF ListedInv
  <2>1. CASE m # n
    BY <1>8, <1>9, <1>12, <2>1
  <2>2. CASE m = n
    BY <1>6, <1>7, <1>8, <1>13, <2>2
  <2> QED BY <2>1, <2>2
<1>15. CountInv'
  <2> SUFFICES ASSUME NEW m \in AllNames
               PROVE  IsFiniteSet(ScopesOf(m)') /\ Len(activeEvents'[m]) <= Cardinality(ScopesOf(m)')
    BY DEF CountInv
  <2>1. IsFiniteSet(ScopesOf(m)) /\ Len(activeEvents[m]) <= Cardinality(ScopesOf(m))
    BY <1>0 DEF CountInv
  <2>2. /\ IsFiniteSet(ScopesOf(m)') /\ Cardinality(ScopesOf(m)) \in Nat
        /\ Cardinality(ScopesOf(m)') =
             IF m = Last(scopes[t]).name THEN Cardinality(ScopesOf(m)) - 1
             ELSE Cardinality(ScopesOf(m))
    BY <1>0, <1>1, <1>4, <1>11, <2>1, PopCounts
  <2>3. CASE m # n
    BY <1>9, <1>n, <2>1, <2>2, <2>3
  <2>4. CASE m = n /\ activeEvents[n] = << >>
    <3>1. Cardinality(ScopesOf(m)') \in Nat /\ activeEvents'[m] = << >> /\ Len(<< >>) = 0
      BY <1>7, <2>2, <2>4, FS_CardinalityType
    <3> QED BY <2>2, <3>1
  <2>5. CASE m = n /\ activeEvents[n] # << >>
    <3>1. Len(activeEvents[n]) \in Nat /\ Len(activeEvents'[n]) = Len(activeEvents[n]) - 1
      BY <1>3, <1>6, <2>5, FrontFacts
    <3> QED BY <1>n, <2>1, <2>2, <2>5, <3>1
  <2> QED BY <2>3, <2>4, <2>5
<1>16. ASSUME NEW u \in Threads, NEW m \in Names[u], Own(u, m), u # t PROVE Nested(u, m)'
  <2>1. m # n /\ m \in AllNames
    BY <1>3, <1>16, NamesOf DEF Own
  <2>2. Nested(u, m)
    BY <1>0, <1>16 DEF OwnInv
  <2> QED BY <1>1, <1>5, <1>9, <1>10, <1>16, <2>1, <2>2, NestedSame
<1>17. ASSUME NEW m \in Names[t], Own(t, m) PROVE Nested(t, m)'
  <2>1. Nested(t, m) /\ m \in AllNames
    BY <1>0, <1>17, NamesOf DEF OwnInv
  <2>2. CASE m # n
    <3>1. activeEvents'[m] = activeEvents[m]
      BY <1>9, <2>1, <2>2
    <3>2. ASSUME NEW k \in DOMAIN activeEvents[m], NEW i \in DOMAIN scopes'[t]
          PROVE  Begun(t, m, k, i)' <=> Begun(t, m, k, i)
      <4>1. scopes'[t][i] = scopes[t][i]
        BY <1>2
      <4>2. /\ events'[activeEvents[m][k]].scope = events[activeEvents[m][k]].scope
            /\ events'[activeEvents[m][k]].start = events[activeEvents[m][k]].start
        BY <1>5, <1>10, <2>1
      <4> QED BY <1>1, <3>1, <4>1, <4>2 DEF Begun
    <3>3. \A k \in DOMAIN activeEvents[m] : \E i \in DOMAIN scopes'[t] : Begun(t, m, k, i)'
      <4>1. \A k \in DOMAIN activeEvents[m] : ~Begun(t, m, k, I)
        BY <1>3, <2>2 DEF Begun
      <4> QED BY <1>2, <2>1, <3>2, <4>1 DEF Nested
    <3>4. \A k, l \in DOMAIN activeEvents[m] :
            k < l => events'[activeEvents[m][k]].scope < events'[activeEvents[m][l]].scope
      BY <1>5, <1>10, <2>1 DEF Nested
    <3>5. \A k \in DOMAIN activeEvents[m] : \A i, j \in DOMAIN scopes'[t] :
            Begun(t, m, k, i)' /\ i < j /\ scopes'[t][j].name = m =>
              \E l \in DOMAIN activeEvents[m] : Begun(t, m, l, j)'
      BY <1>2, <2>1, <3>2 DEF Nested
    <3> QED BY <3>1, <3>3, <3>4, <3>5 DEF Nested
  <2>3. CASE m = n /\ activeEvents[n] = << >>
    BY <1>7, <2>3 DEF Nested
  <2>4. CASE m = n /\ activeEvents[n] # << >>
    <3>k. PICK K : K = Len(activeEvents[n])
      OBVIOUS
    <3>1. /\ K \in DOMAIN activeEvents[n] /\ Begun(t, n, K, I)
          /\ \A k \in DOMAIN activeEvents[n], i \in DOMAIN scopes[t] : Begun(t, n, k, i) /\ k < K => i < I
      BY SMTT(30), <1>0, <1>1, <1>3, <1>i, <2>1, <2>4, <3>k, LastIsInnermost
    <3>2. /\ DOMAIN activeEvents'[n] \subseteq DOMAIN activeEvents[n] /\ \A k \in DOMAIN activeEvents'[n] : k < K
          /\ \A k \in DOMAIN activeEvents'[n] : activeEvents'[n][k] = activeEvents[n][k]
          /\ \A k \in DOMAIN activeEvents[n] : k < K => k \in DOMAIN activeEvents'[n]
      <4>1. /\ K \in Nat \ {0} /\ activeEvents'[n] = Front(activeEvents[n]) /\ DOMAIN Front(activeEvents[n]) = 1 .. K - 1
            /\ \A i \in 1 .. K - 1 : Front(activeEvents[n])[i] = activeEvents[n][i]
            /\ DOMAIN activeEvents[n] = 1 .. K
        <5>1. activeEvents[n] \in Seq(Nat) /\ activeEvents[n] # << >> /\ activeEvents'[n] = Front(activeEvents[n])
          BY <1>3, <1>6, <2>4
        <5>2. DOMAIN activeEvents[n] = 1 .. Len(activeEvents[n])
          BY <5>1
        <5> QED BY <3>k, <5>1, <5>2, FrontFacts
      <4> QED BY <4>1
    <3>e. \A k \in DOMAIN activeEvents'[n] :
            /\ events'[activeEvents'[n][k]].scope = events[activeEvents[n][k]].scope
            /\ events'[activeEvents'[n][k]].start = events[activeEvents[n][k]].start
      <4>1. \A k \in DOMAIN activeEvents'[n] : activeEvents'[n][k] = activeEvents[n][k] /\ activeEvents[n][k] \in DOMAIN events
        BY <1>3, <1>5, <3>2
      <4> QED BY <1>10, <4>1
    <3>3. \A k \in DOMAIN activeEvents'[n], i \in DOMAIN scopes'[t] : Begun(t, n, k, i)' <=> Begun(t, n, k, i)
      BY <1>1, <1>2, <3>e DEF Begun
    <3>4. \A k \in DOMAIN activeEvents'[n] : \E i \in DOMAIN scopes'[t] : Begun(t, n, k, i)'
      <4> SUFFICES ASSUME NEW k \in DOMAIN activeEvents'[n]
                   PROVE  \E i \in DOMAIN scopes'[t] : Begun(t, n, k, i)'
        OBVIOUS
      <4>1. PICK i \in DOMAIN scopes[t] : Begun(t, n, k, i)
        BY <2>1, <2>4, <3>2 DEF Nested
      <4>2. i # I
        BY <1>2, <3>1, <3>2, <4>1
      <4> QED BY <1>2, <3>3, <4>1, <4>2
    <3>5. \A k, l \in DOMAIN activeEvents'[n] :
            k < l => events'[activeEvents'[n][k]].scope < events'[activeEvents'[n][l]].scope
      BY <2>1, <2>4, <3>2, <3>e DEF Nested
    <3>6. ASSUME NEW k \in DOMAIN activeEvents'[n], NEW i \in DOMAIN scopes'[t],
                 NEW j \in DOMAIN scopes'[t], Begun(t, n, k, i)', i < j, scopes'[t][j].name = n
          PROVE  \E l \in DOMAIN activeEvents'[n] : Begun(t, n, l, j)'
      <4>1. Begun(t, n, k, i) /\ scopes[t][j].name = n /\ i \in DOMAIN scopes[t]
            /\ j \in DOMAIN scopes[t] /\ j < I /\ k \in DOMAIN activeEvents[n]
        BY <1>2, <3>2, <3>3, <3>6
      <4>2. PICK l \in DOMAIN activeEvents[n] : Begun(t, n, l, j)
        BY <2>1, <2>4, <3>6, <4>1 DEF Nested
      <4>3. l \in DOMAIN activeEvents'[n]
        <5>1. l # K
          <6>1. scopes[t][j].id < scopes[t][I].id /\ scopes[t][j].id \in Nat /\ scopes[t][I].id \in Nat
            BY <1>0, <1>2, <4>1, ScopeAt DEF StackInv, Stacked
          <6> QED BY <3>1, <4>2, <6>1 DEF Begun
        <5>2. l < K
          <6>1. DOMAIN activeEvents[n] = 1 .. K /\ K \in Nat
            BY <1>3, <3>k
          <6> QED BY <5>1, <6>1
        <5> QED BY <3>2, <5>2
      <4> QED BY <3>3, <4>2, <4>3
    <3> QED BY <2>4, <3>4, <3>5, <3>6 DEF Nested
  <2> QED BY <2>2, <2>3, <2>4
<1>18. OwnInv'
  BY <1>16, <1>17 DEF OwnInv, Own
<1> QED BY <1>4, <1>11, <1>14, <1>15, <1>18 DEF TraceInv

-----------------------------------------------------------------------------
(* The other steps, and the theorems.                                      *)

(* A step that appends an event nobody has open, or none.                  *)
LEMMA InstantKeeps ==
  ASSUME TraceInv, NEW n \in AllNames, instant(n)
  PROVE  TraceInv'
<1>0. TypeInv /\ StackInv /\ ListedInv /\ CountInv /\ OwnInv
  BY DEF TraceInv
<1> DEFINE e == [name |-> n, start |-> now - epoch, duration |-> 0, scope |-> 0, ended |-> TRUE]
<1>1. e \in Event /\ e.ended = TRUE
  BY <1>0 DEF TypeInv, Event
<1>2. events' = Append(events, e) /\ UNCHANGED <<activeEvents, epoch, now, scopes, opened>>
  BY DEF instant, elapsed_ms
<1>3. /\ events' \in Seq(Event) /\ DOMAIN events' = DOMAIN events \cup {Len(events) + 1}
      /\ events'[Len(events) + 1] = e
      /\ \A i \in DOMAIN events : events'[i] = events[i]
  <2>1. events \in Seq(Event)
    BY <1>0 DEF TypeInv
  <2> HIDE DEF e
  <2> QED BY <1>1, <1>2, <2>1
<1>4. \A m \in AllNames : OpenEvents(m)' = OpenEvents(m) /\ ScopesOf(m)' = ScopesOf(m)
  <2> HIDE DEF e
  <2>1. \A m \in AllNames : ScopesOf(m)' = ScopesOf(m)
    BY <1>2 DEF ScopesOf
  <2>2. Len(events) + 1 \notin DOMAIN events
    BY <1>0 DEF TypeInv
  <2>3. \A m \in AllNames : OpenEvents(m)' = OpenEvents(m)
    BY <1>1, <1>3, <2>2 DEF OpenEvents
  <2> QED BY <2>1, <2>3
<1>5. \A m \in AllNames : \A k \in DOMAIN activeEvents[m] : activeEvents[m][k] \in DOMAIN events
  BY <1>0 DEF ListedInv, OpenEvents, ToSet
<1>6. OwnInv'
  <2>1. \A u \in Threads : \A m \in Names[u] : Own(u, m) => Nested(u, m)'
    BY <1>0, <1>2, <1>3, <1>5, NamesOf, NestedSame DEF OwnInv
  <2> QED BY <2>1 DEF OwnInv, Own
<1>7. TypeInv' /\ StackInv'
  BY <1>0, <1>2, <1>3 DEF TypeInv, StackInv, Stacked
<1>8. ListedInv' /\ CountInv'
  BY <1>0, <1>2, <1>4 DEF ListedInv, CountInv
<1> QED BY <1>6, <1>7, <1>8 DEF TraceInv

LEMMA EmptyList ==
  /\ << >> \in Seq(Nat) /\ IsInjective(<< >>) /\ ToSet(<< >>) = {} /\ Len(<< >>) = 0 /\ DOMAIN << >> = {}
BY DEF IsInjective, ToSet

LEMMA ClearKeeps ==
  ASSUME TraceInv, clear
  PROVE  TraceInv'
<1>0. TypeInv /\ StackInv /\ ListedInv /\ CountInv /\ OwnInv
  BY DEF TraceInv
<1>1. /\ events' = << >> /\ epoch' = now /\ now' = now /\ scopes' = scopes /\ opened' = opened
      /\ activeEvents' \in [AllNames -> Seq(Nat)]
      /\ \A m \in AllNames : activeEvents'[m] = << >>
  BY EmptyList DEF clear, Cleared
<1>2. TypeInv' /\ StackInv'
  BY <1>0, <1>1 DEF TypeInv, StackInv, Stacked
<1>3. ListedInv'
  BY <1>1, EmptyList DEF ListedInv, OpenEvents
<1>4. CountInv'
  <2>1. \A m \in AllNames : /\ ScopesOf(m)' = ScopesOf(m) /\ IsFiniteSet(ScopesOf(m))
                            /\ Cardinality(ScopesOf(m)) \in Nat
    BY <1>0, <1>1, FS_CardinalityType DEF ScopesOf, CountInv
  <2> QED BY <1>1, <2>1, EmptyList DEF CountInv
<1>5. OwnInv'
  BY <1>1, NamesOf, EmptyList DEF OwnInv, Nested
<1> QED BY <1>2, <1>3, <1>4, <1>5 DEF TraceInv

LEMMA QuietKeeps ==
  ASSUME TraceInv, now' \in Nat, UNCHANGED <<events, activeEvents, epoch, scopes, opened>>
  PROVE  TraceInv'
<1>0. TypeInv /\ StackInv /\ ListedInv /\ CountInv /\ OwnInv
  BY DEF TraceInv
<1>1. TypeInv' /\ StackInv' /\ ListedInv' /\ CountInv'
  BY <1>0 DEF TypeInv, StackInv, Stacked, ListedInv, CountInv, OpenEvents, ScopesOf
<1>2. \A u \in Threads : \A m \in Names[u] : Own(u, m) => Nested(u, m)'
  BY <1>0, NamesOf, NestedSame DEF OwnInv
<1> QED BY <1>1, <1>2 DEF TraceInv, OwnInv, Own

LEMMA TraceInvInit == Init => TraceInv
<1> SUFFICES ASSUME Init PROVE TraceInv
  OBVIOUS
<1>1. TypeInv
  BY DEF Init, TypeInv
<1>2. StackInv
  BY DEF Init, StackInv, Stacked
<1>3. ListedInv
  BY EmptyList DEF Init, ListedInv, OpenEvents
<1>4. CountInv
  <2>1. \A m \in AllNames : ScopesOf(m) = {}
    <3>1. \A t \in Threads : Len(scopes[t]) = 0
      BY DEF Init
    <3> QED BY <3>1 DEF ScopesOf
  <2>2. \A m \in AllNames : activeEvents[m] = << >>
    BY DEF Init
  <2>3. \A m \in AllNames : IsFiniteSet(ScopesOf(m)) /\ Cardinality(ScopesOf(m)) = 0
    BY <2>1, FS_EmptySet
  <2> QED BY <2>2, <2>3, EmptyList DEF CountInv
<1>5. OwnInv
  BY NamesOf, EmptyList DEF Init, OwnInv, Nested
<1> QED BY <1>1, <1>2, <1>3, <1>4, <1>5 DEF TraceInv

LEMMA TraceInvInductive == TraceInv /\ [Next]_vars => TraceInv'
<1> SUFFICES ASSUME TraceInv, [Next]_vars PROVE TraceInv'
  OBVIOUS
<1>1. ASSUME NEW t \in Threads, end(t) PROVE TraceInv'
  BY <1>1, EndKeeps
<1>2. ASSUME NEW t \in Threads, NEW n \in Names[t], begin(t, n) PROVE TraceInv'
  BY <1>2, BeginKeeps
<1>3. ASSUME NEW n \in AllNames, instant(n) PROVE TraceInv'
  BY <1>3, InstantKeeps
<1>4. CASE clear
  BY <1>4, ClearKeeps
<1>5. now \in Nat
  BY DEF TraceInv, TypeInv
<1>6. CASE Tick
  BY <1>5, <1>6, QuietKeeps DEF Tick
<1>7. CASE UNCHANGED vars
  BY <1>5, <1>7, QuietKeeps DEF vars
<1> QED BY <1>1, <1>2, <1>3, <1>4, <1>6, <1>7 DEF Next

LEMMA TraceInvHolds == Spec => []TraceInv
<1>1. Init => TraceInv
  BY TraceInvInit
<1>2. TraceInv /\ [Next]_vars => TraceInv'
  BY TraceInvInductive
<1> QED BY <1>1, <1>2, PTL DEF Spec

(* TraceRecorder::end: an event is open only as long as some scope of its  *)
(* name is, for any number of threads and whoever calls clear() when.      *)
THEOREM NothingLeftOpen == Spec => []NoEventLeftOpen
<1>1. TraceInv => NoEventLeftOpen
  <2> SUFFICES ASSUME TraceInv, NEW name \in AllNames
               PROVE  Cardinality(OpenEvents(name)) <= Cardinality(ScopesOf(name))
    BY DEF NoEventLeftOpen
  <2>1. /\ activeEvents[name] \in Seq(Nat) /\ IsInjective(activeEvents[name])
        /\ ToSet(activeEvents[name]) = OpenEvents(name)
        /\ Len(activeEvents[name]) <= Cardinality(ScopesOf(name))
    BY DEF TraceInv, TypeInv, ListedInv, CountInv
  <2> QED BY <2>1, SetCount
<1> QED BY <1>1, TraceInvHolds, PTL

(* TraceRecorder::end: a scope whose name no other thread uses ends the    *)
(* event it began, and the event gets the time the scope took.             *)
THEOREM ScopeEndsOwn == Spec => EndsOwnEvent
<1> DEFINE A == \A t \in Threads : end(t) /\ Own(t, Last(scopes[t]).name) =>
                  \A i \in DOMAIN events :
                    (~events[i].ended /\ events'[i].ended) =>
                      /\ events[i].scope = Last(scopes[t]).id
                      /\ events'[i].duration = now - Last(scopes[t]).at
<1>1. TraceInv => A
  <2> SUFFICES ASSUME TraceInv, NEW t \in Threads, end(t), Own(t, Last(scopes[t]).name),
                      NEW p \in DOMAIN events, ~events[p].ended, events'[p].ended
               PROVE  /\ events[p].scope = Last(scopes[t]).id
                      /\ events'[p].duration = now - Last(scopes[t]).at
    OBVIOUS
  <2>0. TypeInv /\ StackInv /\ ListedInv /\ OwnInv
    BY DEF TraceInv
  <2>1. PICK I, n : I = Len(scopes[t]) /\ n = Last(scopes[t]).name
    OBVIOUS
  <2>2. /\ scopes[t] \in Seq(Scope) /\ scopes[t] # << >> /\ Last(scopes[t]) = scopes[t][I]
        /\ I \in DOMAIN scopes[t]
    <3>1. scopes[t] \in Seq(Scope) /\ scopes[t] # << >>
      BY <2>0 DEF TypeInv, end
    <3>2. Len(scopes[t]) \in Nat \ {0} /\ DOMAIN scopes[t] = 1 .. Len(scopes[t])
      BY <3>1, FrontFacts
    <3>3. Last(scopes[t]) = scopes[t][Len(scopes[t])]
      BY <3>1, FrontFacts
    <3> QED BY <2>1, <3>1, <3>2, <3>3
  <2>3. n \in Names[t] /\ n \in AllNames /\ n = scopes[t][I].name /\ activeEvents[n] \in Seq(Nat)
    BY <2>0, <2>1, <2>2, ScopeAt DEF TypeInv, StackInv, Stacked
  <2>4. activeEvents[n] # << >> /\ events' = [events EXCEPT ![Last(activeEvents[n])] = Ended(@)]
    BY <2>1 DEF end, OpenEvent
  <2>5. p = Last(activeEvents[n])
    BY <2>4
  <2>6. PICK K : K = Len(activeEvents[n])
    OBVIOUS
  <2>7. Begun(t, n, K, I)
    BY <2>0, <2>1, <2>2, <2>3, <2>4, <2>6, LastIsInnermost DEF OwnInv
  <2>8. p = activeEvents[n][K]
    BY <2>3, <2>4, <2>5, <2>6, FrontFacts
  <2>9. events[p].scope = scopes[t][I].id /\ events[p].start = scopes[t][I].at - epoch
    BY <2>7, <2>8 DEF Begun
  <2>10. events[p] \in Event /\ events'[p] = Ended(events[p])
    <3>1. events \in Seq(Event)
      BY <2>0 DEF TypeInv
    <3> QED BY <2>4, <2>5, <3>1
  <2>11. events'[p].duration = (now - epoch) - events[p].start
    BY <2>10 DEF Ended, elapsed_ms, Event
  <2>12. now \in Nat /\ epoch \in Nat /\ scopes[t][I].at \in Nat
    BY <2>0, <2>2, ScopeAt DEF TypeInv
  <2> QED BY <2>2, <2>9, <2>11, <2>12
<1>2. TraceInv => [A]_vars
  BY <1>1
<1> QED BY <1>2, TraceInvHolds, PTL DEF EndsOwnEvent

-----------------------------------------------------------------------------
(* Sums over a finite set.  Some(s) is the element a fold takes first.     *)
Some(s) == CHOOSE x \in s : TRUE

(* g sums w over the subsets of V, in the order in which a fold does it.   *)
SumAt(g, w, s) == IF s = {} THEN 0 ELSE w[Some(s)] + g[s \ {Some(s)}]
Summing(g, w, V) ==
  g \in [SUBSET V -> Nat] /\ \A s \in SUBSET V : g[s] = SumAt(g, w, s)

Total(w, V) == (CHOOSE g : Summing(g, w, V))[V]

LEMMA SomeIn == ASSUME NEW s, s # {} PROVE Some(s) \in s
BY DEF Some

LEMMA Smaller ==
  ASSUME NEW V, IsFiniteSet(V), NEW s \in SUBSET V, s # {}
  PROVE  /\ Some(s) \in s /\ Some(s) \in V /\ s \ {Some(s)} \in SUBSET V
         /\ Cardinality(s) \in Nat /\ Cardinality(s \ {Some(s)}) = Cardinality(s) - 1
<1>1. Some(s) \in s /\ IsFiniteSet(s)
  BY SomeIn, FS_Subset
<1>2. Cardinality(s \ {Some(s)}) = Cardinality(s) - 1
  BY <1>1, FS_RemoveElement
<1> QED BY <1>1, <1>2, FS_CardinalityType

LEMMA SumExists ==
  ASSUME NEW V, IsFiniteSet(V), NEW w \in [V -> Nat]
  PROVE  \E g : Summing(g, w, V)
<1> DEFINE Upto(k) == \E g \in [SUBSET V -> Nat] :
                        \A s \in SUBSET V : Cardinality(s) <= k => g[s] = SumAt(g, w, s)
           B == {k \in Nat : ~Upto(k)}
<1>c. \A s \in SUBSET V : Cardinality(s) \in Nat /\ (Cardinality(s) <= 0 => s = {})
  BY FS_Subset, FS_CardinalityType, FS_EmptySet
<1>1. Upto(0)
  <2> DEFINE g == [s \in SUBSET V |-> 0]
  <2>1. g \in [SUBSET V -> Nat] /\ \A s \in SUBSET V : g[s] = 0
    OBVIOUS
  <2> HIDE DEF g
  <2>2. \A s \in SUBSET V : Cardinality(s) <= 0 => g[s] = SumAt(g, w, s)
    BY <1>c, <2>1 DEF SumAt
  <2> QED BY <2>1, <2>2
<1>2. ASSUME NEW k \in Nat, Upto(k) PROVE Upto(k + 1)
  <2>1. PICK g \in [SUBSET V -> Nat] :
          \A s \in SUBSET V : Cardinality(s) <= k => g[s] = SumAt(g, w, s)
    BY <1>2
  <2> DEFINE h == [s \in SUBSET V |-> SumAt(g, w, s)]
  <2>2. h \in [SUBSET V -> Nat]
    <3> SUFFICES ASSUME NEW s \in SUBSET V PROVE SumAt(g, w, s) \in Nat
      OBVIOUS
    <3>1. CASE s = {}
      BY <3>1 DEF SumAt
    <3>2. CASE s # {}
      <4>1. Some(s) \in V /\ s \ {Some(s)} \in SUBSET V
        BY <3>2, Smaller
      <4>2. w[Some(s)] \in Nat /\ g[s \ {Some(s)}] \in Nat
        BY <4>1
      <4> QED BY <3>2, <4>2 DEF SumAt
    <3> QED BY <3>1, <3>2
  <2>3. ASSUME NEW s \in SUBSET V, Cardinality(s) <= k + 1 PROVE h[s] = SumAt(h, w, s)
    <3>1. h[s] = SumAt(g, w, s)
      OBVIOUS
    <3>2. CASE s = {}
      BY <3>1, <3>2 DEF SumAt
    <3>3. CASE s # {}
      <4> DEFINE p == s \ {Some(s)}
      <4>1. p \in SUBSET V /\ Cardinality(p) = Cardinality(s) - 1 /\ Cardinality(s) \in Nat
        BY <3>3, Smaller
      <4>2. Cardinality(p) <= k
        <5> HIDE DEF p
        <5> QED BY <2>3, <4>1
      <4>3. g[p] = SumAt(g, w, p) /\ h[p] = SumAt(g, w, p)
        <5> HIDE DEF p
        <5> QED BY <2>1, <4>1, <4>2
      <4> HIDE DEF h
      <4> QED BY <3>1, <3>3, <4>3 DEF SumAt
    <3> QED BY <3>2, <3>3
  <2> HIDE DEF h
  <2> QED BY <2>2, <2>3
<1> HIDE DEF Upto
<1>3. B = {}
  <2> SUFFICES ASSUME B # {} PROVE FALSE
    OBVIOUS
  <2>1. PICK k \in B : \A l \in B : k <= l
    <3>1. B \subseteq Nat
      OBVIOUS
    <3> HIDE DEF B
    <3> QED BY <3>1, LeastOf
  <2>2. k \in Nat /\ ~Upto(k)
    OBVIOUS
  <2>3. k # 0
    BY <1>1, <2>2
  <2>4. k - 1 \in Nat /\ (k - 1) + 1 = k /\ ~(k <= k - 1)
    BY <2>2, <2>3
  <2>5. k - 1 \notin B
    BY <2>1, <2>4
  <2>6. Upto(k - 1)
    BY <2>4, <2>5
  <2> QED BY <1>2, <2>2, <2>4, <2>6
<1>4. Upto(Cardinality(V))
  <2>1. Cardinality(V) \in Nat
    BY FS_CardinalityType
  <2> QED BY <1>3, <2>1
<1>5. PICK g \in [SUBSET V -> Nat] :
        \A s \in SUBSET V : Cardinality(s) <= Cardinality(V) => g[s] = SumAt(g, w, s)
  BY <1>4 DEF Upto
<1>6. \A s \in SUBSET V : Cardinality(s) <= Cardinality(V)
  BY FS_Subset
<1> QED BY <1>5, <1>6 DEF Summing

Follows(g, w, V) == \A s \in SUBSET V : g[s] = SumAt(g, w, s)
Alike(g, h, V)   == \A s \in SUBSET V : g[s] = h[s]

LEMMA SumUnique ==
  ASSUME NEW V, IsFiniteSet(V), NEW w, NEW g, NEW h, Follows(g, w, V), Follows(h, w, V)
  PROVE  Alike(g, h, V)
<1>0. /\ \A s \in SUBSET V : g[s] = SumAt(g, w, s)
      /\ \A s \in SUBSET V : h[s] = SumAt(h, w, s)
  BY DEF Follows
<1> SUFFICES \A s \in SUBSET V : g[s] = h[s]
  BY DEF Alike
<1> DEFINE B == {Cardinality(s) : s \in {u \in SUBSET V : g[u] # h[u]}}
<1>1. B = {}
  <2> SUFFICES ASSUME B # {} PROVE FALSE
    OBVIOUS
  <2>1. PICK k \in B : \A l \in B : k <= l
    <3>1. B \subseteq Nat
      BY FS_Subset, FS_CardinalityType
    <3> HIDE DEF B
    <3> QED BY <3>1, LeastOf
  <2>2. PICK s \in SUBSET V : k = Cardinality(s) /\ g[s] # h[s]
    OBVIOUS
  <2>3. s # {}
    BY <1>0, <2>2 DEF SumAt
  <2>4. /\ s \ {Some(s)} \in SUBSET V /\ Cardinality(s) \in Nat
        /\ Cardinality(s \ {Some(s)}) = Cardinality(s) - 1
    BY <2>3, Smaller
  <2>5. Cardinality(s \ {Some(s)}) \notin B
    <3>1. ~(k <= Cardinality(s \ {Some(s)}))
      BY <2>2, <2>4
    <3> HIDE DEF B
    <3> QED BY <2>1, <3>1
  <2>6. g[s \ {Some(s)}] = h[s \ {Some(s)}]
    BY <2>4, <2>5
  <2> QED BY <1>0, <2>2, <2>3, <2>6 DEF SumAt
<1> QED BY <1>1

(* The sum is what any function with its recursion says.                   *)
LEMMA SumIs ==
  ASSUME NEW V, IsFiniteSet(V), NEW w \in [V -> Nat], NEW g, Follows(g, w, V)
  PROVE  g[V] = Total(w, V) /\ Total(w, V) \in Nat
<1> DEFINE h == CHOOSE f : Summing(f, w, V)
<1>1. Summing(h, w, V)
  BY SumExists
<1>2. Total(w, V) = h[V]
  BY DEF Total
<1> HIDE DEF h
<1>3. h \in [SUBSET V -> Nat] /\ Follows(h, w, V)
  BY <1>1 DEF Summing, Follows
<1>4. \A s \in SUBSET V : g[s] = h[s]
  <2>1. Alike(g, h, V)
    BY <1>3, SumUnique
  <2> QED BY <2>1 DEF Alike
<1> QED BY <1>2, <1>3, <1>4

LEMMA SumType ==
  ASSUME NEW V, IsFiniteSet(V), NEW w \in [V -> Nat] PROVE Total(w, V) \in Nat
<1>1. PICK g : Summing(g, w, V)
  BY SumExists
<1>2. Follows(g, w, V)
  BY <1>1 DEF Summing, Follows
<1> QED BY <1>2, SumIs

Runs(g, w, V) ==
  /\ g \in [SUBSET V -> Nat] /\ g[V] = Total(w, V)
  /\ \A s \in SUBSET V : g[s] = SumAt(g, w, s)

LEMMA SumRuns ==
  ASSUME NEW V, IsFiniteSet(V), NEW w \in [V -> Nat]
  PROVE  \E g : Runs(g, w, V)
<1>1. PICK g : Summing(g, w, V)
  BY SumExists
<1>2. g \in [SUBSET V -> Nat] /\ \A s \in SUBSET V : g[s] = SumAt(g, w, s)
  BY <1>1 DEF Summing
<1>3. g[V] = Total(w, V)
  <2>1. Follows(g, w, V)
    BY <1>2 DEF Follows
  <2> QED BY <2>1, SumIs
<1> QED BY <1>2, <1>3 DEF Runs

AddUp(w, x, y, V) ==
  /\ w \in [V -> Nat] /\ x \in [V -> Nat] /\ y \in [V -> Nat]
  /\ \A v \in V : y[v] = w[v] + x[v]

LEMMA SumOfSums ==
  ASSUME NEW V, IsFiniteSet(V), NEW w, NEW x, NEW y, AddUp(w, x, y, V)
  PROVE  Total(y, V) = Total(w, V) + Total(x, V)
<1>0. /\ w \in [V -> Nat] /\ x \in [V -> Nat] /\ y \in [V -> Nat]
      /\ \A v \in V : y[v] = w[v] + x[v]
  BY DEF AddUp
<1>g. PICK g : Runs(g, w, V)
  BY <1>0, SumRuns
<1>h. PICK h : Runs(h, x, V)
  BY <1>0, SumRuns
<1>1. /\ g \in [SUBSET V -> Nat] /\ g[V] = Total(w, V)
      /\ \A s \in SUBSET V : g[s] = SumAt(g, w, s)
  BY <1>g DEF Runs
<1>2. /\ h \in [SUBSET V -> Nat] /\ h[V] = Total(x, V)
      /\ \A s \in SUBSET V : h[s] = SumAt(h, x, s)
  BY <1>h DEF Runs
<1> DEFINE f == [s \in SUBSET V |-> g[s] + h[s]]
<1>f. \A s \in SUBSET V : f[s] = g[s] + h[s]
  OBVIOUS
<1> HIDE DEF f
<1>3. ASSUME NEW s \in SUBSET V PROVE f[s] = SumAt(f, y, s)
  <2>1. f[s] = g[s] + h[s] /\ g[s] = SumAt(g, w, s) /\ h[s] = SumAt(h, x, s)
    BY <1>1, <1>2, <1>f
  <2>2. CASE s = {}
    BY <2>1, <2>2 DEF SumAt
  <2>3. CASE s # {}
    <3> DEFINE e == Some(s)  q == s \ {e}
    <3>1. e \in V /\ q \in SUBSET V
      BY <2>3, Smaller
    <3>2. f[s] = (w[e] + g[q]) + (x[e] + h[q])
      BY <2>1, <2>3 DEF SumAt
    <3>3. SumAt(f, y, s) = y[e] + f[q]
      BY <2>3 DEF SumAt
    <3> HIDE DEF e, q
    <3>4. f[q] = g[q] + h[q] /\ g[q] \in Nat /\ h[q] \in Nat
      BY <1>1, <1>2, <1>f, <3>1
    <3>5. y[e] = w[e] + x[e] /\ w[e] \in Nat /\ x[e] \in Nat
      BY <1>0, <3>1
    <3> QED BY <3>2, <3>3, <3>4, <3>5
  <2> QED BY <2>2, <2>3
<1>4. f[V] = Total(y, V)
  <2>1. Follows(f, y, V)
    BY <1>3 DEF Follows
  <2> QED BY <1>0, <2>1, SumIs
<1> QED BY <1>1, <1>2, <1>4, <1>f

(* The function that is c at v and 0 elsewhere.                            *)
Only(V, v, c) == [x \in V |-> IF x = v THEN c ELSE 0]

LEMMA SumOfOne ==
  ASSUME NEW V, IsFiniteSet(V), NEW v, NEW c \in Nat
  PROVE  Only(V, v, c) \in [V -> Nat] /\ Total(Only(V, v, c), V) = IF v \in V THEN c ELSE 0
<1> DEFINE w == Only(V, v, c)
           g == [s \in SUBSET V |-> IF v \in s THEN c ELSE 0]
<1>1. w \in [V -> Nat] /\ \A x \in V : w[x] = IF x = v THEN c ELSE 0
  BY DEF Only
<1>2. \A s \in SUBSET V : g[s] = IF v \in s THEN c ELSE 0
  OBVIOUS
<1> HIDE DEF w, g
<1>3. ASSUME NEW s \in SUBSET V PROVE g[s] = SumAt(g, w, s)
  <2>1. CASE s = {}
    BY <1>2, <2>1 DEF SumAt
  <2>2. CASE s # {}
    <3>1. Some(s) \in s /\ Some(s) \in V /\ s \ {Some(s)} \in SUBSET V
      BY <2>2, Smaller
    <3>2. SumAt(g, w, s) = w[Some(s)] + g[s \ {Some(s)}]
      BY <2>2 DEF SumAt
    <3>3. CASE Some(s) = v
      <4>1. w[Some(s)] = c /\ g[s \ {Some(s)}] = 0 /\ g[s] = c
        BY <1>1, <1>2, <3>1, <3>3
      <4> QED BY <3>2, <4>1
    <3>4. CASE Some(s) # v
      <4>1. w[Some(s)] = 0 /\ g[s \ {Some(s)}] = g[s] /\ g[s] \in Nat
        BY <1>1, <1>2, <3>1, <3>4
      <4> QED BY <3>2, <4>1
    <3> QED BY <3>3, <3>4
  <2> QED BY <2>1, <2>2
<1>4. g[V] = Total(w, V)
  <2>1. Follows(g, w, V)
    BY <1>3 DEF Follows
  <2> QED BY <1>1, <2>1, SumIs
<1> QED BY <1>1, <1>2, <1>4 DEF w

(* A sum is at least each of its terms.                                    *)
LEMMA SumBounds ==
  ASSUME NEW V, IsFiniteSet(V), NEW w \in [V -> Nat], NEW v \in V
  PROVE  w[v] <= Total(w, V)
<1> DEFINE x == [u \in V |-> IF u = v THEN 0 ELSE w[u]]
           o == Only(V, v, w[v])
<1>1. x \in [V -> Nat] /\ o \in [V -> Nat] /\ w[v] \in Nat /\ Total(o, V) = w[v]
  BY SumOfOne
<1>2. \A u \in V : w[u] = o[u] + x[u]
  BY DEF Only
<1> HIDE DEF x, o
<1>3. Total(w, V) = Total(o, V) + Total(x, V)
  BY <1>1, <1>2, SumOfSums DEF AddUp
<1>4. Total(x, V) \in Nat
  BY <1>1, SumType
<1> QED BY <1>1, <1>3, <1>4

-----------------------------------------------------------------------------
(* The folds of Metrics are such sums.                                     *)
Weighted(o) == [v \in Values |-> v * o[v]]

LEMMA ValueFacts ==
  /\ IsFiniteSet(Values) /\ Values \subseteq Nat \ {0} /\ Infinity \in Nat
  /\ \A v \in Values : v < Infinity
BY ValuesAssumption DEF ValuesAssumption, M!ValuesAssumption, M!IsFiniteSet, IsFiniteSet

LEMMA FoldIsSum ==
  ASSUME NEW o \in [Values -> Nat]
  PROVE  M!MapThenSumSet(LAMBDA v : o[v], Values) = Total(o, Values)
<1> DEFINE h == CHOOSE f : f = [s \in SUBSET Values |->
                  IF s = {} THEN 0
                  ELSE LET x == CHOOSE x \in s : TRUE IN o[x] + f[s \ {x}]]
<1>1. M!MapThenSumSet(LAMBDA v : o[v], Values) = h[Values]
  BY DEF M!MapThenSumSet, M!MapThenFoldSet
<1>g. PICK g : Runs(g, o, Values)
  BY SumRuns, ValueFacts
<1>2. g \in [SUBSET Values -> Nat] /\ \A s \in SUBSET Values : g[s] = SumAt(g, o, s)
  BY <1>g DEF Runs
<1>3. g = [s \in SUBSET Values |->
            IF s = {} THEN 0 ELSE LET x == CHOOSE x \in s : TRUE IN o[x] + g[s \ {x}]]
  <2>1. \A s \in SUBSET Values : SumAt(g, o, s) =
           IF s = {} THEN 0 ELSE LET x == CHOOSE x \in s : TRUE IN o[x] + g[s \ {x}]
    BY DEF SumAt, Some
  <2> QED BY <1>2, <2>1
<1>4. h = [s \in SUBSET Values |->
            IF s = {} THEN 0 ELSE LET x == CHOOSE x \in s : TRUE IN o[x] + h[s \ {x}]]
  BY <1>3
<1> HIDE DEF h
<1>5. \A s \in SUBSET Values : h[s] = SumAt(h, o, s)
  BY <1>4 DEF SumAt, Some
<1>6. Follows(h, o, Values)
  BY <1>5 DEF Follows
<1> QED BY <1>1, <1>6, SumIs, ValueFacts

LEMMA FoldIsWeightedSum ==
  ASSUME NEW o \in [Values -> Nat]
  PROVE  /\ Weighted(o) \in [Values -> Nat]
         /\ M!MapThenSumSet(LAMBDA v : v * o[v], Values) = Total(Weighted(o), Values)
<1> DEFINE w == Weighted(o)
           h == CHOOSE f : f = [s \in SUBSET Values |->
                  IF s = {} THEN 0
                  ELSE LET x == CHOOSE x \in s : TRUE IN x * o[x] + f[s \ {x}]]
<1>0. w \in [Values -> Nat] /\ \A v \in Values : w[v] = v * o[v]
  <2>1. \A a \in Nat, b \in Nat : a * b \in Nat
    OBVIOUS
  <2>2. \A v \in Values : v * o[v] \in Nat
    BY <2>1, ValueFacts
  <2> QED BY <2>2 DEF Weighted
<1>1. M!MapThenSumSet(LAMBDA v : v * o[v], Values) = h[Values]
  BY DEF M!MapThenSumSet, M!MapThenFoldSet
<1> HIDE DEF w
<1>g. PICK g : Runs(g, w, Values)
  BY <1>0, SumRuns, ValueFacts
<1>2. g \in [SUBSET Values -> Nat] /\ \A s \in SUBSET Values : g[s] = SumAt(g, w, s)
  BY <1>g DEF Runs
<1>s. ASSUME NEW f, NEW s \in SUBSET Values
      PROVE  SumAt(f, w, s) =
           IF s = {} THEN 0 ELSE LET x == CHOOSE x \in s : TRUE IN x * o[x] + f[s \ {x}]
  <2>1. s # {} => Some(s) \in Values
    BY SomeIn
  <2>2. s # {} => w[Some(s)] = Some(s) * o[Some(s)]
    BY <1>0, <2>1
  <2> QED BY <2>2 DEF SumAt, Some
<1>3. g = [s \in SUBSET Values |->
            IF s = {} THEN 0 ELSE LET x == CHOOSE x \in s : TRUE IN x * o[x] + g[s \ {x}]]
  BY <1>2, <1>s
<1>4. h = [s \in SUBSET Values |->
            IF s = {} THEN 0 ELSE LET x == CHOOSE x \in s : TRUE IN x * o[x] + h[s \ {x}]]
  BY <1>3
<1> HIDE DEF h
<1>5. ASSUME NEW s \in SUBSET Values PROVE h[s] = SumAt(h, w, s)
  <2>1. SumAt(h, w, s) =
           IF s = {} THEN 0 ELSE LET x == CHOOSE x \in s : TRUE IN x * o[x] + h[s \ {x}]
    BY <1>s
  <2> QED BY <1>4, <2>1
<1>6. Follows(h, w, Values)
  BY <1>5 DEF Follows
<1> QED BY <1>0, <1>1, <1>6, SumIs, ValueFacts DEF w

-----------------------------------------------------------------------------
(* Metrics.  d is the summary of observations o, o[v] being how often v    *)
(* was observed.                                                           *)
Seen(o) == {v \in Values : o[v] > 0}

Least(x, S)    == x \in S /\ \A y \in S : x <= y
Greatest(x, S) == x \in S /\ \A y \in S : y <= x

Exact(d, o) ==
  /\ d = [count |-> d.count, sum |-> d.sum, min |-> d.min, max |-> d.max]
  /\ d.count = Total(o, Values) /\ d.sum = Total(Weighted(o), Values)
  /\ Least(d.min, Seen(o) \cup {Infinity}) /\ Greatest(d.max, Seen(o) \cup {0})

Calling(c) ==
  /\ c.pc \in {"none", "lock", "copied", "add"}
  /\ c = [pc |-> c.pc, into |-> c.into, from |-> c.from, snapshot |-> c.snapshot,
          values |-> c.values]
  /\ c.values \in [Values -> Nat] /\ Exact(c.snapshot, c.values)
  /\ c.pc # "none" => c.into \in Objects /\ c.from \in Objects

MetricsInv ==
  /\ DOMAIN data = Objects /\ DOMAIN call = Threads
  /\ observed \in [Objects -> [Values -> Nat]]
  /\ \A m \in Objects : Exact(data[m], observed[m])
  /\ \A t \in Threads : Calling(call[t])

LEMMA LeastIsMin ==
  ASSUME NEW S, S \subseteq Nat, NEW x, Least(x, S)
  PROVE  M!Min(S) = x
<1>1. x \in S /\ \A y \in S : x <= y
  BY DEF Least
<1> DEFINE z == CHOOSE z \in S : \A y \in S : z <= y
<1>2. z \in S /\ \A y \in S : z <= y
  BY <1>1
<1>3. M!Min(S) = z
  BY DEF M!Min
<1> HIDE DEF z
<1>4. z <= x /\ x <= z /\ z \in Nat /\ x \in Nat
  BY <1>1, <1>2
<1> QED BY <1>3, <1>4

LEMMA GreatestIsMax ==
  ASSUME NEW S, S \subseteq Nat, NEW x, Greatest(x, S)
  PROVE  M!Max(S) = x
<1>1. x \in S /\ \A y \in S : y <= x
  BY DEF Greatest
<1> DEFINE z == CHOOSE z \in S : \A y \in S : z >= y
<1>2. z \in S /\ \A y \in S : z >= y
  <2>1. \A y \in S : x >= y
    BY <1>1
  <2> QED BY <1>1, <2>1
<1>3. M!Max(S) = z
  BY DEF M!Max
<1> HIDE DEF z
<1>4. z <= x /\ x <= z /\ z \in Nat /\ x \in Nat
  BY <1>1, <1>2
<1> QED BY <1>3, <1>4

LEMMA SeenNat == ASSUME NEW o PROVE Seen(o) \subseteq Nat
BY ValueFacts DEF Seen

LEMMA ExactTypes ==
  ASSUME NEW o \in [Values -> Nat], NEW d, Exact(d, o)
  PROVE  d.count \in Nat /\ d.sum \in Nat /\ d.min \in Nat /\ d.max \in Nat
<1>1. d.count \in Nat /\ d.sum \in Nat
  BY SumType, FoldIsWeightedSum, ValueFacts DEF Exact
<1>2. d.min \in Nat /\ d.max \in Nat
  BY SeenNat, ValueFacts DEF Exact, Least, Greatest
<1> QED BY <1>1, <1>2

LEMMA MinOf ==
  ASSUME NEW S, S \subseteq Nat, NEW T, T \subseteq Nat, NEW x, Least(x, S), NEW y, Least(y, T)
  PROVE  Least(M!Min({x, y}), S \cup T)
<1>1. x \in Nat /\ y \in Nat /\ x \in S /\ y \in T /\ (\A u \in S : x <= u) /\ \A u \in T : y <= u
  BY DEF Least
<1>2. CASE x <= y
  <2>1. Least(x, {x, y}) /\ {x, y} \subseteq Nat
    BY <1>1, <1>2 DEF Least
  <2>2. M!Min({x, y}) = x
    BY <2>1, LeastIsMin
  <2>3. ASSUME NEW u \in S \cup T PROVE u \in Nat /\ x <= u
    <3>1. CASE u \in S
      BY <1>1, <1>2, <3>1
    <3>2. CASE u \in T
      BY <1>1, <1>2, <3>2
    <3> QED BY <3>1, <3>2
  <2> QED BY <1>1, <2>2, <2>3 DEF Least
<1>3. CASE ~(x <= y)
  <2>1. Least(y, {x, y}) /\ {x, y} \subseteq Nat
    BY <1>1, <1>3 DEF Least
  <2>2. M!Min({x, y}) = y
    BY <2>1, LeastIsMin
  <2>3. ASSUME NEW u \in S \cup T PROVE u \in Nat /\ y <= u
    <3>1. CASE u \in S
      BY <1>1, <1>3, <3>1
    <3>2. CASE u \in T
      BY <1>1, <1>3, <3>2
    <3> QED BY <3>1, <3>2
  <2> QED BY <1>1, <2>2, <2>3 DEF Least
<1> QED BY <1>2, <1>3

LEMMA MaxOf ==
  ASSUME NEW S, S \subseteq Nat, NEW T, T \subseteq Nat,
         NEW x, Greatest(x, S), NEW y, Greatest(y, T)
  PROVE  Greatest(M!Max({x, y}), S \cup T)
<1>1. /\ x \in Nat /\ y \in Nat /\ x \in S /\ y \in T
      /\ (\A u \in S : u <= x) /\ \A u \in T : u <= y
  BY DEF Greatest
<1>2. CASE y <= x
  <2>1. Greatest(x, {x, y}) /\ {x, y} \subseteq Nat
    BY <1>1, <1>2 DEF Greatest
  <2>2. M!Max({x, y}) = x
    BY <2>1, GreatestIsMax
  <2>3. ASSUME NEW u \in S \cup T PROVE u \in Nat /\ u <= x
    <3>1. CASE u \in S
      BY <1>1, <1>2, <3>1
    <3>2. CASE u \in T
      BY <1>1, <1>2, <3>2
    <3> QED BY <3>1, <3>2
  <2> QED BY <1>1, <2>2, <2>3 DEF Greatest
<1>3. CASE ~(y <= x)
  <2>1. Greatest(y, {x, y}) /\ {x, y} \subseteq Nat
    BY <1>1, <1>3 DEF Greatest
  <2>2. M!Max({x, y}) = y
    BY <2>1, GreatestIsMax
  <2>3. ASSUME NEW u \in S \cup T PROVE u \in Nat /\ u <= y
    <3>1. CASE u \in S
      BY <1>1, <1>3, <3>1
    <3>2. CASE u \in T
      BY <1>1, <1>3, <3>2
    <3> QED BY <3>1, <3>2
  <2> QED BY <1>1, <2>2, <2>3 DEF Greatest
<1> QED BY <1>2, <1>3

(* Two summaries added are the summary of both.                            *)
Both(o, p) == [v \in Values |-> o[v] + p[v]]

LEMMA AddedExact ==
  ASSUME NEW o \in [Values -> Nat], NEW p \in [Values -> Nat], NEW d, NEW e,
         Exact(d, o), Exact(e, p)
  PROVE  Both(o, p) \in [Values -> Nat] /\ Exact(M!Added(d, e), Both(o, p))
<1> DEFINE b == Both(o, p)
           a == M!Added(d, e)
<1>1. b \in [Values -> Nat] /\ \A v \in Values : b[v] = o[v] + p[v]
  BY DEF Both
<1>2. /\ a = [count |-> a.count, sum |-> a.sum, min |-> a.min, max |-> a.max]
      /\ a.count = d.count + e.count /\ a.sum = d.sum + e.sum
      /\ a.min = M!Min({d.min, e.min}) /\ a.max = M!Max({d.max, e.max})
  BY DEF M!Added
<1> HIDE DEF a, b
<1>3. Total(b, Values) = Total(o, Values) + Total(p, Values)
  <2>1. AddUp(o, p, b, Values)
    BY <1>1 DEF AddUp
  <2> QED BY <2>1, SumOfSums, ValueFacts
<1>4. Total(Weighted(b), Values) = Total(Weighted(o), Values) + Total(Weighted(p), Values)
  <2>1. /\ Weighted(b) \in [Values -> Nat] /\ Weighted(o) \in [Values -> Nat]
        /\ Weighted(p) \in [Values -> Nat]
    BY <1>1, FoldIsWeightedSum
  <2>2. \A v \in Values : Weighted(b)[v] = Weighted(o)[v] + Weighted(p)[v]
    <3> TAKE v \in Values
    <3>1. v \in Nat /\ o[v] \in Nat /\ p[v] \in Nat /\ b[v] = o[v] + p[v]
      BY <1>1, ValueFacts
    <3>2. v * b[v] = v * o[v] + v * p[v]
      BY <3>1
    <3>3. /\ Weighted(b)[v] = v * b[v] /\ Weighted(o)[v] = v * o[v]
          /\ Weighted(p)[v] = v * p[v]
      BY Zenon DEF Weighted
    <3> QED BY <3>2, <3>3
  <2>3. AddUp(Weighted(o), Weighted(p), Weighted(b), Values)
    BY <2>1, <2>2 DEF AddUp
  <2> QED BY <2>3, SumOfSums, ValueFacts
<1>5. Seen(b) = Seen(o) \cup Seen(p)
  <2>1. \A v \in Values : b[v] > 0 <=> o[v] > 0 \/ p[v] > 0
    BY <1>1
  <2> QED BY <2>1 DEF Seen
<1>6. Least(a.min, Seen(b) \cup {Infinity})
  <2>1. Seen(o) \cup {Infinity} \subseteq Nat /\ Seen(p) \cup {Infinity} \subseteq Nat
    BY SeenNat, ValueFacts
  <2>2. Least(d.min, Seen(o) \cup {Infinity}) /\ Least(e.min, Seen(p) \cup {Infinity})
    BY DEF Exact
  <2>3. Least(a.min, (Seen(o) \cup {Infinity}) \cup (Seen(p) \cup {Infinity}))
    BY <1>2, <2>1, <2>2, MinOf
  <2>4. (Seen(o) \cup {Infinity}) \cup (Seen(p) \cup {Infinity}) = Seen(b) \cup {Infinity}
    BY <1>5
  <2> QED BY <2>3, <2>4
<1>7. Greatest(a.max, Seen(b) \cup {0})
  <2>1. Seen(o) \cup {0} \subseteq Nat /\ Seen(p) \cup {0} \subseteq Nat
    BY SeenNat
  <2>2. Greatest(d.max, Seen(o) \cup {0}) /\ Greatest(e.max, Seen(p) \cup {0})
    BY DEF Exact
  <2>3. Greatest(a.max, (Seen(o) \cup {0}) \cup (Seen(p) \cup {0}))
    BY <1>2, <2>1, <2>2, MaxOf
  <2>4. (Seen(o) \cup {0}) \cup (Seen(p) \cup {0}) = Seen(b) \cup {0}
    BY <1>5
  <2> QED BY <2>3, <2>4
<1>8. a.count = Total(b, Values) /\ a.sum = Total(Weighted(b), Values)
  BY <1>2, <1>3, <1>4 DEF Exact
<1> QED BY <1>1, <1>2, <1>6, <1>7, <1>8 DEF Exact, a, b

LEMMA EmptyExact == M!None \in [Values -> Nat] /\ Exact(M!Empty, M!None)
<1>1. M!None \in [Values -> Nat] /\ \A v \in Values : M!None[v] = 0
  BY DEF M!None
<1>2. /\ M!Empty = [count |-> M!Empty.count, sum |-> M!Empty.sum, min |-> M!Empty.min,
                    max |-> M!Empty.max]
      /\ M!Empty.count = 0 /\ M!Empty.sum = 0 /\ M!Empty.min = Infinity /\ M!Empty.max = 0
  BY DEF M!Empty
<1>3. ASSUME NEW w \in [Values -> Nat], \A v \in Values : w[v] = 0
      PROVE  Total(w, Values) = 0
  <2>1. w = Only(Values, 0, 0)
    BY <1>3 DEF Only
  <2> QED BY <2>1, SumOfOne, ValueFacts
<1>4. Weighted(M!None) \in [Values -> Nat] /\ \A v \in Values : Weighted(M!None)[v] = 0
  <2>1. \A v \in Values : v * M!None[v] = 0
    BY <1>1, ValueFacts
  <2> QED BY <1>1, <2>1, FoldIsWeightedSum DEF Weighted
<1>5. Total(M!None, Values) = 0 /\ Total(Weighted(M!None), Values) = 0
  BY <1>1, <1>3, <1>4
<1>6. Seen(M!None) = {}
  BY <1>1 DEF Seen
<1>7. Least(Infinity, {} \cup {Infinity}) /\ Greatest(0, {} \cup {0})
  BY ValueFacts DEF Least, Greatest
<1> QED BY <1>1, <1>2, <1>5, <1>6, <1>7 DEF Exact

(* One observation.                                                        *)
One(v) == [count |-> 1, sum |-> v, min |-> v, max |-> v]

LEMMA OneExact ==
  ASSUME NEW v \in Values
  PROVE  Only(Values, v, 1) \in [Values -> Nat] /\ Exact(One(v), Only(Values, v, 1))
<1> DEFINE o == Only(Values, v, 1)
<1>1. o \in [Values -> Nat] /\ \A x \in Values : o[x] = IF x = v THEN 1 ELSE 0
  BY DEF Only
<1>2. Total(o, Values) = 1
  BY SumOfOne, ValueFacts
<1>3. Total(Weighted(o), Values) = v
  <2>1. \A x \in Values : x * o[x] = IF x = v THEN v ELSE 0
    BY <1>1, ValueFacts
  <2>2. Weighted(o) = Only(Values, v, v)
    BY <2>1 DEF Weighted, Only
  <2> QED BY <2>2, SumOfOne, ValueFacts
<1>4. Seen(o) = {v}
  BY <1>1 DEF Seen
<1>5. Least(v, {v} \cup {Infinity}) /\ Greatest(v, {v} \cup {0})
  BY ValueFacts DEF Least, Greatest
<1> HIDE DEF o
<1>6. Exact(One(v), o)
  BY <1>2, <1>3, <1>4, <1>5 DEF Exact, One
<1> QED BY <1>1, <1>6 DEF o

(* No observations, nothing to add.                                        *)
LEMMA NothingSeen ==
  ASSUME NEW o \in [Values -> Nat], NEW p \in [Values -> Nat], Total(p, Values) = 0
  PROVE  Both(o, p) = o
<1>1. \A v \in Values : p[v] = 0
  <2> TAKE v \in Values
  <2>1. p[v] <= Total(p, Values) /\ p[v] \in Nat
    BY SumBounds, ValueFacts
  <2> QED BY <2>1
<1>2. \A v \in Values : o[v] + p[v] = o[v]
  BY <1>1
<1> QED BY <1>2 DEF Both

LEMMA MetricsStart == M!Init => MetricsInv
<1> SUFFICES ASSUME M!Init PROVE MetricsInv
  OBVIOUS
<1>1. /\ data = [m \in Objects |-> M!Empty] /\ call = [t \in Threads |-> M!NoCall]
      /\ observed = [m \in Objects |-> M!None]
  BY DEF M!Init
<1>2. M!None \in [Values -> Nat] /\ Exact(M!Empty, M!None)
  BY EmptyExact
<1>3. Calling(M!NoCall)
  BY <1>2 DEF Calling, M!NoCall
<1> QED BY <1>1, <1>2, <1>3 DEF MetricsInv

(* Whatever a step adds to an object, it adds to what the object took in.  *)
LEMMA TakesIn ==
  ASSUME MetricsInv, NEW m \in Objects, NEW d, NEW o \in [Values -> Nat], Exact(d, o),
         data' = [data EXCEPT ![m] = d], observed' = [observed EXCEPT ![m] = o],
         DOMAIN call' = Threads, \A t \in Threads : Calling(call'[t])
  PROVE  MetricsInv'
<1>1. /\ DOMAIN data = Objects /\ DOMAIN call = Threads
      /\ observed \in [Objects -> [Values -> Nat]]
      /\ \A n \in Objects : Exact(data[n], observed[n])
      /\ \A u \in Threads : Calling(call[u])
  BY DEF MetricsInv
<1>2. /\ DOMAIN data' = Objects /\ data'[m] = d
      /\ \A n \in Objects : n # m => data'[n] = data[n]
  BY <1>1
<1>3. /\ observed' \in [Objects -> [Values -> Nat]] /\ observed'[m] = o
      /\ \A n \in Objects : n # m => observed'[n] = observed[n]
  BY <1>1
<1>5. ASSUME NEW n \in Objects PROVE Exact(data'[n], observed'[n])
  BY <1>1, <1>2, <1>3
<1>7. \A n \in Objects : Exact(data[n], observed[n])'
  BY <1>5 DEF Exact
<1>8. \A u \in Threads : Calling(call[u])'
  BY DEF Calling, Exact
<1> QED BY <1>2, <1>3, <1>7, <1>8 DEF MetricsInv

LEMMA MetricsSame ==
  ASSUME MetricsInv, data' = data, observed' = observed, NEW t \in Threads, NEW c, Calling(c),
         call' = [call EXCEPT ![t] = c]
  PROVE  MetricsInv'
<1>1. /\ DOMAIN call = Threads /\ \A u \in Threads : Calling(call[u])
      /\ \A n \in Objects : Exact(data[n], observed[n])
  BY DEF MetricsInv
<1>2. /\ DOMAIN call' = Threads /\ call'[t] = c
      /\ \A u \in Threads : u # t => call'[u] = call[u]
  BY <1>1
<1>3. ASSUME NEW u \in Threads PROVE Calling(call'[u])
  BY <1>1, <1>2
<1>4. \A u \in Threads : Calling(call[u])'
  BY <1>3 DEF Calling, Exact
<1>5. \A n \in Objects : Exact(data[n], observed[n])'
  BY <1>1 DEF Exact
<1>6. DOMAIN data' = Objects /\ observed' \in [Objects -> [Values -> Nat]]
  BY DEF MetricsInv
<1> QED BY <1>2, <1>4, <1>5, <1>6 DEF MetricsInv

LEMMA ObserveKeeps ==
  ASSUME MetricsInv, NEW t \in Threads, NEW m \in Objects, NEW v \in Values, M!observe(t, m, v)
  PROVE  MetricsInv'
<1> DEFINE d == M!Added(data[m], One(v))
           o == Both(observed[m], Only(Values, v, 1))
<1>1. /\ DOMAIN data = Objects /\ DOMAIN call = Threads
      /\ observed \in [Objects -> [Values -> Nat]] /\ observed[m] \in [Values -> Nat]
      /\ Exact(data[m], observed[m])
  BY DEF MetricsInv
<1>2. o \in [Values -> Nat] /\ Exact(d, o)
  BY <1>1, OneExact, AddedExact
<1>3. data' = [data EXCEPT ![m] = d]
  BY <1>1 DEF M!observe, M!Added, One
<1>4. observed' = [observed EXCEPT ![m] = o]
  <2>1. observed' = [observed EXCEPT ![m][v] = observed[m][v] + 1]
    BY <1>1 DEF M!observe
  <2> DEFINE f == [observed[m] EXCEPT ![v] = observed[m][v] + 1]
  <2>2. o = f
    <3>1. f \in [Values -> Nat] /\ f[v] = observed[m][v] + 1
          /\ \A x \in Values : x # v => f[x] = observed[m][x]
      BY <1>1
    <3>2. \A x \in Values : o[x] = IF x = v THEN observed[m][x] + 1 ELSE observed[m][x]
      BY <1>1 DEF Both, Only
    <3> HIDE DEF f, o
    <3>3. \A x \in Values : o[x] = f[x]
      BY <3>1, <3>2
    <3> QED BY <1>2, <3>1, <3>3
  <2> QED BY <1>1, <2>1, <2>2
<1>5. DOMAIN call' = Threads /\ \A u \in Threads : Calling(call'[u])
  <2>1. call' = call
    BY DEF M!observe
  <2> QED BY <2>1 DEF MetricsInv
<1> HIDE DEF d, o
<1> QED BY <1>1, <1>2, <1>3, <1>4, <1>5, TakesIn

LEMMA MergeBeginKeeps ==
  ASSUME MetricsInv, NEW t \in Threads, NEW m \in Objects, NEW n \in Objects,
         M!MergeBegin(t, m, n)
  PROVE  MetricsInv'
<1> DEFINE c == [M!NoCall EXCEPT !.pc = "lock", !.into = m, !.from = n]
<1>1. data' = data /\ observed' = observed /\ call' = [call EXCEPT ![t] = c]
  BY DEF M!MergeBegin
<1>2. c = [pc |-> "lock", into |-> m, from |-> n, snapshot |-> M!Empty, values |-> M!None]
  <2>1. M!NoCall = [pc |-> "none", into |-> Free, from |-> Free, snapshot |-> M!Empty,
                    values |-> M!None]
    BY DEF M!NoCall
  <2> DEFINE r == [M!NoCall EXCEPT !.pc = "lock"]
             q == [r EXCEPT !.into = m]
  <2>2. r = [pc |-> "lock", into |-> Free, from |-> Free, snapshot |-> M!Empty,
             values |-> M!None]
    BY <2>1
  <2>3. c = [q EXCEPT !.from = n]
    OBVIOUS
  <2> HIDE DEF r, c
  <2>4. q = [pc |-> "lock", into |-> m, from |-> Free, snapshot |-> M!Empty, values |-> M!None]
    BY <2>2
  <2> HIDE DEF q
  <2> QED BY <2>3, <2>4
<1>3. Calling(c)
  BY <1>2, EmptyExact DEF Calling
<1> HIDE DEF c
<1> QED BY <1>1, <1>3, MetricsSame

LEMMA MergeLockOtherKeeps ==
  ASSUME MetricsInv, NEW t \in Threads, M!MergeLockOther(t)
  PROVE  MetricsInv'
<1> DEFINE n == call[t].from
           c == [pc |-> "copied", into |-> call[t].into, from |-> n, snapshot |-> data[n],
                 values |-> observed[n]]
<1>1. DOMAIN call = Threads /\ Calling(call[t]) /\ call[t].pc = "lock"
      /\ data' = data /\ observed' = observed
  BY DEF MetricsInv, M!MergeLockOther
<1>2. call[t].into \in Objects /\ n \in Objects
  BY <1>1 DEF Calling
<1>3. call' = [call EXCEPT ![t] = c]
  <2>1. call[t] = [pc |-> call[t].pc, into |-> call[t].into, from |-> call[t].from,
                   snapshot |-> call[t].snapshot, values |-> call[t].values]
    BY <1>1 DEF Calling
  <2>2. call' = [call EXCEPT ![t] = [[[call[t] EXCEPT !.pc = "copied"]
                                        EXCEPT !.snapshot = data[n]] EXCEPT !.values = observed[n]]]
    BY <1>1 DEF M!MergeLockOther
  <2>3. c = [[[call[t] EXCEPT !.pc = "copied"]
                EXCEPT !.snapshot = data[n]] EXCEPT !.values = observed[n]]
    <3> DEFINE r == [call[t] EXCEPT !.pc = "copied"]
               q == [r EXCEPT !.snapshot = data[n]]
    <3>1. r = [pc |-> "copied", into |-> call[t].into, from |-> n,
               snapshot |-> call[t].snapshot, values |-> call[t].values]
      BY <2>1
    <3> HIDE DEF r
    <3>2. q = [pc |-> "copied", into |-> call[t].into, from |-> n, snapshot |-> data[n],
               values |-> call[t].values]
      BY <3>1
    <3> HIDE DEF q
    <3>3. c = [q EXCEPT !.values = observed[n]]
      BY <3>2
    <3> QED BY <3>3 DEF q, r
  <2> QED BY <2>2, <2>3
<1>4. Exact(data[n], observed[n]) /\ observed[n] \in [Values -> Nat]
  BY <1>2 DEF MetricsInv
<1>5. Calling(c)
  BY <1>2, <1>4 DEF Calling
<1> HIDE DEF c
<1> QED BY <1>1, <1>3, <1>5, MetricsSame

LEMMA MergeUnlockOtherKeeps ==
  ASSUME MetricsInv, NEW t \in Threads, M!MergeUnlockOther(t)
  PROVE  MetricsInv'
<1> DEFINE c == [call[t] EXCEPT !.pc = "add"]
<1>1. /\ DOMAIN call = Threads /\ Calling(call[t]) /\ call[t].pc = "copied"
      /\ data' = data /\ observed' = observed /\ call' = [call EXCEPT ![t] = c]
  BY DEF MetricsInv, M!MergeUnlockOther
<1>2. call[t] = [pc |-> call[t].pc, into |-> call[t].into, from |-> call[t].from,
                 snapshot |-> call[t].snapshot, values |-> call[t].values]
  BY <1>1 DEF Calling
<1>3. c = [pc |-> "add", into |-> call[t].into, from |-> call[t].from,
           snapshot |-> call[t].snapshot, values |-> call[t].values]
  BY <1>2
<1>4. Calling(c)
  BY <1>1, <1>3 DEF Calling
<1> HIDE DEF c
<1> QED BY <1>1, <1>4, MetricsSame

LEMMA MergeAddKeeps ==
  ASSUME MetricsInv, NEW t \in Threads, M!MergeAdd(t)
  PROVE  MetricsInv'
<1> DEFINE m == call[t].into
           e == call[t].snapshot
           p == call[t].values
           o == Both(observed[m], p)
           d == IF e.count = 0 THEN data[m] ELSE M!Added(data[m], e)
<1>1. DOMAIN call = Threads /\ Calling(call[t]) /\ call[t].pc = "add"
  BY DEF MetricsInv, M!MergeAdd
<1>2. m \in Objects /\ p \in [Values -> Nat] /\ Exact(e, p)
  BY <1>1 DEF Calling
<1>3. /\ DOMAIN data = Objects /\ observed \in [Objects -> [Values -> Nat]]
      /\ observed[m] \in [Values -> Nat] /\ Exact(data[m], observed[m])
  BY <1>2 DEF MetricsInv
<1>4. data' = [data EXCEPT ![m] = d] /\ call' = [call EXCEPT ![t] = M!NoCall]
  BY <1>3 DEF M!MergeAdd
<1>5. observed' = [observed EXCEPT ![m] = o]
  BY <1>3 DEF M!MergeAdd, Both
<1>6. o \in [Values -> Nat] /\ Exact(d, o)
  <2>1. o \in [Values -> Nat] /\ Exact(M!Added(data[m], e), o)
    BY <1>2, <1>3, AddedExact
  <2>2. CASE e.count = 0
    <3>1. Total(p, Values) = 0
      BY <1>2, <2>2 DEF Exact
    <3>2. o = observed[m]
      BY <1>2, <1>3, <3>1, NothingSeen
    <3> QED BY <1>3, <2>1, <2>2, <3>2
  <2>3. CASE e.count # 0
    BY <2>1, <2>3
  <2> QED BY <2>2, <2>3
<1>7. Calling(M!NoCall)
  BY EmptyExact DEF Calling, M!NoCall
<1>8. DOMAIN call' = Threads /\ \A u \in Threads : Calling(call'[u])
  <2>1. \A u \in Threads : Calling(call[u])
    BY DEF MetricsInv
  <2>2. \A u \in Threads : call'[u] = IF u = t THEN M!NoCall ELSE call[u]
    BY <1>1, <1>4
  <2> QED BY <1>1, <1>4, <1>7, <2>1, <2>2
<1> HIDE DEF m, d, o
<1> QED BY <1>2, <1>4, <1>5, <1>6, <1>8, TakesIn

LEMMA MetricsStep == MetricsInv /\ [M!Next]_M!vars => MetricsInv'
<1> SUFFICES ASSUME MetricsInv, [M!Next]_M!vars PROVE MetricsInv'
  OBVIOUS
<1>1. CASE UNCHANGED M!vars
  <2>1. data' = data /\ call' = call /\ observed' = observed
    BY <1>1 DEF M!vars
  <2> QED BY <2>1 DEF MetricsInv, Exact, Calling
<1>2. ASSUME NEW t \in Threads, NEW m \in Objects, NEW v \in Values, M!observe(t, m, v)
      PROVE  MetricsInv'
  BY <1>2, ObserveKeeps
<1>3. ASSUME NEW t \in Threads, NEW m \in Objects, NEW n \in Objects, M!MergeBegin(t, m, n)
      PROVE  MetricsInv'
  BY <1>3, MergeBeginKeeps
<1>4. ASSUME NEW t \in Threads, M!MergeStep(t) PROVE MetricsInv'
  BY <1>4, MergeLockOtherKeeps, MergeUnlockOtherKeeps, MergeAddKeeps DEF M!MergeStep
<1> QED BY <1>1, <1>2, <1>3, <1>4 DEF M!Next

LEMMA MetricsExact == MetricsInv => SummaryExact
<1> SUFFICES ASSUME MetricsInv, NEW m \in Objects
             PROVE  data[m] =
               [count |-> M!MapThenSumSet(LAMBDA v : observed[m][v], Values),
                sum   |-> M!MapThenSumSet(LAMBDA v : v * observed[m][v], Values),
                min   |-> M!Min({v \in Values : observed[m][v] > 0} \cup {Infinity}),
                max   |-> M!Max({v \in Values : observed[m][v] > 0} \cup {0})]
  BY DEF SummaryExact, M!SummaryExact
<1> DEFINE o == observed[m]
           d == data[m]
<1>1. o \in [Values -> Nat] /\ Exact(d, o)
  BY DEF MetricsInv
<1>2. M!MapThenSumSet(LAMBDA v : o[v], Values) = Total(o, Values)
  <2> HIDE DEF o
  <2> QED BY <1>1, FoldIsSum
<1>3. M!MapThenSumSet(LAMBDA v : v * o[v], Values) = Total(Weighted(o), Values)
  <2> HIDE DEF o
  <2> QED BY <1>1, FoldIsWeightedSum
<1>4. Seen(o) \cup {Infinity} \subseteq Nat /\ Seen(o) \cup {0} \subseteq Nat
  BY SeenNat, ValueFacts
<1>5. M!Min(Seen(o) \cup {Infinity}) = d.min /\ M!Max(Seen(o) \cup {0}) = d.max
  BY <1>1, <1>4, LeastIsMin, GreatestIsMax DEF Exact
<1>6. /\ d = [count |-> d.count, sum |-> d.sum, min |-> d.min, max |-> d.max]
      /\ d.count = Total(o, Values) /\ d.sum = Total(Weighted(o), Values)
  BY <1>1 DEF Exact
<1> QED BY <1>2, <1>3, <1>5, <1>6 DEF Seen

(* For any number of threads, objects and calls, and any finite set of     *)
(* positive values: however Metrics::observe and the critical sections of  *)
(* Metrics::merge interleave, count, sum, min and max of an object are     *)
(* those of the observations it took in.                                   *)
THEOREM SummaryCorrect == M!Spec => []SummaryExact
<1>1. M!Spec => []MetricsInv
  BY MetricsStart, MetricsStep, PTL DEF M!Spec
<1>2. []MetricsInv => []SummaryExact
  BY MetricsExact, PTL
<1> QED BY <1>1, <1>2, PTL
=============================================================================
