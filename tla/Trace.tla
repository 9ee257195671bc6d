------------------------------- MODULE Trace -------------------------------
(***************************************************************************)
(* TraceRecorder and ScopedTrace (src/telemetry.cpp), used the way         *)
(* Executor::execute does: a thread opens a scope (begin), possibly others *)
(* inside it, and leaves them innermost first (end).  Each member function *)
(* holds mu_, so each is one step.  clear() and instant() may be called by *)
(* any thread at any time.                                                 *)
(*                                                                         *)
(* An event remembers, besides what the code stores, the scope that began  *)
(* it and whether it was ended; scopes are numbered as they are opened.    *)
(* Categories and arguments are left out, times are ticks of a clock.      *)
(***************************************************************************)
EXTENDS Integers, Sequences, FiniteSets, SequencesExt

CONSTANTS Threads,
          Names,      \* Names[t]: the scope names thread t uses
          MaxScopes,  \* bound: scopes opened in a behaviour
          MaxDepth,   \* bound: scopes a thread has open
          MaxEvents,  \* bound: events recorded since the last clear()
          MaxTime     \* bound: clock ticks

ASSUME BoundsAssumption == {MaxScopes, MaxDepth, MaxEvents, MaxTime} \subseteq Nat

VARIABLES events,        \* events_
          activeEvents,  \* active_: per name, indexes into events_ (from 1)
          epoch,         \* epoch_
          now,           \* the system clock
          scopes,        \* scopes[t]: the ScopedTrace objects on t's stack
          opened         \* number of scopes opened so far

vars == <<events, activeEvents, epoch, now, scopes, opened>>

AllNames == UNION {Names[t] : t \in Threads}
elapsed_ms == now - epoch

Init ==
  /\ events = << >>
  /\ activeEvents = [name \in AllNames |-> << >>]
  /\ epoch = 0 /\ now = 0
  /\ scopes = [t \in Threads |-> << >>]
  /\ opened = 0

-----------------------------------------------------------------------------
(* ScopedTrace::ScopedTrace calls begin().                                 *)
begin(t, name) ==
  /\ Len(scopes[t]) < MaxDepth /\ opened < MaxScopes /\ Len(events) < MaxEvents
  /\ opened' = opened + 1
  /\ events' = Append(events, [name |-> name, start |-> elapsed_ms, duration |-> 0,
                               scope |-> opened', ended |-> FALSE])
  /\ activeEvents' = [activeEvents EXCEPT ![name] = Append(@, Len(events'))]
  /\ scopes' = [scopes EXCEPT ![t] = Append(@, [name |-> name, id |-> opened', at |-> now])]
  /\ UNCHANGED <<epoch, now>>

(* Faulty: the oldest open event of the name is ended.                     *)
OpenEventOldest(name) == Head(activeEvents[name])

(* The event end() picks, and the list without it.                         *)
OpenEvent(name) == Last(activeEvents[name])

(* Faulty: the event stays in the list.                                    *)
PoppedNot(name) == activeEvents[name]

Popped(name) == Front(activeEvents[name])

Ended(event) == [event EXCEPT !.duration = elapsed_ms - event.start, !.ended = TRUE]

(* ScopedTrace::~ScopedTrace calls end(), which ignores a name that has no *)
(* open event.                                                             *)
end(t) ==
  /\ scopes[t] # << >>
  /\ LET name == Last(scopes[t]).name
     IN  IF activeEvents[name] = << >> THEN UNCHANGED <<events, activeEvents>>
         ELSE /\ events' = [events EXCEPT ![OpenEvent(name)] = Ended(@)]
              /\ activeEvents' = [activeEvents EXCEPT ![name] = Popped(name)]
  /\ scopes' = [scopes EXCEPT ![t] = Front(@)]
  /\ UNCHANGED <<epoch, now, opened>>

instant(name) ==
  /\ Len(events) < MaxEvents
  /\ events' = Append(events, [name |-> name, start |-> elapsed_ms, duration |-> 0,
                               scope |-> 0, ended |-> TRUE])
  /\ UNCHANGED <<activeEvents, epoch, now, scopes, opened>>

(* active_.clear()                                                         *)
Cleared == [name \in AllNames |-> << >>]

clear ==
  /\ events' = << >>
  /\ activeEvents' = Cleared
  /\ epoch'  = now
  /\ UNCHANGED <<now, scopes, opened>>

Tick ==
  /\ now < MaxTime
  /\ now' = now + 1
  /\ UNCHANGED <<events, activeEvents, epoch, scopes, opened>>

Next ==
  \/ \E t \in Threads : end(t) \/ \E name \in Names[t] : begin(t, name)
  \/ \E name \in AllNames : instant(name)
  \/ clear
  \/ Tick

Spec == Init /\ [][Next]_vars

-----------------------------------------------------------------------------
OpenEvents(name) == {i \in DOMAIN events : events[i].name = name /\ ~events[i].ended}

(* The scopes of a name, by thread and position on its stack.              *)
ScopesOf(name) == {p \in Threads \X (1 .. MaxDepth) :
                     p[2] <= Len(scopes[p[1]]) /\ scopes[p[1]][p[2]].name = name}

(* An event is open only as long as some scope of its name is: when the    *)
(* threads have left their scopes nothing recorded is left unfinished,     *)
(* also when threads share names and clear() came between begin and end.   *)
NoEventLeftOpen ==
  \A name \in AllNames : Cardinality(OpenEvents(name)) <= Cardinality(ScopesOf(name))

(* A name that one thread uses alone.                                      *)
Own(t, name) == \A u \in Threads : name \in Names[u] => u = t

(* For names that one thread uses alone, nested or not, end() finishes the *)
(* event its own scope began, with the time the scope really took, or, if  *)
(* that event was cleared, none; whatever other threads record and end     *)
(* under names they share.                                                 *)
EndsOwnEvent ==
  [][\A t \in Threads : end(t) /\ Own(t, Last(scopes[t]).name) =>
       \A i \in DOMAIN events :
         (~events[i].ended /\ events'[i].ended) =>
           /\ events[i].scope = Last(scopes[t]).id
           /\ events'[i].duration = now - Last(scopes[t]).at]_vars
=============================================================================
