------------------------------- MODULE Tuning -------------------------------
(***************************************************************************)
(* GemmAutoTuner (src/autotune.cpp) on a TuneDatabase (src/tuning.cpp)     *)
(* that is kept in a file: the constructor loads it, run() answers from    *)
(* the database or measures every configuration, records the results and   *)
(* saves the whole database.  The process may stop anywhere, in the middle *)
(* of a save too, and start again; opening or writing the file may fail.   *)
(*                                                                         *)
(* The file is a sequence of lines; of a line that was cut off, load()     *)
(* sees nothing unless all fields before the throughput are complete.  The *)
(* throughput is left out.  A latency is printed with limited precision:   *)
(* Printed.  One process uses the file at a time.                          *)
(***************************************************************************)
EXTENDS Integers, Sequences, FiniteSets, FiniteSetsExt, SequencesExt

CONSTANTS Keys,        \* problem sizes <<m, n, k>> run() is asked for
          KeyOrder,    \* the order std::map keeps them in
          Tiles, WarpCounts,  \* the loops of gemm_space
          Latencies,   \* what a benchmark may measure
          Grain,       \* latencies this close may print alike
          MaxEntries   \* results kept per key, 32 in the code

(* Assumptions about the constants.                                        *)
GrainAssumption    == Grain \in Nat \ {0} /\ MaxEntries \in Nat \ {0}
KeyOrderAssumption == KeyOrder \in Seq(Keys) /\ ToSet(KeyOrder) = Keys
LatencyAssumption  == Latencies \subseteq Nat

VARIABLES db,        \* db_.table_
          file,      \* the lines of cache_file
          pc,        \* "down", "load", "idle", "measure" or "save"
          key,       \* the key run() was called for
          rest,      \* lines still to load, configurations to measure, lines to write
          best,      \* run(): best so far, a set with at most one result
          served,    \* history: what run() last returned for each key in this process
          measured   \* history: the latest measurements of each key

vars == <<db, file, pc, key, rest, best, served, measured>>

Printed(latency) == (latency \div Grain) * Grain

None == {}
Init ==
  /\ db = [k \in Keys |-> << >>]
  /\ file = << >>
  /\ pc = "down"
  /\ key = KeyOrder[1] /\ rest = << >> /\ best = None
  /\ served = [k \in Keys |-> None]
  /\ measured = [k \in Keys |-> {}]

-----------------------------------------------------------------------------
Sorted(entries) == \A i, j \in DOMAIN entries : i < j => entries[i].latency <= entries[j].latency

(* Faulty: the list is never sorted.                                       *)
record_unsorted(entries, r) == {SubSeq(Append(entries, r), 1, Min({MaxEntries, Len(entries) + 1}))}

(* record(): what a key's list may become; std::sort may put results with  *)
(* equal latencies into any order.                                         *)
record(entries, r) ==
  {SubSeq(s, 1, Min({MaxEntries, Len(s)})) :
     s \in {q \in SetToSeqs(ToSet(entries) \cup {r}) : Sorted(q)}}

(* Searcher::gemm_space: the configurations for a problem size.            *)
gemm_space(k) ==
  {c \in [tile : Tiles, warps : WarpCounts, tensor_core : BOOLEAN] :
     /\ c.tensor_core => k[3] % 16 = 0
     /\ k[1] % c.tile = 0 \/ k[2] % c.tile = 0}

(* serialize(): the lines of all keys in order.                            *)
Lines(k) == [i \in DOMAIN db[k] |-> [key |-> k, config |-> db[k][i].config,
                                     latency |-> Printed(db[k][i].latency)]]
serialize == FlattenSeq([i \in DOMAIN KeyOrder |-> Lines(KeyOrder[i])])

-----------------------------------------------------------------------------
(* The constructor opens the file; load() records line by line.            *)
Start ==
  /\ pc = "down"
  /\ pc' = "load" /\ rest' = file
  /\ UNCHANGED <<db, file, key, best, served, measured>>

LoadLine ==
  /\ pc = "load" /\ rest # << >>
  /\ LET line == Head(rest)
     IN  \E entries \in record(db[line.key], [config |-> line.config, latency |-> line.latency]) :
           db' = [db EXCEPT ![line.key] = entries]
  /\ rest' = Tail(rest)
  /\ UNCHANGED <<file, pc, key, best, served, measured>>

LoadDone ==
  /\ pc = "load" /\ rest = << >>
  /\ pc' = "idle"
  /\ UNCHANGED <<db, file, key, rest, best, served, measured>>

(* run() for a key the database knows.                                     *)
RunCached(k) ==
  /\ pc = "idle" /\ db[k] # << >>
  /\ served' = [served EXCEPT ![k] = {Head(db[k])}]
  /\ UNCHANGED <<db, file, pc, key, rest, best, measured>>

(* run() for a new key; it throws when gemm_space is empty.                *)
RunNew(k) ==
  /\ pc = "idle" /\ db[k] = << >> /\ gemm_space(k) # {}
  /\ pc' = "measure" /\ key' = k /\ best' = None
  /\ rest' = SetToSeq(gemm_space(k))
  /\ measured' = [measured EXCEPT ![k] = {}]
  /\ UNCHANGED <<db, file, served>>

(* One row of the benchmark: its result is recorded, and kept if it is     *)
(* faster than the best so far.                                            *)
Measure ==
  /\ pc = "measure" /\ rest # << >>
  /\ \E latency \in Latencies :
       LET r == [config |-> Head(rest), latency |-> latency]
       IN  /\ \E entries \in record(db[key], r) : db' = [db EXCEPT ![key] = entries]
           /\ best' = IF \A b \in best : latency < b.latency THEN {r} ELSE best
           /\ measured' = [measured EXCEPT ![key] = @ \cup {r}]
  /\ rest' = Tail(rest)
  /\ UNCHANGED <<file, pc, key, served>>

(* save(): ofstream truncates the file when it opens it.                   *)
SaveOpen ==
  /\ pc = "measure" /\ rest = << >>
  /\ pc' = "save" /\ rest' = serialize
  /\ file' = << >>
  /\ UNCHANGED <<db, key, best, served, measured>>

SaveLine ==
  /\ pc = "save" /\ rest # << >>
  /\ file' = Append(file, Head(rest))
  /\ rest' = Tail(rest)
  /\ UNCHANGED <<db, pc, key, best, served, measured>>

Return == /\ pc' = "idle" /\ rest' = << >>
          /\ served' = [served EXCEPT ![key] = best]
          /\ best' = None

(* run() returns when the file is written, or when opening or writing it   *)
(* failed: the result of save() is ignored.                                *)
RunReturn ==
  /\ pc = "save"
  /\ Return
  /\ UNCHANGED <<db, file, key, measured>>

RunReturnUnsaved ==
  /\ pc = "measure" /\ rest = << >>
  /\ Return
  /\ UNCHANGED <<db, file, key, measured>>

(* The process stops: what is not in the file is gone.                     *)
Stop ==
  /\ pc # "down"
  /\ pc' = "down"
  /\ db' = [k \in Keys |-> << >>] /\ served' = [k \in Keys |-> None]
  /\ rest' = << >> /\ best' = None
  /\ UNCHANGED <<file, key, measured>>

Next ==
  \/ Start \/ LoadLine \/ LoadDone
  \/ \E k \in Keys : RunCached(k) \/ RunNew(k)
  \/ Measure \/ SaveOpen \/ SaveLine \/ RunReturn \/ RunReturnUnsaved
  \/ Stop

Spec == Init /\ [][Next]_vars

-----------------------------------------------------------------------------
(* run() answers with a configuration that was measured for the key, and   *)
(* with the fastest one, as far as the file's precision tells, whether the *)
(* answer was measured now, remembered, or loaded from a file whose last   *)
(* save was cut off at any line.  Lists are cut to their best entries and  *)
(* written best first, so what a cut-off save loses is never the best.     *)
ServedIsBest ==
  \A k \in Keys : \A r \in served[k] :
    /\ \A other \in measured[k] : Printed(r.latency) <= Printed(other.latency)
    /\ \E m \in measured[k] :
         m.config = r.config /\ r.latency \in {m.latency, Printed(m.latency)}
=============================================================================
