----------------------------- MODULE Selection -----------------------------
(***************************************************************************)
(* The erase-remove idiom, std::remove_if followed by erase, and loops     *)
(* with "if (...) continue": the elements of a sequence at the positions   *)
(* that stay, in their order.  The positions are a set, not a predicate    *)
(* as for SelectSeq, so that facts about it can be proved.                 *)
(***************************************************************************)
EXTENDS Naturals, Sequences, FiniteSets

(* How many members of S are at most i, and the member number k.           *)
Rank(S, i) == Cardinality({j \in S : j <= i})
Nth(S, k)  == CHOOSE i \in S : Rank(S, i) = k

Kept(q, S) == [k \in 1 .. Cardinality(S) |-> q[Nth(S, k)]]
=============================================================================
