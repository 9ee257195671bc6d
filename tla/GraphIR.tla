------------------------------ MODULE GraphIR ------------------------------
(***************************************************************************)
(* gpuforge::Graph (src/graph.cpp): a list of nodes whose inputs are ids,  *)
(* that is positions (from 0), validate() and fuse_linear_bias(), which    *)
(* rewrites Gemm nodes in place.  add() takes any ids.                     *)
(*                                                                         *)
(* Of a name only matters whether it contains "bias".  What fuse does to a *)
(* node depends on the Input nodes alone, which it leaves as they are, so  *)
(* the loop over the nodes is one step.  Softmax stands for the operators  *)
(* fuse does not look at.                                                  *)
(***************************************************************************)
EXTENDS Integers, Sequences, FiniteSets, FiniteSetsExt, SequencesExt

CONSTANTS MaxGraph,  \* bound: nodes of a graph
          Beyond,    \* bound: how far an input may point past the last node
          MaxInputs  \* bound: inputs passed to add()

VARIABLES nodes,     \* nodes_; node id is nodes[id + 1]
          given      \* given[n]: the inputs node n was added with
vars == <<nodes, given>>

Init == nodes = << >> /\ given = << >>

add(op, inputs, bias) ==
  /\ Len(nodes) < MaxGraph
  /\ nodes' = Append(nodes, [op |-> op, inputs |-> inputs, bias |-> bias])
  /\ given' = Append(given, inputs)

input(bias) == add("Input", << >>, bias)

validate == \A n \in DOMAIN nodes : \A i \in ToSet(nodes[n].inputs) : i \in 0 .. n - 2

-----------------------------------------------------------------------------
BiasIds == {n - 1 : n \in {m \in DOMAIN nodes : nodes[m].op = "Input" /\ nodes[m].bias}}

(* Faulty: an input the node already has is taken again.                   *)
CandidatesAgain(node) == BiasIds

(* The inputs that may be added to a node; the first one is.               *)
Candidates(node) == BiasIds \ ToSet(node.inputs)

FusedNode(node) ==
  IF node.op = "Gemm" /\ Candidates(node) # {}
  THEN [node EXCEPT !.op = "FusedGemmBias", !.inputs = Append(@, Min(Candidates(node)))]
  ELSE node

(* Nothing happens to a graph that does not validate.                      *)
fuse_linear_bias ==
  /\ nodes' = IF validate THEN [n \in DOMAIN nodes |-> FusedNode(nodes[n])] ELSE nodes
  /\ UNCHANGED given

Next ==
  \/ \E bias \in BOOLEAN : input(bias)
  \/ \E op \in {"Gemm", "Softmax"}, k \in 0 .. MaxInputs :
       \E inputs \in [1 .. k -> 0 .. Len(nodes) + Beyond] : add(op, inputs, FALSE)
  \/ fuse_linear_bias

Spec == Init /\ [][Next]_vars

-----------------------------------------------------------------------------
(* Every Gemm comes after the bias input it would take.                    *)
BiasFirst ==
  \A n \in DOMAIN nodes :
    nodes[n].op = "Gemm" /\ Candidates(nodes[n]) # {} => Min(Candidates(nodes[n])) < n - 1

(* Through any mix of additions and repeated fuse_linear_bias calls: a     *)
(* node is fused once, with the inputs it was given and one bias input it  *)
(* did not have; and the rewritten graph still validates, unless a Gemm    *)
(* stood before its bias (fuse_linear_bias does not look at the order).    *)
FuseKeepsValid ==
  [][/\ \A n \in DOMAIN nodes : nodes'[n].op = "FusedGemmBias" =>
          \E i \in BiasIds' \ ToSet(given[n]) : nodes'[n].inputs = Append(given[n], i)
     /\ fuse_linear_bias /\ validate /\ BiasFirst => validate']_vars
=============================================================================
