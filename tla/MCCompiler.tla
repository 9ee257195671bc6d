----------------------------- MODULE MCCompiler -----------------------------
(***************************************************************************)
(* The compiler's IR and the older Graph in one run.  They share no state: *)
(* each behaviour is about the one named by part.                          *)
(***************************************************************************)
EXTENDS Compiler

CONSTANTS Parts, MaxGraph, Beyond, MaxInputs

ASSUME GraphAssumption == {MaxInputs, Beyond} \subseteq Nat

VARIABLES part, graph, given

G == INSTANCE GraphIR WITH nodes <- graph

Kind(op, arity, dims) == [op |-> op, arity |-> arity, dims |-> dims]

(* Any function will do; this one is injective.                            *)
SomeGelu(x) == 3 * x + 1

(* An operand, elementwise operators of one and two inputs, one that is    *)
(* not fused, reshapes, sums that broadcast, and a wrong arity.            *)
SmallTemplates ==
  {Kind("Add", 2, d) : d \in {<<2>>, <<2, 2>>}}
    \cup {Kind("Reshape", 1, d) : d \in {<<2, 1>>, <<1, 2>>}}
    \cup {Kind("Parameter", 0, <<2>>), Kind("Constant", 0, <<2>>), Kind("Mul", 2, <<2>>),
          Kind("Relu", 1, <<2>>), Kind("Gelu", 1, <<2>>), Kind("Softmax", 1, <<2>>),
          Kind("Relu", 2, <<2>>), Kind("MatMul", 2, <<2, 2>>), Kind("LayerNorm", 3, <<2>>)}

(* Constants with data; and two that are refused, one with too few data    *)
(* and one with too many.                                                  *)
FittingPayloads ==
  {[dims |-> d, data |-> <<-1, 2>>] : d \in {<<2>>, <<2, 1>>}}
    \cup {[dims |-> <<2, 2>>, data |-> <<3, -2, 5, 0>>]}
SmallPayloads ==
  FittingPayloads \cup {[dims |-> <<2>>, data |-> d] : d \in {<<4>>, <<1, 2, 3, 4>>}}

graphVars == <<graph, given>>

PartInit == part \in Parts /\ CompilerInit /\ (part # "module" => fusion) /\ G!Init

PartNext ==
  /\ \/ part = "module" /\ CompilerNext /\ UNCHANGED graphVars
     \/ part = "graph" /\ G!Next /\ UNCHANGED compilerVars
  /\ UNCHANGED part

PartSpec == PartInit /\ [][PartNext]_<<part, compilerVars, graphVars>>

-----------------------------------------------------------------------------
(* Graph::fuse_linear_bias fuses a node once, and the graph stays valid    *)
(* where the bias comes first.                                             *)
FuseKeepsValid == G!FuseKeepsValid
=============================================================================
