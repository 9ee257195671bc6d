------------------------------ MODULE Compiler ------------------------------
(***************************************************************************)
(* The graph compiler: Module and PassManager (src/compiler.cpp), validate *)
(* (src/shape.cpp) and CompilePipeline::run (src/pipeline.cpp).            *)
(*                                                                         *)
(* A node's id is its position in nodes_: node n here is id n - 1 in the   *)
(* code.  A node keeps its operator, inputs, dimensions, layout and        *)
(* constant_data; names, attributes, scalar types and the figures of a     *)
(* launch (schedule, threads, estimated time) are left out.  Floats are    *)
(* integers, and gelu an arbitrary function of them.                       *)
(*                                                                         *)
(* One thread builds a module and then applies the passes, in any order.   *)
(* The loops of constant_fold, fuse and dead_code_eliminate take one step  *)
(* per iteration.  canonicalize does nothing and is left out.              *)
(***************************************************************************)
EXTENDS Shapes, Selection

CONSTANTS MaxNodes,    \* bound: nodes of a module
          MaxOutputs,  \* bound: length of outputs_
          Forward,     \* bound: how far an input may point past its own node
          Templates,   \* what a client emits: operator, number of inputs, dimensions
          Payloads,    \* constants with data: dimensions, data
          Gelu(_)      \* the function constant_fold applies for Op::Gelu

ASSUME MaxNodesAssumption == MaxNodes \in Nat /\ MaxOutputs \in Nat /\ Forward \in Nat

VARIABLES nodes,     \* Module::nodes_
          outputs,   \* Module::outputs_
          pc,        \* "build", "fold", "fuse", "mark", or "ready" after a pass
          source,    \* history: nodes_ and outputs_ when the running pass began
          cursor,    \* the loop position of constant_fold and fuse
          current,   \* fuse: the node whose user is looked at, 0 between groups
          groups,    \* fuse: node ids of each FusionGroup
          fusion,    \* CompilePipeline::fusion_
          live,      \* dead_code_eliminate: the marked nodes
          worklist,  \* dead_code_eliminate: ids still to be marked
          launches   \* CompileReport::launches: the root of each launch

compilerVars ==
  <<nodes, outputs, pc, source, cursor, current, groups, fusion, live, worklist, launches>>

Op == {"Parameter", "Constant", "MatMul", "Add", "Mul", "Relu", "Gelu", "LayerNorm",
       "Softmax", "ReduceSum", "Cast", "Reshape"}

ASSUME TemplatesAssumption == Templates \subseteq [op : Op, arity : Nat, dims : Seq(Int)]
ASSUME PayloadsAssumption  == Payloads \subseteq [dims : Seq(Int), data : Seq(Int)]

is_elementwise(op) == op \in {"Add", "Mul", "Relu", "Gelu", "Cast"}

NewNode(op, inputs, dims, data) ==
  [op |-> op, inputs |-> inputs, dims |-> dims, layout |-> "RowMajor", data |-> data]

CompilerInit ==
  /\ nodes = << >> /\ outputs = << >> /\ launches = << >> /\ groups = << >> /\ worklist = << >>
  /\ pc = "build"
  /\ source = [nodes |-> << >>, outputs |-> << >>]
  /\ cursor = 0 /\ current = 0
  /\ fusion \in BOOLEAN
  /\ live = {}

-----------------------------------------------------------------------------
(* Building a module.                                                      *)

(* validate() does not look at the dimensions of one-input operators; the  *)
(* client gives them the shape of their input, or one that infer_reshape   *)
(* accepts.  A shape for Add, Mul or MatMul may be wrong.                  *)
UnaryShape(t, inputs) ==
  (t.op \in {"Relu", "Gelu", "Cast", "Softmax", "Reshape"} /\ Len(inputs) = 1
     /\ inputs[1] \in DOMAIN nodes) =>
    IF t.op = "Reshape" THEN infer_reshape(nodes[inputs[1]].dims, t.dims) = Ok(t.dims)
                        ELSE t.dims = nodes[inputs[1]].dims

(* Module::parameter, Module::constant without data, Module::emit.         *)
Emit ==
  /\ pc = "build" /\ Len(nodes) < MaxNodes
  /\ \E t \in Templates : \E inputs \in [1 .. t.arity -> 1 .. Len(nodes) + Forward] :
       /\ UnaryShape(t, inputs)
       /\ nodes' = Append(nodes, NewNode(t.op, inputs, t.dims, << >>))
  /\ UNCHANGED <<outputs, pc, source, cursor, current, groups, fusion, live, worklist, launches>>

(* Module::constant with data.  It throws when the sizes disagree, but has *)
(* stored node and data by then: whoever catches the exception goes on     *)
(* with a module that holds the constant.                                  *)
EmitConstant ==
  /\ pc = "build" /\ Len(nodes) < MaxNodes
  /\ \E p \in Payloads :
       nodes' = Append(nodes, NewNode("Constant", << >>, p.dims, p.data))
  /\ UNCHANGED <<outputs, pc, source, cursor, current, groups, fusion, live, worklist, launches>>

(* Module::set_outputs, with ids of the module.                            *)
SetOutputs ==
  /\ pc = "build" /\ outputs = << >>
  /\ \E k \in 1 .. MaxOutputs : \E ids \in [1 .. k -> DOMAIN nodes] : outputs' = ids
  /\ UNCHANGED <<nodes, pc, source, cursor, current, groups, fusion, live, worklist, launches>>

(* Module::users                                                           *)
users(n) == {m \in DOMAIN nodes : n \in ToSet(nodes[m].inputs)}

-----------------------------------------------------------------------------
(* validate()                                                              *)
Arity(op) ==
  CASE op \in {"Parameter", "Constant"} -> 0
    [] op \in {"Relu", "Gelu", "Softmax", "ReduceSum", "Cast", "Reshape"} -> 1
    [] op \in {"MatMul", "Add", "Mul"} -> 2
    [] op = "LayerNorm" -> 3

ValidNode(ns, n) ==
  LET node == ns[n]
      Dims(i) == ns[node.inputs[i]].dims
  IN  /\ Len(node.inputs) = Arity(node.op)
      /\ \A i \in DOMAIN node.inputs : node.inputs[i] \in 1 .. n - 1
      /\ node.op = "MatMul" => infer_matmul(Dims(1), Dims(2)) = Ok(node.dims)
      /\ node.op \in {"Add", "Mul"} => infer_broadcast(Dims(1), Dims(2)) = Ok(node.dims)

(* Faulty: an error is reported and the loop's verdict forgotten.          *)
validate_last(ns) == ns = << >> \/ ValidNode(ns, Len(ns))

validate(ns) == \A n \in DOMAIN ns : ValidNode(ns, n)

(* CompilePipeline::run up to its first pass.                              *)
RunPipeline ==
  /\ pc \in {"build", "ready"}
  /\ source'   = [nodes |-> nodes, outputs |-> outputs]
  /\ launches' = << >>
  /\ groups'   = << >>
  /\ IF validate(nodes) THEN pc' = "fold" /\ cursor' = 1
                        ELSE pc' = "ready" /\ cursor' = 0
  /\ UNCHANGED <<nodes, outputs, current, fusion, live, worklist>>

-----------------------------------------------------------------------------
(* constant_fold()                                                         *)
HasData(n) == nodes[n].op = "Constant" /\ nodes[n].data # << >>

(* The module was validated: Add and Mul have two inputs, the others one.  *)
Foldable(node) ==
  \/ /\ node.op \in {"Add", "Mul"}
     /\ HasData(node.inputs[1]) /\ HasData(node.inputs[2])
     /\ Len(nodes[node.inputs[1]].data) = Len(nodes[node.inputs[2]].data)
  \/ node.op \in {"Relu", "Gelu", "Cast", "Reshape"} /\ HasData(node.inputs[1])

(* One element of an operator's result.                                    *)
Apply(op, x, y) ==
  CASE op = "Add"  -> x + y
    [] op = "Mul"  -> x * y
    [] op = "Relu" -> Max({0, x})
    [] op = "Gelu" -> Gelu(x)
    [] op \in {"Cast", "Reshape"} -> x

(* Faulty: the left operand is read twice.                                 *)
FoldedDataLeft(node) ==
  LET lhs == nodes[node.inputs[1]].data
  IN  [i \in DOMAIN lhs |-> Apply(node.op, lhs[i], lhs[i])]

FoldedData(node) ==
  LET lhs == nodes[node.inputs[1]].data
      rhs == nodes[node.inputs[Len(node.inputs)]].data
  IN  [i \in DOMAIN lhs |-> Apply(node.op, lhs[i], rhs[i])]

Folded(node) == [node EXCEPT !.op = "Constant", !.inputs = << >>, !.data = FoldedData(node)]

FoldNode ==
  /\ pc = "fold" /\ cursor <= Len(nodes)
  /\ nodes'  = IF Foldable(nodes[cursor])
               THEN [nodes EXCEPT ![cursor] = Folded(@)] ELSE nodes
  /\ cursor' = cursor + 1
  /\ UNCHANGED <<outputs, pc, source, current, groups, fusion, live, worklist, launches>>

(* infer_layout() of all nodes, unless layout_ is switched off, which a    *)
(* client may do between two runs; and the choice of run(): fuse(), or a   *)
(* group per node.                                                         *)
InferLayout ==
  /\ pc = "fold" /\ cursor = Len(nodes) + 1
  /\ \/ nodes' = [n \in DOMAIN nodes |->
                    IF nodes[n].op = "MatMul" /\ Len(nodes[n].dims) = 2
                    THEN [nodes[n] EXCEPT !.layout = "Tiled16"] ELSE nodes[n]]
     \/ UNCHANGED nodes
  /\ groups' = IF fusion THEN << >> ELSE [n \in DOMAIN nodes |-> <<n>>]
  /\ cursor' = IF fusion THEN 1 ELSE Len(nodes) + 1
  /\ pc' = "fuse"
  /\ UNCHANGED <<outputs, source, current, fusion, live, worklist, launches>>

-----------------------------------------------------------------------------
(* fuse()                                                                  *)
Visited == UNION {ToSet(groups[i]) : i \in DOMAIN groups}

(* Faulty: a user that another group has taken is taken again.             *)
ExtendsVisited(n) ==
  /\ Cardinality(users(n)) = 1
  /\ \A m \in users(n) : is_elementwise(nodes[m].op)

(* The while loop's condition and its break.                               *)
Extends(n) ==
  /\ Cardinality(users(n)) = 1
  /\ \A m \in users(n) : is_elementwise(nodes[m].op) /\ m \notin Visited

FuseRoot ==
  /\ pc = "fuse" /\ current = 0 /\ cursor <= Len(nodes)
  /\ IF cursor \in Visited THEN UNCHANGED <<groups, current>>
                           ELSE groups' = Append(groups, <<cursor>>) /\ current' = cursor
  /\ cursor' = cursor + 1
  /\ UNCHANGED <<nodes, outputs, pc, source, fusion, live, worklist, launches>>

FuseExtend ==
  /\ pc = "fuse" /\ current # 0
  /\ IF Extends(current)
     THEN \E m \in users(current) :
            /\ groups'  = [groups EXCEPT ![Len(groups)] = Append(@, m)]
            /\ current' = m
     ELSE current' = 0 /\ UNCHANGED groups
  /\ UNCHANGED <<nodes, outputs, pc, source, cursor, fusion, live, worklist, launches>>

Fused == pc = "fuse" /\ current = 0 /\ cursor = Len(nodes) + 1

(* The launch plans of run(), one for the root of every group.             *)
Plan ==
  /\ Fused
  /\ launches' = [i \in DOMAIN groups |-> groups[i][1]]
  /\ pc' = "ready"
  /\ cursor' = 0
  /\ UNCHANGED <<nodes, outputs, source, current, groups, fusion, live, worklist>>

-----------------------------------------------------------------------------
(* dead_code_eliminate(), for a module whose inputs and outputs are nodes  *)
(* of it: remap[] is indexed with them unchecked.                          *)
InRange == /\ \A n \in DOMAIN nodes : ToSet(nodes[n].inputs) \subseteq DOMAIN nodes
           /\ ToSet(outputs) \subseteq DOMAIN nodes

DceBegin ==
  /\ pc \in {"build", "ready"} /\ outputs # << >> /\ InRange
  /\ source'   = [nodes |-> nodes, outputs |-> outputs]
  /\ worklist' = outputs
  /\ live'     = {}
  /\ pc'       = "mark"
  /\ UNCHANGED <<nodes, outputs, cursor, current, groups, fusion, launches>>

(* Faulty: only the first input of a node is followed.                     *)
PushedFirst(n) == SubSeq(nodes[n].inputs, 1, Min({1, Len(nodes[n].inputs)}))

Pushed(n) == nodes[n].inputs

DceMark ==
  /\ pc = "mark" /\ worklist # << >>
  /\ LET n == Last(worklist)
     IN  IF n \in live
         THEN worklist' = Front(worklist) /\ UNCHANGED live
         ELSE worklist' = Front(worklist) \o Pushed(n) /\ live' = live \cup {n}
  /\ UNCHANGED <<nodes, outputs, pc, source, cursor, current, groups, fusion, launches>>

(* Faulty: the number of nodes kept before n, one too low except for the   *)
(* first.                                                                  *)
remap_before(n) == Max({1, Cardinality({m \in live : m < n})})

remap(n) == Rank(live, n)

Renumbered(node) == [node EXCEPT !.inputs = [i \in DOMAIN @ |-> remap(@[i])]]

DceOutputs == [i \in DOMAIN outputs |-> remap(outputs[i])]

DceSweep ==
  /\ pc = "mark" /\ worklist = << >>
  /\ nodes' = Kept([n \in DOMAIN nodes |-> Renumbered(nodes[n])], live)
  /\ outputs' = DceOutputs
  /\ pc' = "ready"
  /\ live' = {}
  /\ UNCHANGED <<source, cursor, current, groups, fusion, worklist, launches>>

-----------------------------------------------------------------------------
CompilerNext ==
  \/ Emit \/ EmitConstant \/ SetOutputs
  \/ RunPipeline \/ FoldNode \/ InferLayout \/ FuseRoot \/ FuseExtend \/ Plan
  \/ DceBegin \/ DceMark \/ DceSweep

CompilerSpec == CompilerInit /\ [][CompilerNext]_compilerVars

-----------------------------------------------------------------------------
(* The reference: what a valid module computes.                            *)

(* The product of the last r dimensions; the number of elements of a       *)
(* tensor, which is 1 for rank 0.                                          *)
Stride(dims, r) ==
  LET stride[i \in 0 .. Len(dims)] ==
        IF i = 0 THEN 1 ELSE stride[i - 1] * FromRight(dims, i - 1)
  IN  stride[IF r < Len(dims) THEN r ELSE Len(dims)]
Size(dims) == Stride(dims, Len(dims))

(* The element of an operand of shape dims that broadcasting lines up with *)
(* element k (from 1, row major) of a result of shape out.                 *)
LinedUp(dims, out, k) ==
  LET Coordinate(r) == ((k - 1) \div Stride(out, r)) % FromRight(out, r)
      offset[i \in 0 .. Len(dims)] ==
        IF i = 0 THEN 0
        ELSE IF FromRight(dims, i - 1) = 1 THEN offset[i - 1]
        ELSE offset[i - 1] + Coordinate(i - 1) * Stride(dims, i - 1)
  IN  1 + offset[Len(dims)]

(* The value of every node that depends on constants with data only; empty *)
(* for the others.                                                         *)
Values(ns) ==
  LET V[n \in DOMAIN ns] ==
        LET node == ns[n]
            Args == [i \in DOMAIN node.inputs |-> V[node.inputs[i]]]
            Element(i, k) == Args[i][LinedUp(ns[node.inputs[i]].dims, node.dims, k)]
        IN  IF node.op = "Constant" THEN node.data
            ELSE IF node.op \in {"Add", "Mul"} /\ \A i \in DOMAIN Args : Args[i] # << >>
            THEN [k \in 1 .. Size(node.dims) |-> Apply(node.op, Element(1, k), Element(2, k))]
            ELSE IF node.op \in {"Relu", "Gelu", "Cast", "Reshape"}
            THEN [k \in DOMAIN Args[1] |-> Apply(node.op, Args[1][k], 0)]
            ELSE << >>
  IN  V

(* The expression every node of a valid module stands for.                 *)
Terms(ns) ==
  LET T[n \in DOMAIN ns] ==
        [op |-> ns[n].op, dims |-> ns[n].dims, layout |-> ns[n].layout, data |-> ns[n].data,
         args |-> [i \in DOMAIN ns[n].inputs |-> T[ns[n].inputs[i]]]]
  IN  T

(* The nodes some output depends on: the smallest set that holds the       *)
(* outputs and the inputs of its members.                                  *)
Closed(ns, outs) ==
  {R \in SUBSET DOMAIN ns :
     ToSet(outs) \subseteq R /\ \A n \in R : ToSet(ns[n].inputs) \subseteq R}
Reachable(ns, outs) == {n \in DOMAIN ns : \A R \in Closed(ns, outs) : n \in R}

-----------------------------------------------------------------------------
(* Passes keep a valid module valid: constant_fold and the renumbering of  *)
(* dead_code_eliminate leave arities, operand order and shapes consistent  *)
(* at every step, and a plan with launches is only ever made for valid IR  *)
(* ("A compiler report must never describe executable work for malformed   *)
(* IR", pipeline.cpp).                                                     *)
PassesKeepValid ==
  /\ (pc # "build" /\ validate(source.nodes)) => validate(nodes)
  /\ launches # << >> => validate(nodes)

(* Constants that Module::constant refused although they are in the        *)
(* module, because they have more data than elements.                      *)
Overfull(ns) == {n \in DOMAIN ns : ns[n].op = "Constant" /\ Len(ns[n].data) > elements(ns[n].dims)}

(* constant_fold computes what the operators it removes would have: a      *)
(* folded node whose payload has the size of its shape holds the value of  *)
(* its expression in the module the pass was given, with operands aligned  *)
(* as broadcasting aligns them.  The exception are nodes that depend on an *)
(* overfull constant: their sums may fill a shape by accident.             *)
FoldSound ==
  pc \in {"fold", "fuse"} =>
    \A n \in DOMAIN nodes :
      (/\ HasData(n) /\ Len(nodes[n].data) = Size(nodes[n].dims)
       /\ Reachable(source.nodes, <<n>>) \cap Overfull(source.nodes) = {})
        => nodes[n].data = Values(source.nodes)[n]

(* dead_code_eliminate keeps the program: after the nodes are compacted    *)
(* and renumbered every output stands for the same expression as before.   *)
DceKeepsOutputs ==
  [][(DceSweep /\ validate(source.nodes)) =>
       \A i \in DOMAIN outputs :
         Terms(nodes')[outputs'[i]] = Terms(source.nodes)[source.outputs[i]]]_compilerVars

(* dead_code_eliminate is exact, on cyclic modules too: the marking loop   *)
(* ends with the nodes the outputs depend on, no more and no fewer.        *)
DceExact ==
  (pc = "mark" /\ worklist = << >>) => live = Reachable(nodes, outputs)

(* fuse() puts every node into exactly one group: nothing is launched      *)
(* twice and nothing is left out.                                          *)
FusePartition ==
  Fused =>
    /\ Visited = DOMAIN nodes
    /\ Len(FlattenSeq(groups)) = Len(nodes)

(* Every constant has as many data as its shape has elements: what         *)
(* Module::constant enforces ("constant payload size mismatch").           *)
PayloadMatchesShape ==
  \A n \in DOMAIN nodes : HasData(n) => Len(nodes[n].data) = elements(nodes[n].dims)
=============================================================================
