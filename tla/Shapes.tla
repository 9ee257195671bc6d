------------------------------- MODULE Shapes -------------------------------
(***************************************************************************)
(* Shape inference of gpuforge::compiler (src/shape.cpp and                *)
(* Shape::elements of src/compiler.cpp).  A shape is the sequence of its   *)
(* dimensions; scalar type and layout are passed through by every function *)
(* here and are left out.  A failed inference is the value Error; the      *)
(* message is left out.                                                    *)
(*                                                                         *)
(* size_t has Width bits.  A dimension is an int64_t, one bit less.        *)
(***************************************************************************)
EXTENDS Integers, Sequences, FiniteSets, FiniteSetsExt, SequencesExt

CONSTANT Width
SizeMax == 2 ^ Width - 1

ASSUME WidthAssumption == Width \in Nat \ {0} /\ SizeMax \in Nat

Error == [ok |-> FALSE, dims |-> << >>]
Ok(dims) == [ok |-> TRUE, dims |-> dims]

valid_dims(dims) == \A i \in DOMAIN dims : dims[i] >= 0

(* Shape::elements(): the product, 0 for rank 0, for a negative dimension  *)
(* and as soon as a partial product does not fit size_t.                   *)
elements(dims) ==
  LET result[i \in 0 .. Len(dims)] ==
        IF i = 0 THEN 1
        ELSE IF dims[i] < 0 \/ (dims[i] # 0 /\ result[i - 1] > SizeMax \div dims[i]) THEN 0
        ELSE result[i - 1] * dims[i]
  IN  IF dims = << >> THEN 0 ELSE result[Len(dims)]

infer_matmul(lhs, rhs) ==
  IF Len(lhs) # 2 \/ Len(rhs) # 2 \/ ~valid_dims(lhs) \/ ~valid_dims(rhs) THEN Error
  ELSE IF lhs[2] # rhs[1] THEN Error
  ELSE Ok(<<lhs[1], rhs[2]>>)

(* The dimension of a shape counted from the right, 1 beyond its rank.     *)
FromRight(dims, reverse) ==
  IF reverse < Len(dims) THEN dims[Len(dims) - reverse] ELSE 1

infer_broadcast(lhs, rhs) ==
  LET rank == Max({Len(lhs), Len(rhs)})
      Clash(r) == /\ FromRight(lhs, r) # FromRight(rhs, r)
                  /\ FromRight(lhs, r) # 1
                  /\ FromRight(rhs, r) # 1
  IN  IF ~valid_dims(lhs) \/ ~valid_dims(rhs) THEN Error
      ELSE IF \E r \in 0 .. rank - 1 : Clash(r) THEN Error
      ELSE Ok([i \in 1 .. rank |-> Max({FromRight(lhs, rank - i), FromRight(rhs, rank - i)})])

(* known_elements: the product of the given dimensions, wrapping around.   *)
Known(dims) ==
  LET known[i \in 0 .. Len(dims)] ==
        IF i = 0 THEN 1
        ELSE IF dims[i] = -1 THEN known[i - 1]
        ELSE (known[i - 1] * dims[i]) % (SizeMax + 1)
  IN  known[Len(dims)]

(* The target shape with the inferred axis filled in.                      *)
Inferred(input, dims) ==
  [i \in DOMAIN dims |-> IF dims[i] = -1 THEN elements(input) \div Known(dims) ELSE dims[i]]

infer_reshape(input, dims) ==
  LET axes == {i \in DOMAIN dims : dims[i] = -1}
  IN  IF ~valid_dims(input) \/ Cardinality(axes) > 1 \/ (\E i \in DOMAIN dims : dims[i] < -1)
      THEN Error
      ELSE IF Known(dims) = 0 THEN Error
      ELSE IF elements(input) % Known(dims) # 0 THEN Error
      ELSE IF axes = {} /\ elements(input) # Known(dims) THEN Error
      ELSE Ok(Inferred(input, dims))

=============================================================================
