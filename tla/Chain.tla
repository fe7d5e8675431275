-------------------------------- MODULE Chain --------------------------------
(***************************************************************************)
(* generate_chain: the problem is a chain of Op operations; value i + 1 is *)
(* value i combined with a constant, modulo Mod.  The names of the nodes,  *)
(* the noise sentences and the wording carry no arithmetic and are left    *)
(* out.  Sequences count from 1, so values[i + 1] is the code's values[i]. *)
(***************************************************************************)
EXTENDS LinearForm, Sequences

CONSTANTS Op, NumberRange

ASSUME ChainAssumption == Op \in Nat \ {0} /\ NumberRange \in Nat

VARIABLES values, ops, constants

chainVars == <<values, ops, constants>>

\* what random.randint can return for an operation
ConstantsFor(o) == (IF o = "*" THEN 2 ELSE 1) .. (NumberRange - 1)

ChainInit ==
    /\ \E v \in 1 .. (NumberRange - 1) : values = <<v>>
    /\ ops = <<>> /\ constants = <<>>

Complete == Len(ops) = Op

\* mutant: the value of the new node is not reduced
AddNodeUnreduced ==
    /\ ~Complete
    /\ \E o \in Ops : \E c \in ConstantsFor(o) :
          /\ values' = Append(values, Apply(o, values[Len(values)], c))
          /\ ops' = Append(ops, o)
          /\ constants' = Append(constants, c)

\* one operation of the loop
AddNode ==
    /\ ~Complete
    /\ \E o \in Ops : \E c \in ConstantsFor(o) :
          /\ values' = Append(values,
                              Apply(o, values[Len(values)], c) % Mod)
          /\ ops' = Append(ops, o)
          /\ constants' = Append(constants, c)

ChainType ==
    /\ values \in Seq(Nat) /\ ops \in Seq(Ops) /\ constants \in Seq(Nat)
    /\ Len(ops) \in 0 .. Op
    /\ Len(values) = Len(ops) + 1 /\ Len(constants) = Len(ops)

\* every node is what its sentence in the problem says it is
ChainCorrect ==
    \A i \in 1 .. Len(ops) :
        values[i + 1] = Apply(ops[i], values[i], constants[i]) % Mod
=============================================================================
