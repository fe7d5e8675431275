--------------------------- MODULE Backward_proofs ---------------------------
(***************************************************************************)
(* For every modulus, number of operations and range of constants, each    *)
(* line of the backward solution is true and its last value is the Answer. *)
(***************************************************************************)
EXTENDS Backward, Chain_proofs

-----------------------------------------------------------------------------
(* The invariant *)

\* It holds of the first node alone.
LEMMA BackwardInit == Init => BackwardInv
<1> SUFFICES ASSUME Init PROVE BackwardInv  OBVIOUS
<1>1. /\ ChainInit /\ pc = "generate" /\ k = 0
      /\ form = <<0, 0>> /\ answer = 0
  BY DEF Init
<1>2. ChainType /\ ChainCorrect  BY <1>1, ChainInitType
<1>3. TypeOK  BY <1>1, <1>2, ChainAssumption DEF TypeOK, Form
<1> QED  BY <1>1, <1>2, <1>3 DEF BackwardInv, EveryLineTrue, AnswerAgrees

\* Start: the form of the last operation at the last node but one is the
\* target's value.
LEMMA StartStep ==
    ASSUME BackwardInv, Start
    PROVE  BackwardInv'
<1>1. /\ ChainType /\ ChainCorrect /\ Len(ops) = Op /\ Op \in Nat \ {0}
      /\ UNCHANGED <<values, ops, constants, answer>>
      /\ form' = Canonicalize(LinearOf(ops[Op], constants[Op]))
      /\ k' = Op - 1 /\ pc' = "derive" /\ answer \in Nat
  BY ChainAssumption DEF BackwardInv, TypeOK, Start, Complete, chainVars
<1>2. /\ values[Op] \in Int /\ ops[Op] \in Ops /\ constants[Op] \in Int
  BY <1>1, NodeType
<1>3. /\ LinearOf(ops[Op], constants[Op]) \in Form
      /\ Eval(LinearOf(ops[Op], constants[Op]), values[Op])
            = Apply(ops[Op], values[Op], constants[Op]) % Mod
  BY <1>2, LinearOfValue
<1>4. form' \in Form /\ Eval(form', values[Op]) = values[Op + 1]
  BY <1>1, <1>2, <1>3, CanonicalizeKeepsValue DEF ChainCorrect
<1>5. ChainType' /\ ChainCorrect'  BY <1>1 DEF ChainType, ChainCorrect
<1>6. TypeOK'  BY <1>1, <1>4, <1>5 DEF TypeOK, Complete
<1>7. EveryLineTrue'
  <2>1. k' + 1 = Op /\ values' = values  BY <1>1
  <2> QED  BY <1>4, <2>1 DEF EveryLineTrue, Eval
<1> QED  BY <1>1, <1>5, <1>6, <1>7 DEF BackwardInv, AnswerAgrees

\* Rewrite: putting node k - 1's operation in for node k does not change what
\* the form yields.
LEMMA RewriteStep ==
    ASSUME BackwardInv, Rewrite
    PROVE  BackwardInv'
<1>1. /\ ChainType /\ ChainCorrect /\ Len(ops) = Op /\ Op \in Nat \ {0}
      /\ UNCHANGED <<values, ops, constants, pc, answer>>
      /\ form \in Form
      /\ form' = Canonicalize(Substitute(form, ops[k], constants[k]))
      /\ k \in 1 .. Op - 1 /\ k' = k - 1 /\ pc = "derive" /\ answer \in Nat
      /\ Eval(form, values[k + 1]) = values[Op + 1]
  BY ChainAssumption
     DEF BackwardInv, TypeOK, Rewrite, Complete, chainVars, EveryLineTrue
<1> DEFINE o == ops[k]
           c == constants[k]
<1>2. /\ values[k] \in Int /\ o \in Ops /\ c \in Int
      /\ values[k + 1] = Apply(o, values[k], c) % Mod
  <2>1. k \in 1 .. Len(ops)  BY <1>1
  <2> QED  BY <1>1, <2>1, NodeType DEF ChainCorrect
<1>3. /\ Substitute(form, o, c) \in Form
      /\ Eval(Substitute(form, o, c), values[k])
            = Eval(form, Apply(o, values[k], c))
  BY <1>1, <1>2, SubstituteValue
<1>4. Eval(form, Apply(o, values[k], c)) = Eval(form, values[k + 1])
  BY <1>1, <1>2, ApplyType, EvalReduces
<1>5. form' \in Form /\ Eval(form', values[k]) = values[Op + 1]
  BY <1>1, <1>2, <1>3, <1>4, CanonicalizeKeepsValue
<1>6. ChainType' /\ ChainCorrect'  BY <1>1 DEF ChainType, ChainCorrect
<1>7. TypeOK'  BY <1>1, <1>5, <1>6 DEF TypeOK, Complete
<1>8. EveryLineTrue'
  <2>1. k' + 1 = k /\ values' = values  BY <1>1
  <2> QED  BY <1>5, <2>1 DEF EveryLineTrue, Eval
<1> QED  BY <1>1, <1>6, <1>7, <1>8 DEF BackwardInv, AnswerAgrees

\* Every step keeps the invariant.
LEMMA BackwardStep == BackwardInv /\ [Next]_vars => BackwardInv'
<1> SUFFICES ASSUME BackwardInv, [Next]_vars PROVE BackwardInv'  OBVIOUS
<1>1. CASE Generate
  <2>1. ChainType /\ ChainCorrect  BY DEF BackwardInv, TypeOK
  <2>2. ChainType' /\ ChainCorrect'  BY <1>1, <2>1, AddNodeStep DEF Generate
  <2> QED
    BY <1>1, <2>2
       DEF Generate, BackwardInv, TypeOK, EveryLineTrue, AnswerAgrees
<1>2. CASE Start  BY <1>2, StartStep
<1>3. CASE Rewrite  BY <1>3, RewriteStep
<1>4. CASE PutIn
  <2>1. /\ Eval(form, values[1]) = values[Op + 1] /\ form \in Form
        /\ ChainType /\ Complete /\ Op \in Nat \ {0}
    BY <1>4, ChainAssumption
       DEF PutIn, BackwardInv, TypeOK, EveryLineTrue
  <2>2. answer' = values[Op + 1] /\ answer' \in Nat
    <3>1. values[Op + 1] \in Nat
      BY <2>1 DEF ChainType, Complete
    <3> QED  BY <1>4, <2>1, <3>1 DEF PutIn
  <2>3. ChainType' /\ ChainCorrect'
    BY <1>4 DEF PutIn, chainVars, BackwardInv, TypeOK, ChainType, ChainCorrect
  <2>4. TypeOK'
    BY <1>4, <2>1, <2>2, <2>3
       DEF PutIn, chainVars, BackwardInv, TypeOK, Complete
  <2> QED
    BY <1>4, <2>2, <2>3, <2>4
       DEF PutIn, chainVars, BackwardInv, EveryLineTrue, AnswerAgrees
<1>5. CASE UNCHANGED vars
  BY <1>5
     DEF vars, chainVars, BackwardInv, TypeOK, ChainType, ChainCorrect,
         EveryLineTrue, AnswerAgrees, Complete, Eval
<1> QED  BY <1>1, <1>2, <1>3, <1>4, <1>5 DEF Next, Written

-----------------------------------------------------------------------------
\* rightforward_solution: while the derivation goes on, and at its end, the form
\* is one of a chain that is computed as its operations say.
THEOREM DerivationIsSound == Spec => []BackwardInv
  BY BackwardInit, BackwardStep, PTL DEF Spec

\* rightforward_solution: each "X = a Y + b" that the text states is true.
THEOREM LinesAreTrue == Spec => []EveryLineTrue
<1>1. BackwardInv => EveryLineTrue  BY DEF BackwardInv
<1> QED  BY <1>1, BackwardInit, BackwardStep, PTL DEF Spec

\* rightforward_solution: the value the derivation ends in is the one its
\* Answer line gives.
THEOREM AnswersAgree == Spec => []AnswerAgrees
<1>1. BackwardInv => AnswerAgrees  BY DEF BackwardInv
<1> QED  BY <1>1, BackwardInit, BackwardStep, PTL DEF Spec

\* _canonicalize is applied to every form that is printed.
THEOREM FormsAreCanonical == Spec => []Canonical
<1> DEFINE Inv == BackwardInv /\ Canonical
<1>1. Init => Inv  BY BackwardInit DEF Init, Canonical
<1>2. Inv /\ [Next]_vars => Inv'
  <2> SUFFICES ASSUME Inv, [Next]_vars PROVE Canonical'  BY BackwardStep
  <2>1. CASE Start
    <3>1. ops[Op] \in Ops /\ constants[Op] \in Int /\ values[Op] \in Int
      BY <2>1, NodeType, ChainAssumption
         DEF Start, Complete, BackwardInv, TypeOK
    <3>2. LinearOf(ops[Op], constants[Op]) \in Form  BY <3>1, LinearOfValue
    <3> QED  BY <2>1, <3>2, CanonicalizeIsCanonical DEF Start, Canonical
  <2>2. CASE Rewrite
    <3>1. /\ ops[k] \in Ops /\ constants[k] \in Int /\ values[k] \in Int
          /\ form \in Form
      <4>1. k \in 1 .. Len(ops) /\ ChainType /\ form \in Form
        BY <2>2, ChainAssumption DEF Rewrite, BackwardInv, TypeOK, Complete
      <4> QED  BY <4>1, NodeType
    <3>2. Substitute(form, ops[k], constants[k]) \in Form
      BY <3>1, SubstituteValue
    <3> QED  BY <2>2, <3>2, CanonicalizeIsCanonical DEF Rewrite, Canonical
  <2>3. CASE Generate  BY <2>3 DEF Generate, Canonical
  <2>4. CASE PutIn  BY <2>4 DEF PutIn, Canonical, CanonicalForm
  <2>5. CASE UNCHANGED vars  BY <2>5 DEF vars, Canonical, CanonicalForm
  <2> QED  BY <2>1, <2>2, <2>3, <2>4, <2>5 DEF Next, Written
<1>3. Inv => Canonical  OBVIOUS
<1> QED  BY <1>1, <1>2, <1>3, PTL DEF Spec
=============================================================================
