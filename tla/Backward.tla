------------------------------ MODULE Backward ------------------------------
(***************************************************************************)
(* rightforward_solution: the target is written as a linear form in the    *)
(* node before it, then node by node the form is rewritten in terms of an  *)
(* earlier node, until the first node's value can be put in.  The text     *)
(* states the form after each step and the value it ends in, and closes    *)
(* with "Answer: values[-1]"; the two must agree.                          *)
(***************************************************************************)
EXTENDS Chain

VARIABLES pc, k, form, answer

vars == <<chainVars, pc, k, form, answer>>

Init ==
    /\ ChainInit
    /\ pc = "generate" /\ k = 0 /\ form = <<0, 0>> /\ answer = 0

Generate ==
    /\ pc = "generate"
    /\ AddNode
    /\ UNCHANGED <<pc, k, form, answer>>

\* the target in terms of the node before it
Start ==
    /\ pc = "generate" /\ Complete
    /\ form' = Canonicalize(LinearOf(ops[Op], constants[Op]))
    /\ k' = Op - 1
    /\ pc' = "derive"
    /\ UNCHANGED <<chainVars, answer>>

\* one iteration of the loop: node k in terms of node k - 1
Rewrite ==
    /\ pc = "derive" /\ k > 0
    /\ form' = Canonicalize(Substitute(form, ops[k], constants[k]))
    /\ k' = k - 1
    /\ UNCHANGED <<chainVars, pc, answer>>

\* mutant: the last value is not reduced
PutInUnreduced ==
    /\ pc = "derive" /\ k = 0
    /\ answer' = form[1] * values[1] + form[2]
    /\ pc' = "done"
    /\ UNCHANGED <<chainVars, k, form>>

\* the first node's value is put in
PutIn ==
    /\ pc = "derive" /\ k = 0
    /\ answer' = Eval(form, values[1])
    /\ pc' = "done"
    /\ UNCHANGED <<chainVars, k, form>>

Written == pc = "done" /\ UNCHANGED vars

Next == Generate \/ Start \/ Rewrite \/ PutIn \/ Written

Spec == Init /\ [][Next]_vars

-----------------------------------------------------------------------------
TypeOK ==
    /\ ChainType
    /\ pc \in {"generate", "derive", "done"}
    /\ k \in 0 .. Op - 1
    /\ form \in Form /\ answer \in Nat
    /\ pc # "generate" => Complete

\* Every "X = a Y + b" the solution states is true: at each step of the
\* rewriting, the form yields the target when the current node's value is put
\* in for its unknown.
EveryLineTrue == pc = "derive" => Eval(form, values[k + 1]) = values[Op + 1]

\* The chain of equalities the text spells out ends in the value its Answer
\* line gives.
AnswerAgrees == pc = "done" => answer = values[Op + 1]

\* The coefficients printed are canonical: 0 <= a < Mod and b is the
\* representative of smallest magnitude.
Canonical == pc # "generate" => form \in CanonicalForm

BackwardInv == TypeOK /\ ChainCorrect /\ EveryLineTrue /\ AnswerAgrees
=============================================================================
