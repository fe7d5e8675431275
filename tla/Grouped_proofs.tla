---------------------------- MODULE Grouped_proofs ----------------------------
(***************************************************************************)
(* For every modulus, chain and max_nest, each expression the composed     *)
(* solution writes is worth the value of the node it stands for.           *)
(***************************************************************************)
EXTENDS Grouped, Chain_proofs

-----------------------------------------------------------------------------
(* Texts *)

\* Appending " o c" to a text without open sums, or to a parenthesised one,
\* applies the operation to the text's worth.
LEMMA InlinedWorth ==
    ASSUME NEW e \in Int \X Int, NEW o \in Ops, NEW c \in Int,
           o = "*" => e[1] = 0
    PROVE  /\ Inlined(e, o, c) \in Int \X Int
           /\ Worth(Inlined(e, o, c)) = Apply(o, Worth(e), c)
<1>1. e[1] \in Int /\ e[2] \in Int  OBVIOUS
<1>2. CASE o = "+"
  <2>1. Inlined(e, o, c) = <<e[1] + e[2], c>>  BY <1>2 DEF Inlined, Worth
  <2> QED  BY <1>1, <1>2, <2>1 DEF Worth, Apply
<1>3. CASE o = "-"
  <2>1. Inlined(e, o, c) = <<e[1] + e[2], -c>>  BY <1>3 DEF Inlined, Worth
  <2> QED  BY <1>1, <1>3, <2>1 DEF Worth, Apply
<1>4. CASE o = "*"
  <2>1. Inlined(e, o, c) = <<0, e[2] * c>>  BY <1>4 DEF Inlined
  <2>2. e[2] * c \in Int /\ Worth(e) = e[2]  BY <1>1, <1>4 DEF Worth
  <2> QED  BY <1>4, <2>1, <2>2 DEF Worth, Apply
<1> QED  BY <1>2, <1>3, <1>4 DEF Ops

-----------------------------------------------------------------------------
(* The invariant *)

\* It holds of the first node alone.
LEMMA GroupedInit == Init => GroupedInv
<1> SUFFICES ASSUME Init PROVE GroupedInv  OBVIOUS
<1>1. /\ ChainInit /\ pc = "generate" /\ nest \in Nests /\ start = 0 /\ pos = 0
      /\ expr = <<0, 0>> /\ parens = FALSE /\ curr = 0
  BY DEF Init
<1>2. ChainType /\ ChainCorrect  BY <1>1, ChainInitType
<1>3. expr \in Int \X Int /\ expr[1] = 0  BY <1>1
<1>4. TypeOK
  <2>1. start \in 0 .. Op /\ pos \in 0 .. Op  BY <1>1, ChainAssumption
  <2> QED  BY <1>1, <1>2, <1>3, <2>1 DEF TypeOK
<1> QED
  BY <1>1, <1>2, <1>3, <1>4 DEF GroupedInv, ExpressionMeansNode, NoParensNeeded

\* Open: the new text is the value of the node it starts from.
LEMMA OpenStep ==
    ASSUME GroupedInv, Open
    PROVE  GroupedInv'
<1>1. /\ ChainType /\ ChainCorrect /\ Complete /\ pos \in 0 .. Op
      /\ nest \in Nests /\ Op \in Nat
      /\ UNCHANGED <<values, ops, constants, nest, pos>>
      /\ pc' = "group" /\ start' = pos /\ parens' = FALSE
      /\ expr' = <<0, values[pos + 1]>> /\ curr' = values[pos + 1]
  BY ChainAssumption DEF Open, GroupedInv, TypeOK, chainVars
<1>2. values[pos + 1] \in Nat  BY <1>1 DEF ChainType, Complete
<1>3. ChainType' /\ ChainCorrect'  BY <1>1 DEF ChainType, ChainCorrect
<1>4. TypeOK'
  <2>1. expr' \in Int \X Int /\ curr' \in Nat  BY <1>1, <1>2
  <2> QED  BY <1>1, <1>3, <2>1 DEF TypeOK, Complete
<1>5. ExpressionMeansNode'
  <2>1. Worth(expr') = values[pos + 1]  BY <1>1, <1>2 DEF Worth
  <2> QED  BY <1>1, <2>1 DEF ExpressionMeansNode, Worth
<1> QED  BY <1>1, <1>3, <1>4, <1>5 DEF GroupedInv, NoParensNeeded

\* Inline: the text and the running value stay equal modulo Mod.
LEMMA InlineStep ==
    ASSUME GroupedInv, Inline
    PROVE  GroupedInv'
<1> DEFINE o == ops[pos + 1]
           c == constants[pos + 1]
           wrap == o = "*" /\ parens
           e == IF wrap THEN Parenthesise(expr) ELSE expr
<1>1. /\ ChainType /\ ChainCorrect /\ Len(ops) = Op /\ Op \in Nat
      /\ pos \in 0 .. Op - 1 /\ start \in 0 .. Op /\ nest \in Nests
      /\ UNCHANGED <<values, ops, constants, pc, nest, start>>
      /\ pc = "group" /\ pos' = pos + 1
      /\ expr \in Int \X Int /\ parens \in BOOLEAN /\ curr \in Nat
      /\ Worth(expr) % Mod = curr % Mod /\ curr = values[pos + 1]
      /\ ~parens => expr[1] = 0
  <2>1. /\ TypeOK /\ ChainCorrect /\ pc = "group" /\ pos < GroupEnd
        /\ pos' = pos + 1
        /\ UNCHANGED <<values, ops, constants, pc, nest, start>>
    BY DEF Inline, GroupedInv, chainVars
  <2>2. /\ ChainType /\ Len(ops) = Op /\ nest \in Nests
        /\ start \in 0 .. Op /\ pos \in 0 .. Op
        /\ expr \in Int \X Int /\ parens \in BOOLEAN /\ curr \in Nat
    BY <2>1 DEF TypeOK, Complete
  <2>3. pos \in 0 .. Op - 1
    <3>1. nest \in Nat  BY <2>2, NestsAssumption
    <3>2. GroupEnd <= Op  BY <2>2, <3>1, ChainAssumption DEF GroupEnd
    <3>3. GroupEnd \in Int  BY <2>2, <3>1, ChainAssumption DEF GroupEnd
    <3> QED  BY <2>1, <2>2, <3>2, <3>3, ChainAssumption
  <2>4. /\ Worth(expr) % Mod = curr % Mod /\ curr = values[pos + 1]
        /\ ~parens => expr[1] = 0
    BY <2>1 DEF GroupedInv, ExpressionMeansNode, NoParensNeeded
  <2> QED  BY <2>1, <2>2, <2>3, <2>4, ChainAssumption
<1>2. /\ expr' = Inlined(e, o, c)
      /\ parens' = (o \in {"+", "-"} \/ (parens /\ ~wrap))
      /\ curr' = Apply(o, curr, c) % Mod
  BY DEF Inline
<1>3. /\ o \in Ops /\ c \in Int
      /\ values[pos + 2] = Apply(o, values[pos + 1], c) % Mod
  <2>1. pos + 1 \in 1 .. Len(ops)  BY <1>1
  <2>2. values[(pos + 1) + 1] = Apply(o, values[pos + 1], c) % Mod
    BY <1>1, <2>1 DEF ChainCorrect
  <2> QED  BY <1>1, <2>1, <2>2, NodeType
<1> HIDE DEF o, c
<1>4. /\ e \in Int \X Int /\ Worth(e) = Worth(expr) /\ Worth(e) \in Int
      /\ o = "*" => e[1] = 0
  <2>1. expr[1] \in Int /\ expr[2] \in Int  BY <1>1
  <2>2. CASE wrap  BY <2>1, <2>2 DEF Parenthesise, Worth
  <2>3. CASE ~wrap  BY <1>1, <2>1, <2>3 DEF Worth
  <2> QED  BY <2>2, <2>3
<1>5. expr' \in Int \X Int /\ Worth(expr') = Apply(o, Worth(expr), c)
  <2> HIDE DEF e
  <2>1. /\ Inlined(e, o, c) \in Int \X Int
        /\ Worth(Inlined(e, o, c)) = Apply(o, Worth(e), c)
    BY <1>3, <1>4, InlinedWorth
  <2>2. Worth(expr') = Worth(Inlined(e, o, c))  BY <1>2 DEF Worth
  <2> QED  BY <1>2, <1>4, <2>1, <2>2
<1>6. Worth(expr') % Mod = curr'
  BY <1>1, <1>2, <1>3, <1>4, <1>5, ApplyReduces
<1>7. curr' \in 0 .. Mod - 1 /\ curr' % Mod = curr'
  BY <1>1, <1>2, <1>3, ApplyType, SmallRemainder
<1>8. ChainType' /\ ChainCorrect'  BY <1>1 DEF ChainType, ChainCorrect
<1>9. TypeOK'
  <2>1. parens' \in BOOLEAN  BY <1>2
  <2> QED  BY <1>1, <1>5, <1>7, <1>8, <2>1 DEF TypeOK, Complete
<1>10. ExpressionMeansNode'
  BY <1>1, <1>2, <1>3, <1>6, <1>7 DEF ExpressionMeansNode, Worth
<1>11. NoParensNeeded'
  <2>1. CASE o = "*"
    <3>1. expr'[1] = e[1]  BY <1>2, <2>1 DEF Inlined
    <3> QED  BY <1>4, <2>1, <3>1 DEF NoParensNeeded
  <2>2. CASE o # "*"  BY <1>2, <1>3, <2>2 DEF NoParensNeeded, Ops
  <2> QED  BY <2>1, <2>2
<1> QED  BY <1>8, <1>9, <1>10, <1>11 DEF GroupedInv

\* Every step keeps the invariant.
LEMMA GroupedStep == GroupedInv /\ [Next]_vars => GroupedInv'
<1> SUFFICES ASSUME GroupedInv, [Next]_vars PROVE GroupedInv'  OBVIOUS
<1>1. CASE Generate
  <2>1. ChainType /\ ChainCorrect  BY DEF GroupedInv, TypeOK
  <2>2. ChainType' /\ ChainCorrect'  BY <1>1, <2>1, AddNodeStep DEF Generate
  <2> QED
    BY <1>1, <2>2
       DEF Generate, groupVars, GroupedInv, TypeOK, ExpressionMeansNode,
           NoParensNeeded
<1>2. CASE Open  BY <1>2, OpenStep
<1>3. CASE Inline  BY <1>3, InlineStep
<1>4. CASE Finish
  BY <1>4
     DEF Finish, chainVars, groupVars, GroupedInv, TypeOK, ChainType,
         ChainCorrect, ExpressionMeansNode, NoParensNeeded, Complete
<1>5. CASE UNCHANGED vars
  BY <1>5
     DEF vars, chainVars, groupVars, GroupedInv, TypeOK, ChainType,
         ChainCorrect, ExpressionMeansNode, NoParensNeeded, Complete
<1> QED  BY <1>1, <1>2, <1>3, <1>4, <1>5 DEF Next, Written

-----------------------------------------------------------------------------
\* composedforward_solution: chain and expression keep their types, the chain is
\* computed as its operations say, and a text without parentheses needs none.
THEOREM GroupsStayCorrect == Spec => []GroupedInv
  BY GroupedInit, GroupedStep, PTL DEF Spec

\* composedforward_solution: each expression, however many operations it
\* inlines, is worth the value its line ends in, and that is the node's value.
THEOREM ExpressionsMeanNodes == Spec => []ExpressionMeansNode
<1>1. GroupedInv => ExpressionMeansNode  BY DEF GroupedInv
<1> QED  BY <1>1, GroupedInit, GroupedStep, PTL DEF Spec
=============================================================================
