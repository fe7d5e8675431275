------------------------------- MODULE Grouped -------------------------------
(***************************************************************************)
(* composedforward_solution: the chain is cut into groups of max_nest      *)
(* operations; each line inlines a group into one expression over the      *)
(* node that ends the previous group, and states its value.                *)
(* normalforward_solution is the case of one operation per group;          *)
(* implicit_solution cuts alike and states the values only.                *)
(*                                                                         *)
(* The expression's text is kept as the pair <<rest, last>> of what a      *)
(* reader computes from it with the usual precedence: rest + last, where   *)
(* last is the product (or parenthesis) it ends in.                        *)
(***************************************************************************)
EXTENDS Chain

CONSTANT Nests      \* values of max_nest

ASSUME NestsAssumption == Nests \subseteq Nat \ {0}

VARIABLES
    pc,
    nest,           \* max_nest
    start,          \* bp_prev: the node the current group starts from
    pos,            \* the node reached inside the group
    expr, parens,   \* expr_val and needs_parens
    curr

groupVars == <<nest, start, pos, expr, parens, curr>>
vars == <<chainVars, pc, groupVars>>

\* the next breakpoint: range(max_nest, op, max_nest), and op after it
GroupEnd == IF start + nest < Op THEN start + nest ELSE Op

\* what the text says it is worth
Worth(e) == e[1] + e[2]

Parenthesise(e) == <<0, Worth(e)>>

\* the text followed by " o c"
Inlined(e, o, c) ==
    CASE o = "+" -> <<Worth(e), c>>
      [] o = "-" -> <<Worth(e), -c>>
      [] o = "*" -> <<e[1], e[2] * c>>

-----------------------------------------------------------------------------
Init ==
    /\ ChainInit
    /\ pc = "generate"
    /\ nest \in Nests
    /\ start = 0 /\ pos = 0
    /\ expr = <<0, 0>> /\ parens = FALSE /\ curr = 0

Generate ==
    /\ pc = "generate"
    /\ AddNode
    /\ UNCHANGED <<pc, groupVars>>

\* mutant: needs_parens survives from one group to the next
OpenStale ==
    /\ \/ pc = "generate" /\ Complete
       \/ pc = "group" /\ pos = GroupEnd /\ pos < Op
    /\ pc' = "group"
    /\ start' = pos
    /\ expr' = <<0, values[pos + 1]>>
    /\ curr' = curr
    /\ UNCHANGED <<chainVars, nest, pos, parens>>

\* a new group: the text starts with the value of the node before it
Open ==
    /\ \/ pc = "generate" /\ Complete
       \/ pc = "group" /\ pos = GroupEnd /\ pos < Op
    /\ pc' = "group"
    /\ start' = pos
    /\ expr' = <<0, values[pos + 1]>> /\ parens' = FALSE
    /\ curr' = values[pos + 1]
    /\ UNCHANGED <<chainVars, nest, pos>>

\* mutant: a difference is not known to need parentheses
InlineSumsOnly ==
    /\ pc = "group" /\ pos < GroupEnd
    /\ LET o == ops[pos + 1]
           c == constants[pos + 1]
           wrap == o = "*" /\ parens
       IN  /\ expr' = Inlined(IF wrap THEN Parenthesise(expr) ELSE expr, o, c)
           /\ parens' = (o = "+" \/ (parens /\ ~wrap))
           /\ curr' = Apply(o, curr, c) % Mod
    /\ pos' = pos + 1
    /\ UNCHANGED <<chainVars, pc, nest, start>>

\* one more operation of the group is inlined
Inline ==
    /\ pc = "group" /\ pos < GroupEnd
    /\ LET o == ops[pos + 1]
           c == constants[pos + 1]
           wrap == o = "*" /\ parens
       IN  /\ expr' = Inlined(IF wrap THEN Parenthesise(expr) ELSE expr, o, c)
           /\ parens' = (o \in {"+", "-"} \/ (parens /\ ~wrap))
           /\ curr' = Apply(o, curr, c) % Mod
    /\ pos' = pos + 1
    /\ UNCHANGED <<chainVars, pc, nest, start>>

Finish ==
    /\ pc = "group" /\ pos = Op
    /\ pc' = "done"
    /\ UNCHANGED <<chainVars, groupVars>>

Written == pc = "done" /\ UNCHANGED vars

Next == Generate \/ Open \/ Inline \/ Finish \/ Written

Spec == Init /\ [][Next]_vars

-----------------------------------------------------------------------------
TypeOK ==
    /\ ChainType
    /\ pc \in {"generate", "group", "done"}
    /\ nest \in Nests
    /\ start \in 0 .. Op /\ pos \in 0 .. Op
    /\ expr \in Int \X Int /\ parens \in BOOLEAN /\ curr \in Nat
    /\ pc = "generate" => pos = 0
    /\ pc # "generate" => Complete

\* However many operations are inlined into one expression, read with the
\* usual precedence of * over + and - it is worth, modulo Mod, the value the
\* line ends in, and that is the node's value in the problem: the parentheses
\* are where they are needed, for a max_nest that divides the number of
\* operations, does not divide it, or exceeds it.
ExpressionMeansNode ==
    pc # "generate" => /\ Worth(expr) % Mod = curr % Mod
                       /\ curr = values[pos + 1]

\* why the parentheses suffice: a text that needs none is a single product
NoParensNeeded == ~parens => expr[1] = 0

GroupedInv == TypeOK /\ ChainCorrect /\ ExpressionMeansNode /\ NoParensNeeded
=============================================================================
