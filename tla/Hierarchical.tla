----------------------------- MODULE Hierarchical -----------------------------
(***************************************************************************)
(* balanceforward_solution: the first two operations are computed, the     *)
(* rest of the chain is cut into segments of two operations, each a linear *)
(* form of its end in the node it starts from, and the segments are        *)
(* resolved over a balanced binary tree: the left half to a value, the     *)
(* right half to one form in the left half's end.                          *)
(*                                                                         *)
(* An equation [end, base, form] is the text "X_end = form in X_base";     *)
(* nodes are numbered from 0.  "lines" are the equations the solution has  *)
(* stated, "told" the values <<node, value>> its tree part states.         *)
(***************************************************************************)
EXTENDS Chain

VARIABLES pc, segments, lines, told, answer

vars == <<chainVars, pc, segments, lines, told, answer>>

\* op & (op - 1) = 0: no odd number but 1 divides op
PowerOfTwo == Op > 1 /\ \A d \in 3 .. Op : Op % d = 0 => d % 2 = 0

Value(node) == values[node + 1]

Equation(end, base, form) == [end |-> end, base |-> base, form |-> form]

\* A run <<i, j>> of segments: those after the i-th, up to the j-th.  Its
\* pivot is the end of the segment before it.
Places == 1 .. Len(segments)
Runs == {run \in Places \X Places : run[1] < run[2]}

End(i) == segments[i].end
Half(run) == run[1] + (run[2] - run[1]) \div 2
Left(run) == <<run[1], Half(run)>>
Right(run) == <<Half(run), run[2]>>

\* the forms of the two halves as one form in the pivot
Combine(run, left, right) ==
    LET form == Canonicalize(Compose(right.form, left.form))
    IN  [form |-> form,
         lines |-> left.lines \cup right.lines
                   \cup {Equation(End(run[2]), End(Half(run)), right.form),
                         Equation(End(run[2]), End(run[1]), form)}]

\* _balance_chain_right: a run of segments as one form in its pivot
ChainRight[run \in Runs] ==
    IF run[2] = run[1] + 1
    THEN [form |-> segments[run[2]].form, lines |-> {}]
    ELSE Combine(run, ChainRight[Left(run)], ChainRight[Right(run)])

\* the value the first half of n segments ends in, put into the form of the
\* second half
Finish(n, left, right) ==
    LET value == Eval(right.form, left.value)
    IN  [value |-> value,
         lines |-> left.lines \cup right.lines
                   \cup {Equation(End(n), End(n \div 2), right.form)},
         told |-> left.told \cup {<<End(n), value>>}]

\* a single segment
Substituted(segment, base) ==
    LET value == Eval(segment.form, base)
    IN  [value |-> value, lines |-> {segment},
         told |-> {<<segment.end, value>>}]

\* _balance_resolve: the value the first n segments end in
ResolveTree[n \in 0 .. Len(segments)] ==
    CASE n = 0 -> [value |-> Value(2), lines |-> {}, told |-> {}]
      [] n = 1 -> Substituted(segments[1], Value(2))
      [] OTHER -> Finish(n, ResolveTree[n \div 2],
                         ChainRight[<<n \div 2, n>>])

-----------------------------------------------------------------------------
Init ==
    /\ ChainInit
    /\ pc = "generate" /\ segments = <<>> /\ lines = {}
    /\ told = {} /\ answer = 0

Generate ==
    /\ pc = "generate"
    /\ AddNode
    /\ UNCHANGED <<pc, segments, lines, told, answer>>

\* a chain whose length is no power of two is refused
Begin ==
    /\ pc = "generate" /\ Complete
    /\ pc' = IF PowerOfTwo THEN "segments" ELSE "refused"
    /\ UNCHANGED <<chainVars, segments, lines, told, answer>>

\* one iteration of the loop over seg_idx
AddSegment ==
    /\ pc = "segments" /\ Len(segments) < Op \div 2 - 1
    /\ LET base == 2 * (Len(segments) + 1)
           formA == Canonicalize(LinearOf(ops[base + 1], constants[base + 1]))
           formB == Canonicalize(Extend(formA, ops[base + 2],
                                        constants[base + 2]))
           segment == Equation(base + 2, base, formB)
       IN  /\ segments' = Append(segments, segment)
           /\ lines' = lines \cup {Equation(base + 1, base, formA), segment}
    /\ UNCHANGED <<chainVars, pc, told, answer>>

Resolve ==
    /\ pc = "segments" /\ Len(segments) = Op \div 2 - 1
    /\ LET tree == ResolveTree[Len(segments)]
       IN  /\ answer' = tree.value
           /\ lines' = lines \cup tree.lines
           /\ told' = tree.told
    /\ pc' = "done"
    /\ UNCHANGED <<chainVars, segments>>

Written == pc \in {"done", "refused"} /\ UNCHANGED vars

Next == Generate \/ Begin \/ AddSegment \/ Resolve \/ Written

Spec == Init /\ [][Next]_vars

-----------------------------------------------------------------------------
TypeOK ==
    /\ ChainType
    /\ pc \in {"generate", "segments", "done", "refused"}
    /\ segments \in Seq(lines)
    /\ \A eq \in lines : /\ eq.base \in 0 .. Op /\ eq.end \in 1 .. Op
                          /\ eq.base < eq.end /\ eq.form \in CanonicalForm
    /\ answer \in Nat

\* The equation holds of the problem's values.
Holds(eq) == Eval(eq.form, Value(eq.base)) = Value(eq.end)

\* Every equation the solution states is true: the two operations of each
\* segment folded into one form, and the forms of the tree, which are composed
\* of two halves that were folded independently of each other.
LinesTrue == \A eq \in lines : Holds(eq)

\* Every value the tree part states on its way is the node's value, and the
\* value at the root is the one of the Answer line, also when the tree is
\* empty because the chain has two operations only.
TreeAgrees ==
    pc = "done" => /\ \A t \in told : t[2] = Value(t[1])
                   /\ answer = Value(Op)
=============================================================================
