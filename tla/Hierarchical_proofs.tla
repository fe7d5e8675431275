------------------------- MODULE Hierarchical_proofs -------------------------
(***************************************************************************)
(* For every modulus, number of operations and range of constants, each    *)
(* equation of the hierarchical solution is true, and the values its tree  *)
(* resolves to are the nodes' own.  The two recursive functions of the     *)
(* tree are defined over the runs of finitely many segments; that they     *)
(* satisfy their equations, and what they return, is proved by induction   *)
(* over the length of a run, as an appeal to a least counterexample.       *)
(***************************************************************************)
EXTENDS Hierarchical, Chain_proofs, WellFoundedInduction

\* Every nonempty set of natural numbers has a least element.
LEMMA Least ==
    ASSUME NEW T, T \subseteq Nat, T # {}
    PROVE  \E x \in T : \A y \in T : x <= y
<1> DEFINE R == {p \in Nat \X Nat : p[1] < p[2]}
<1>1. IsWellFoundedOn(R, Nat)
  <2>1. OpToRel(<, Nat) = R  BY DEF OpToRel
  <2> QED  BY <2>1, NatLessThanWellFounded
<1>2. \E x \in T : \A y \in T : ~(<<y, x>> \in R)  BY <1>1, WFMin
<1>3. PICK x \in T : \A y \in T : ~(<<y, x>> \in R)  BY <1>2
<1>4. ASSUME NEW y \in T PROVE x <= y
  <2>1. x \in Nat /\ y \in Nat  OBVIOUS
  <2>2. ~(<<y, x>> \in R)  BY <1>3
  <2>3. <<y, x>> \in Nat \X Nat  BY <2>1
  <2>4. ~(y < x)  BY <2>2, <2>3
  <2> QED  BY <2>1, <2>4
<1> QED  BY <1>4

-----------------------------------------------------------------------------
(* The recursion of _balance_chain_right *)

Size(run) == run[2] - run[1]

\* what _balance_chain_right returns when g is what its calls return
FoldBody(g, run) ==
    IF run[2] = run[1] + 1
    THEN [form |-> segments[run[2]].form, lines |-> {}]
    ELSE Combine(run, g[Left(run)], g[Right(run)])

\* g is right for the runs of less than k segments
FoldsBelow(g, k) ==
    g = [run \in Runs |-> IF Size(run) < k THEN FoldBody(g, run) ELSE 0]

\* The halves of a run are shorter runs.
LEMMA Halves ==
    ASSUME Len(segments) \in Nat, NEW run \in Runs, run[2] # run[1] + 1
    PROVE  /\ Left(run) \in Runs /\ Right(run) \in Runs
           /\ Size(Left(run)) < Size(run) /\ Size(Right(run)) < Size(run)
           /\ Left(run)[1] = run[1] /\ Left(run)[2] = Half(run)
           /\ Right(run)[1] = Half(run) /\ Right(run)[2] = run[2]
           /\ Half(run) \in Places
           /\ run[1] < Half(run) /\ Half(run) < run[2]
<1> DEFINE i == run[1]
           j == run[2]
           m == Half(run)
<1>1. /\ i \in Places /\ j \in Places /\ i \in Int /\ j \in Int /\ i < j
      /\ j # i + 1
  BY DEF Runs, Places
<1>2. m = i + (j - i) \div 2  BY DEF Half
<1>3. m \in Int /\ i < m /\ m < j
  <2> HIDE DEF i, j, m
  <2> QED  BY <1>1, <1>2
<1>4. m \in Places  BY <1>1, <1>3 DEF Places
<1>5. Left(run) = <<i, m>> /\ Right(run) = <<m, j>>  BY DEF Left, Right
<1> HIDE DEF i, j, m
<1>6. <<i, m>> \in Runs /\ <<m, j>> \in Runs  BY <1>1, <1>3, <1>4 DEF Runs
<1>7. Size(<<i, m>>) < j - i /\ Size(<<m, j>>) < j - i
  BY <1>1, <1>3 DEF Size
<1>8. Size(run) = j - i  BY DEF Size, i, j
<1> QED  BY <1>1, <1>3, <1>4, <1>5, <1>6, <1>7, <1>8 DEF i, j, m

\* A function that is right for the runs of less than k segments makes one
\* that is right for those of k.
LEMMA FoldsOneMore ==
    ASSUME Len(segments) \in Nat, NEW k \in Nat, NEW g, FoldsBelow(g, k)
    PROVE  \E h : FoldsBelow(h, k + 1)
<1> DEFINE h == [run \in Runs |-> IF Size(run) < k + 1
                                 THEN FoldBody(g, run) ELSE 0]
<1>1. ASSUME NEW run \in Runs PROVE Size(run) \in Int
  BY DEF Runs, Places, Size
<1>2. ASSUME NEW run \in Runs, Size(run) < k PROVE h[run] = g[run]
  <2>1. g[run] = FoldBody(g, run)  BY <1>2 DEF FoldsBelow
  <2>2. Size(run) < k + 1  BY <1>1, <1>2
  <2> QED  BY <2>1, <2>2
<1>3. ASSUME NEW run \in Runs, Size(run) < k + 1
      PROVE  FoldBody(g, run) = FoldBody(h, run)
  <2>1. CASE run[2] = run[1] + 1  BY <2>1 DEF FoldBody
  <2>2. CASE run[2] # run[1] + 1
    <3>1. /\ Left(run) \in Runs /\ Right(run) \in Runs
          /\ Size(Left(run)) < Size(run) /\ Size(Right(run)) < Size(run)
      BY <2>2, Halves
    <3>2. Size(Left(run)) < k /\ Size(Right(run)) < k  BY <1>1, <1>3, <3>1
    <3>3. h[Left(run)] = g[Left(run)] /\ h[Right(run)] = g[Right(run)]
      BY <1>2, <3>1, <3>2
    <3> HIDE DEF h
    <3> QED  BY <3>3 DEF FoldBody
  <2> QED  BY <2>1, <2>2
<1>4. h = [run \in Runs |-> IF Size(run) < k + 1
                           THEN FoldBody(h, run) ELSE 0]
  <2>1. \A run \in Runs : Size(run) < k + 1
                             => FoldBody(g, run) = FoldBody(h, run)
    BY <1>3
  <2> QED  BY <2>1, Zenon
<1> QED  BY <1>4 DEF FoldsBelow

\* The equation of _balance_chain_right has a solution, so that ChainRight is
\* one.
LEMMA ChainRightIs ==
    ASSUME Len(segments) \in Nat
    PROVE  ChainRight = [run \in Runs |-> FoldBody(ChainRight, run)]
<1> DEFINE T == {k \in Nat : ~ \E g : FoldsBelow(g, k)}
<1>1. T = {}
  <2> SUFFICES ASSUME T # {} PROVE FALSE  OBVIOUS
  <2>1. PICK k \in T : \A y \in T : k <= y
    <3>1. T \subseteq Nat  OBVIOUS
    <3> QED  BY <3>1, Least
  <2>2. CASE k = 0
    <3> DEFINE g == [run \in Runs |-> 0]
    <3>1. \A run \in Runs : ~(Size(run) < 0)  BY DEF Runs, Places, Size
    <3>2. g = [run \in Runs |-> IF Size(run) < 0
                               THEN FoldBody(g, run) ELSE 0]
      BY <3>1, Zenon
    <3>3. FoldsBelow(g, k)  BY <2>2, <3>2 DEF FoldsBelow
    <3> QED  BY <3>3
  <2>3. CASE k # 0
    <3>1. k - 1 \in Nat /\ k = (k - 1) + 1 /\ ~(k <= k - 1)  BY <2>3
    <3>2. \E g : FoldsBelow(g, k - 1)  BY <2>1, <3>1
    <3>3. \E g : FoldsBelow(g, (k - 1) + 1)  BY <3>1, <3>2, FoldsOneMore
    <3> QED  BY <3>1, <3>3
  <2> QED  BY <2>2, <2>3
<1>2. PICK g : FoldsBelow(g, Len(segments))  BY <1>1
<1>3. \A run \in Runs : Size(run) < Len(segments)  BY DEF Runs, Places, Size
<1>4. g = [run \in Runs |-> FoldBody(g, run)]
  BY <1>2, <1>3, Zenon DEF FoldsBelow
<1> QED  BY <1>4, Zenon DEF ChainRight, FoldBody

-----------------------------------------------------------------------------
(* The recursion of _balance_resolve *)

\* what _balance_resolve returns when g is what its call returns
ResolveBody(g, n) ==
    CASE n = 0 -> [value |-> Value(2), lines |-> {}, told |-> {}]
      [] n = 1 -> Substituted(segments[1], Value(2))
      [] OTHER -> Finish(n, g[n \div 2], ChainRight[<<n \div 2, n>>])

\* g is right for less than k segments
ResolvesBelow(g, k) ==
    g = [n \in 0 .. Len(segments) |-> IF n < k THEN ResolveBody(g, n) ELSE 0]

\* Half of two or more segments is less and not nothing.
LEMMA HalfOf ==
    ASSUME NEW n \in Nat, n # 0, n # 1
    PROVE  n \div 2 \in Nat /\ 0 < n \div 2 /\ n \div 2 < n
OBVIOUS

\* A function that is right for less than k segments makes one that is right
\* for k.
LEMMA ResolvesOneMore ==
    ASSUME Len(segments) \in Nat, NEW k \in Nat, NEW g, ResolvesBelow(g, k)
    PROVE  \E h : ResolvesBelow(h, k + 1)
<1> DEFINE D == 0 .. Len(segments)
           h == [n \in D |-> IF n < k + 1 THEN ResolveBody(g, n) ELSE 0]
<1>1. ASSUME NEW n \in D, n < k PROVE h[n] = g[n]
  <2>1. g[n] = ResolveBody(g, n)  BY <1>1 DEF ResolvesBelow
  <2>2. n < k + 1  BY <1>1
  <2> QED  BY <2>1, <2>2
<1>2. ASSUME NEW n \in D, n < k + 1
      PROVE  ResolveBody(g, n) = ResolveBody(h, n)
  <2>1. CASE n = 0 \/ n = 1  BY <2>1 DEF ResolveBody
  <2>2. CASE n # 0 /\ n # 1
    <3>1. n \div 2 \in D /\ n \div 2 < k
      <4>1. n \in Nat  OBVIOUS
      <4>2. n \div 2 \in Nat /\ n \div 2 < n  BY <2>2, <4>1, HalfOf
      <4> QED  BY <1>2, <4>1, <4>2
    <3>2. h[n \div 2] = g[n \div 2]  BY <1>1, <3>1
    <3> HIDE DEF h
    <3> QED  BY <3>2 DEF ResolveBody
  <2> QED  BY <2>1, <2>2
<1>3. h = [n \in D |-> IF n < k + 1 THEN ResolveBody(h, n) ELSE 0]
  <2>1. \A n \in D : n < k + 1 => ResolveBody(g, n) = ResolveBody(h, n)
    BY <1>2
  <2> QED  BY <2>1, Zenon
<1> QED  BY <1>3 DEF ResolvesBelow

\* The equation of _balance_resolve has a solution, so that ResolveTree is one.
LEMMA ResolveTreeIs ==
    ASSUME Len(segments) \in Nat
    PROVE  ResolveTree = [n \in 0 .. Len(segments) |->
                             ResolveBody(ResolveTree, n)]
<1> DEFINE T == {k \in Nat : ~ \E g : ResolvesBelow(g, k)}
<1>1. T = {}
  <2> SUFFICES ASSUME T # {} PROVE FALSE  OBVIOUS
  <2>1. PICK k \in T : \A y \in T : k <= y
    <3>1. T \subseteq Nat  OBVIOUS
    <3> QED  BY <3>1, Least
  <2>2. CASE k = 0
    <3> DEFINE g == [n \in 0 .. Len(segments) |-> 0]
    <3>1. \A n \in 0 .. Len(segments) : ~(n < 0)  OBVIOUS
    <3>2. g = [n \in 0 .. Len(segments) |-> IF n < 0
                                           THEN ResolveBody(g, n) ELSE 0]
      BY <3>1, Zenon
    <3>3. ResolvesBelow(g, k)  BY <2>2, <3>2 DEF ResolvesBelow
    <3> QED  BY <3>3
  <2>3. CASE k # 0
    <3>1. k - 1 \in Nat /\ k = (k - 1) + 1 /\ ~(k <= k - 1)  BY <2>3
    <3>2. \E g : ResolvesBelow(g, k - 1)  BY <2>1, <3>1
    <3>3. \E g : ResolvesBelow(g, (k - 1) + 1)  BY <3>1, <3>2, ResolvesOneMore
    <3> QED  BY <3>1, <3>3
  <2> QED  BY <2>2, <2>3
<1>2. PICK g : ResolvesBelow(g, Len(segments) + 1)
  <2>1. Len(segments) + 1 \in Nat  OBVIOUS
  <2> QED  BY <1>1, <2>1
<1>3. \A n \in 0 .. Len(segments) : n < Len(segments) + 1  OBVIOUS
<1>4. g = [n \in 0 .. Len(segments) |-> ResolveBody(g, n)]
  BY <1>2, <1>3, Zenon DEF ResolvesBelow
<1> QED  BY <1>4, Zenon DEF ResolveTree, ResolveBody

-----------------------------------------------------------------------------
(* The inductive invariant *)

\* an equation of two nodes, the later one in the earlier one
WellFormed(eq) ==
    /\ eq.base \in 0 .. Op /\ eq.end \in 1 .. Op
    /\ eq.base < eq.end /\ eq.form \in CanonicalForm

Sound(ls) == \A eq \in ls : WellFormed(eq) /\ Holds(eq)

\* Segment i leads from node 2 i to node 2 i + 2.
Cut == \A i \in Places : segments[i].base = 2 * i /\ segments[i].end = 2 * i + 2

\* there is nothing written before the segments are cut
Unwritten == pc \in {"generate", "refused"} => segments = <<>> /\ lines = {}

\* what the tree may rely on
Cutting ==
    pc = "segments" => /\ Complete /\ Op \div 2 \in Nat
                       /\ Op = 2 * (Op \div 2)
                       /\ Len(segments) + 1 <= Op \div 2

HierarchicalInv ==
    /\ ChainType /\ ChainCorrect
    /\ pc \in {"generate", "segments", "done", "refused"} /\ answer \in Nat
    /\ segments \in Seq(lines) /\ Sound(lines)
    /\ Cut /\ Unwritten /\ Cutting /\ TreeAgrees

-----------------------------------------------------------------------------
(* What the tree computes *)

\* A canonical form is a form.
LEMMA CanonicalIsForm == CanonicalForm \subseteq Form
  BY ModAssumption DEF CanonicalForm, Form

\* The segments as the tree finds them.
LEMMA SegmentFacts ==
    ASSUME HierarchicalInv, pc = "segments"
    PROVE  /\ Len(segments) \in Nat
           /\ \A i \in Places :
                 /\ segments[i] \in lines /\ WellFormed(segments[i])
                 /\ Holds(segments[i])
                 /\ segments[i].base = 2 * i /\ End(i) = 2 * i + 2
                 /\ End(i) \in 1 .. Op
           /\ \A node \in 0 .. Op : Value(node) \in Nat
<1>1. /\ segments \in Seq(lines) /\ Sound(lines) /\ Cut /\ ChainType
      /\ Complete
  BY DEF HierarchicalInv, Cutting
<1>2. Len(segments) \in Nat  BY <1>1
<1>3. ASSUME NEW i \in Places
      PROVE  /\ segments[i] \in lines /\ WellFormed(segments[i])
             /\ Holds(segments[i])
             /\ segments[i].base = 2 * i /\ End(i) = 2 * i + 2
             /\ End(i) \in 1 .. Op
  <2>1. segments[i] \in lines  BY <1>1, <1>2 DEF Places
  <2>2. WellFormed(segments[i]) /\ Holds(segments[i])  BY <1>1, <2>1 DEF Sound
  <2>3. segments[i].base = 2 * i /\ End(i) = 2 * i + 2  BY <1>1 DEF Cut, End
  <2> QED  BY <2>1, <2>2, <2>3 DEF WellFormed, End
<1>4. ASSUME NEW node \in 0 .. Op PROVE Value(node) \in Nat
  <2>1. values \in Seq(Nat) /\ Len(values) = Op + 1 /\ Op \in Nat
    BY <1>1, ChainAssumption DEF ChainType, Complete
  <2>2. node + 1 \in 1 .. Len(values)  BY <2>1
  <2> QED  BY <2>1, <2>2 DEF Value
<1> QED  BY <1>2, <1>3, <1>4

\* What _balance_chain_right returns for a run: a form that takes the pivot's
\* value to that of the run's end, and true equations.
Folded(run) ==
    /\ ChainRight[run].form \in CanonicalForm
    /\ Eval(ChainRight[run].form, Value(End(run[1]))) = Value(End(run[2]))
    /\ Sound(ChainRight[run].lines)

\* An equation that has been found to hold may be stated.
LEMMA SoundEquation ==
    ASSUME NEW end \in 1 .. Op, NEW base \in 0 .. Op, base < end,
           NEW form \in CanonicalForm, Eval(form, Value(base)) = Value(end)
    PROVE  Sound({Equation(end, base, form)})
  BY DEF Sound, WellFormed, Holds, Equation

\* Two halves that are folded make a folded run.
LEMMA CombineFolds ==
    ASSUME HierarchicalInv, pc = "segments", NEW run \in Runs,
           run[2] # run[1] + 1, Folded(Left(run)), Folded(Right(run)),
           ChainRight[run]
             = Combine(run, ChainRight[Left(run)], ChainRight[Right(run)])
    PROVE  Folded(run)
<1> DEFINE i == run[1]
           m == Half(run)
           j == run[2]
           l == ChainRight[Left(run)]
           r == ChainRight[Right(run)]
           form == Canonicalize(Compose(r.form, l.form))
<1>1. /\ i \in Places /\ j \in Places /\ m \in Places /\ i < m /\ m < j
      /\ Left(run)[1] = i /\ Left(run)[2] = m
      /\ Right(run)[1] = m /\ Right(run)[2] = j
  BY SegmentFacts, Halves DEF Runs
<1>2. /\ End(i) \in 1 .. Op /\ End(m) \in 1 .. Op /\ End(j) \in 1 .. Op
      /\ End(i) < End(j) /\ End(m) < End(j)
      /\ Value(End(i)) \in Nat /\ Value(End(m)) \in Nat
  <2>1. /\ End(i) \in 1 .. Op /\ End(m) \in 1 .. Op /\ End(j) \in 1 .. Op
        /\ End(i) = 2 * i + 2 /\ End(m) = 2 * m + 2 /\ End(j) = 2 * j + 2
    BY <1>1, SegmentFacts
  <2>2. i \in Int /\ m \in Int /\ j \in Int  BY <1>1 DEF Places
  <2>3. End(i) < End(j) /\ End(m) < End(j)  BY <1>1, <2>1, <2>2
  <2>4. End(i) \in 0 .. Op /\ End(m) \in 0 .. Op  BY <2>1
  <2> QED  BY <2>1, <2>3, <2>4, SegmentFacts
<1>3. /\ l.form \in CanonicalForm /\ Sound(l.lines)
      /\ Eval(l.form, Value(End(i))) = Value(End(m))
      /\ r.form \in CanonicalForm /\ Sound(r.lines)
      /\ Eval(r.form, Value(End(m))) = Value(End(j))
  BY <1>1 DEF Folded
<1> HIDE DEF i, m, j, l, r
<1>4. form \in CanonicalForm /\ Eval(form, Value(End(i))) = Value(End(j))
  <2>1. l.form \in Form /\ r.form \in Form /\ Value(End(i)) \in Int
    BY <1>2, <1>3, CanonicalIsForm
  <2>2. /\ Compose(r.form, l.form) \in Form
        /\ Eval(Compose(r.form, l.form), Value(End(i)))
             = Eval(r.form, Eval(l.form, Value(End(i))))
    BY <2>1, ComposeValue
  <2>3. /\ form \in CanonicalForm
        /\ Eval(form, Value(End(i)))
             = Eval(Compose(r.form, l.form), Value(End(i)))
    BY <2>1, <2>2, CanonicalizeKeepsValue, CanonicalizeIsCanonical
  <2> QED  BY <1>3, <2>2, <2>3
<1> HIDE DEF form
<1>5. ChainRight[run]
        = [form |-> form,
           lines |-> l.lines \cup r.lines
                     \cup {Equation(End(j), End(m), r.form),
                           Equation(End(j), End(i), form)}]
  BY DEF Combine, form, l, r, i, m, j
<1>6. /\ Sound({Equation(End(j), End(m), r.form)})
      /\ Sound({Equation(End(j), End(i), form)})
  <2>1. End(m) \in 0 .. Op /\ End(i) \in 0 .. Op  BY <1>2
  <2> QED  BY <1>2, <1>3, <1>4, <2>1, SoundEquation
<1>7. Sound(ChainRight[run].lines)  BY <1>3, <1>5, <1>6 DEF Sound
<1> QED  BY <1>4, <1>5, <1>7 DEF Folded, i, j

\* _balance_chain_right folds every run rightly.
LEMMA RunsAreFolded ==
    ASSUME HierarchicalInv, pc = "segments"
    PROVE  \A run \in Runs : Folded(run)
<1> DEFINE Wrong(n) == \E run \in Runs : Size(run) = n /\ ~Folded(run)
           T == {n \in Nat : Wrong(n)}
<1>1. Len(segments) \in Nat  BY SegmentFacts
<1>2. ASSUME NEW run \in Runs PROVE Size(run) \in Nat
  BY DEF Runs, Places, Size
<1>3. T = {}
  <2> SUFFICES ASSUME T # {} PROVE FALSE  OBVIOUS
  <2>1. PICK n \in T : \A y \in T : n <= y
    <3>1. T \subseteq Nat  OBVIOUS
    <3> QED  BY <3>1, Least
  <2>2. PICK run \in Runs : Size(run) = n /\ ~Folded(run)  OBVIOUS
  <2>3. ASSUME NEW shorter \in Runs, Size(shorter) < Size(run)
        PROVE  Folded(shorter)
    <3> SUFFICES ASSUME ~Folded(shorter) PROVE FALSE  OBVIOUS
    <3>1. Size(shorter) \in T  BY <1>2
    <3>2. n <= Size(shorter)  BY <2>1, <3>1
    <3> QED  BY <1>2, <2>2, <2>3, <3>2
  <2>4. ChainRight[run] = FoldBody(ChainRight, run)
    <3>1. ChainRight = [q \in Runs |-> FoldBody(ChainRight, q)]
      BY <1>1, ChainRightIs
    <3> QED  BY <3>1, Zenon
  <2>5. CASE run[2] = run[1] + 1
    <3> DEFINE j == run[2]
    <3>1. ChainRight[run] = [form |-> segments[j].form, lines |-> {}]
      BY <2>4, <2>5 DEF FoldBody
    <3>2. /\ j \in Places /\ run[1] \in Places /\ j \in Int
          /\ run[1] \in Int /\ j = run[1] + 1
      BY <2>5 DEF Runs, Places
    <3>3. /\ WellFormed(segments[j]) /\ Holds(segments[j])
          /\ segments[j].base = 2 * j /\ End(run[1]) = 2 * run[1] + 2
      BY <3>2, SegmentFacts
    <3>4. segments[j].base = End(run[1])  BY <3>2, <3>3
    <3>5. /\ segments[j].form \in CanonicalForm
          /\ Eval(segments[j].form, Value(End(run[1]))) = Value(End(j))
      BY <3>3, <3>4 DEF WellFormed, Holds, End
    <3>6. Folded(run)  BY <3>1, <3>5 DEF Folded, Sound
    <3> QED  BY <2>2, <3>6
  <2>6. CASE run[2] # run[1] + 1
    <3>1. /\ Left(run) \in Runs /\ Right(run) \in Runs
          /\ Size(Left(run)) < Size(run) /\ Size(Right(run)) < Size(run)
      BY <1>1, <2>6, Halves
    <3>2. Folded(Left(run)) /\ Folded(Right(run))  BY <2>3, <3>1
    <3>3. ChainRight[run]
            = Combine(run, ChainRight[Left(run)], ChainRight[Right(run)])
      BY <2>4, <2>6 DEF FoldBody
    <3> QED  BY <2>2, <2>6, <3>2, <3>3, CombineFolds
  <2> QED  BY <2>5, <2>6
<1> QED  BY <1>2, <1>3

\* What _balance_resolve returns for the first n segments: the value they end
\* in, true equations, and true values.
Resolved(n) ==
    /\ ResolveTree[n].value = Value(2 * n + 2)
    /\ Sound(ResolveTree[n].lines)
    /\ \A t \in ResolveTree[n].told : t[2] = Value(t[1])

\* A resolved half and a folded half make a resolved tree.
LEMMA FinishResolves ==
    ASSUME HierarchicalInv, pc = "segments",
           NEW n \in 0 .. Len(segments), n # 0, n # 1, Resolved(n \div 2),
           ResolveTree[n] = Finish(n, ResolveTree[n \div 2],
                                   ChainRight[<<n \div 2, n>>])
    PROVE  Resolved(n)
<1> DEFINE m == n \div 2
           l == ResolveTree[m]
           r == ChainRight[<<m, n>>]
           value == Eval(r.form, l.value)
<1>1. n \in Int /\ m \in Int /\ n \in Places /\ m \in Places /\ m < n
  <2>1. Len(segments) \in Nat /\ n \in Nat  BY SegmentFacts
  <2>2. m \in Nat /\ 0 < m /\ m < n  BY <2>1, HalfOf
  <2> HIDE DEF m
  <2> QED  BY <2>1, <2>2 DEF Places
<1>2. /\ l.value = Value(2 * m + 2) /\ Sound(l.lines)
      /\ \A t \in l.told : t[2] = Value(t[1])
  BY DEF Resolved
<1>3. /\ ResolveTree[n].value = value
      /\ ResolveTree[n].lines
           = l.lines \cup r.lines \cup {Equation(End(n), End(m), r.form)}
      /\ ResolveTree[n].told = l.told \cup {<<End(n), value>>}
  BY DEF Finish
<1> HIDE DEF m, l, r, value
<1>4. /\ r.form \in CanonicalForm /\ Sound(r.lines)
      /\ Eval(r.form, Value(End(m))) = Value(End(n))
  <2>1. <<m, n>> \in Runs  BY <1>1 DEF Runs
  <2>2. Folded(<<m, n>>)  BY <2>1, RunsAreFolded
  <2> QED  BY <2>2 DEF Folded, r
<1>5. /\ End(m) = 2 * m + 2 /\ End(n) = 2 * n + 2
      /\ End(m) \in 1 .. Op /\ End(n) \in 1 .. Op
  BY <1>1, SegmentFacts
<1>6. value = Value(End(n))  BY <1>2, <1>4, <1>5 DEF value
<1>7. Sound({Equation(End(n), End(m), r.form)})
  <2>1. End(m) \in 0 .. Op /\ End(m) < End(n)  BY <1>1, <1>5
  <2> QED  BY <1>4, <1>5, <2>1, SoundEquation
<1>8. ResolveTree[n].value = Value(2 * n + 2)  BY <1>3, <1>5, <1>6
<1>9. Sound(ResolveTree[n].lines)  BY <1>2, <1>3, <1>4, <1>7 DEF Sound
<1>10. \A t \in ResolveTree[n].told : t[2] = Value(t[1])
  BY <1>2, <1>3, <1>6
<1> QED  BY <1>8, <1>9, <1>10 DEF Resolved

\* _balance_resolve resolves every number of segments rightly.
LEMMA TreesAreResolved ==
    ASSUME HierarchicalInv, pc = "segments"
    PROVE  \A n \in 0 .. Len(segments) : Resolved(n)
<1> DEFINE D == 0 .. Len(segments)
           T == {n \in D : ~Resolved(n)}
<1>1. Len(segments) \in Nat  BY SegmentFacts
<1>2. T = {}
  <2> SUFFICES ASSUME T # {} PROVE FALSE  OBVIOUS
  <2>1. PICK n \in T : \A y \in T : n <= y
    <3>1. T \subseteq Nat  BY <1>1
    <3> QED  BY <3>1, Least
  <2>2. n \in D /\ n \in Nat /\ ~Resolved(n)  BY <1>1
  <2>3. ResolveTree[n] = ResolveBody(ResolveTree, n)
    <3>1. ResolveTree = [q \in D |-> ResolveBody(ResolveTree, q)]
      BY <1>1, ResolveTreeIs
    <3> QED  BY <2>2, <3>1, Zenon
  <2>4. CASE n = 0
    <3>1. ResolveTree[n] = [value |-> Value(2), lines |-> {}, told |-> {}]
      BY <2>3, <2>4 DEF ResolveBody
    <3>2. 2 * n + 2 = 2  BY <2>4
    <3>3. Resolved(n)  BY <3>1, <3>2 DEF Resolved, Sound
    <3> QED  BY <2>2, <3>3
  <2>5. CASE n = 1
    <3> DEFINE segment == segments[1]
    <3>1. ResolveTree[n] = Substituted(segment, Value(2))
      BY <2>3, <2>5 DEF ResolveBody
    <3>2. /\ WellFormed(segment) /\ Holds(segment)
          /\ segment.base = 2 /\ segment.end = 4
      <4>1. 1 \in Places  BY <1>1, <2>2, <2>5 DEF Places
      <4>2. /\ WellFormed(segment) /\ Holds(segment)
            /\ segment.base = 2 * 1 /\ segment.end = 2 * 1 + 2
        BY <4>1, SegmentFacts DEF End
      <4> QED  BY <4>2
    <3>3. Eval(segment.form, Value(2)) = Value(4)  BY <3>2 DEF Holds
    <3>4. 2 * n + 2 = 4  BY <2>5
    <3> HIDE DEF segment
    <3>5. Resolved(n)
      BY <3>1, <3>2, <3>3, <3>4 DEF Substituted, Resolved, Sound
    <3> QED  BY <2>2, <3>5
  <2>6. CASE n # 0 /\ n # 1
    <3>1. n \div 2 \in D /\ n \div 2 < n /\ n \div 2 \in Nat
      <4>1. n \div 2 \in Nat /\ n \div 2 < n  BY <2>2, <2>6, HalfOf
      <4> QED  BY <1>1, <2>2, <4>1
    <3>2. Resolved(n \div 2)
      <4> SUFFICES ASSUME ~Resolved(n \div 2) PROVE FALSE  OBVIOUS
      <4>1. n <= n \div 2  BY <2>1, <3>1
      <4> QED  BY <2>2, <3>1, <4>1
    <3>3. ResolveTree[n] = Finish(n, ResolveTree[n \div 2],
                                  ChainRight[<<n \div 2, n>>])
      BY <2>3, <2>6 DEF ResolveBody
    <3>4. Resolved(n)  BY <2>2, <2>6, <3>2, <3>3, FinishResolves
    <3> QED  BY <2>2, <3>4
  <2> QED  BY <2>4, <2>5, <2>6
<1> QED  BY <1>2

-----------------------------------------------------------------------------
(* The steps *)

\* The first node alone.
LEMMA HierarchicalInit == Init => HierarchicalInv
<1> SUFFICES ASSUME Init PROVE HierarchicalInv  OBVIOUS
<1>1. /\ ChainInit /\ pc = "generate" /\ segments = <<>> /\ lines = {}
      /\ told = {} /\ answer = 0
  BY DEF Init
<1>2. ChainType /\ ChainCorrect  BY <1>1, ChainInitType
<1>3. segments \in Seq(lines) /\ Places = {}  BY <1>1 DEF Places
<1> QED
  BY <1>1, <1>2, <1>3
     DEF HierarchicalInv, Sound, Cut, Unwritten, Cutting, TreeAgrees

\* A segment whose two operations are folded into one form: both equations are
\* true.
LEMMA AddSegmentStep ==
    ASSUME HierarchicalInv, AddSegment
    PROVE  HierarchicalInv'
<1> DEFINE n == Len(segments)
           base == 2 * (n + 1)
           formA == Canonicalize(LinearOf(ops[base + 1], constants[base + 1]))
           formB == Canonicalize(Extend(formA, ops[base + 2],
                                        constants[base + 2]))
           segment == Equation(base + 2, base, formB)
           first == Equation(base + 1, base, formA)
<1>1. /\ pc = "segments" /\ n < Op \div 2 - 1
      /\ segments' = Append(segments, segment)
      /\ lines' = lines \cup {first, segment}
      /\ UNCHANGED <<values, ops, constants, pc, told, answer>>
  BY DEF AddSegment, chainVars
<1>2. /\ ChainType /\ ChainCorrect /\ Len(ops) = Op /\ Op \in Nat
      /\ Op = 2 * (Op \div 2) /\ Op \div 2 \in Nat /\ n \in Nat
      /\ segments \in Seq(lines) /\ Sound(lines) /\ Cut
      /\ answer \in Nat
  BY <1>1, ChainAssumption DEF HierarchicalInv, Cutting, Complete
<1>3. /\ base \in Nat /\ base + 1 \in 1 .. Op /\ base + 2 \in 1 .. Op
      /\ base \in 0 .. Op
  <2> HIDE DEF n
  <2> QED  BY <1>1, <1>2
<1> HIDE DEF base
<1>4. /\ values[base + 1] \in Int /\ values[base + 2] \in Int
      /\ values[base + 3] \in Int
      /\ ops[base + 1] \in Ops /\ constants[base + 1] \in Int
      /\ ops[base + 2] \in Ops /\ constants[base + 2] \in Int
      /\ values[base + 2]
           = Apply(ops[base + 1], values[base + 1], constants[base + 1]) % Mod
      /\ values[base + 3]
           = Apply(ops[base + 2], values[base + 2], constants[base + 2]) % Mod
  <2>1. /\ base + 1 \in 1 .. Len(ops) /\ base + 2 \in 1 .. Len(ops)
        /\ (base + 1) + 1 = base + 2 /\ (base + 2) + 1 = base + 3
    BY <1>2, <1>3
  <2> QED  BY <1>2, <2>1, NodeType DEF ChainCorrect
<1>5. /\ formA \in CanonicalForm
      /\ Eval(formA, values[base + 1]) = values[base + 2]
  <2>1. /\ LinearOf(ops[base + 1], constants[base + 1]) \in Form
        /\ Eval(LinearOf(ops[base + 1], constants[base + 1]),
                values[base + 1]) = values[base + 2]
    BY <1>4, LinearOfValue
  <2> QED  BY <1>4, <2>1, CanonicalizeKeepsValue, CanonicalizeIsCanonical
<1>6. formA \in Form  BY <1>5, CanonicalIsForm
<1> HIDE DEF formA
<1>7. /\ formB \in CanonicalForm
      /\ Eval(formB, values[base + 1]) = values[base + 3]
  <2>1. /\ Extend(formA, ops[base + 2], constants[base + 2]) \in Form
        /\ Eval(Extend(formA, ops[base + 2], constants[base + 2]),
                values[base + 1])
             = Apply(ops[base + 2], Eval(formA, values[base + 1]),
                     constants[base + 2]) % Mod
    BY <1>4, <1>6, ExtendValue
  <2>2. Eval(Extend(formA, ops[base + 2], constants[base + 2]),
             values[base + 1]) = values[base + 3]
    BY <1>4, <1>5, <2>1
  <2> QED
    BY <1>4, <2>1, <2>2, CanonicalizeKeepsValue, CanonicalizeIsCanonical
<1> HIDE DEF formB
<1>8. Sound({first}) /\ Sound({segment})
  <2>1. /\ Value(base) = values[base + 1]
        /\ Value(base + 1) = values[base + 2]
        /\ Value(base + 2) = values[base + 3]
    <3>1. (base + 1) + 1 = base + 2 /\ (base + 2) + 1 = base + 3  BY <1>3
    <3> QED  BY <3>1 DEF Value
  <2>2. base < base + 1 /\ base < base + 2  BY <1>3
  <2> QED  BY <1>3, <1>5, <1>7, <2>1, <2>2, SoundEquation
<1>9. segment.base = base /\ segment.end = base + 2  BY DEF Equation
<1> HIDE DEF segment, first
<1>10. Sound(lines')  BY <1>1, <1>2, <1>8 DEF Sound
<1>11. Sound(lines)'
  <2>1. \A eq : WellFormed(eq)' = WellFormed(eq) /\ Holds(eq)' = Holds(eq)
    BY <1>1 DEF WellFormed, Holds, Value, Eval
  <2> QED  BY <1>10, <2>1 DEF Sound
<1>12. /\ segments' \in Seq(lines') /\ Len(segments') = n + 1
       /\ segments'[n + 1] = segment
       /\ \A i \in 1 .. n : segments'[i] = segments[i]
  <2>1. segments \in Seq(lines')
    <3>1. lines \subseteq lines'  BY <1>1
    <3> QED  BY <1>2, <3>1
  <2>2. segment \in lines'  BY <1>1
  <2> QED  BY <1>1, <2>1, <2>2
<1>13. Cut'
  <2> SUFFICES ASSUME NEW i \in 1 .. n + 1
               PROVE  /\ segments'[i].base = 2 * i
                      /\ segments'[i].end = 2 * i + 2
    BY <1>12 DEF Cut, Places
  <2>1. CASE i = n + 1
    <3>1. segments'[i] = segment /\ base = 2 * i
      BY <1>12, <2>1 DEF base
    <3> QED  BY <1>9, <3>1
  <2>2. CASE i # n + 1
    <3>1. i \in 1 .. n  BY <1>2, <2>2
    <3>2. segments'[i] = segments[i]  BY <1>12, <3>1
    <3> QED  BY <1>2, <3>1, <3>2 DEF Cut, Places
  <2> QED  BY <2>1, <2>2
<1>14. ChainType' /\ ChainCorrect'  BY <1>1, <1>2 DEF ChainType, ChainCorrect
<1>15. Cutting'
  <2>1. Len(segments') + 1 <= Op \div 2  BY <1>1, <1>2, <1>12
  <2> QED  BY <1>1, <1>2, <2>1 DEF Cutting, Complete
<1>16. Unwritten' /\ TreeAgrees'  BY <1>1 DEF Unwritten, TreeAgrees
<1>17. pc' \in {"generate", "segments", "done", "refused"} /\ answer' \in Nat
  BY <1>1, <1>2
<1> QED
  BY <1>11, <1>12, <1>13, <1>14, <1>15, <1>16, <1>17 DEF HierarchicalInv

\* The tree's equations are true, its values the nodes' and its root the
\* target.
LEMMA ResolveStep ==
    ASSUME HierarchicalInv, Resolve
    PROVE  HierarchicalInv'
<1> DEFINE n == Len(segments)
           tree == ResolveTree[n]
<1>1. /\ pc = "segments" /\ n = Op \div 2 - 1
      /\ answer' = tree.value /\ lines' = lines \cup tree.lines
      /\ told' = tree.told /\ pc' = "done"
      /\ UNCHANGED <<values, ops, constants, segments>>
  BY DEF Resolve, chainVars
<1>2. /\ ChainType /\ ChainCorrect /\ Op \in Nat \ {0}
      /\ Op = 2 * (Op \div 2) /\ Op \div 2 \in Nat /\ n \in Nat
      /\ segments \in Seq(lines) /\ Sound(lines) /\ Cut
  BY <1>1, ChainAssumption DEF HierarchicalInv, Cutting
<1>3. /\ tree.value = Value(2 * n + 2) /\ Sound(tree.lines)
      /\ \A t \in tree.told : t[2] = Value(t[1])
  <2>1. n \in 0 .. Len(segments)  BY <1>2
  <2>2. Resolved(n)  BY <1>1, <2>1, TreesAreResolved
  <2> QED  BY <2>2 DEF Resolved
<1>4. 2 * n + 2 = Op
  <2> HIDE DEF n
  <2> QED  BY <1>1, <1>2
<1> HIDE DEF tree, n
<1>5. answer' = Value(Op) /\ answer' \in Nat
  <2>1. Op \in 0 .. Op  BY <1>2
  <2> QED  BY <1>1, <1>3, <1>4, <2>1, SegmentFacts
<1>6. Sound(lines')  BY <1>1, <1>2, <1>3 DEF Sound
<1>7. Sound(lines)'
  <2>1. \A eq : WellFormed(eq)' = WellFormed(eq) /\ Holds(eq)' = Holds(eq)
    BY <1>1 DEF WellFormed, Holds, Value, Eval
  <2> QED  BY <1>6, <2>1 DEF Sound
<1>8. segments' \in Seq(lines')
  <2>1. lines \subseteq lines'  BY <1>1
  <2> QED  BY <1>1, <1>2, <2>1
<1>9. TreeAgrees'  BY <1>1, <1>3, <1>5 DEF TreeAgrees, Value
<1>10. ChainType' /\ ChainCorrect'  BY <1>1, <1>2 DEF ChainType, ChainCorrect
<1>11. Cut'  BY <1>1, <1>2 DEF Cut, Places
<1>12. Unwritten' /\ Cutting'  BY <1>1 DEF Unwritten, Cutting
<1> QED
  BY <1>1, <1>5, <1>7, <1>8, <1>9, <1>10, <1>11, <1>12 DEF HierarchicalInv

\* A chain whose length is accepted has as many operations as the segments and
\* the two computed ones take.
LEMMA BeginStep ==
    ASSUME HierarchicalInv, Begin
    PROVE  HierarchicalInv'
<1>1. /\ pc = "generate" /\ Complete
      /\ pc' = (IF PowerOfTwo THEN "segments" ELSE "refused")
      /\ UNCHANGED <<values, ops, constants, segments, lines, told, answer>>
  BY DEF Begin, chainVars
<1>2. /\ ChainType /\ ChainCorrect /\ segments = <<>> /\ lines = {}
      /\ answer \in Nat
  BY <1>1 DEF HierarchicalInv, Unwritten
<1>3. segments' \in Seq(lines') /\ Places' = {} /\ Len(segments') = 0
  BY <1>1, <1>2 DEF Places
<1>4. Cutting'
  <2> SUFFICES ASSUME PowerOfTwo
               PROVE  /\ Op \div 2 \in Nat /\ Op = 2 * (Op \div 2)
                      /\ 1 <= Op \div 2
    BY <1>1, <1>3 DEF Cutting, Complete
  <2>1. Op \in Nat /\ Op > 1  BY ChainAssumption DEF PowerOfTwo
  <2>2. Op % 2 = 0
    <3> SUFFICES ASSUME Op % 2 # 0 PROVE FALSE  OBVIOUS
    <3>1. Op \in 3 .. Op  BY <2>1
    <3>2. Op % Op = 0  BY <2>1
    <3> QED  BY <3>1, <3>2 DEF PowerOfTwo
  <2> QED  BY <2>1, <2>2
<1>5. ChainType' /\ ChainCorrect'  BY <1>1, <1>2 DEF ChainType, ChainCorrect
<1>6. pc' \in {"segments", "refused"}  BY <1>1
<1> QED
  BY <1>1, <1>2, <1>3, <1>4, <1>5, <1>6
     DEF HierarchicalInv, Sound, Cut, Unwritten, TreeAgrees

\* Every step keeps the invariant.
LEMMA HierarchicalStep == HierarchicalInv /\ [Next]_vars => HierarchicalInv'
<1> SUFFICES ASSUME HierarchicalInv, [Next]_vars PROVE HierarchicalInv'
  OBVIOUS
<1>1. CASE Generate
  <2>1. /\ pc = "generate" /\ AddNode
        /\ UNCHANGED <<pc, segments, lines, told, answer>>
    BY <1>1 DEF Generate
  <2>2. /\ ChainType /\ ChainCorrect /\ segments = <<>> /\ lines = {}
        /\ answer \in Nat
    BY <2>1 DEF HierarchicalInv, Unwritten
  <2>3. ChainType' /\ ChainCorrect'  BY <2>1, <2>2, AddNodeStep
  <2>4. segments' \in Seq(lines') /\ Places' = {}  BY <2>1, <2>2 DEF Places
  <2> QED
    BY <2>1, <2>2, <2>3, <2>4
       DEF HierarchicalInv, Sound, Cut, Unwritten, Cutting, TreeAgrees
<1>2. CASE Begin  BY <1>2, BeginStep
<1>3. CASE AddSegment  BY <1>3, AddSegmentStep
<1>4. CASE Resolve  BY <1>4, ResolveStep
<1>5. CASE UNCHANGED vars
  BY <1>5
     DEF vars, chainVars, HierarchicalInv, ChainType, ChainCorrect, Sound,
         WellFormed, Holds, Value, Eval, Cut, Places, Unwritten, Cutting,
         Complete, TreeAgrees
<1> QED  BY <1>1, <1>2, <1>3, <1>4, <1>5 DEF Next, Written

-----------------------------------------------------------------------------
\* balanceforward_solution: the equations are of nodes of the chain, the later
\* in the earlier, with canonical coefficients, and every segment is stated.
THEOREM EquationsAreOfNodes == Spec => []TypeOK
<1>1. HierarchicalInv => TypeOK
  BY DEF HierarchicalInv, Sound, WellFormed, TypeOK
<1> QED  BY <1>1, HierarchicalInit, HierarchicalStep, PTL DEF Spec

\* balanceforward_solution: every equation of the segments and of the tree is
\* true of the problem's values.
THEOREM EquationsAreTrue == Spec => []LinesTrue
<1>1. HierarchicalInv => LinesTrue  BY DEF HierarchicalInv, Sound, LinesTrue
<1> QED  BY <1>1, HierarchicalInit, HierarchicalStep, PTL DEF Spec

\* _balance_resolve: the values the tree states are the nodes' own and its
\* root is the Answer.
THEOREM TreeIsRight == Spec => []TreeAgrees
<1>1. HierarchicalInv => TreeAgrees  BY DEF HierarchicalInv
<1> QED  BY <1>1, HierarchicalInit, HierarchicalStep, PTL DEF Spec
=============================================================================
