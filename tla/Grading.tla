------------------------------- MODULE Grading -------------------------------
(***************************************************************************)
(* The two readings of "the answer" of a generated text: the reward of     *)
(* reinforcement learning (rlvr_reward.py) and the exact match of the      *)
(* greedy evaluation (eval_pass1.py).                                      *)
(*                                                                         *)
(* A text is a sequence of pieces <<kind, value>>, as far as the regular   *)
(* expressions tell texts apart:                                           *)
(*   "answer"   Answer: v         "lower"    answer: v, in other case      *)
(*   "tag"      <answer>v</answer>                                         *)
(*   "number"   an integer v      "word"     no digits, value 0            *)
(*   "newline"                               value 0                       *)
(* What a regular expression finds is a set, {} or {v}.                    *)
(***************************************************************************)
EXTENDS Integers, Sequences

CONSTANT Modulus                \* MOD, 23 in the code
ASSUME ModulusAssumption == Modulus \in Nat \ {0}

Kinds == {"answer", "lower", "tag", "number", "word", "newline"}
Texts == Seq(Kinds \X Int)

\* the positions in text t of the pieces of these kinds
At(t, kinds) == {i \in DOMAIN t : t[i][1] \in kinds}

IsLast(S, i) == i \in S /\ \A j \in S : j <= i
IsFirst(S, i) == i \in S /\ \A j \in S : i <= j

LastValue(t, kinds) == {t[i][2] : i \in {k \in DOMAIN t : IsLast(At(t, kinds), k)}}

\* mutant: the last integer, wherever it stands
ExtractInteger(t) == LastValue(t, {"answer", "lower", "tag", "number"})

\* _extract: the last "Answer:" in any case, or else the last integer
Extract(t) ==
    IF At(t, {"answer", "lower"}) # {}
    THEN LastValue(t, {"answer", "lower"})
    ELSE LastValue(t, {"tag", "number"})

\* compute_score, whether it gives 1.0
Score(t, gold) == \E v \in Extract(t) : v % Modulus = gold % Modulus

\* extract_answer takes the rest of the line: a number only if nothing but a
\* full stop follows
EndsLine(t, i) == i = Len(t) \/ t[i + 1][1] \in {"newline", "tag"}

\* extract_answer with parse_numeric: the number, if what it finds is one
Reading(t) ==
    IF At(t, {"tag"}) # {}
    THEN {t[i][2] : i \in {k \in DOMAIN t : IsFirst(At(t, {"tag"}), k)}}
    ELSE {t[i][2] : i \in {k \in DOMAIN t : /\ IsFirst(At(t, {"answer"}), k)
                                            /\ EndsLine(t, k)}}

\* exact_match against a numeric gold answer
Match(t, gold) == gold \in Reading(t)

\* get_gold and extract_ground_truth: the last "Answer:" of a recorded solution
Gold(t) == LastValue(t, {"answer"})

-----------------------------------------------------------------------------
\* what the generator writes: it ends in its only answer
IsSolution(t) ==
    /\ t # <<>> /\ t[Len(t)][1] = "answer"
    /\ At(t, {"answer", "lower", "tag", "newline"}) = {Len(t)}

\* A text that commits itself at most once: one "Answer:" in any case, and no
\* tag.  (With two answers evaluation reads the first and the reward the last.)
CommitsOnce(t) ==
    /\ At(t, {"tag"}) = {}
    /\ \A i, j \in At(t, {"answer", "lower"}) : i = j

\* A text whose one answer is put as both graders expect it: spelled "Answer:",
\* alone on its line, and reduced.
WellPut(t) ==
    /\ CommitsOnce(t)
    /\ \E i \in At(t, {"answer"}) : EndsLine(t, i) /\ t[i][2] \in 0 .. Modulus - 1

\* Reward (compute_score) and evaluation (exact_match) of the same text against
\* the same gold answer.  The reward is the more lenient one: what commits itself
\* once and passes the evaluation is rewarded, but "answer: 1", "Answer: 24" or a
\* bare 1 is rewarded for the gold answer 1 and fails.  The two give the same
\* verdict on every text that is well put, and a recorded solution passes both
\* against its own gold answer.
GradersAgree(t, gold) ==
    /\ CommitsOnce(t) /\ Match(t, gold) => Score(t, gold)
    /\ WellPut(t) /\ gold \in 0 .. Modulus - 1 => (Match(t, gold) <=> Score(t, gold))
    /\ IsSolution(t) /\ gold \in Gold(t) => Match(t, gold) /\ Score(t, gold)
=============================================================================
