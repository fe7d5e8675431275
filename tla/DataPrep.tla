------------------------------- MODULE DataPrep ------------------------------
(***************************************************************************)
(* What is done with the files of the generation workers: the preparation  *)
(* for reinforcement learning (prepare_rlvr_data.py), the preparation for  *)
(* supervised fine-tuning (prepare_arithmetic_sft.py), and the evaluation  *)
(* of a model's text against a recorded row (eval_pass1.py, with the       *)
(* reward of rlvr_reward.py beside it).  The scripts are run by hand, one  *)
(* after the other, in any order, between two commands.                    *)
(***************************************************************************)
EXTENDS DataGen, Grading

CONSTANTS
    Ops,            \* --op-min .. --op-max of both preparations
    MaxFiles,       \* --max-files-per-op
    ValNum, ValDen, \* --val-frac
    SftCommands,    \* [modes, limit]; modes = {} is no filter
    MaxPreps,       \* bound: preparations
    GenTexts,       \* texts a model may generate
    Solutions       \* the texts of recorded solutions

ASSUME TextsAssumption == GenTexts \subseteq Texts /\ Solutions \subseteq Texts

VARIABLES
    val, train,     \* the two parquet files: place -> line
    sft,            \* mode -> its file: place -> line
    registered,     \* modes with an entry in dataset_info.json
    preps,
    graded          \* the last text evaluated, and the gold answer it met

prepVars == <<val, train, sft, registered, preps, graded>>
vars == <<genVars, prepVars>>

-----------------------------------------------------------------------------
\* collect_files: of every operation the first files by name, in the flat layout
\* only
RlvrFiles ==
    {f \in DOMAIN file :
        /\ f[1] = "flat" /\ f[2] \in Ops
        /\ Cardinality({g \in DOMAIN file : g[1] = f[1] /\ g[2] = f[2] /\ g[3] < f[3]})
              < MaxFiles}

\* the lines of some files, each by its place <<file, number>>
Rows(files) == UNION {{f} \X DOMAIN file[f].lines : f \in files}

Row(r) == file[r[1]].lines[r[2]]
Content(rows) == [r \in rows |-> Row(r)]

\* Shuffled, the first n records are the validation set.
Split(records, n) ==
    \E chosen \in kSubset(n, records) :
        val' = Content(chosen) /\ train' = Content(records \ chosen)

\* A file that is missing, or a line that is not JSON, ends the script before
\* it writes anything.
PrepareRlvr ==
    /\ Idle /\ preps < MaxPreps
    /\ preps' = preps + 1
    /\ LET records == Rows(RlvrFiles)
           size == Cardinality(records)
           share == (size * ValNum) \div ValDen
           n == IF share < 1 THEN 1 ELSE share
       IN  IF RlvrFiles = {} \/ \E r \in records : Row(r) = Malformed
           THEN UNCHANGED <<val, train>>
           ELSE Split(records, IF n < size THEN n ELSE size)
    /\ UNCHANGED <<genVars, sft, registered, graded>>

\* find_input_files: both layouts
SftFiles == {f \in DOMAIN file : f[2] \in Ops}

\* the order in which the lines are read: operation by operation, the flat
\* layout first, and file by file
Before(r, q) ==
    LET f == r[1]  g == q[1]
    IN  \/ f[2] < g[2]
        \/ f[2] = g[2] /\ f[1] = "flat" /\ g[1] = "nested"
        \/ f[2] = g[2] /\ f[1] = g[1] /\ f[3] < g[3]
        \/ f = g /\ r[2] < q[2]

\* the lines of one mode; malformed ones are skipped
OfMode(mode) == {r \in Rows(SftFiles) : Row(r) # Malformed /\ Row(r).mode = mode}

\* those of them that the script writes
Selected(c, mode) ==
    IF c.modes # {} /\ mode \notin c.modes THEN {}
    ELSE {r \in OfMode(mode) :
            Cardinality({q \in OfMode(mode) : Before(q, r)}) < c.limit}

ModesIn(rows) == {Row(r).mode : r \in {q \in rows : Row(q) # Malformed}}

\* mutant: --overwrite appends like the default
PrepareSftAppending(c) ==
    /\ Idle /\ preps < MaxPreps
    /\ preps' = preps + 1
    /\ LET written == {m \in ModesIn(Rows(SftFiles)) : Selected(c, m) # {}}
           old(m) == IF m \in DOMAIN sft THEN sft[m] ELSE <<>>
           both(m) == [x \in {<<"old", r>> : r \in DOMAIN old(m)}
                             \cup {<<"new", r>> : r \in Selected(c, m)} |->
                          IF x[1] = "old" THEN old(m)[x[2]] ELSE Row(x[2])]
       IN  /\ sft' = [m \in DOMAIN sft \cup written |->
                        IF m \in written THEN both(m) ELSE sft[m]]
           /\ registered' = registered \cup written
    /\ UNCHANGED <<genVars, val, train, graded>>

\* As run_sft.sh runs it, with --overwrite and --register.  A mode's file is
\* opened, and so truncated, when its first record is written; the files and
\* entries of other modes stay as they are.
PrepareSft(c) ==
    /\ Idle /\ preps < MaxPreps
    /\ preps' = preps + 1
    /\ LET written == {m \in ModesIn(Rows(SftFiles)) : Selected(c, m) # {}}
       IN  /\ sft' = [m \in DOMAIN sft \cup written |->
                        IF m \in written THEN Content(Selected(c, m)) ELSE sft[m]]
           /\ registered' = registered \cup written
    /\ UNCHANGED <<genVars, val, train, graded>>

\* One row of a recorded file is evaluated; what the model says is arbitrary.
\* An evaluation changes nothing else, so it is the last thing modelled.
Evaluate ==
    /\ Idle /\ graded = <<>>
    /\ \E f \in DOMAIN file : Malformed \notin Range(file[f].lines) /\ file[f].lines # <<>>
    /\ \E t \in GenTexts, s \in Solutions : \E gold \in Gold(s) :
          graded' = <<t, gold, s>>
    /\ UNCHANGED <<genVars, val, train, sft, registered, preps>>

Init ==
    /\ GenInit
    /\ val = <<>> /\ train = <<>>
    /\ sft = <<>> /\ registered = {} /\ preps = 0 /\ graded = <<>>

Next ==
    /\ graded = <<>>
    /\ \/ GenNext /\ UNCHANGED prepVars
       \/ PrepareRlvr
       \/ \E c \in SftCommands : PrepareSft(c)
       \/ Evaluate

\* a process of the workers keeps running; nobody has to type a command
Spec == Init /\ [][Next]_vars
             /\ \A w \in Ids : WF_vars((Draw(w) \/ Write(w)) /\ UNCHANGED prepVars)
-----------------------------------------------------------------------------
(* Properties *)

\* A command returns if, and only if, the entries of listoperations differ, the
\* names of nodes suffice for each, and no mode refuses one of them: exceptions
\* are swallowed by the loop, and an item goes to the first entry of its operation.
ReturnsIffProductive ==
    LET productive(c) ==
            /\ IsInjective(c.ops) /\ \A op \in Range(c.ops) : op < NodeNames
            /\ \A op \in Range(c.ops) : <<"hierarchical", 0>> \in ModesOf(c) =>
                    op \in {2, 4, 8, 16, 32, 64, 128}
    IN  /\ (commands # <<>> /\ productive(cmd)) ~> Idle
        /\ [](Clean => \A k \in DOMAIN commands : productive(commands[k]))

\* Validation on problems that were not trained: the split is by record, and it
\* separates the problems as long as the files hold one mode of one command,
\* whatever died while they were written.  (Several modes, a mode given twice, or
\* a second command with the same seeds, put a problem on both sides.)
ValidationUnseen ==
    /\ Len(commands) = 1 /\ Cardinality(AllPlaces(cmd)) = 1
    => \A i \in DOMAIN val, j \in DOMAIN train : val[i].chain # train[j].chain

\* Every registered data set exists, belongs to its mode and has no malformed
\* record, whatever died while the files were written; and however often it is
\* prepared, it holds no item more often than the mode was asked for.
SftServesFiles ==
    \A m \in registered :
        /\ m \in DOMAIN sft /\ DOMAIN sft[m] # {}
        /\ \A r \in DOMAIN sft[m] :
            /\ sft[m][r] # Malformed /\ sft[m][r].mode = m
            /\ Cardinality({q \in DOMAIN sft[m] : sft[m][q] = sft[m][r]})
                  <= Cardinality(Asked(m))

\* Reward and evaluation judge what the model said as GradersAgree puts it: never
\* is a single answer failed by the reward that the evaluation accepts, an answer
\* that is well put gets one verdict from both, and a recorded solution, if the
\* model repeats it, passes both.
GradedAlike ==
    graded # <<>> =>
        /\ GradersAgree(graded[1], graded[2])
        /\ GradersAgree(graded[3], graded[2])
=============================================================================
