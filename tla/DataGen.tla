------------------------------- MODULE DataGen -------------------------------
(***************************************************************************)
(* datagenerationworker.py: a command starts one process per identifier.   *)
(* A process generates, for every mode, the same number of items for every *)
(* entry of listoperations, and appends them to one file per operation.    *)
(* Commands follow each other on the same output directory; a process may  *)
(* die at any moment, also in the middle of a write.                       *)
(*                                                                         *)
(* A mode is a pair <<style, nest>>.  A pass is the sequence of modes that *)
(* are written from the same chains: one pass per mode, or a single pass   *)
(* with all of them (--all_nests).  A chain is determined by the state of  *)
(* the random generator, that is by the seed and by what was drawn since,  *)
(* and by its number of operations.                                        *)
(***************************************************************************)
EXTENDS Integers, Sequences, FiniteSets, FiniteSetsExt, SequencesExt

CONSTANTS
    Commands,       \* command lines: [ops, passes, procs, total, layout]
    MaxCommands,    \* bound: commands on this output directory
    MaxCrashes,     \* bound: processes that die
    MaxDraws,       \* bound: chains a process draws in one pass
    Malformed       \* a line that is not one JSON object

Modes == STRING \X Nat

\* --modes are a pass each and all of them shuffle; --all_nests are one pass
ASSUME DataGenAssumption ==
    /\ MaxCommands \in Nat /\ MaxCrashes \in Nat /\ MaxDraws \in Nat
    /\ \A c \in Commands : /\ c.procs \in Nat \ {0} /\ c.total \in Nat \ {0}
                           /\ c.ops \in Seq(Nat) /\ c.ops # <<>>
                           /\ c.layout \in {"flat", "nested"}
                           /\ c.passes \in Seq(Seq(Modes)) /\ c.passes # <<>>
                           /\ Len(c.passes) = 1 \/ \A p \in DOMAIN c.passes :
                                 Len(c.passes[p]) = 1 /\ c.passes[p][1][1] # "implicit"

NodeNames == 200

\* the processes' identifiers
Ids == UNION {0 .. c.procs - 1 : c \in Commands}

Chains == [seed : Ids, past : Seq(Nat \X Nat), op : Nat]

\* a line of a file is a chain and the mode it is solved in
ItemLine == [chain : Chains, mode : Modes]

ASSUME MalformedAssumption == Malformed \notin ItemLine

\* num_per_worker
Quota(c) == (c.total + c.procs - 1) \div c.procs

VARIABLES
    commands,       \* the commands so far, the last one is running or ended
    pc,             \* per identifier; "absent" if the command has fewer
    pass,           \* per identifier: the pass it is in
    rng,            \* per identifier: draws since the seed, <<op, shuffles>>
    items,          \* per identifier and entry of ops: the chains generated
    next,           \* per identifier: the entry of ops to be written next
    file,           \* <<layout, op, identifier>> -> [lines, open]
    crashes

genVars == <<commands, pc, pass, rng, items, next, file, crashes>>

cmd == Last(commands)
Alive == {w \in Ids : pc[w] \in {"generate", "write"}}
Idle == Alive = {}

-----------------------------------------------------------------------------
\* generate_sample raises for this number of operations in this pass
Refuses(op, modes) ==
    \/ op >= NodeNames
    \/ /\ \E k \in DOMAIN modes : modes[k][1] = "hierarchical"
       /\ ~ \E e \in 1 .. op : 2 ^ e = op

\* every solution writer but the implicit one shuffles the variable names
Shuffles(modes) == Cardinality({k \in DOMAIN modes : modes[k][1] # "implicit"})

\* mutant: every process has the same seed
ChainUnseeded(w, op) == [seed |-> 0, past |-> rng[w], op |-> op]

\* the chain process w draws now
Chain(w, op) == [seed |-> w, past |-> rng[w], op |-> op]

\* mutant: always the first entry
FewestFirst(w) == 1

\* the first of the entries with the fewest chains
Fewest(w) ==
    CHOOSE i \in DOMAIN cmd.ops : \A j \in DOMAIN cmd.ops :
        \/ Len(items[w][i]) < Len(items[w][j])
        \/ Len(items[w][i]) = Len(items[w][j]) /\ i <= j

\* the first entry of that number of operations, which is where the item goes
Place(op) == CHOOSE i \in DOMAIN cmd.ops :
                cmd.ops[i] = op /\ \A j \in 1 .. i - 1 : cmd.ops[j] # op

\* mutant: the random generator is not seeded again
SeededOnce(w) ==
    /\ rng' = rng
    /\ items' = [items EXCEPT ![w] = [i \in DOMAIN cmd'.ops |-> <<>>]]
    /\ next' = [next EXCEPT ![w] = 1]

\* A pass begins: seed, and nothing generated.
Seeded(w) ==
    /\ rng' = [rng EXCEPT ![w] = <<>>]
    /\ items' = [items EXCEPT ![w] = [i \in DOMAIN cmd'.ops |-> <<>>]]
    /\ next' = [next EXCEPT ![w] = 1]

Launch(c) ==
    /\ Idle /\ Len(commands) < MaxCommands
    /\ commands' = Append(commands, c)
    /\ pc' = [w \in Ids |-> IF w < c.procs THEN "generate" ELSE "absent"]
    /\ pass' = [w \in Ids |-> 1]
    /\ rng' = [w \in Ids |-> <<>>]
    /\ items' = [w \in Ids |-> [i \in DOMAIN c.ops |-> <<>>]]
    /\ next' = [w \in Ids |-> 1]
    /\ UNCHANGED <<file, crashes>>

\* One turn of the loop.  An exception is swallowed and the loop goes on.
Draw(w) ==
    /\ pc[w] = "generate" /\ Len(rng[w]) < MaxDraws
    /\ LET modes == cmd.passes[pass[w]]
           op == cmd.ops[Fewest(w)]
       IN  IF Refuses(op, modes)
           THEN /\ rng' = [rng EXCEPT ![w] = Append(@, <<op, 0>>)]
                /\ UNCHANGED <<items, pc>>
           ELSE /\ rng' = [rng EXCEPT ![w] = Append(@, <<op, Shuffles(modes)>>)]
                /\ items' = [items EXCEPT ![w][Place(op)]
                                = Append(@, Chain(w, op))]
                /\ pc' = [pc EXCEPT ![w] =
                            IF \A i \in DOMAIN cmd.ops :
                                  Len(items'[w][i]) >= Quota(cmd)
                            THEN "write" ELSE "generate"]
    /\ UNCHANGED <<commands, pass, next, file, crashes>>

\* the lines of one file, chain by chain and mode by mode
Lines(w, i) ==
    FlattenSeq([k \in DOMAIN items[w][i] |->
        LET modes == cmd.passes[pass[w]]
        IN  [m \in DOMAIN modes |-> [chain |-> items[w][i][k],
                                     mode |-> modes[m]]]])

Existing(f) ==
    IF f \in DOMAIN file THEN file[f] ELSE [lines |-> <<>>, open |-> FALSE]

\* mutant: the file is opened with "w"
AppendedFresh(f, text, open) ==
    [g \in DOMAIN file \cup {f} |->
        IF g = f THEN [lines |-> text, open |-> open] ELSE file[g]]

\* Opened with "a".  If the file does not end in a newline, the first line of
\* the text runs into its last one.
Appended(f, text, open) ==
    LET old == Existing(f)
        new == [lines |-> IF old.open /\ text # <<>>
                          THEN Front(old.lines) \o <<Malformed>> \o Tail(text)
                          ELSE old.lines \o text,
                open |-> open]
    IN  [g \in DOMAIN file \cup {f} |-> IF g = f THEN new ELSE file[g]]

File(w) == <<cmd.layout, cmd.ops[next[w]], w>>

\* mutant: one pass too many
AfterWriteAgain(w) ==
    /\ UNCHANGED <<commands, crashes>>
    /\ IF next[w] < Len(cmd.ops)
       THEN next' = [next EXCEPT ![w] = @ + 1] /\ UNCHANGED <<pc, pass, rng, items>>
       ELSE IF pass[w] <= Len(cmd.passes)
       THEN /\ pass' = [pass EXCEPT ![w] = @ + 1]
            /\ pc' = [pc EXCEPT ![w] = "generate"]
            /\ Seeded(w)
       ELSE pc' = [pc EXCEPT ![w] = "done"] /\ UNCHANGED <<pass, rng, items, next>>

\* after an entry of ops the next one, after the last the next pass, or the end
AfterWrite(w) ==
    /\ UNCHANGED <<commands, crashes>>
    /\ IF next[w] < Len(cmd.ops)
       THEN next' = [next EXCEPT ![w] = @ + 1] /\ UNCHANGED <<pc, pass, rng, items>>
       ELSE IF pass[w] < Len(cmd.passes)
       THEN /\ pass' = [pass EXCEPT ![w] = @ + 1]
            /\ pc' = [pc EXCEPT ![w] = "generate"]
            /\ Seeded(w)
       ELSE pc' = [pc EXCEPT ![w] = "done"] /\ UNCHANGED <<pass, rng, items, next>>

\* mutant: the text does not end in a newline
WriteUnterminated(w) ==
    /\ pc[w] = "write"
    /\ file' = Appended(File(w), Lines(w, next[w]), TRUE)
    /\ AfterWrite(w)

Write(w) ==
    /\ pc[w] = "write"
    /\ file' = Appended(File(w), Lines(w, next[w]), FALSE)
    /\ AfterWrite(w)

\* The process dies.  In the middle of a write some lines are in the file, the
\* last of them torn, or whole but without its newline.  join() of the parent
\* does not look at the exit code.
Crash(w) ==
    /\ pc[w] \in {"generate", "write"} /\ crashes < MaxCrashes
    /\ crashes' = crashes + 1
    /\ pc' = [pc EXCEPT ![w] = "dead"]
    /\ \/ UNCHANGED file
       \/ /\ pc[w] = "write"
          /\ LET f == File(w)
                 text == Lines(w, next[w])
             IN  \/ file' = Appended(f, <<>>, Existing(f).open)
                 \/ \E k \in DOMAIN text :
                      \/ file' = Appended(f, SubSeq(text, 1, k), TRUE)
                      \/ k < Len(text)
                         /\ file' = Appended(f, SubSeq(text, 1, k), FALSE)
                      \/ file' = Appended(f, Append(SubSeq(text, 1, k - 1),
                                                   Malformed), TRUE)
    /\ UNCHANGED <<commands, pass, rng, items, next>>

GenInit ==
    /\ commands = <<>> /\ crashes = 0
    /\ pc = [w \in Ids |-> "absent"]
    /\ pass = [w \in Ids |-> 1] /\ rng = [w \in Ids |-> <<>>]
    /\ items = [w \in Ids |-> <<>>] /\ next = [w \in Ids |-> 1]
    /\ file = <<>>

GenNext ==
    \/ \E c \in Commands : Launch(c)
    \/ \E w \in Ids : Draw(w) \/ Write(w) \/ Crash(w)

-----------------------------------------------------------------------------
(* Properties *)

FileOK(f) == f.open \in BOOLEAN /\ (f.lines = <<>> => ~f.open)

GenTypeOK ==
    /\ Len(commands) <= MaxCommands /\ Range(commands) \subseteq Commands
    /\ \A w \in Ids :
        /\ pc[w] \in {"absent", "generate", "write", "done", "dead"}
        /\ pc[w] # "absent" =>
              /\ pass[w] \in DOMAIN cmd.passes /\ next[w] \in DOMAIN cmd.ops
              /\ DOMAIN items[w] = DOMAIN cmd.ops
        /\ Len(rng[w]) <= MaxDraws
    /\ \A f \in DOMAIN file : f[3] \in Ids /\ FileOK(file[f])
    /\ crashes \in 0 .. MaxCrashes

ModesOf(c) == UNION {Range(p) : p \in Range(c.passes)}
Clean == Idle /\ crashes = 0

\* the places <<pass, position>> where a command has a mode
Places(c, mode) ==
    UNION {{<<p, m>> : m \in {i \in DOMAIN c.passes[p] :
                                c.passes[p][i] = mode}} : p \in DOMAIN c.passes}

\* the places where a command has any mode, and those that all commands have for
\* a mode
AllPlaces(c) == UNION {Places(c, mode) : mode \in ModesOf(c)}
Asked(mode) == UNION {{j} \X Places(commands[j], mode) : j \in DOMAIN commands}

\* a process of command c writes file f
Serves(c, f) == c.layout = f[1] /\ f[2] \in Range(c.ops) /\ f[3] < c.procs

\* what the commands ordered of a mode for a file: num_per_worker items for
\* every place of the mode
Ordered(f, mode) ==
    UNION {{<<j, place, k>> : place \in Places(commands[j], mode),
                              k \in 1 .. Quota(commands[j])} :
              j \in {i \in DOMAIN commands : Serves(commands[i], f)}}

\* Every command that returned delivered: num_per_worker items of every mode
\* for every operation and process, in the file of that operation and process,
\* next to what earlier commands left there, and nothing else.
QuotaMet ==
    Clean => \A k \in DOMAIN commands :
        \A op \in Range(commands[k].ops), w \in 0 .. commands[k].procs - 1 :
            LET f == <<commands[k].layout, op, w>>
            IN  \A mode \in ModesOf(commands[k]) :
                    Cardinality({i \in DOMAIN file[f].lines :
                                    file[f].lines[i].mode = mode})
                        = Cardinality(Ordered(f, mode))

\* the first, the second ... problem of a mode in a file
Problems(lines, mode) ==
    {<<Cardinality({h \in 1 .. i : lines[h].mode = mode}), lines[i].chain>> :
        i \in {h \in DOMAIN lines : lines[h].mode = mode}}

\* The modes of one command, each given once, state the same problems in the same
\* order (the experiments compare them on the same chains): process by process
\* and operation by operation, also when they are generated in passes of their
\* own that only share a seed.
ModesShareChains ==
    Clean /\ Len(commands) = 1 =>
        \A f \in DOMAIN file : \A a, b \in ModesOf(cmd) :
            Cardinality(Places(cmd, a)) = 1 /\ Cardinality(Places(cmd, b)) = 1
                => Problems(file[f].lines, a) = Problems(file[f].lines, b)

\* the lines of all files that are not one JSON object
MalformedLines ==
    UNION {{<<f, k>> : k \in {i \in DOMAIN file[f].lines :
                                file[f].lines[i] = Malformed}} : f \in DOMAIN file}

\* A process that dies in a write spoils one line: its torn last one, or the
\* line that the next command glues to it.
OneLinePerCrash == Cardinality(MalformedLines) <= crashes
=============================================================================
