------------------------------ MODULE Pipeline ------------------------------
(***************************************************************************)
(* What the fully asynchronous pipeline promises, without its processes:   *)
(* a producer hands over samples 1 .. Total, a consumer uses each at most  *)
(* once, and the producer is never more than Window samples ahead of what  *)
(* the consumer had when it last renewed the allowance.  A sample may be   *)
(* given up, but the consumer is told that the stream is over only when    *)
(* nothing is left on its way, unless something broke.  FullyAsync         *)
(* implements this (its operator Pipe gives the mapping).                  *)
(***************************************************************************)
EXTENDS Naturals, FiniteSets

CONSTANTS
    Total,      \* samples of the stream
    Window      \* samples between two renewals

VARIABLES
    made,       \* samples handed over so far
    flight,     \* those neither used nor given up
    kept,       \* those the consumer has
    fetched,    \* how many it got since the last renewal
    broken,     \* a sample failed
    over        \* the consumer has been told that the stream is over

vars == <<made, flight, kept, fetched, broken, over>>

Init ==
    /\ made = 0 /\ flight = {} /\ kept = {} /\ fetched = 0
    /\ broken = FALSE /\ over = FALSE

\* the rollouter starts the next sample
Make ==
    /\ ~over /\ made < Total
    /\ fetched + Cardinality(flight) < Window
    /\ made' = made + 1
    /\ flight' = flight \cup {made + 1}
    /\ UNCHANGED <<kept, fetched, broken, over>>

\* the trainer gets a sample, in any order
Use ==
    /\ ~over
    /\ \E i \in flight : flight' = flight \ {i} /\ kept' = kept \cup {i}
    /\ fetched' = fetched + 1
    /\ UNCHANGED <<made, broken, over>>

\* a full queue, or a processor that dies, gives a sample up
Lose ==
    /\ \E i \in flight : flight' = flight \ {i}
    /\ UNCHANGED <<made, kept, fetched, broken, over>>

\* the generation of a sample raises
Break ==
    /\ \E i \in flight : flight' = flight \ {i}
    /\ broken' = TRUE
    /\ UNCHANGED <<made, kept, fetched, over>>

\* the weights are updated
Renew ==
    /\ fetched' = 0
    /\ UNCHANGED <<made, flight, kept, broken, over>>

\* the end marker
Finish ==
    /\ broken \/ (made = Total /\ flight = {})
    /\ over' = TRUE
    /\ UNCHANGED <<made, flight, kept, fetched, broken>>

\* what arrives behind the end marker is thrown away
Discard ==
    /\ over
    /\ \E S \in SUBSET flight : flight' = flight \ S
    /\ UNCHANGED <<made, kept, fetched, broken, over>>

Next == Make \/ Use \/ Lose \/ Break \/ Renew \/ Finish \/ Discard

Spec == Init /\ [][Next]_vars
=============================================================================
