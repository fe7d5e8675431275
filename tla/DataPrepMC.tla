----------------------------- MODULE DataPrepMC ------------------------------
(***************************************************************************)
(* An instance of DataPrep.                                                *)
(***************************************************************************)
EXTENDS DataPrep

Forward == <<"forward", 0>>
Backward == <<"backward", 0>>
Hierarchical == <<"hierarchical", 0>>
Explicit == <<"explicit", 1>>
Composed == <<"composed", 2>>
Implicit == <<"implicit", 2>>

\* two modes of two operations by one process, one mode by two, all variants,
\* and two commands that do not return
MCCommands ==
    {[ops |-> <<2, 3>>, passes |-> <<<<Forward>>, <<Backward>>>>,
      procs |-> 1, total |-> 1, layout |-> "flat"],
     [ops |-> <<2>>, passes |-> <<<<Forward>>>>,
      procs |-> 2, total |-> 3, layout |-> "flat"],
     [ops |-> <<2>>, passes |-> <<<<Explicit, Composed, Implicit>>>>,
      procs |-> 1, total |-> 1, layout |-> "nested"],
     [ops |-> <<2, 3>>, passes |-> <<<<Hierarchical>>>>,
      procs |-> 1, total |-> 1, layout |-> "flat"],
     [ops |-> <<2, 2>>, passes |-> <<<<Forward>>>>,
      procs |-> 1, total |-> 1, layout |-> "flat"]}

MCSftCommands ==
    {[modes |-> {Forward}, limit |-> 5], [modes |-> {}, limit |-> 2]}

\* one answer in each spelling and position, two answers, none
MCGenTexts ==
    LET A(v) == <<"answer", v>>  l(v) == <<"lower", v>>  n(v) == <<"number", v>>
        word == <<"word", 0>>  newline == <<"newline", 0>>
    IN  {<<>>, <<word>>, <<n(1)>>, <<n(2), A(1)>>, <<n(1), A(Modulus + 1)>>,
         <<A(1), n(2)>>, <<A(1), newline, n(2)>>, <<l(1)>>, <<A(1), l(2)>>,
         <<A(2), newline, A(1)>>, <<<<"tag", 1>>, A(2)>>, <<n(2), <<"tag", 1>>>>}

MCSolutions == {<<<<"number", 2>>, <<"answer", 1>>>>, <<<<"answer", 0>>>>}
=============================================================================
