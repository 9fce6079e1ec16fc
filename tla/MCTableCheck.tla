--------------------------- MODULE MCTableCheck ---------------------------
(***************************************************************************)
(* TableCheck for TLC.  What two hook modules do to each other and what the*)
(* scan sees of one of them are explored on different machines: the scan   *)
(* does not write the table.                                               *)
(***************************************************************************)
EXTENDS TableCheck

CONSTANT c

MCClient == {c}

MCMachine ==
  {[hooks |-> Hook, checks |-> FALSE, symbol |-> TRUE]}
    \cup [hooks : {{h} : h \in Hook}, checks : {TRUE}, symbol : BOOLEAN]

CheckerOnly == {[hooks |-> {}, checks |-> TRUE, symbol |-> TRUE]}
=============================================================================
