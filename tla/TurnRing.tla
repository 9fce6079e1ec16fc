------------------------------ MODULE TurnRing ------------------------------
(***************************************************************************)
(* What the readme of Assignment_0/q1 promises of the three processes: one *)
(* turn at a time, handed round Parent -> ChildOne -> ChildTwo -> Parent,  *)
(* until the parent, in its own turn, ends the session.  A session that    *)
(* is aborted instead leaves the IPC objects as they are, so the next one  *)
(* may find more than one turn in the ring ("broken"); one session that    *)
(* is ended properly repairs that.                                         *)
(***************************************************************************)
EXTENDS Naturals

VARIABLES
  turn,    \* whose turn it is, or "off", "dead" (turn lost), "broken"
  clean    \* the last session ended with the parent's cleanup

vars == <<turn, clean>>

Children == {"ChildOne", "ChildTwo"}
Procs    == {"Parent"} \cup Children
NextOf   == [Parent |-> "ChildOne", ChildOne |-> "ChildTwo", ChildTwo |-> "Parent"]

Init == turn = "off" /\ clean = TRUE

\* A session starts with the parent's turn; a broken ring is possible only
\* if the previous session was not cleaned up.
Start ==
  /\ turn = "off"
  /\ \/ turn' = "Parent"
     \/ ~clean /\ turn' = "broken"
  /\ UNCHANGED clean

Pass ==
  /\ turn \in Procs
  /\ turn' = NextOf[turn]
  /\ UNCHANGED clean

\* A child that dies in its turn takes the turn with it.
Lose ==
  /\ turn \in Children
  /\ turn' = "dead"
  /\ UNCHANGED clean

Stop ==
  /\ turn \in {"Parent", "broken"}
  /\ turn' = "off"
  /\ clean' = TRUE

Abort ==
  /\ turn # "off"
  /\ turn' = "off"
  /\ clean' = FALSE

Next == Start \/ Pass \/ Lose \/ Stop \/ Abort

Spec == Init /\ [][Next]_vars
=============================================================================
