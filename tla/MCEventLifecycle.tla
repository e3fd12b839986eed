--------------------------- MODULE MCEventLifecycle ---------------------------
(***************************************************************************)
(* Values for the constants of EventLifecycle.                             *)
(***************************************************************************)
EXTENDS EventLifecycle

Feed(e, definitive, strength) ==
  [event |-> e, definitive |-> definitive, strength |-> strength, status |-> "finished"]
First == CHOOSE e \in Events : TRUE

\* A final score, and the same corrected to one set more.
FinalCorrected == {Feed(First, TRUE, 1), Feed(First, TRUE, 2)}
\* A lead in sets, and the final score.
LeadFinal == {Feed(First, FALSE, 0), Feed(First, TRUE, 1)}

\* Every event is played by the same two players.
SamePlayers == [e \in Events |-> "pair"]
===============================================================================
