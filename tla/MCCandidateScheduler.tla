------------------------- MODULE MCCandidateScheduler -------------------------
(***************************************************************************)
(* The instance of CandidateScheduler that TLC checks: one event above the *)
(* default hurdle, and one ahead of it in the query, whose first prediction*)
(* only passes the lowered hurdle, and whose second one has no odds: the   *)
(* two rows then fill the query.                                           *)
(***************************************************************************)
EXTENDS CandidateScheduler

Scores == [i \in Items |-> IF i.event = "strong" THEN 3 ELSE IF i.version = 1 THEN 1 ELSE 0]
Ranks == [i \in Items |-> (IF i.event = "strong" THEN MaxVersions ELSE 0) + MaxVersions - i.version]
===============================================================================
