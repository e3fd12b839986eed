---------------------------- MODULE MCResearchQueue ----------------------------
(***************************************************************************)
(* The instance of ResearchQueue that TLC checks.                          *)
(***************************************************************************)
EXTENDS ResearchQueue
===============================================================================
