----------------------------- MODULE MCNeuralJobs -----------------------------
(***************************************************************************)
(* The instance of NeuralJobs that TLC checks: a replay, a strategy search *)
(* and a training.                                                         *)
(***************************************************************************)
EXTENDS NeuralJobs

SameConfig == [r \in Replays |-> "config"]
===============================================================================
