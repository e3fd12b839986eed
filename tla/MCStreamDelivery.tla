--------------------------- MODULE MCStreamDelivery ---------------------------
(***************************************************************************)
(* Stream positions are the ids, so nothing but the sets of consumers and  *)
(* keys needs a value; both are symmetric where no liveness is checked.    *)
(***************************************************************************)
EXTENDS StreamDelivery, TLC

Symmetry == Permutations(Consumers) \cup Permutations(Keys)
===============================================================================
