-------------------------- MODULE MCFlashscoreImport --------------------------
(***************************************************************************)
(* The instance of FlashscoreImport that TLC checks.  The executors ask    *)
(* as "archive", any other client, the refresh of a player, as             *)
(* "participant".                                                          *)
(***************************************************************************)
EXTENDS FlashscoreImport

ArchiveOrParticipant ==
  [c \in Clients |-> IF c \in Executors THEN "archive" ELSE "participant"]
===============================================================================
