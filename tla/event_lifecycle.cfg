SPECIFICATION FairSpec
CONSTANTS
  Events = {e1}
  Pair <- SamePlayers
  Results <- FinalCorrected
  Settlers = {"sync"}
  Annotators = {"context"}
  MaxTime = 2
  Grace = 0
  None = None
INVARIANTS TypeOK
PROPERTIES ResultLostOnlyByOverlap EventuallyClosed
CHECK_DEADLOCK FALSE
