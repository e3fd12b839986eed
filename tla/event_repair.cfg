SPECIFICATION Spec
CONSTANTS
  Events = {e1, e2}
  Pair <- SamePlayers
  Results <- LeadFinal
  Settlers = {"script"}
  Annotators = {}
  MaxTime = 2
  Grace = 0
  None = None
PROPERTIES MixedRowOnlyByOverlap NeverPrematchAgain
CHECK_DEADLOCK FALSE
