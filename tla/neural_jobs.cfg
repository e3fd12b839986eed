SPECIFICATION FairSpec
CONSTANTS
  Replays = {"r"}
  Searches = {"s"}
  Trainings = {"t"}
  Config <- SameConfig
  Keep = 0
  Attempts = 2
  MaxFaults = 3
  None = None
INVARIANTS TypeOK TrainingsBounded
PROPERTIES CompletedStays JobsEnd
CHECK_DEADLOCK FALSE
