SPECIFICATION FairSpec
CONSTANTS
  Clients = {"x", "y", "player"}
  Executors = {"x", "y"}
  Priority <- ArchiveOrParticipant
  MaxSlots = 1
  Enough = 1
  MaxFaults = 1
  Jobs = {"j", "static"}
  Authorized = {"j"}
  Profiles = 2
  Tries = 1
  None = None
INVARIANTS TypeOK SlotLimit CompletedMeansArchived
PROPERTIES ProgressNeverLost JobEnds
CHECK_DEADLOCK FALSE
