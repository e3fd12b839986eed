SPECIFICATION FairSpec
CONSTANTS
  Events = {"first", "second"}
  Limit = 1
  Calls = {"call1", "call2"}
  MaxTroubles = 1
  None = None
INVARIANTS TypeOK SearchedOnce LimitKept DecisionsNeverSearch
PROPERTIES WaitsAgainByRaceOnly SearchedInTheEnd
