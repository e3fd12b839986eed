SPECIFICATION FairSpec
CONSTANTS
  Events = {"strong", "fair"}
  Score <- Scores
  Rank <- Ranks
  Default = 2
  Lowered = 1
  Capacity = 2
  Limit = 2
  RowsRead = 2
  Calls = {"worker", "neural"}
  MaxVersions = 2
  MaxTroubles = 1
  None = None
INVARIANTS TypeOK HurdleLostOnlyByOverlap AnsweredOnce DecidedOnce NothingLeftBehind
PROPERTIES DecidedInTheEnd
