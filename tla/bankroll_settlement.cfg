SPECIFICATION FairSpec
CONSTANTS
  Requests = {1, 2}
  Settlers = {sync, script}
  Scripts = {script}
  Event <- OneEvent
  Resetters = {}
  Nobody = Nobody
  Proposal <- DistinctProposals
  Selection <- DistinctSelections
  Market <- MixedMarkets
  Outcome <- OneEach
  Stake <- StakesThreeOne
  Payout <- PayoutDouble
  InitialBalance = 20
  MinStake = 1
  StakeDivisor = 5
  ExposureDivisor = 5
  DailyLossLimit = 3
  Results <- TwoFeeds
INVARIANTS TypeOK SettledOnce RowIsLedgerTail
PROPERTIES SettlementMovesExactly ImplementsJournal EventuallySettled
CHECK_DEADLOCK TRUE
