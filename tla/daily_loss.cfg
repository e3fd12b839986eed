SPECIFICATION Spec
CONSTANTS
  Requests = {1, 2}
  Settlers = {sync}
  Scripts = {}
  Event <- OneEvent
  Resetters = {}
  Nobody = Nobody
  Proposal <- DistinctProposals
  Selection <- DistinctSelections
  Market <- MatchMarkets
  Outcome <- AllOnA
  Stake <- StakesThree
  Payout <- PayoutDouble
  InitialBalance = 20
  MinStake = 1
  StakeDivisor = 5
  ExposureDivisor = 5
  DailyLossLimit = 3
  Results <- WonByB
PROPERTIES DailyLossStops
CHECK_DEADLOCK TRUE
