SPECIFICATION Spec
CONSTANTS
  Requests = {1, 2}
  Settlers = {}
  Scripts = {}
  Event <- OneEvent
  Resetters = {}
  Nobody = Nobody
  Proposal <- DistinctProposals
  Selection <- DistinctSelections
  Market <- MatchMarkets
  Outcome <- OneEach
  Stake <- StakesThreeOne
  Payout <- PayoutDouble
  InitialBalance = 20
  MinStake = 1
  StakeDivisor = 5
  ExposureDivisor = 5
  DailyLossLimit = 3
  Results <- AOrCancelled
INVARIANTS BalanceFromLedger
CHECK_DEADLOCK FALSE
