SPECIFICATION Spec
CONSTANTS
  Requests = {1, 2, 3}
  Settlers = {sync}
  Scripts = {}
  Event <- OneEvent
  Resetters = {x1}
  Nobody = Nobody
  Proposal <- TwoThenOne
  Selection <- TwoThenOne
  Market <- MatchMarkets
  Outcome <- AllOnA
  Stake <- StakesTwoTwoThree
  Payout <- PayoutDouble
  InitialBalance = 20
  MinStake = 1
  StakeDivisor = 5
  ExposureDivisor = 5
  DailyLossLimit = 3
  Results <- WonByA
INVARIANTS OneBetPerProposal RowExposureWithinLimit
PROPERTIES ImplementsJournal
CHECK_DEADLOCK TRUE
