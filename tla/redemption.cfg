SPECIFICATION LiveSpec
CONSTANTS
  Holders = {a, b}
  NoHolder = none
  Amounts = {1, 2}
  InitBalance = 1
  InitVault = 3
  BPS = 2
  MaxAge = 2
  MaxSupply = 3
  MaxEntries = 3
  Delays = {1}
  Depths = {2}
  CapShares = {2}
  Rewards = {0}
  DEFAULT_MIN_DELAY_SLOTS = 1
  DEFAULT_MAX_QUEUE_DEPTH = 3
  DEFAULT_MAX_REDEMPTION_PER_SLOT_BPS = 1
  DEFAULT_KEEPER_REWARD_LAMPORTS = 1
  InitSurplus = 1
  DailyLimits = {2, 3}
  DEFAULT_SLA_SLOTS = 1
  SLOTS_PER_DAY = 2
  PENALTY_BPS = 1
  InitFund = 1
  PoolSizes = {0, 2}
  PoolFees = {0, 1}
  MAX_FEE_BPS = 1
  MaxPooled = 4
  Deployments = {{"queue"}, {"guarantee"}, {"pool"}}
INVARIANTS NoEntryStranded SettledOnce PoolBooksBacked TokensConserved
PROPERTIES FirstInFirstOut RailLimitsHold UnitEntriesSettle RequestsEnd
