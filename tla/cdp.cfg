SPECIFICATION Spec
CONSTANTS
  a = a  b = b  x = x  y = y  none = none
  Users <- mcAB
  Collaterals <- mcXY
  NoMint = none
  Amounts = {1, 2}
  Quotes <- mcQuotes
  SCALE = 2
  InitCollateral <- mcHoldings
  BPS = 10
  MIN_COLLATERAL_RATIO_BPS = 15
  LIQUIDATION_THRESHOLD_BPS = 14
  DEFAULT_LIQUIDATION_BONUS_BPS = 1
  CollateralParams <- mcParams
  FeeRates = {0, 5}
  MaxFeeBps = 5
  PidFees = {8}
  YEAR = 1
  GateSets <- mcGates
  MaxAge = 1
  MaxIssued = 3
  Signers <- mcAB
  InsuranceAuthority = a
  Mandates <- mcXY
  InsuranceAmounts = {1, 2}
  SeedShares = {0, 5}
  DrawShares = {0, 5}
  INSURANCE_BPS = 10
  MaxSeeded = 3
  PartSets <- mcParts
CHECK_DEADLOCK FALSE
INVARIANTS DebtSound NoUnbackedDebt DrawsWithinMandates
PROPERTIES NothingPaidTwice LiquidationJustified
