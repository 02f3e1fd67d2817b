SPECIFICATION MarketSpec
CONSTANTS
  a = a  b = b  none = none
  Keys <- mcAB
  NoKey = none
  Payers <- mcA
  InitDelays = {1}
  InitPresets = {1, 3}
  InitMultisigs <- mcA
  InitFlags <- mcNoFlags
  MIN_TIMELOCK_DELAY = 1
  DEFAULT_ADMIN_TIMELOCK_DELAY = 2
  Minters <- mcA
  Attesters <- mcA
  Amounts = {1, 2}
  Limits = {0, 2}
  MaxSupplies = {3}
  GateFlags <- mcGate
  Fees = {1}
  Ratios = {1}
  Versions = {1}
  InitEpochs = {0, 1}
  BPS = 2
  U64_MAX = 4
  MaxSlot = 3
  BridgeLimits = {0}
  BridgeFees = {0, 1}
  BRIDGE_MAX_FEE = 1
  FeeVaultOwner = a
  Sanctioned <- mcA
  MaxMessages = 2
  Makers <- mcB
  MakerLimits = {2}
  Spreads = {1}
  PegPrices = {3, 5}
  PEG_PRICE = 3
  SPREAD_UNIT = 1
  MAX_MAKERS = 1
  Curves <- mcCurves
  PSM_MAX_FEE_BPS = 1
  RATIO_SCALE = 4
  Issuers <- mcIssuers
INVARIANTS MarketTypeOK CountersCoverSupply SupplyWithinMax VaultCoversRecord BridgeConserves MakersWithinLimits EpochCounterExact
PROPERTIES VelocityLimitHolds
CONSTRAINT OneThingAtATime
