SPECIFICATION Spec
CONSTANTS
  a = a  b = b  c = c  none = none
  Keys <- mcABC
  NoKey = none
  Payers <- mcA
  InitDelays = {0, 1}
  InitPresets = {1}
  InitMultisigs <- mcAN
  InitFlags <- mcNoFlags
  MIN_TIMELOCK_DELAY = 1
  DEFAULT_ADMIN_TIMELOCK_DELAY = 2
  MaxSlot = 3
  OpKinds <- mcClearFlagOps
  Masks <- mcDaoMasks
  Nums = {2}
  Targets <- mcB
  DirectSetters <- mcAllDirect
  ROTATION_TIMELOCK_SLOTS = 1
  EMERGENCY_RECOVERY_SLOTS = 2
  RotationKeys <- mcNone
  Councils <- mcNone
  OVERRIDE_DELAY = 2
  MaxPauseProposals = 0
  Committees <- mcCommittees
  DaoActions <- mcDaoActions
  DaoMasks <- mcDaoMasks
  MaxDaoProposals = 1
  MIN_COOLDOWN = 2
  Cooldowns <- mcNone
  FeeBands <- mcNone
  PID_COOLDOWN = 1
  RecoverySlots <- mcNone
INVARIANT QuorumsKept
PROPERTY GovernanceFlagsSticky
CHECK_DEADLOCK FALSE
CONSTRAINT FewSettings
