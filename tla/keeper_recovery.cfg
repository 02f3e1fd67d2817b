SPECIFICATION LiveSpec
CONSTANTS
  a = a  b = b  c = c  none = none
  Keys <- mcABC
  NoKey = none
  Payers <- mcA
  InitDelays = {1}
  InitPresets = {1}
  InitMultisigs <- mcN
  InitFlags <- mcArmed
  MIN_TIMELOCK_DELAY = 1
  DEFAULT_ADMIN_TIMELOCK_DELAY = 2
  MaxSlot = 4
  OpKinds <- mcNone
  Masks <- mcNone
  Nums = {0, 2}
  Targets <- mcNone
  DirectSetters <- mcNone
  ROTATION_TIMELOCK_SLOTS = 1
  EMERGENCY_RECOVERY_SLOTS = 2
  RotationKeys <- mcNone
  Councils <- mcNone
  OVERRIDE_DELAY = 2
  MaxPauseProposals = 0
  Committees <- mcNone
  DaoActions <- mcNone
  DaoMasks <- mcNone
  MaxDaoProposals = 0
  MIN_COOLDOWN = 2
  Cooldowns = {2}
  FeeBands <- mcNone
  PID_COOLDOWN = 1
  RecoverySlots = {1}
PROPERTIES RecoveryUnpauses
CHECK_DEADLOCK FALSE
