SPECIFICATION LiveSpec
CONSTANTS
  a = a  b = b  c = c  none = none
  Keys <- mcABC
  NoKey = none
  Payers <- mcA
  InitDelays = {0, 1}
  InitPresets = {1}
  InitMultisigs <- mcN
  InitFlags <- mcArmed
  MIN_TIMELOCK_DELAY = 1
  DEFAULT_ADMIN_TIMELOCK_DELAY = 2
  MaxSlot = 4
  OpKinds <- mcPauseOps
  Masks <- mcNone
  Nums = {2}
  Targets <- mcNone
  DirectSetters <- mcDirectPause
  ROTATION_TIMELOCK_SLOTS = 1
  EMERGENCY_RECOVERY_SLOTS = 2
  RotationKeys <- mcNone
  Councils <- mcCouncilBC
  OVERRIDE_DELAY = 2
  MaxPauseProposals = 2
  Committees <- mcNone
  DaoActions <- mcNone
  DaoMasks <- mcNone
  MaxDaoProposals = 0
  MIN_COOLDOWN = 2
  Cooldowns = {2}
  FeeBands <- mcNone
  PID_COOLDOWN = 1
  RecoverySlots = {1}
INVARIANT QuorumsKept
PROPERTIES EarlyLiftNeedsEveryGuardian LastingDepegPauses
CHECK_DEADLOCK FALSE
