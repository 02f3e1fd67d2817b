SPECIFICATION Spec
CONSTANTS
  a = a  b = b  c = c  none = none
  Keys <- mcABC
  NoKey = none
  Payers <- mcA
  InitDelays = {1}
  InitPresets = {1, 3}
  InitMultisigs <- mcAN
  InitFlags <- mcNoFlags
  MIN_TIMELOCK_DELAY = 1
  DEFAULT_ADMIN_TIMELOCK_DELAY = 2
  MaxSlot = 4
  OpKinds <- mcAllOps
  Masks <- mcFeeMasks
  Nums = {0, 3}
  Targets <- mcB
  DirectSetters <- mcAllDirect
  ROTATION_TIMELOCK_SLOTS = 1
  EMERGENCY_RECOVERY_SLOTS = 2
  RotationKeys <- mcABC
  Councils <- mcNone
  OVERRIDE_DELAY = 2
  MaxPauseProposals = 0
  Committees <- mcNone
  DaoActions <- mcNone
  DaoMasks <- mcNone
  MaxDaoProposals = 0
  MIN_COOLDOWN = 2
  Cooldowns <- mcNone
  FeeBands <- mcBand
  PID_COOLDOWN = 1
  RecoverySlots <- mcNone
INVARIANTS PendingOpHonoursDelay Sss3StaysTimelocked NominationByAuthorityInOffice
PROPERTIES GuardedChangesNeedMatureOp ComplianceHandoverNotice
CHECK_DEADLOCK FALSE
CONSTRAINT FewSettings
