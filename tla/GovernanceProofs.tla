-------------------------- MODULE GovernanceProofs --------------------------
(***************************************************************************)
(* What the governance of a stablecoin guarantees for every set of keys,   *)
(* every delay and every interleaving of its six components.               *)
(***************************************************************************)
EXTENDS Governance, FiniteSetTheorems, TLAPS

\* The numbers of the timelock, and the fee among the settings.
CoreTypeOK == /\ slot \in Nat
              /\ timelockDelay \in Nat
              /\ complianceProposedAt \in Nat
              /\ adminOp.num \in Nat
              /\ adminOp.proposedAt \in Nat
              /\ "stabilityFeeBps" \in DOMAIN settings

\* A standing compliance nomination was announced the default delay ago.
ComplianceNominationAged ==
  pendingComplianceAuthority # NoKey =>
    slot >= complianceProposedAt + DEFAULT_ADMIN_TIMELOCK_DELAY

\* The inductive invariant.  That a matured operation has waited the delay in
\* force needs PendingOpHonoursDelay; that a compliance hand-over has its
\* notice needs the age of the nomination, which comes from the same fact.
GovernanceInv == /\ CoreTypeOK
                 /\ PendingOpHonoursDelay
                 /\ Sss3StaysTimelocked
                 /\ NominationByAuthorityInOffice
                 /\ ComplianceNominationAged

\* The step leaves the roles, the delay, the pending operation, the settings
\* and the history alone.
CoreUntouched == UNCHANGED <<roleVars, opVars, settings, historyVars>>

\* The protected flags stay.
FlagsKept == (flags \cap ProtectedFlags) \subseteq flags'

\* What the action properties say of a step.
GuardedChange == \/ GuardedSettings' # GuardedSettings
                 \/ timelockDelay' # timelockDelay
                 \/ pendingAuthority' \notin {pendingAuthority, NoKey}
StepGuarded == timelockDelay > 0 => /\ GuardedChange => SpendsMatureOp
                                    /\ FeeChanges => SpendsMatureOp \/ FeeLeftToController
StepNoticed == complianceAuthority' # complianceAuthority =>
                 slot >= complianceProposedAt + DEFAULT_ADMIN_TIMELOCK_DELAY
StepSafe == GovernanceInv' /\ FlagsKept /\ StepGuarded /\ StepNoticed

-----------------------------------------------------------------------------
\* A freshly initialized stablecoin satisfies the invariant (initialize.rs).
LEMMA InitInv == Init => GovernanceInv
<1> SUFFICES ASSUME Init PROVE GovernanceInv
  OBVIOUS
<1> USE DEF Init, InitConfig
<1>1. CoreTypeOK
  BY DelayAssumption DEF CoreTypeOK, NoOp, NoSettings
<1>2. PendingOpHonoursDelay
  BY DEF PendingOpHonoursDelay, NoOp
<1>3. Sss3StaysTimelocked
  BY DEF Sss3StaysTimelocked
<1>4. NominationByAuthorityInOffice /\ ComplianceNominationAged
  BY DEF NominationByAuthorityInOffice, ComplianceNominationAged
<1> QED
  BY <1>1, <1>2, <1>3, <1>4 DEF GovernanceInv

\* A step that moves at most the clock, the pause bit and unprotected flags
\* is safe.
LEMMA UntouchedSafe ==
  ASSUME GovernanceInv, CoreUntouched, FlagsKept, slot' \in Nat, slot' >= slot
  PROVE  StepSafe
<1> USE DEF CoreUntouched, roleVars, opVars, historyVars
<1>1. CoreTypeOK'
  BY DEF GovernanceInv, CoreTypeOK
<1>2. PendingOpHonoursDelay'
  BY DEF GovernanceInv, PendingOpHonoursDelay, EffectiveDelay
<1>3. Sss3StaysTimelocked'
  BY DEF GovernanceInv, Sss3StaysTimelocked, FlagsKept, ProtectedFlags
<1>4. NominationByAuthorityInOffice'
  BY DEF GovernanceInv, NominationByAuthorityInOffice
<1>5. ComplianceNominationAged'
  BY DelayAssumption DEF GovernanceInv, CoreTypeOK, ComplianceNominationAged
<1>6. StepGuarded /\ StepNoticed
  BY DEF StepGuarded, StepNoticed, GuardedChange, GuardedSettings, FeeChanges
<1> QED
  BY <1>1, <1>2, <1>3, <1>4, <1>5, <1>6 DEF GovernanceInv, StepSafe

\* The clock, the guardians, the committee and the keeper never touch the
\* core, and keep the protected flags: a passed proposal may not clear them.
LEMMA BystandersSafe ==
  ASSUME GovernanceInv,
         \/ Tick /\ UNCHANGED authorityVars
         \/ GuardianNext /\ UNCHANGED authorityVars
         \/ DaoNext /\ UNCHANGED authorityVars
         \/ KeeperNext /\ UNCHANGED authorityVars
  PROVE  StepSafe
<1> USE DEF authorityVars
<1>1. CASE Tick /\ UNCHANGED authorityVars
  <2>1. CoreUntouched /\ FlagsKept
    BY <1>1 DEF Tick, configVars, CoreUntouched, FlagsKept
  <2>2. slot' \in Nat /\ slot' >= slot
    BY <1>1 DEF Tick, GovernanceInv, CoreTypeOK
  <2> QED
    BY <2>1, <2>2, UntouchedSafe
<1>2. CASE GuardianNext /\ UNCHANGED authorityVars
  <2>1. UNCHANGED guardianUnchanged
    BY <1>2 DEF GuardianNext, InitGuardianConfig, GuardianProposePause,
                GuardianVotePause, GuardianLiftVote, AuthorityLiftPause
  <2>2. CoreUntouched /\ FlagsKept /\ slot' = slot
    BY <1>2, <2>1 DEF guardianUnchanged, CoreUntouched, FlagsKept
  <2> QED
    BY <2>2, UntouchedSafe DEF GovernanceInv, CoreTypeOK
<1>3. CASE DaoNext /\ UNCHANGED authorityVars
  <2>1. UNCHANGED daoUnchanged
    BY <1>3 DEF DaoNext, InitDaoCommittee, ProposeAction, VoteAction, ExecuteAction
  <2>2. FlagsKept
    <3>1. CASE \E id \in DOMAIN proposals : ExecuteAction(id)
      BY <3>1 DEF ExecuteAction, ClearMaskAllowed, FlagsKept
    <3>2. CASE ~ \E id \in DOMAIN proposals : ExecuteAction(id)
      BY <1>3, <3>2 DEF DaoNext, InitDaoCommittee, ProposeAction, VoteAction, FlagsKept
    <3> QED
      BY <3>1, <3>2
  <2>3. CoreUntouched /\ slot' = slot
    BY <1>3, <2>1 DEF daoUnchanged, CoreUntouched
  <2> QED
    BY <2>2, <2>3, UntouchedSafe DEF GovernanceInv, CoreTypeOK
<1>4. CASE KeeperNext /\ UNCHANGED authorityVars
  <2>1. UNCHANGED keeperUnchanged
    BY <1>4 DEF KeeperNext, InitKeeperConfig, CrankCircuitBreaker, CrankUnpause,
                PegMoves, keeperUnchanged, configVars
  <2>2. CoreUntouched /\ FlagsKept /\ slot' = slot
    BY <1>4, <2>1 DEF keeperUnchanged, CoreUntouched, FlagsKept
  <2> QED
    BY <2>2, UntouchedSafe DEF GovernanceInv, CoreTypeOK
<1> QED
  BY <1>1, <1>2, <1>3, <1>4

-----------------------------------------------------------------------------
(***************************************************************************)
(* The timelock.                                                           *)
(***************************************************************************)
\* propose_timelocked_op: the operation is given the delay in force.
LEMMA ProposeSafe ==
  ASSUME GovernanceInv, NEW k \in Keys, NEW req \in Requests,
         ProposeTimelockedOp(k, req)
  PROVE  StepSafe
<1> USE DEF ProposeTimelockedOp, roleVars, historyVars
<1>1. req.num \in Nat
  <2> DEFINE R(K, B, N, T) == [kind : K, bits : B, num : N, target : T]
  <2>1. ASSUME NEW K, NEW B, NEW T, NEW N \in SUBSET Nat, req \in R(K, B, N, T)
        PROVE  req.num \in Nat
    BY <2>1
  <2>2. {0} \in SUBSET Nat /\ Nums \in SUBSET Nat
    <3>1. Nums \subseteq Nat
      BY AdminTimelockAssumption, Zenon DEF AdminTimelockAssumption
    <3>2. {0} \in SUBSET Nat
      OBVIOUS
    <3> QED
      BY <3>1, <3>2
  <2>3. \/ req \in R(OpKinds \cap FlagOps, Masks, {0}, {NoKey})
        \/ req \in R(OpKinds \cap KeyOps, {{}}, {0}, Targets)
        \/ req \in R(OpKinds \cap NumOps, {{}}, Nums, {NoKey})
        \/ req \in R(OpKinds \cap NumKeyOps, {{}}, Nums, Targets)
        \/ req \in R(OpKinds \cap {"PAUSE", "UNPAUSE"}, {{}}, {0}, {NoKey})
    BY Zenon DEF Requests
  <2> HIDE DEF R
  <2> QED
    BY <2>1, <2>2, <2>3, Zenon
<1>2. CoreTypeOK'
  BY <1>1 DEF GovernanceInv, CoreTypeOK
<1>3. PendingOpHonoursDelay'
  BY DEF PendingOpHonoursDelay, EffectiveDelay
<1>4. Sss3StaysTimelocked' /\ NominationByAuthorityInOffice'
      /\ ComplianceNominationAged'
  BY DEF GovernanceInv, Sss3StaysTimelocked, NominationByAuthorityInOffice,
         ComplianceNominationAged
<1>5. FlagsKept /\ StepGuarded /\ StepNoticed
  BY DEF FlagsKept, StepGuarded, StepNoticed, GuardedChange, GuardedSettings, FeeChanges
<1> QED
  BY <1>2, <1>3, <1>4, <1>5 DEF GovernanceInv, StepSafe

\* cancel_timelocked_op.
LEMMA CancelSafe ==
  ASSUME GovernanceInv, NEW k \in Keys, CancelTimelockedOp(k)
  PROVE  StepSafe
<1> USE DEF CancelTimelockedOp, roleVars, historyVars
<1>1. CoreTypeOK' /\ PendingOpHonoursDelay'
  BY DEF GovernanceInv, CoreTypeOK, PendingOpHonoursDelay, NoOp
<1>2. Sss3StaysTimelocked' /\ NominationByAuthorityInOffice'
      /\ ComplianceNominationAged'
  BY DEF GovernanceInv, Sss3StaysTimelocked, NominationByAuthorityInOffice,
         ComplianceNominationAged
<1>3. FlagsKept /\ StepGuarded /\ StepNoticed
  BY DEF FlagsKept, StepGuarded, StepNoticed, GuardedChange, GuardedSettings, FeeChanges
<1> QED
  BY <1>1, <1>2, <1>3 DEF GovernanceInv, StepSafe

\* The effective delay of an operation is at least the configured one, and
\* that of a compliance transfer at least the default one.
LEMMA EffectiveDelayBound ==
  ASSUME CoreTypeOK, NEW kind
  PROVE  /\ EffectiveDelay(kind) \in Nat
         /\ EffectiveDelay(kind) >= timelockDelay
         /\ kind = "TRANSFER_COMPLIANCE_AUTHORITY" =>
              EffectiveDelay(kind) >= DEFAULT_ADMIN_TIMELOCK_DELAY
  BY DelayAssumption DEF CoreTypeOK, EffectiveDelay, Max2

\* execute_timelocked_op: the operation has waited its delay and is spent.
LEMMA ExecuteSafe ==
  ASSUME GovernanceInv, NEW k \in Keys, ExecuteTimelockedOp(k)
  PROVE  StepSafe
<1>1. /\ slot >= adminOp.proposedAt + EffectiveDelay(adminOp.kind)
      /\ adminOp.kind # ADMIN_OP_NONE
  BY DEF ExecuteTimelockedOp, Matured, GovernanceInv, PendingOpHonoursDelay
<1>2. SpendsMatureOp
  BY <1>1, EffectiveDelayBound
  DEF SpendsMatureOp, ExecuteTimelockedOp, OpAfterExecution, GovernanceInv, CoreTypeOK
<1>3. FlagsKept
  BY DEF ExecuteTimelockedOp, OpAllowed, FlagsAfter, ClearMaskAllowed, FlagsKept
<1>4. CoreTypeOK' /\ PendingOpHonoursDelay'
  BY DEF ExecuteTimelockedOp, OpAfterExecution, NoOp, GovernanceInv, CoreTypeOK,
         PendingOpHonoursDelay, SettingsAfter
<1>5. Sss3StaysTimelocked'
  BY <1>3 DEF ExecuteTimelockedOp, OpAllowed, GovernanceInv, Sss3StaysTimelocked,
              FlagsKept, ProtectedFlags
<1>6. NominationByAuthorityInOffice'
  BY DEF ExecuteTimelockedOp, GovernanceInv, NominationByAuthorityInOffice
<1>7. ComplianceNominationAged'
  <2>1. CASE adminOp.kind = "TRANSFER_COMPLIANCE_AUTHORITY"
    BY <1>1, <2>1, EffectiveDelayBound, DelayAssumption
    DEF ExecuteTimelockedOp, ComplianceNominationAged, GovernanceInv, CoreTypeOK
  <2>2. CASE adminOp.kind # "TRANSFER_COMPLIANCE_AUTHORITY"
    BY <2>2 DEF ExecuteTimelockedOp, ComplianceNominationAged, GovernanceInv
  <2> QED
    BY <2>1, <2>2
<1>8. StepGuarded /\ StepNoticed
  BY <1>2 DEF StepGuarded, StepNoticed, ExecuteTimelockedOp
<1> QED
  BY <1>3, <1>4, <1>5, <1>6, <1>7, <1>8 DEF GovernanceInv, StepSafe

\* A direct setter writes settings, flags or the pause bit, and only with a
\* zero delay.  clear_sanctions_oracle and the fee controller ignore the delay,
\* and leave the guarded settings as they are; the controller moves the fee.
LEMMA DirectSafe ==
  ASSUME GovernanceInv, UNCHANGED directUnchanged, FlagsKept,
         DOMAIN settings' = DOMAIN settings,
         \/ timelockDelay = 0
         \/ /\ GuardedSettings' = GuardedSettings
            /\ FeeChanges => FeeLeftToController
  PROVE  StepSafe
<1> USE DEF directUnchanged, roleVars, opVars, historyVars
<1>1. CoreTypeOK' /\ PendingOpHonoursDelay'
  BY DEF GovernanceInv, CoreTypeOK, PendingOpHonoursDelay, EffectiveDelay
<1>2. Sss3StaysTimelocked'
  BY DEF GovernanceInv, Sss3StaysTimelocked, FlagsKept, ProtectedFlags
<1>3. NominationByAuthorityInOffice' /\ ComplianceNominationAged'
  BY DEF GovernanceInv, NominationByAuthorityInOffice, ComplianceNominationAged
<1>4. StepGuarded /\ StepNoticed
  BY DEF StepGuarded, StepNoticed, GuardedChange, GovernanceInv, CoreTypeOK
<1> QED
  BY <1>1, <1>2, <1>3, <1>4 DEF GovernanceInv, StepSafe

\* Every step of the timelock's module.
LEMMA TimelockSafe ==
  ASSUME GovernanceInv, TimelockNext
  PROVE  StepSafe
<1> PICK k \in Keys :
      \/ \E req \in Requests : ProposeTimelockedOp(k, req)
      \/ ExecuteTimelockedOp(k)
      \/ CancelTimelockedOp(k)
      \/ \E bits \in Masks : SetFeatureFlag(k, bits) \/ ClearFeatureFlag(k, bits)
      \/ \E b \in BOOLEAN : Pause(k, b)
      \/ \E n \in Nums : SetSpendLimit(k, n) \/ SetTravelRuleThreshold(k, n)
      \/ ClearSpendLimit(k) \/ ClearSanctionsOracle(k)
      \/ \E t \in Targets : SetPythFeed(k, t)
      \/ \E age, conf \in Nums : SetOracleParams(k, age, conf)
      \/ \E n \in Nums, t \in Targets : SetOracleConfig(k, n, t)
                                        \/ SetSanctionsOracle(k, t, n)
  BY DEF TimelockNext
<1>1. CASE \E req \in Requests : ProposeTimelockedOp(k, req)
  BY <1>1, ProposeSafe
<1>2. CASE ExecuteTimelockedOp(k)
  BY <1>2, ExecuteSafe
<1>3. CASE CancelTimelockedOp(k)
  BY <1>3, CancelSafe
<1>4. CASE \E bits \in Masks : SetFeatureFlag(k, bits) \/ ClearFeatureFlag(k, bits)
  <2>1. /\ UNCHANGED directUnchanged /\ FlagsKept /\ timelockDelay = 0
        /\ DOMAIN settings' = DOMAIN settings
    BY <1>4 DEF SetFeatureFlag, ClearFeatureFlag, Direct, RequireTimelockExecuted,
                ClearMaskAllowed, FlagsKept
  <2> QED
    BY <2>1, DirectSafe
<1>5. CASE \E b \in BOOLEAN : Pause(k, b)
  <2>1. /\ UNCHANGED directUnchanged /\ FlagsKept /\ timelockDelay = 0
        /\ DOMAIN settings' = DOMAIN settings
    BY <1>5 DEF Pause, Direct, RequireTimelockExecuted, FlagsKept
  <2> QED
    BY <2>1, DirectSafe
<1>6. CASE \E n \in Nums : SetSpendLimit(k, n) \/ SetTravelRuleThreshold(k, n)
  <2>1. /\ UNCHANGED directUnchanged /\ FlagsKept /\ timelockDelay = 0
        /\ DOMAIN settings' = DOMAIN settings
    BY <1>6 DEF SetSpendLimit, SetTravelRuleThreshold, Direct,
                RequireTimelockExecuted, FlagsKept
  <2> QED
    BY <2>1, DirectSafe
<1>7. CASE ClearSpendLimit(k)
  <2>1. /\ UNCHANGED directUnchanged /\ FlagsKept /\ timelockDelay = 0
        /\ DOMAIN settings' = DOMAIN settings
    BY <1>7 DEF ClearSpendLimit, Direct, RequireTimelockExecuted, FlagsKept,
                ProtectedFlags, FLAG_SPEND_POLICY, FLAG_DAO_COMMITTEE,
                FLAG_SQUADS_AUTHORITY
  <2> QED
    BY <2>1, DirectSafe
<1>8. CASE ClearSanctionsOracle(k)
  <2>1. /\ UNCHANGED directUnchanged /\ FlagsKept
        /\ DOMAIN settings' = DOMAIN settings
    BY <1>8 DEF ClearSanctionsOracle, FlagsKept, ProtectedFlags,
                FLAG_SANCTIONS_ORACLE, FLAG_DAO_COMMITTEE, FLAG_SQUADS_AUTHORITY
  <2>2. GuardedSettings' = GuardedSettings /\ ~FeeChanges
    BY <1>8 DEF ClearSanctionsOracle, GuardedSettings, FeeChanges, GovernanceInv, CoreTypeOK
  <2> QED
    BY <2>1, <2>2, DirectSafe
<1>9. CASE \E t \in Targets : SetPythFeed(k, t)
  <2>1. /\ UNCHANGED directUnchanged /\ FlagsKept /\ timelockDelay = 0
        /\ DOMAIN settings' = DOMAIN settings
    BY <1>9 DEF SetPythFeed, RequireTimelockExecuted, FlagsKept
  <2> QED
    BY <2>1, DirectSafe
<1>10. CASE \E age, conf \in Nums : SetOracleParams(k, age, conf)
  <2>1. /\ UNCHANGED directUnchanged /\ FlagsKept /\ timelockDelay = 0
        /\ DOMAIN settings' = DOMAIN settings
    BY <1>10 DEF SetOracleParams, RequireTimelockExecuted, FlagsKept
  <2> QED
    BY <2>1, DirectSafe
<1>11. CASE \E n \in Nums, t \in Targets : SetOracleConfig(k, n, t)
                                           \/ SetSanctionsOracle(k, t, n)
  <2>1. /\ UNCHANGED directUnchanged /\ FlagsKept /\ timelockDelay = 0
        /\ DOMAIN settings' = DOMAIN settings
    BY <1>11 DEF SetOracleConfig, SetSanctionsOracle, Direct,
                 RequireTimelockExecuted, FlagsKept
  <2> QED
    BY <2>1, DirectSafe
<1> QED
  BY <1>1, <1>2, <1>3, <1>4, <1>5, <1>6, <1>7, <1>8, <1>9, <1>10, <1>11

-----------------------------------------------------------------------------
(***************************************************************************)
(* The authority.                                                          *)
(***************************************************************************)
\* accept_authority_rotation and emergency_recover_authority.
LEMMA RotationSafe ==
  ASSUME GovernanceInv, NEW k, RotateTo(k)
  PROVE  StepSafe
<1> USE DEF RotateTo, PendingAfterRotation, authorityUnchanged, opVars, historyVars
<1>1. CoreTypeOK' /\ PendingOpHonoursDelay'
  BY DEF GovernanceInv, CoreTypeOK, PendingOpHonoursDelay, EffectiveDelay
<1>2. Sss3StaysTimelocked' /\ ComplianceNominationAged'
  BY DEF GovernanceInv, Sss3StaysTimelocked, ComplianceNominationAged
<1>3. NominationByAuthorityInOffice'
  BY DEF NominationByAuthorityInOffice
<1>4. FlagsKept /\ StepGuarded /\ StepNoticed
  BY DEF FlagsKept, StepGuarded, StepNoticed, GuardedChange, GuardedSettings, FeeChanges
<1> QED
  BY <1>1, <1>2, <1>3, <1>4 DEF GovernanceInv, StepSafe

\* update_roles and the two accept instructions.
LEMMA TransferSafe ==
  ASSUME GovernanceInv, NEW k \in Keys,
         \/ \E t \in Targets : UpdateRoles(k, t)
         \/ AcceptAuthority(k)
         \/ AcceptComplianceAuthority(k)
  PROVE  StepSafe
<1> USE DEF UpdateRoles, AcceptAuthority, AcceptComplianceAuthority,
            authorityUnchanged, opVars, historyVars
<1>1. CoreTypeOK' /\ PendingOpHonoursDelay'
  BY DEF GovernanceInv, CoreTypeOK, PendingOpHonoursDelay, EffectiveDelay
<1>2. Sss3StaysTimelocked'
  BY DEF GovernanceInv, Sss3StaysTimelocked
<1>3. NominationByAuthorityInOffice'
  BY DEF GovernanceInv, NominationByAuthorityInOffice
<1>4. ComplianceNominationAged'
  BY DEF GovernanceInv, ComplianceNominationAged
<1>5. FlagsKept
  BY DEF FlagsKept
<1>6. StepGuarded
  <2>1. GuardedSettings' = GuardedSettings /\ ~FeeChanges
    BY DEF GuardedSettings, FeeChanges
  <2>2. timelockDelay' = timelockDelay
    OBVIOUS
  <2>3. timelockDelay = 0 \/ pendingAuthority' \in {pendingAuthority, NoKey}
    OBVIOUS
  <2> QED
    BY <2>1, <2>2, <2>3 DEF StepGuarded, GuardedChange
<1>7. StepNoticed
  BY DEF StepNoticed, GovernanceInv, ComplianceNominationAged
<1> QED
  BY <1>1, <1>2, <1>3, <1>4, <1>5, <1>6, <1>7 DEF GovernanceInv, StepSafe

\* init_squads_authority leaves preset 3 or below behind for good.
LEMMA SquadsSafe ==
  ASSUME GovernanceInv, NEW k \in Keys, NEW m \in Targets,
         InitSquadsAuthority(k, m)
  PROVE  StepSafe
<1> USE DEF InitSquadsAuthority, opVars, historyVars
<1>1. CoreTypeOK' /\ PendingOpHonoursDelay'
  BY DEF GovernanceInv, CoreTypeOK, PendingOpHonoursDelay, EffectiveDelay
<1>2. Sss3StaysTimelocked' /\ NominationByAuthorityInOffice'
  BY DEF Sss3StaysTimelocked, NominationByAuthorityInOffice, PRESET_INSTITUTIONAL
<1>3. ComplianceNominationAged'
  BY DEF GovernanceInv, ComplianceNominationAged
<1>4. FlagsKept /\ StepGuarded /\ StepNoticed
  BY DEF FlagsKept, StepGuarded, StepNoticed, GuardedChange, GuardedSettings, FeeChanges
<1> QED
  BY <1>1, <1>2, <1>3, <1>4 DEF GovernanceInv, StepSafe

\* Every step of the authority's module.
LEMMA AuthoritySafe ==
  ASSUME GovernanceInv, AuthorityNext
  PROVE  StepSafe
<1> PICK k \in Keys :
      \/ \E t \in Targets : UpdateRoles(k, t)
      \/ AcceptAuthority(k)
      \/ AcceptComplianceAuthority(k)
      \/ \E new, backup \in RotationKeys : ProposeAuthorityRotation(k, new, backup)
      \/ AcceptAuthorityRotation(k)
      \/ EmergencyRecoverAuthority(k)
      \/ CancelAuthorityRotation(k)
      \/ \E m \in Targets : InitSquadsAuthority(k, m)
  BY DEF AuthorityNext
<1>1. CASE \/ \E t \in Targets : UpdateRoles(k, t)
           \/ AcceptAuthority(k)
           \/ AcceptComplianceAuthority(k)
  BY <1>1, TransferSafe
<1>2. CASE \/ \E new, backup \in RotationKeys :
                 ProposeAuthorityRotation(k, new, backup)
           \/ CancelAuthorityRotation(k)
  <2>1. CoreUntouched /\ FlagsKept /\ slot' = slot
    BY <1>2 DEF ProposeAuthorityRotation, CancelAuthorityRotation, configVars,
                CoreUntouched, FlagsKept
  <2> QED
    BY <2>1, UntouchedSafe DEF GovernanceInv, CoreTypeOK
<1>3. CASE AcceptAuthorityRotation(k) \/ EmergencyRecoverAuthority(k)
  BY <1>3, RotationSafe DEF AcceptAuthorityRotation, EmergencyRecoverAuthority
<1>4. CASE \E m \in Targets : InitSquadsAuthority(k, m)
  BY <1>4, SquadsSafe
<1> QED
  BY <1>1, <1>2, <1>3, <1>4

\* init_pid_config leaves the core alone; update_stability_fee_pid moves the
\* fee, and keeps it within the bounds.
LEMMA ControllerSafe ==
  ASSUME GovernanceInv, ControllerNext, UNCHANGED authorityVars
  PROVE  StepSafe
<1> USE DEF authorityVars, controllerUnchanged
<1>1. CASE \E k \in Keys, band \in FeeBands : InitPidConfig(k, band)
  <2>1. CoreUntouched /\ FlagsKept /\ slot' = slot
    BY <1>1 DEF InitPidConfig, CoreUntouched, FlagsKept
  <2> QED
    BY <2>1, UntouchedSafe DEF GovernanceInv, CoreTypeOK
<1>2. ASSUME NEW bps \in FeesToSet, UpdateStabilityFeePid(bps)
      PROVE  StepSafe
  <2>1. UNCHANGED directUnchanged /\ FlagsKept
    BY <1>2 DEF UpdateStabilityFeePid, directUnchanged, FlagsKept
  <2>2. DOMAIN settings' = DOMAIN settings /\ GuardedSettings' = GuardedSettings
    BY <1>2 DEF UpdateStabilityFeePid, GuardedSettings
  <2>3. settings'.stabilityFeeBps = bps
    BY <1>2 DEF UpdateStabilityFeePid, GovernanceInv, CoreTypeOK
  <2>4. FeeLeftToController
    BY <1>2, <2>3 DEF UpdateStabilityFeePid, FeeLeftToController, FeesToSet
  <2> QED
    BY <2>1, <2>2, <2>4, DirectSafe
<1> QED
  BY <1>1, <1>2 DEF ControllerNext

\* Every step of the composition, and a stuttering step, is safe.
LEMMA NextSafe == GovernanceInv /\ [Next]_vars => StepSafe
<1> SUFFICES ASSUME GovernanceInv, [Next]_vars PROVE StepSafe
  OBVIOUS
<1>1. CASE UNCHANGED vars
  <2>1. CoreUntouched /\ FlagsKept /\ slot' = slot
    BY <1>1 DEF vars, configVars, authorityVars, CoreUntouched, FlagsKept
  <2> QED
    BY <2>1, UntouchedSafe DEF GovernanceInv, CoreTypeOK
<1>2. CASE Next
  BY <1>2, BystandersSafe, TimelockSafe, AuthoritySafe, ControllerSafe DEF Next
<1> QED
  BY <1>1, <1>2

-----------------------------------------------------------------------------
(***************************************************************************)
(* The votes.                                                              *)
(***************************************************************************)
\* A list of votes of distinct electors: its length, which the code compares
\* with a threshold, is the number of those who voted.
Ballot(votes, electors) ==
  /\ votes \in Seq(Keys)
  /\ ToSet(votes) \subseteq electors
  /\ IsFiniteSet(ToSet(votes))
  /\ Cardinality(ToSet(votes)) = Len(votes)

\* The guardians' votes.  The lift votes that count were all cast since the
\* last guardian pause.
CouncilBooks ==
  /\ IsFiniteSet(council.guardians)
  /\ council = NoCouncil => pauseProposals = <<>> /\ liftVotes = <<>>
  /\ Ballot(liftVotes, council.guardians)
  /\ ToSet(liftVotes) \subseteq liftersSince
  /\ \A i \in DOMAIN pauseProposals :
       /\ Ballot(pauseProposals[i].votes, council.guardians)
       /\ pauseProposals[i].executed =>
            Len(pauseProposals[i].votes) >= council.threshold

\* The members' votes.  Where there is a proposal, the committee's flag is on,
\* although execute_action does not look at it.
CommitteeBooks ==
  /\ committee = NoCommittee => proposals = <<>>
  /\ proposals # <<>> => FLAG_DAO_COMMITTEE \in flags
  /\ \A i \in DOMAIN proposals :
       /\ Ballot(proposals[i].votes, committee.members)
       /\ proposals[i].quorum = committee.quorum
       /\ proposals[i].executed => Len(proposals[i].votes) >= committee.quorum

\* The keeper never gets to record a recovery.
KeeperBooks ==
  /\ lastWithin = 0
  /\ keeper.open => keeper.recovery > 0

\* The inductive invariant of the votes.
VotingInv == TypeOK /\ CouncilBooks /\ CommitteeBooks /\ KeeperBooks

\* An empty ballot, and the ballot that one more elector joins: no vote is
\* counted twice (guardian.rs, dao_committee.rs: AlreadyVoted).
LEMMA EmptyBallot == \A electors : Ballot(<<>>, electors)
<1>1. <<>> \in Seq(Keys) /\ Len(<<>>) = 0 /\ ToSet(<<>>) = {}
  BY DEF ToSet
<1> QED
  BY <1>1, FS_EmptySet DEF Ballot

LEMMA BallotGrows ==
  ASSUME NEW electors \in SUBSET Keys, NEW votes, Ballot(votes, electors),
         NEW k \in electors, ~Contains(votes, k)
  PROVE  /\ Ballot(Append(votes, k), electors)
         /\ ToSet(Append(votes, k)) = ToSet(votes) \cup {k}
         /\ Len(Append(votes, k)) = Len(votes) + 1
<1>1. votes \in Seq(Keys) /\ k \in Keys
  BY DEF Ballot
<1>2. /\ Append(votes, k) \in Seq(Keys)
      /\ Len(Append(votes, k)) = Len(votes) + 1
      /\ DOMAIN votes = 1..Len(votes)
      /\ DOMAIN Append(votes, k) = 1..Len(votes) + 1
      /\ Append(votes, k)[Len(votes) + 1] = k
      /\ \A i \in 1..Len(votes) : Append(votes, k)[i] = votes[i]
  BY <1>1
<1>3. Len(votes) \in Nat
  BY <1>1
<1>4. ToSet(Append(votes, k)) = ToSet(votes) \cup {k}
  BY <1>2, <1>3 DEF ToSet
<1>5. k \notin ToSet(votes)
  BY <1>2 DEF ToSet, Contains
<1>6. /\ IsFiniteSet(ToSet(votes) \cup {k})
      /\ Cardinality(ToSet(votes) \cup {k}) = Cardinality(ToSet(votes)) + 1
  BY <1>5, FS_AddElement DEF Ballot
<1> QED
  BY <1>2, <1>4, <1>6 DEF Ballot

\* A ballot has as many voters as votes, all of them electors.
LEMMA BallotCounts ==
  ASSUME NEW electors, NEW votes, Ballot(votes, electors)
  PROVE  Cardinality(electors \cap ToSet(votes)) = Len(votes)
<1>1. electors \cap ToSet(votes) = ToSet(votes)
  BY DEF Ballot
<1> QED
  BY <1>1 DEF Ballot

\* A ballot as long as the electors are many is everyone's.
LEMMA FullBallot ==
  ASSUME NEW electors, IsFiniteSet(electors), NEW votes, Ballot(votes, electors),
         Len(votes) >= Cardinality(electors)
  PROVE  electors = ToSet(votes)
<1>1. /\ Cardinality(ToSet(votes)) =< Cardinality(electors)
      /\ Cardinality(electors) = Cardinality(ToSet(votes)) => electors = ToSet(votes)
  BY FS_Subset DEF Ballot
<1>2. Cardinality(electors) \in Nat /\ Cardinality(ToSet(votes)) \in Nat
  BY FS_CardinalityType DEF Ballot
<1> QED
  BY <1>1, <1>2 DEF Ballot

-----------------------------------------------------------------------------
(***************************************************************************)
(* The types.                                                              *)
(***************************************************************************)
\* What the authority asks for is well-formed.
LEMMA RequestTypes ==
  ASSUME NEW req \in Requests
  PROVE  req.bits \in SUBSET Flags /\ req.num \in Nat /\ req.target \in KeyOrNone
<1> DEFINE R(K, B, N, T) == [kind : K, bits : B, num : N, target : T]
<1>1. ASSUME NEW K, NEW B \in SUBSET SUBSET Flags, NEW N \in SUBSET Nat,
             NEW T \in SUBSET KeyOrNone, req \in R(K, B, N, T)
      PROVE  req.bits \in SUBSET Flags /\ req.num \in Nat /\ req.target \in KeyOrNone
  BY <1>1
<1>2. Masks \in SUBSET SUBSET Flags /\ Nums \in SUBSET Nat /\ Targets \in SUBSET KeyOrNone
  BY AdminTimelockAssumption DEF AdminTimelockAssumption
<1>3. /\ {{}} \in SUBSET SUBSET Flags /\ {0} \in SUBSET Nat
      /\ {NoKey} \in SUBSET KeyOrNone
  BY DEF KeyOrNone
<1>4. \/ req \in R(OpKinds \cap FlagOps, Masks, {0}, {NoKey})
      \/ req \in R(OpKinds \cap KeyOps, {{}}, {0}, Targets)
      \/ req \in R(OpKinds \cap NumOps, {{}}, Nums, {NoKey})
      \/ req \in R(OpKinds \cap NumKeyOps, {{}}, Nums, Targets)
      \/ req \in R(OpKinds \cap {"PAUSE", "UNPAUSE"}, {{}}, {0}, {NoKey})
  BY Zenon DEF Requests
<1> HIDE DEF R
<1> QED
  BY <1>1, <1>2, <1>3, <1>4, Zenon

\* The value an arm of execute_timelocked_op writes fits its field; the oracle
\* type needs the arm's bound.
LEMMA SettingsTyped ==
  ASSUME settings \in Settings, NEW op \in Requested, OpAllowed(op)
  PROVE  SettingsAfter(op) \in Settings
<1> DEFINE n == op.num
           t == op.target
           age == op.num \div 65536
           conf == op.num % 65536
           type == op.num % 256
           feed == IF settings.oracleType = 0 THEN t ELSE settings.oracleFeed
<1>1. n \in Nat /\ t \in KeyOrNone
  BY DEF Requested
<1>2. age \in Nat /\ conf \in Nat /\ type \in Nat
  BY <1>1
<1>3. feed \in KeyOrNone
  BY <1>1 DEF Settings
<1>4. CASE op.kind = "SET_PYTH_FEED"
  <2>1. SettingsAfter(op) = [settings EXCEPT !.expectedPythFeed = t, !.oracleFeed = feed]
    BY <1>4 DEF SettingsAfter
  <2> HIDE DEF n, t, age, conf, type, feed
  <2> QED
    BY <1>1, <1>2, <1>3, <2>1 DEF Settings
<1>5. CASE op.kind = "SET_ORACLE_PARAMS"
  <2>1. SettingsAfter(op) = [settings EXCEPT !.maxOracleAgeSecs = age, !.maxOracleConfBps = conf]
    BY <1>5 DEF SettingsAfter
  <2> HIDE DEF n, t, age, conf, type, feed
  <2> QED
    BY <1>1, <1>2, <1>3, <2>1 DEF Settings
<1>6. CASE op.kind = "SET_STABILITY_FEE"
  <2>1. SettingsAfter(op) = [settings EXCEPT !.stabilityFeeBps = n]
    BY <1>6 DEF SettingsAfter
  <2> HIDE DEF n, t, age, conf, type, feed
  <2> QED
    BY <1>1, <1>2, <1>3, <2>1 DEF Settings
<1>7. CASE op.kind = "SET_PSM_FEE"
  <2>1. SettingsAfter(op) = [settings EXCEPT !.redemptionFeeBps = n]
    BY <1>7 DEF SettingsAfter
  <2> HIDE DEF n, t, age, conf, type, feed
  <2> QED
    BY <1>1, <1>2, <1>3, <2>1 DEF Settings
<1>8. CASE op.kind = "SET_BACKSTOP_PARAMS"
  <2>1. SettingsAfter(op) = [settings EXCEPT !.insuranceFund = t, !.maxBackstopBps = n]
    BY <1>8 DEF SettingsAfter
  <2> HIDE DEF n, t, age, conf, type, feed
  <2> QED
    BY <1>1, <1>2, <1>3, <2>1 DEF Settings
<1>9. CASE op.kind = "SET_SPEND_LIMIT"
  <2>1. SettingsAfter(op) = [settings EXCEPT !.maxTransferAmount = n]
    BY <1>9 DEF SettingsAfter
  <2> HIDE DEF n, t, age, conf, type, feed
  <2> QED
    BY <1>1, <1>2, <1>3, <2>1 DEF Settings
<1>10. CASE op.kind = "SET_ORACLE_CONFIG"
  <2>1. SettingsAfter(op) = [settings EXCEPT !.oracleType = type, !.oracleFeed = t]
    BY <1>10 DEF SettingsAfter
  <2>2. type \in 0..2
    BY <1>2, <1>10 DEF OpAllowed
  <2> HIDE DEF n, t, age, conf, type, feed
  <2> QED
    BY <1>1, <2>1, <2>2 DEF Settings
<1>11. CASE op.kind = "SET_MIN_RESERVE_RATIO"
  <2>1. SettingsAfter(op) = [settings EXCEPT !.minReserveRatioBps = n]
    BY <1>11 DEF SettingsAfter
  <2> HIDE DEF n, t, age, conf, type, feed
  <2> QED
    BY <1>1, <1>2, <1>3, <2>1 DEF Settings
<1>12. CASE op.kind = "SET_TRAVEL_RULE_THRESHOLD"
  <2>1. SettingsAfter(op) = [settings EXCEPT !.travelRuleThreshold = n]
    BY <1>12 DEF SettingsAfter
  <2> HIDE DEF n, t, age, conf, type, feed
  <2> QED
    BY <1>1, <1>2, <1>3, <2>1 DEF Settings
<1>13. CASE op.kind = "SET_SANCTIONS_PARAMS"
  <2>1. SettingsAfter(op) = [settings EXCEPT !.sanctionsOracle = t,
                                            !.sanctionsMaxStalenessSlots = n]
    BY <1>13 DEF SettingsAfter
  <2> HIDE DEF n, t, age, conf, type, feed
  <2> QED
    BY <1>1, <1>2, <1>3, <2>1 DEF Settings
<1>14. CASE op.kind \notin {"SET_PYTH_FEED",
                            "SET_ORACLE_PARAMS",
                            "SET_STABILITY_FEE",
                            "SET_PSM_FEE",
                            "SET_BACKSTOP_PARAMS",
                            "SET_SPEND_LIMIT",
                            "SET_ORACLE_CONFIG",
                            "SET_MIN_RESERVE_RATIO",
                            "SET_TRAVEL_RULE_THRESHOLD",
                            "SET_SANCTIONS_PARAMS"}
  BY <1>14 DEF SettingsAfter
<1> QED
  BY <1>4, <1>5, <1>6, <1>7, <1>8, <1>9, <1>10, <1>11, <1>12, <1>13, <1>14

\* No operation is pending: a well-formed value.
LEMMA NoOpTyped == NoOp \in Requested
  BY DEF NoOp, Requested, KeyOrNone

\* Steps that write only flags, pause bit and settings.
LEMMA ConfigWritten ==
  ASSUME ConfigTypeOK, UNCHANGED <<roleVars, opVars, historyVars, rotation>>,
         slot' \in Nat, flags' \subseteq Flags, paused' \in BOOLEAN, settings' \in Settings
  PROVE  ConfigTypeOK'
  BY DEF ConfigTypeOK, roleVars, opVars, historyVars

\* A proposal is a well-formed record.
LEMMA ProposalTyped ==
  ASSUME CommitteeTypeOK, NEW id \in DOMAIN proposals
  PROVE  /\ proposals[id].bits \subseteq Flags
         /\ proposals[id].votes \in Seq(Keys)
         /\ proposals[id].quorum \in Nat /\ proposals[id].executed \in BOOLEAN
         /\ proposals[id] \in [action : ProposalActions, bits : SUBSET Flags,
                              votes : Seq(Keys), quorum : Nat, executed : BOOLEAN]
<1> DEFINE P == [action : ProposalActions, bits : SUBSET Flags,
                 votes : Seq(Keys), quorum : Nat, executed : BOOLEAN]
<1>1. proposals \in Seq(P)
  BY DEF CommitteeTypeOK
<1>2. proposals[id] \in P
  <2> HIDE DEF P
  <2> QED
    BY <1>1
<1> QED
  BY <1>2

\* The clock, the guardians, the committee and the keeper.
LEMMA BystandersTyped ==
  ASSUME ConfigTypeOK, CommitteeTypeOK,
         \/ Tick /\ UNCHANGED authorityVars
         \/ GuardianNext /\ UNCHANGED authorityVars
         \/ DaoNext /\ UNCHANGED authorityVars
         \/ KeeperNext /\ UNCHANGED authorityVars
  PROVE  ConfigTypeOK'
<1> USE DEF authorityVars
<1>0. slot \in Nat /\ flags \subseteq Flags /\ paused \in BOOLEAN /\ settings \in Settings
  BY DEF ConfigTypeOK
<1>1. CASE Tick /\ UNCHANGED authorityVars
  BY <1>0, <1>1, ConfigWritten DEF Tick, configVars
<1>2. CASE GuardianNext /\ UNCHANGED authorityVars
  <2>1. UNCHANGED guardianUnchanged
    BY <1>2 DEF GuardianNext, InitGuardianConfig, GuardianProposePause,
                GuardianVotePause, GuardianLiftVote, AuthorityLiftPause
  <2>2. paused' \in {paused, TRUE, FALSE}
    BY <1>2 DEF GuardianNext, InitGuardianConfig, GuardianProposePause,
                GuardianVotePause, GuardianLiftVote, AuthorityLiftPause,
                ExecutePause, Lift
  <2> QED
    BY <1>0, <1>2, <2>1, <2>2, ConfigWritten DEF guardianUnchanged
<1>3. CASE DaoNext /\ UNCHANGED authorityVars
  <2>1. UNCHANGED daoUnchanged
    BY <1>3 DEF DaoNext, InitDaoCommittee, ProposeAction, VoteAction, ExecuteAction
  <2>2. flags' \subseteq Flags /\ paused' \in {paused, TRUE, FALSE}
    <3>1. ASSUME NEW id \in DOMAIN proposals, ExecuteAction(id)
          PROVE  flags' \subseteq Flags /\ paused' \in {paused, TRUE, FALSE}
      <4>1. proposals[id].bits \subseteq Flags
        BY ProposalTyped
      <4> QED
        BY <1>0, <3>1, <4>1 DEF ExecuteAction
    <3>2. FLAG_DAO_COMMITTEE \in Flags
      BY DEF Flags
    <3>3. CASE ~ \E id \in DOMAIN proposals : ExecuteAction(id)
      BY <1>0, <1>3, <3>2, <3>3 DEF DaoNext, InitDaoCommittee, ProposeAction, VoteAction
    <3> QED
      BY <3>1, <3>3
  <2> QED
    BY <1>0, <1>3, <2>1, <2>2, ConfigWritten DEF daoUnchanged
<1>4. CASE KeeperNext /\ UNCHANGED authorityVars
  <2>1. UNCHANGED keeperUnchanged /\ paused' \in {paused, TRUE, FALSE}
    BY <1>4 DEF KeeperNext, InitKeeperConfig, CrankCircuitBreaker, CrankUnpause,
                PegMoves, keeperUnchanged, configVars
  <2> QED
    BY <1>0, <1>4, <2>1, ConfigWritten DEF keeperUnchanged
<1> QED
  BY <1>1, <1>2, <1>3, <1>4

\* The fee controller: the bounds it is given are numbers, and so is the fee.
LEMMA ControllerTyped ==
  ASSUME ConfigTypeOK, ControllerTypeOK, ControllerNext, UNCHANGED authorityVars
  PROVE  ConfigTypeOK' /\ ControllerTypeOK' /\ paused' = paused
<1> USE DEF authorityVars, controllerUnchanged
<1>0. slot \in Nat /\ flags \subseteq Flags /\ paused \in BOOLEAN /\ settings \in Settings
  BY DEF ConfigTypeOK
<1>1. ASSUME NEW k \in Keys, NEW band \in FeeBands, InitPidConfig(k, band)
      PROVE  ConfigTypeOK' /\ ControllerTypeOK' /\ paused' = paused
  <2>1. band \in [min : Nat, max : Nat]
    BY ControllerAssumption DEF ControllerAssumption
  <2>2. FLAG_PID_FEE_CONTROL \in Flags
    BY DEF Flags
  <2>3. ConfigTypeOK'
    BY <1>0, <1>1, <2>2, ConfigWritten DEF InitPidConfig
  <2>4. ControllerTypeOK'
    BY <1>0, <1>1, <2>1 DEF InitPidConfig, ControllerTypeOK
  <2> QED
    BY <1>1, <2>3, <2>4 DEF InitPidConfig
<1>2. ASSUME NEW bps \in FeesToSet, UpdateStabilityFeePid(bps)
      PROVE  ConfigTypeOK' /\ ControllerTypeOK' /\ paused' = paused
  <2>1. bps \in Nat
    BY DEF FeesToSet, ControllerTypeOK
  <2>2. settings' \in Settings
    BY <1>0, <1>2, <2>1 DEF UpdateStabilityFeePid, Settings
  <2>3. ConfigTypeOK'
    BY <1>0, <1>2, <2>2, ConfigWritten DEF UpdateStabilityFeePid
  <2>4. ControllerTypeOK'
    BY <1>0, <1>2 DEF UpdateStabilityFeePid, ControllerTypeOK
  <2> QED
    BY <1>2, <2>3, <2>4 DEF UpdateStabilityFeePid
<1> QED
  BY <1>1, <1>2 DEF ControllerNext

\* The timelock and the direct setters.
LEMMA TimelockTyped ==
  ASSUME ConfigTypeOK, TimelockNext, UNCHANGED rotation
  PROVE  ConfigTypeOK'
<1>0. slot \in Nat /\ flags \subseteq Flags /\ paused \in BOOLEAN /\ settings \in Settings
  BY DEF ConfigTypeOK
<1>00. Nums \subseteq Nat /\ Targets \subseteq KeyOrNone /\ Masks \subseteq SUBSET Flags
  BY AdminTimelockAssumption DEF AdminTimelockAssumption
<1>1. ASSUME NEW k \in Keys, NEW req \in Requests, ProposeTimelockedOp(k, req)
      PROVE  ConfigTypeOK'
  <2>1. EffectiveDelay(req.kind) \in Nat
    BY DelayAssumption DEF EffectiveDelay, Max2, ConfigTypeOK
  <2>2. slot + EffectiveDelay(req.kind) \in Nat
    BY <1>0, <2>1
  <2>3. req.bits \in SUBSET Flags /\ req.num \in Nat /\ req.target \in KeyOrNone
    BY RequestTypes
  <2>4. adminOp' \in Requested
    BY <1>0, <1>1, <2>2, <2>3 DEF ProposeTimelockedOp, Requested
  <2> QED
    BY <1>1, <2>4 DEF ProposeTimelockedOp, ConfigTypeOK, roleVars, historyVars
<1>2. ASSUME NEW k \in Keys, ExecuteTimelockedOp(k)
      PROVE  ConfigTypeOK'
  <2>1. /\ adminOp.num \in Nat /\ adminOp.target \in KeyOrNone
        /\ adminOp.bits \subseteq Flags /\ adminOp.proposedAt \in Nat
    BY DEF ConfigTypeOK, Requested
  <2>2. settings' \in Settings
    BY <1>0, <1>2, SettingsTyped DEF ExecuteTimelockedOp, ConfigTypeOK
  <2>3. flags' \subseteq Flags
    BY <1>0, <1>2, <2>1 DEF ExecuteTimelockedOp, FlagsAfter
  <2>4. adminOp' \in Requested
    BY <1>2, NoOpTyped DEF ExecuteTimelockedOp, OpAfterExecution
  <2>5. /\ pendingAuthority' \in KeyOrNone /\ pendingBy' \in KeyOrNone
        /\ pendingComplianceAuthority' \in KeyOrNone
        /\ complianceProposedAt' \in Nat /\ timelockDelay' \in Nat
    BY <1>2, <2>1 DEF ExecuteTimelockedOp, ConfigTypeOK, KeyOrNone
  <2>6. paused' \in BOOLEAN
    BY <1>0, <1>2 DEF ExecuteTimelockedOp
  <2> QED
    BY <1>2, <2>2, <2>3, <2>4, <2>5, <2>6 DEF ExecuteTimelockedOp, ConfigTypeOK
<1>3. ASSUME NEW k \in Keys, CancelTimelockedOp(k)
      PROVE  ConfigTypeOK'
  BY <1>3, NoOpTyped DEF CancelTimelockedOp, ConfigTypeOK, roleVars, historyVars
<1>4. ASSUME NEW k \in Keys,
             \/ \E bits \in Masks : SetFeatureFlag(k, bits) \/ ClearFeatureFlag(k, bits)
             \/ \E b \in BOOLEAN : Pause(k, b)
      PROVE  ConfigTypeOK'
  <2>1. flags' \subseteq Flags /\ paused' \in BOOLEAN /\ UNCHANGED <<directUnchanged, settings>>
    BY <1>0, <1>00, <1>4 DEF SetFeatureFlag, ClearFeatureFlag, Pause
  <2> QED
    BY <1>0, <2>1, ConfigWritten DEF directUnchanged
<1>5. ASSUME NEW k \in Keys,
             \/ \E n \in Nums : SetSpendLimit(k, n) \/ SetTravelRuleThreshold(k, n)
             \/ ClearSpendLimit(k) \/ ClearSanctionsOracle(k)
             \/ \E t \in Targets : SetPythFeed(k, t)
             \/ \E age, conf \in Nums : SetOracleParams(k, age, conf)
             \/ \E n \in Nums, t \in Targets : SetOracleConfig(k, n, t)
                                               \/ SetSanctionsOracle(k, t, n)
      PROVE  ConfigTypeOK'
  <2>1. flags' \subseteq Flags /\ paused' = paused /\ UNCHANGED directUnchanged
    <3>1. FLAG_SPEND_POLICY \in Flags /\ FLAG_SANCTIONS_ORACLE \in Flags
      BY DEF Flags
    <3> QED
      BY <1>0, <1>5, <3>1 DEF SetSpendLimit, SetTravelRuleThreshold, ClearSpendLimit,
         ClearSanctionsOracle, SetPythFeed, SetOracleParams, SetOracleConfig,
         SetSanctionsOracle
  <2>2. settings' \in Settings
    <3>1. 0 \in Nat /\ NoKey \in KeyOrNone
      BY DEF KeyOrNone
    <3>2. CASE \E n \in Nums : SetSpendLimit(k, n)
      BY <1>0, <1>00, <3>2 DEF SetSpendLimit, Settings
    <3>3. CASE \E n \in Nums : SetTravelRuleThreshold(k, n)
      BY <1>0, <1>00, <3>3 DEF SetTravelRuleThreshold, Settings
    <3>4. CASE ClearSpendLimit(k)
      BY <1>0, <3>1, <3>4 DEF ClearSpendLimit, Settings
    <3>5. CASE ClearSanctionsOracle(k)
      BY <1>0, <3>1, <3>5 DEF ClearSanctionsOracle, Settings
    <3>6. CASE \E t \in Targets : SetPythFeed(k, t)
      BY <1>0, <1>00, <3>6 DEF SetPythFeed, Settings
    <3>7. CASE \E age, conf \in Nums : SetOracleParams(k, age, conf)
      BY <1>0, <1>00, <3>7 DEF SetOracleParams, Settings
    <3>8. CASE \E n \in Nums, t \in Targets : SetOracleConfig(k, n, t)
      BY <1>0, <1>00, <3>8 DEF SetOracleConfig, Settings
    <3>9. CASE \E n \in Nums, t \in Targets : SetSanctionsOracle(k, t, n)
      BY <1>0, <1>00, <3>9 DEF SetSanctionsOracle, Settings
    <3> QED
      BY <1>5, <3>2, <3>3, <3>4, <3>5, <3>6, <3>7, <3>8, <3>9
  <2> QED
    BY <1>0, <2>1, <2>2, ConfigWritten DEF directUnchanged
<1> QED
  BY <1>1, <1>2, <1>3, <1>4, <1>5 DEF TimelockNext

\* The hand-over of the authority.
LEMMA AuthorityTyped ==
  ASSUME ConfigTypeOK, AuthorityNext
  PROVE  ConfigTypeOK'
<1> USE DEF ConfigTypeOK, KeyOrNone
<1>0. Targets \subseteq KeyOrNone /\ RotationKeys \subseteq Keys
  BY AdminTimelockAssumption, RotationAssumption
  DEF AdminTimelockAssumption, RotationAssumption
<1>1. ASSUME NEW k \in Keys, NEW t \in Targets, UpdateRoles(k, t)
      PROVE  ConfigTypeOK'
  BY <1>0, <1>1 DEF UpdateRoles, authorityUnchanged, opVars
<1>2. ASSUME NEW k \in Keys, AcceptAuthority(k)
      PROVE  ConfigTypeOK'
  BY <1>2 DEF AcceptAuthority, authorityUnchanged, opVars, historyVars
<1>3. ASSUME NEW k \in Keys, AcceptComplianceAuthority(k)
      PROVE  ConfigTypeOK'
  BY <1>3 DEF AcceptComplianceAuthority, authorityUnchanged, opVars, historyVars
<1>4. ASSUME NEW k \in Keys, NEW new \in RotationKeys, NEW backup \in RotationKeys,
             ProposeAuthorityRotation(k, new, backup)
      PROVE  ConfigTypeOK'
  BY <1>0, <1>4 DEF ProposeAuthorityRotation, configVars, roleVars, opVars, historyVars
<1>5. ASSUME NEW k \in Keys, RotateTo(k)
      PROVE  ConfigTypeOK'
  BY <1>5 DEF RotateTo, PendingAfterRotation, NoRequest, authorityUnchanged, opVars,
              historyVars
<1>6. ASSUME NEW k \in Keys, CancelAuthorityRotation(k)
      PROVE  ConfigTypeOK'
  BY <1>6 DEF CancelAuthorityRotation, NoRequest, configVars, roleVars, opVars, historyVars
<1>7. ASSUME NEW k \in Keys, NEW m \in Targets, InitSquadsAuthority(k, m)
      PROVE  ConfigTypeOK'
  BY <1>0, <1>7 DEF InitSquadsAuthority, PRESET_INSTITUTIONAL, Flags, opVars, historyVars
<1>8. ASSUME NEW k \in Keys, AcceptAuthorityRotation(k) \/ EmergencyRecoverAuthority(k)
      PROVE  ConfigTypeOK'
  BY <1>5, <1>8 DEF AcceptAuthorityRotation, EmergencyRecoverAuthority
<1> QED
  BY <1>1, <1>2, <1>3, <1>4, <1>6, <1>7, <1>8 DEF AuthorityNext

-----------------------------------------------------------------------------
(***************************************************************************)
(* The guardians' books.                                                   *)
(***************************************************************************)
\* A pause proposal as it is when all is well.
PauseProposalOK(p) ==
  /\ p \in [votes : Seq(Keys), executed : BOOLEAN]
  /\ Ballot(p.votes, council.guardians)
  /\ p.executed => Len(p.votes) >= council.threshold

\* A proposal added to the list, or one replaced in it, leaves a list of sound
\* proposals.
LEMMA PauseProposalsKept ==
  ASSUME CouncilTypeOK, CouncilBooks, NEW p, PauseProposalOK(p), council' = council,
         \/ pauseProposals' = Append(pauseProposals, p)
         \/ \E id \in DOMAIN pauseProposals :
              pauseProposals' = [pauseProposals EXCEPT ![id] = p]
  PROVE  /\ pauseProposals' \in Seq([votes : Seq(Keys), executed : BOOLEAN])
         /\ \A i \in DOMAIN pauseProposals' :
              /\ Ballot(pauseProposals'[i].votes, council'.guardians)
              /\ pauseProposals'[i].executed =>
                   Len(pauseProposals'[i].votes) >= council'.threshold
<1> DEFINE P == [votes : Seq(Keys), executed : BOOLEAN]
<1>1. pauseProposals \in Seq(P) /\ p \in P
  BY DEF CouncilTypeOK, PauseProposalOK
<1>2. \A i \in DOMAIN pauseProposals : PauseProposalOK(pauseProposals[i])
  <2>1. \A i \in DOMAIN pauseProposals : pauseProposals[i] \in P
    <3> HIDE DEF P
    <3> QED
      BY <1>1
  <2> QED
    BY <2>1 DEF CouncilBooks, PauseProposalOK
<1>3. /\ pauseProposals' \in Seq(P)
      /\ \A i \in DOMAIN pauseProposals' :
           \/ pauseProposals'[i] = p
           \/ i \in DOMAIN pauseProposals /\ pauseProposals'[i] = pauseProposals[i]
  <2> HIDE DEF P
  <2>1. CASE pauseProposals' = Append(pauseProposals, p)
    BY <1>1, <2>1
  <2>2. CASE \E id \in DOMAIN pauseProposals :
               pauseProposals' = [pauseProposals EXCEPT ![id] = p]
    BY <1>1, <2>2
  <2> QED
    BY <2>1, <2>2
<1>4. \A i \in DOMAIN pauseProposals' : PauseProposalOK(pauseProposals'[i])
  BY <1>2, <1>3, Zenon
<1> QED
  BY <1>3, <1>4 DEF PauseProposalOK

\* What a pause proposal that passes, or does not, does to the lift votes.
LEMMA PauseVotesKept ==
  ASSUME CouncilTypeOK, CouncilBooks, slot \in Nat, council' = council,
         council # NoCouncil,
         \/ ExecutePause
         \/ UNCHANGED <<paused, guardianPause, liftVotes, liftersSince>>
  PROVE  /\ guardianPause' \in [active : BOOLEAN, unlocksAt : Nat]
         /\ liftVotes' \in Seq(Keys) /\ liftersSince' \subseteq Keys
         /\ Ballot(liftVotes', council'.guardians)
         /\ ToSet(liftVotes') \subseteq liftersSince'
         /\ paused /\ ~paused' => FALSE
<1>1. CASE ExecutePause
  <2>1. liftVotes' = <<>> /\ liftersSince' = {} /\ paused' = TRUE
    BY <1>1 DEF ExecutePause, LiftVotesAfterPause
  <2>2. Ballot(liftVotes', council'.guardians)
    BY <2>1, EmptyBallot
  <2>3. ToSet(liftVotes') = {}
    BY <2>1 DEF ToSet
  <2>4. slot + OVERRIDE_DELAY \in Nat
    BY GuardianAssumption DEF GuardianAssumption
  <2>5. guardianPause' \in [active : BOOLEAN, unlocksAt : Nat]
    BY <1>1, <2>4 DEF ExecutePause
  <2> QED
    BY <2>1, <2>2, <2>3, <2>5
<1>2. CASE UNCHANGED <<paused, guardianPause, liftVotes, liftersSince>>
  BY <1>2 DEF CouncilTypeOK, CouncilBooks
<1> QED
  BY <1>1, <1>2

\* What EarlyLiftNeedsEveryGuardian says of a step.
StepLift == /\ guardianPause.active /\ slot < guardianPause.unlocksAt
            /\ paused /\ ~paused'
            /\ timelockDelay > 0 /\ FLAG_DAO_COMMITTEE \notin flags
            => council.guardians \subseteq liftersSince'

CouncilSafe == CouncilTypeOK' /\ CouncilBooks' /\ StepLift

\* init_guardian_config: nobody has voted yet.
LEMMA InitGuardianConfigSafe ==
  ASSUME CouncilTypeOK, CouncilBooks, NEW k \in Keys, NEW g \in Councils,
         NEW t \in 1..Cardinality(g), InitGuardianConfig(k, g, t)
  PROVE  CouncilSafe
<1>1. /\ pauseProposals = <<>> /\ liftVotes = <<>>
      /\ UNCHANGED <<paused, guardianPause, liftVotes, pauseProposals, liftersSince>>
      /\ council' = [guardians |-> g, threshold |-> t]
      /\ g # {}
  BY DEF InitGuardianConfig, CouncilBooks
<1>2. g \subseteq Keys /\ IsFiniteSet(g)
  BY GuardianAssumption DEF GuardianAssumption
<1>3. t \in Nat
  BY <1>2, FS_CardinalityType
<1>4. council' \in [guardians : SUBSET Keys, threshold : Nat] /\ council'.guardians = g
  BY <1>1, <1>2, <1>3
<1>5. CouncilTypeOK'
  BY <1>1, <1>4 DEF CouncilTypeOK
<1>6. Ballot(liftVotes', council'.guardians) /\ ToSet(liftVotes') = {}
  BY <1>1, EmptyBallot DEF ToSet
<1>7. CouncilBooks'
  BY <1>1, <1>2, <1>4, <1>6 DEF CouncilBooks, NoCouncil
<1>8. StepLift
  BY <1>1 DEF StepLift
<1> QED
  BY <1>5, <1>7, <1>8 DEF CouncilSafe

\* guardian_propose_pause and guardian_vote_pause.
LEMMA PauseVoteSafe ==
  ASSUME CouncilTypeOK, CouncilBooks, slot \in Nat, NEW k \in Keys,
         \/ GuardianProposePause(k)
         \/ \E id \in DOMAIN pauseProposals : GuardianVotePause(k, id)
  PROVE  CouncilSafe
<1> USE DEF CouncilTypeOK
<1>1. council' = council /\ k \in council.guardians /\ council.guardians \subseteq Keys
  BY DEF GuardianProposePause, GuardianVotePause
<1>2. council # NoCouncil
  BY <1>1 DEF NoCouncil
<1>3. \/ ExecutePause
      \/ UNCHANGED <<paused, guardianPause, liftVotes, liftersSince>>
  BY DEF GuardianProposePause, GuardianVotePause
<1>4. \E p : /\ PauseProposalOK(p)
             /\ \/ pauseProposals' = Append(pauseProposals, p)
                \/ \E id \in DOMAIN pauseProposals :
                     pauseProposals' = [pauseProposals EXCEPT ![id] = p]
  <2>1. CASE GuardianProposePause(k)
    <3> DEFINE votes == Append(<<>>, k)
               passed == council.threshold = 1
               p == [votes |-> votes, executed |-> passed]
    <3>1. ~Contains(<<>>, k) /\ Len(<<>>) = 0
      BY DEF Contains
    <3>2. Ballot(<<>>, council.guardians)
      BY EmptyBallot
    <3>3. Ballot(votes, council.guardians) /\ Len(votes) = Len(<<>>) + 1
      BY <1>1, <3>1, <3>2, BallotGrows
    <3>4. votes \in Seq(Keys) /\ Len(votes) = 1 /\ votes = <<k>>
      BY <3>1, <3>3 DEF Ballot
    <3>5. passed \in BOOLEAN /\ (passed => Len(votes) >= council.threshold)
      BY <3>4
    <3>6. pauseProposals' = Append(pauseProposals, p)
      BY <2>1, <3>4 DEF GuardianProposePause
    <3>7. PauseProposalOK(p)
      <4> HIDE DEF votes, passed
      <4> QED
        BY <3>3, <3>4, <3>5 DEF PauseProposalOK
    <3> QED
      BY <3>6, <3>7
  <2>2. CASE \E id \in DOMAIN pauseProposals : GuardianVotePause(k, id)
    <3> PICK id \in DOMAIN pauseProposals : GuardianVotePause(k, id)
      BY <2>2
    <3> DEFINE votes == Append(pauseProposals[id].votes, k)
               p == [votes |-> votes, executed |-> ThresholdReached(votes)]
    <3>1. Ballot(pauseProposals[id].votes, council.guardians)
      BY DEF CouncilBooks
    <3>2. ~Contains(pauseProposals[id].votes, k)
      BY DEF GuardianVotePause, NotVoted
    <3>3. Ballot(votes, council.guardians)
      BY <1>1, <3>1, <3>2, BallotGrows
    <3>4. votes \in Seq(Keys) /\ ThresholdReached(votes) \in BOOLEAN
      BY <3>3 DEF Ballot, ThresholdReached
    <3>5. pauseProposals' = [pauseProposals EXCEPT ![id] = p]
      BY DEF GuardianVotePause
    <3>6. PauseProposalOK(p)
      <4> HIDE DEF votes
      <4> QED
        BY <3>3, <3>4 DEF PauseProposalOK, ThresholdReached
    <3> QED
      BY <3>5, <3>6
  <2> QED
    BY <2>1, <2>2
<1>5. /\ pauseProposals' \in Seq([votes : Seq(Keys), executed : BOOLEAN])
      /\ \A i \in DOMAIN pauseProposals' :
           /\ Ballot(pauseProposals'[i].votes, council'.guardians)
           /\ pauseProposals'[i].executed =>
                Len(pauseProposals'[i].votes) >= council'.threshold
  <2> HIDE DEF CouncilTypeOK
  <2> QED
    BY <1>1, <1>4, PauseProposalsKept
<1>6. /\ guardianPause' \in [active : BOOLEAN, unlocksAt : Nat]
      /\ liftVotes' \in Seq(Keys) /\ liftersSince' \subseteq Keys
      /\ Ballot(liftVotes', council'.guardians)
      /\ ToSet(liftVotes') \subseteq liftersSince'
      /\ paused /\ ~paused' => FALSE
  <2> HIDE DEF CouncilTypeOK
  <2> QED
    BY <1>1, <1>2, <1>3, PauseVotesKept
<1>7. CouncilTypeOK'
  BY <1>1, <1>5, <1>6
<1>8. CouncilBooks'
  BY <1>1, <1>2, <1>5, <1>6 DEF CouncilBooks
<1>9. StepLift
  BY <1>6 DEF StepLift
<1> QED
  BY <1>7, <1>8, <1>9 DEF CouncilSafe

\* guardian_lift_pause: by a guardian, whose vote may be the last one needed,
\* and by the authority, which must find the override window open.
LEMMA LiftSafe ==
  ASSUME CouncilTypeOK, CouncilBooks, slot \in Nat, NEW k \in Keys,
         GuardianLiftVote(k) \/ AuthorityLiftPause(k)
  PROVE  CouncilSafe
<1> USE DEF CouncilTypeOK
<1>1. /\ council' = council /\ pauseProposals' = pauseProposals
      /\ council.guardians \subseteq Keys
      /\ NoGuardianPause \in [active : BOOLEAN, unlocksAt : Nat]
      /\ <<>> \in Seq(Keys)
  BY DEF GuardianLiftVote, AuthorityLiftPause, NoGuardianPause
<1>2. Ballot(<<>>, council'.guardians) /\ ToSet(<<>>) = {}
  BY EmptyBallot DEF ToSet
<1>3. CASE GuardianLiftVote(k)
  <2> DEFINE votes == Append(liftVotes, k)
  <2>1. /\ k \in council.guardians /\ ~Contains(liftVotes, k)
        /\ liftersSince' = liftersSince \cup {k}
    BY <1>3 DEF GuardianLiftVote, NotVoted
  <2>2. council # NoCouncil
    BY <2>1 DEF NoCouncil
  <2>3. Ballot(votes, council.guardians) /\ ToSet(votes) = ToSet(liftVotes) \cup {k}
    BY <1>1, <2>1, BallotGrows DEF CouncilBooks
  <2>4. ToSet(votes) \subseteq liftersSince'
    BY <2>1, <2>3 DEF CouncilBooks
  <2>5. votes \in Seq(Keys)
    BY <2>3 DEF Ballot
  <2>6. \/ FullQuorum(votes) /\ Lift
        \/ liftVotes' = votes /\ UNCHANGED <<paused, guardianPause>>
    BY <1>3 DEF GuardianLiftVote
  <2> HIDE DEF votes
  <2>7. CouncilTypeOK'
    BY <1>1, <2>1, <2>5, <2>6 DEF Lift
  <2>8. Ballot(liftVotes', council'.guardians) /\ ToSet(liftVotes') \subseteq liftersSince'
    BY <1>1, <1>2, <2>3, <2>4, <2>6 DEF Lift
  <2>9. CouncilBooks'
    BY <1>1, <2>2, <2>8 DEF CouncilBooks
  <2>10. StepLift
    <3>1. CASE FullQuorum(votes)
      <4>1. council.guardians = ToSet(votes)
        BY <2>3, <3>1, FullBallot DEF FullQuorum, CouncilBooks
      <4> QED
        BY <2>4, <4>1 DEF StepLift
    <3>2. CASE ~FullQuorum(votes)
      BY <2>6, <3>2 DEF StepLift
    <3> QED
      BY <3>1, <3>2
  <2> QED
    BY <2>7, <2>9, <2>10 DEF CouncilSafe
<1>4. CASE AuthorityLiftPause(k)
  <2>1. council # NoCouncil /\ Lift /\ liftersSince' = liftersSince /\ OverrideAllowed
    BY <1>4 DEF AuthorityLiftPause
  <2>2. CouncilTypeOK'
    BY <1>1, <2>1 DEF Lift
  <2>3. CouncilBooks'
    BY <1>1, <1>2, <2>1 DEF Lift, CouncilBooks
  <2>4. StepLift
    <3>1. CASE guardianPause.active
      <4>1. slot >= guardianPause.unlocksAt
        BY <2>1, <3>1 DEF OverrideAllowed
      <4> QED
        BY <4>1 DEF StepLift
    <3>2. CASE ~guardianPause.active
      BY <3>2 DEF StepLift
    <3> QED
      BY <3>1, <3>2
  <2> QED
    BY <2>2, <2>3, <2>4 DEF CouncilSafe
<1> QED
  BY <1>3, <1>4

-----------------------------------------------------------------------------
(***************************************************************************)
(* The committee's books, and the keeper's.                                *)
(***************************************************************************)
\* A committee proposal as it is when all is well.
ProposalOK(p) ==
  /\ p \in [action : ProposalActions, bits : SUBSET Flags,
            votes : Seq(Keys), quorum : Nat, executed : BOOLEAN]
  /\ Ballot(p.votes, committee.members)
  /\ p.quorum = committee.quorum
  /\ p.executed => Len(p.votes) >= committee.quorum

\* A proposal added to the list, or one replaced in it, leaves the committee's
\* books sound as long as its flag stays on.
LEMMA ProposalsKept ==
  ASSUME CommitteeTypeOK, CommitteeBooks, NEW p, ProposalOK(p),
         committee' = committee, committee # NoCommittee,
         FLAG_DAO_COMMITTEE \in flags',
         \/ proposals' = Append(proposals, p)
         \/ \E id \in DOMAIN proposals : proposals' = [proposals EXCEPT ![id] = p]
  PROVE  CommitteeTypeOK' /\ CommitteeBooks'
<1> DEFINE P == [action : ProposalActions, bits : SUBSET Flags,
                 votes : Seq(Keys), quorum : Nat, executed : BOOLEAN]
<1>1. proposals \in Seq(P) /\ p \in P
  BY DEF CommitteeTypeOK, ProposalOK
<1>2. \A i \in DOMAIN proposals : ProposalOK(proposals[i])
  BY ProposalTyped DEF CommitteeBooks, ProposalOK
<1>3. /\ proposals' \in Seq(P)
      /\ \A i \in DOMAIN proposals' :
           \/ proposals'[i] = p
           \/ i \in DOMAIN proposals /\ proposals'[i] = proposals[i]
  <2> HIDE DEF P
  <2>1. CASE proposals' = Append(proposals, p)
    BY <1>1, <2>1
  <2>2. CASE \E id \in DOMAIN proposals : proposals' = [proposals EXCEPT ![id] = p]
    BY <1>1, <2>2
  <2> QED
    BY <2>1, <2>2
<1>4. \A i \in DOMAIN proposals' : ProposalOK(proposals'[i])
  BY <1>2, <1>3, Zenon
<1>5. CommitteeTypeOK'
  BY <1>3 DEF CommitteeTypeOK
<1>6. CommitteeBooks'
  BY <1>4 DEF CommitteeBooks, ProposalOK
<1> QED
  BY <1>5, <1>6

\* Every step of the committee's module.  It unpauses only where it has a
\* proposal, and so its flag.
LEMMA CommitteeSafe ==
  ASSUME CommitteeTypeOK, CommitteeBooks, FlagsKept, DaoNext
  PROVE  CommitteeTypeOK' /\ CommitteeBooks' /\ StepLift
<1>1. ASSUME NEW k \in Keys, NEW m \in Committees, NEW q \in 1..Cardinality(m),
             InitDaoCommittee(k, m, q)
      PROVE  CommitteeTypeOK' /\ CommitteeBooks' /\ StepLift
  <2>1. /\ proposals = <<>> /\ proposals' = <<>> /\ paused' = paused
        /\ committee' = [members |-> m, quorum |-> q]
    BY <1>1 DEF InitDaoCommittee, CommitteeBooks
  <2>2. m \subseteq Keys
    BY DaoAssumption DEF DaoAssumption
  <2>3. q \in Nat
    OBVIOUS
  <2>4. CommitteeTypeOK'
    BY <2>1, <2>2, <2>3 DEF CommitteeTypeOK
  <2>5. CommitteeBooks'
    BY <2>1 DEF CommitteeBooks
  <2> QED
    BY <2>1, <2>4, <2>5 DEF StepLift
<1>2. ASSUME NEW k \in Keys, NEW a \in DaoActions, NEW bits \in DaoMasks,
             ProposeAction(k, a, bits)
      PROVE  CommitteeTypeOK' /\ CommitteeBooks' /\ StepLift
  <2> DEFINE p == [action |-> a, bits |-> bits, votes |-> <<>>,
                   quorum |-> committee.quorum, executed |-> FALSE]
  <2>1. a \in ProposalActions /\ bits \subseteq Flags
    BY DaoAssumption DEF DaoAssumption
  <2>2. Ballot(<<>>, committee.members) /\ <<>> \in Seq(Keys)
    BY EmptyBallot
  <2>3. ProposalOK(p)
    BY <2>1, <2>2 DEF ProposalOK, CommitteeTypeOK
  <2>4. /\ committee' = committee /\ committee # NoCommittee /\ paused' = paused
        /\ FLAG_DAO_COMMITTEE \in flags'
        /\ proposals' = Append(proposals, p)
    BY <1>2 DEF ProposeAction
  <2> HIDE DEF p
  <2>5. CommitteeTypeOK' /\ CommitteeBooks'
    BY <2>3, <2>4, ProposalsKept
  <2> QED
    BY <2>4, <2>5 DEF StepLift
<1>3. ASSUME NEW id \in DOMAIN proposals
      PROVE  /\ committee # NoCommittee /\ FLAG_DAO_COMMITTEE \in flags
             /\ FLAG_DAO_COMMITTEE \in flags' /\ ProposalOK(proposals[id])
  <2>1. proposals # <<>>
    OBVIOUS
  <2>2. ProposalOK(proposals[id])
    BY ProposalTyped DEF CommitteeBooks, ProposalOK
  <2> QED
    BY <2>1, <2>2 DEF CommitteeBooks, FlagsKept, ProtectedFlags
<1>4. ASSUME NEW k \in Keys, NEW id \in DOMAIN proposals, VoteAction(k, id)
      PROVE  CommitteeTypeOK' /\ CommitteeBooks' /\ StepLift
  <2> DEFINE q == proposals[id]
             votes == Append(q.votes, k)
             p == [q EXCEPT !.votes = votes]
  <2>1. /\ k \in committee.members /\ ~q.executed /\ ~Contains(q.votes, k)
        /\ proposals' = [proposals EXCEPT ![id] = p]
        /\ committee' = committee /\ paused' = paused
    BY <1>4 DEF VoteAction, MemberNotVoted
  <2>2. committee.members \subseteq Keys
    BY DEF CommitteeTypeOK
  <2>3. ProposalOK(q)
    BY <1>3
  <2>4. Ballot(votes, committee.members)
    <3> HIDE DEF q
    <3> QED
      BY <2>1, <2>2, <2>3, BallotGrows DEF ProposalOK
  <2>5. votes \in Seq(Keys)
    BY <2>4 DEF Ballot
  <2>6. ProposalOK(p)
    <3> HIDE DEF q, votes
    <3> QED
      BY <2>1, <2>3, <2>4, <2>5 DEF ProposalOK
  <2> HIDE DEF p
  <2>7. CommitteeTypeOK' /\ CommitteeBooks'
    BY <1>3, <2>1, <2>6, ProposalsKept
  <2> QED
    BY <2>1, <2>7 DEF StepLift
<1>5. ASSUME NEW id \in DOMAIN proposals, ExecuteAction(id)
      PROVE  CommitteeTypeOK' /\ CommitteeBooks' /\ StepLift
  <2> DEFINE q == proposals[id]
             p == [q EXCEPT !.executed = TRUE]
  <2>1. /\ Len(q.votes) >= q.quorum
        /\ proposals' = [proposals EXCEPT ![id] = p]
        /\ committee' = committee
    BY <1>5 DEF ExecuteAction, Executable
  <2>2. ProposalOK(q)
    BY <1>3
  <2>3. ProposalOK(p)
    <3> HIDE DEF q
    <3> QED
      BY <2>1, <2>2 DEF ProposalOK
  <2> HIDE DEF p
  <2>4. CommitteeTypeOK' /\ CommitteeBooks'
    BY <1>3, <2>1, <2>3, ProposalsKept
  <2> QED
    BY <1>3, <2>4 DEF StepLift
<1> QED
  BY <1>1, <1>2, <1>4, <1>5 DEF DaoNext

\* The keeper: a recovery would have to last at least a slot, and the record
\* of its start is rolled back with the crank that fails, so none is ever met.
LEMMA KeeperSafe ==
  ASSUME KeeperTypeOK, KeeperBooks, slot \in Nat, KeeperNext
  PROVE  KeeperTypeOK' /\ KeeperBooks' /\ StepLift
<1> USE DEF KeeperTypeOK, KeeperBooks
<1>1. ASSUME NEW k \in Keys, NEW c \in Cooldowns, NEW r \in RecoverySlots,
             InitKeeperConfig(k, c, r)
      PROVE  KeeperTypeOK' /\ KeeperBooks' /\ StepLift
  <2>1. c \in Nat /\ r \in Nat
    BY KeeperAssumption DEF KeeperAssumption
  <2> QED
    BY <1>1, <2>1 DEF InitKeeperConfig, StepLift
<1>2. CASE CrankCircuitBreaker
  BY <1>2 DEF CrankCircuitBreaker, StepLift
<1>3. CASE CrankUnpause
  <2>1. ~RecoveryMet
    BY <1>3 DEF CrankUnpause, RecoveryMet, RecoveryStart
  <2> QED
    BY <1>3, <2>1 DEF CrankUnpause, configVars, keeperVars, StepLift
<1>4. CASE PegMoves
  BY <1>4 DEF PegMoves, configVars, StepLift
<1> QED
  BY <1>1, <1>2, <1>3, <1>4 DEF KeeperNext

\* A step of another component leaves a component's books sound: all the
\* committee asks of it is to keep the flag.
LEMMA OthersSafe ==
  ASSUME VotingInv, FlagsKept
  PROVE  /\ UNCHANGED guardianVars => CouncilTypeOK' /\ CouncilBooks'
         /\ UNCHANGED daoVars => CommitteeTypeOK' /\ CommitteeBooks'
         /\ UNCHANGED keeperVars => KeeperTypeOK' /\ KeeperBooks'
         /\ UNCHANGED pidConfig => ControllerTypeOK'
<1> USE DEF VotingInv, TypeOK
<1>1. ASSUME UNCHANGED guardianVars PROVE CouncilTypeOK' /\ CouncilBooks'
  BY <1>1 DEF guardianVars, CouncilTypeOK, CouncilBooks
<1>2. ASSUME UNCHANGED daoVars PROVE CommitteeTypeOK' /\ CommitteeBooks'
  <2>1. FLAG_DAO_COMMITTEE \in flags => FLAG_DAO_COMMITTEE \in flags'
    BY DEF FlagsKept, ProtectedFlags
  <2> QED
    BY <1>2, <2>1 DEF daoVars, CommitteeTypeOK, CommitteeBooks
<1>3. ASSUME UNCHANGED keeperVars PROVE KeeperTypeOK' /\ KeeperBooks'
  BY <1>3 DEF keeperVars, KeeperTypeOK, KeeperBooks
<1>4. ASSUME UNCHANGED pidConfig PROVE ControllerTypeOK'
  BY <1>4 DEF ControllerTypeOK
<1> QED
  BY <1>1, <1>2, <1>3, <1>4

\* Of the timelock's instructions only the direct one unpauses, and it needs
\* a zero delay.
LEMMA TimelockKeepsPause ==
  ASSUME TimelockNext
  PROVE  StepLift
<1> PICK k \in Keys :
      \/ \E req \in Requests : ProposeTimelockedOp(k, req)
      \/ ExecuteTimelockedOp(k)
      \/ CancelTimelockedOp(k)
      \/ \E bits \in Masks : SetFeatureFlag(k, bits) \/ ClearFeatureFlag(k, bits)
      \/ \E b \in BOOLEAN : Pause(k, b)
      \/ \E n \in Nums : SetSpendLimit(k, n) \/ SetTravelRuleThreshold(k, n)
      \/ ClearSpendLimit(k) \/ ClearSanctionsOracle(k)
      \/ \E t \in Targets : SetPythFeed(k, t)
      \/ \E age, conf \in Nums : SetOracleParams(k, age, conf)
      \/ \E n \in Nums, t \in Targets : SetOracleConfig(k, n, t)
                                        \/ SetSanctionsOracle(k, t, n)
  BY DEF TimelockNext
<1>1. CASE \E b \in BOOLEAN : Pause(k, b)
  <2>1. timelockDelay = 0
    BY <1>1 DEF Pause, Direct, RequireTimelockExecuted
  <2> QED
    BY <2>1 DEF StepLift
<1>2. CASE \/ \E req \in Requests : ProposeTimelockedOp(k, req)
           \/ ExecuteTimelockedOp(k)
           \/ CancelTimelockedOp(k)
  <2>1. paused' \in {TRUE, paused}
    BY <1>2 DEF ProposeTimelockedOp, ExecuteTimelockedOp, CancelTimelockedOp
  <2> QED
    BY <2>1 DEF StepLift
<1>3. CASE \/ \E bits \in Masks : SetFeatureFlag(k, bits) \/ ClearFeatureFlag(k, bits)
           \/ \E n \in Nums : SetSpendLimit(k, n) \/ SetTravelRuleThreshold(k, n)
           \/ ClearSpendLimit(k) \/ ClearSanctionsOracle(k)
           \/ \E t \in Targets : SetPythFeed(k, t)
           \/ \E age, conf \in Nums : SetOracleParams(k, age, conf)
           \/ \E n \in Nums, t \in Targets : SetOracleConfig(k, n, t)
                                             \/ SetSanctionsOracle(k, t, n)
  <2>1. paused' = paused
    BY <1>3 DEF SetFeatureFlag, ClearFeatureFlag, SetSpendLimit, SetTravelRuleThreshold,
       ClearSpendLimit, ClearSanctionsOracle, SetPythFeed, SetOracleParams,
       SetOracleConfig, SetSanctionsOracle
  <2> QED
    BY <2>1 DEF StepLift
<1> QED
  BY <1>1, <1>2, <1>3

\* Nobody has voted when the stablecoin is initialized.
LEMMA VotingInit == Init => VotingInv
<1> SUFFICES ASSUME Init PROVE VotingInv
  OBVIOUS
<1>1. ConfigTypeOK
  <2>1. \A given \in InitFlags : given \subseteq Flags
    BY InitAssumption
  <2>2. flags \subseteq Flags
    BY <2>1 DEF Init, InitConfig, Flags
  <2>3. settings \in Settings
    BY DEF Init, InitConfig, NoSettings, Settings, KeyOrNone
  <2>4. preset \in 1..4
    BY InitAssumption DEF Init, InitConfig
  <2>5. authority \in Keys /\ squadsMultisig \in KeyOrNone /\ timelockDelay \in Nat
    BY KeysAssumption, InitAssumption, DelayAssumption DEF Init, InitConfig, KeyOrNone
  <2> QED
    BY <2>2, <2>3, <2>4, <2>5, NoOpTyped
    DEF Init, InitConfig, NoRequest, KeyOrNone, ConfigTypeOK
<1>2. CouncilTypeOK /\ CouncilBooks
  <2>1. Ballot(<<>>, {}) /\ ToSet(<<>>) = {} /\ IsFiniteSet({})
    BY EmptyBallot, FS_EmptySet DEF ToSet
  <2> QED
    BY <2>1 DEF Init, InitGuardian, NoCouncil, NoGuardianPause, CouncilTypeOK, CouncilBooks
<1>3. CommitteeTypeOK /\ CommitteeBooks
  BY DEF Init, InitDao, NoCommittee, CommitteeTypeOK, CommitteeBooks
<1>4. KeeperTypeOK /\ KeeperBooks
  BY DEF Init, InitKeeper, NoKeeper, KeeperTypeOK, KeeperBooks
<1>5. ControllerTypeOK
  BY DEF Init, NoPidConfig, ControllerTypeOK
<1> QED
  BY <1>1, <1>2, <1>3, <1>4, <1>5 DEF VotingInv, TypeOK

\* Every step of the composition keeps the books of the votes.
LEMMA VotingStep ==
  ASSUME GovernanceInv, VotingInv, [Next]_vars
  PROVE  VotingInv' /\ StepLift
<1>1. FlagsKept
  BY NextSafe DEF StepSafe
<1>2. ConfigTypeOK /\ CommitteeTypeOK /\ slot \in Nat
  BY DEF VotingInv, TypeOK, ConfigTypeOK
<1>3. CASE UNCHANGED vars
  <2>1. ConfigTypeOK'
    BY <1>2, <1>3 DEF vars, configVars, authorityVars, roleVars, opVars, historyVars,
                      ConfigTypeOK
  <2>2. /\ UNCHANGED guardianVars /\ UNCHANGED daoVars /\ UNCHANGED keeperVars
        /\ UNCHANGED pidConfig
    BY <1>3 DEF vars
  <2>3. StepLift
    BY <1>3 DEF vars, configVars, StepLift
  <2> QED
    BY <1>1, <2>1, <2>2, <2>3, OthersSafe DEF VotingInv, TypeOK
<1>4. CASE Tick /\ UNCHANGED <<authorityVars, guardianVars, daoVars, keeperVars, pidConfig>>
  <2>1. ConfigTypeOK'
    BY <1>2, <1>4, BystandersTyped
  <2>2. /\ UNCHANGED guardianVars /\ UNCHANGED daoVars /\ UNCHANGED keeperVars
        /\ UNCHANGED pidConfig
    BY <1>4
  <2>3. StepLift
    BY <1>4 DEF Tick, configVars, StepLift
  <2> QED
    BY <1>1, <2>1, <2>2, <2>3, OthersSafe DEF VotingInv, TypeOK
<1>5. CASE TimelockNext /\ UNCHANGED <<rotation, guardianVars, daoVars, keeperVars, pidConfig>>
  <2>1. ConfigTypeOK'
    BY <1>2, <1>5, TimelockTyped
  <2>2. /\ UNCHANGED guardianVars /\ UNCHANGED daoVars /\ UNCHANGED keeperVars
        /\ UNCHANGED pidConfig
    BY <1>5
  <2> QED
    BY <1>1, <1>5, <2>1, <2>2, TimelockKeepsPause, OthersSafe DEF VotingInv, TypeOK
<1>6. CASE AuthorityNext /\ UNCHANGED <<guardianVars, daoVars, keeperVars, pidConfig>>
  <2>1. ConfigTypeOK'
    BY <1>2, <1>6, AuthorityTyped
  <2>2. /\ UNCHANGED guardianVars /\ UNCHANGED daoVars /\ UNCHANGED keeperVars
        /\ UNCHANGED pidConfig
    BY <1>6
  <2>3. paused' = paused
    BY <1>6 DEF AuthorityNext, UpdateRoles, AcceptAuthority, AcceptComplianceAuthority,
       ProposeAuthorityRotation, AcceptAuthorityRotation, EmergencyRecoverAuthority,
       RotateTo, CancelAuthorityRotation, InitSquadsAuthority, authorityUnchanged,
       configVars
  <2> QED
    BY <1>1, <2>1, <2>2, <2>3, OthersSafe DEF VotingInv, TypeOK, StepLift
<1>7. CASE GuardianNext /\ UNCHANGED <<authorityVars, daoVars, keeperVars, pidConfig>>
  <2>1. ConfigTypeOK'
    BY <1>2, <1>7, BystandersTyped
  <2>2. UNCHANGED daoVars /\ UNCHANGED keeperVars /\ UNCHANGED pidConfig
    BY <1>7
  <2>3. CouncilSafe
    BY <1>2, <1>7, InitGuardianConfigSafe, PauseVoteSafe, LiftSafe
    DEF GuardianNext, VotingInv, TypeOK
  <2> QED
    BY <1>1, <2>1, <2>2, <2>3, OthersSafe DEF VotingInv, TypeOK, CouncilSafe
<1>8. CASE DaoNext /\ UNCHANGED <<authorityVars, guardianVars, keeperVars, pidConfig>>
  <2>1. ConfigTypeOK'
    BY <1>2, <1>8, BystandersTyped
  <2>2. UNCHANGED guardianVars /\ UNCHANGED keeperVars /\ UNCHANGED pidConfig
    BY <1>8
  <2>3. CommitteeTypeOK' /\ CommitteeBooks' /\ StepLift
    BY <1>1, <1>8, CommitteeSafe DEF VotingInv, TypeOK
  <2> QED
    BY <1>1, <2>1, <2>2, <2>3, OthersSafe DEF VotingInv, TypeOK
<1>9. CASE KeeperNext /\ UNCHANGED <<authorityVars, guardianVars, daoVars, pidConfig>>
  <2>1. ConfigTypeOK'
    BY <1>2, <1>9, BystandersTyped
  <2>2. UNCHANGED guardianVars /\ UNCHANGED daoVars /\ UNCHANGED pidConfig
    BY <1>9
  <2>3. KeeperTypeOK' /\ KeeperBooks' /\ StepLift
    BY <1>2, <1>9, KeeperSafe DEF VotingInv, TypeOK
  <2> QED
    BY <1>1, <2>1, <2>2, <2>3, OthersSafe DEF VotingInv, TypeOK
<1>10. CASE ControllerNext /\ UNCHANGED <<authorityVars, guardianVars, daoVars, keeperVars>>
  <2>1. UNCHANGED guardianVars /\ UNCHANGED daoVars /\ UNCHANGED keeperVars
    BY <1>10
  <2>2. ConfigTypeOK' /\ ControllerTypeOK' /\ StepLift
    BY <1>10, ControllerTyped DEF VotingInv, TypeOK, StepLift
  <2> QED
    BY <1>1, <2>1, <2>2, OthersSafe DEF VotingInv, TypeOK
<1> QED
  BY <1>3, <1>4, <1>5, <1>6, <1>7, <1>8, <1>9, <1>10 DEF Next

-----------------------------------------------------------------------------
(***************************************************************************)
(* The theorems.                                                           *)
(***************************************************************************)
\* Every reachable state satisfies the inductive invariant.
THEOREM Invariance == Spec => []GovernanceInv
<1>1. GovernanceInv /\ [Next]_vars => GovernanceInv'
  BY NextSafe DEF StepSafe
<1> QED
  BY InitInv, <1>1, PTL DEF Spec

\* A pending operation waits exactly the delay in force (admin_timelock.rs).
THEOREM PendingHonoured == Spec => []PendingOpHonoursDelay
<1>1. GovernanceInv => PendingOpHonoursDelay
  BY DEF GovernanceInv
<1> QED
  BY <1>1, Invariance, PTL

\* An SSS-3 mint never loses its timelock or its multisig check.
THEOREM Sss3Timelocked == Spec => []Sss3StaysTimelocked
<1>1. GovernanceInv => Sss3StaysTimelocked
  BY DEF GovernanceInv
<1> QED
  BY <1>1, Invariance, PTL

\* Outside preset 4 a standing nomination is the word of the authority in
\* office (authority_rotation.rs, accept_authority.rs).
THEOREM NominationsCurrent == Spec => []NominationByAuthorityInOffice
<1>1. GovernanceInv => NominationByAuthorityInOffice
  BY DEF GovernanceInv
<1> QED
  BY <1>1, Invariance, PTL

\* No path clears the committee's or the multisig's flag.
THEOREM FlagsSticky == Spec => GovernanceFlagsSticky
<1>1. GovernanceInv /\ [Next]_vars => [(flags \cap ProtectedFlags) \subseteq flags']_vars
  BY NextSafe DEF StepSafe, FlagsKept
<1> QED
  BY <1>1, Invariance, PTL DEF Spec, GovernanceFlagsSticky

\* With a positive delay a guarded field changes only by spending an
\* operation that was announced a full delay before, and the stability fee only
\* so or within the bounds of a controller that is on (admin_timelock.rs,
\* pid_fee.rs).
THEOREM GuardedChangesAnnounced == Spec => GuardedChangesNeedMatureOp
<1>1. GovernanceInv /\ [Next]_vars =>
        [ timelockDelay > 0 =>
            /\ \/ GuardedSettings' # GuardedSettings
               \/ timelockDelay' # timelockDelay
               \/ pendingAuthority' \notin {pendingAuthority, NoKey}
               => SpendsMatureOp
            /\ FeeChanges => SpendsMatureOp \/ FeeLeftToController ]_vars
  BY NextSafe DEF StepSafe, StepGuarded, GuardedChange
<1> QED
  BY <1>1, Invariance, PTL DEF Spec, GuardedChangesNeedMatureOp

\* A compliance hand-over has the default notice behind it, however the delay
\* was changed (update_roles.rs, admin_timelock.rs: BUG-019).
THEOREM ComplianceNoticed == Spec => ComplianceHandoverNotice
<1>1. GovernanceInv /\ [Next]_vars =>
        [ complianceAuthority' # complianceAuthority =>
            slot >= complianceProposedAt + DEFAULT_ADMIN_TIMELOCK_DELAY ]_vars
  BY NextSafe DEF StepSafe, StepNoticed
<1> QED
  BY <1>1, Invariance, PTL DEF Spec, ComplianceHandoverNotice

\* The books of the votes are sound in every reachable state.
THEOREM VotingInvariance == Spec => []VotingInv
<1>1. GovernanceInv /\ VotingInv /\ [Next]_vars => VotingInv'
  BY VotingStep
<1> QED
  BY VotingInit, <1>1, Invariance, PTL DEF Spec

\* Every account is well-formed, and no pause and no proposal was carried out
\* without the votes of as many different guardians, or members, as its
\* threshold asks for (guardian.rs, dao_committee.rs).
THEOREM QuorumsAreKept == Spec => []QuorumsKept
<1>1. VotingInv => QuorumsKept
  <2> SUFFICES ASSUME VotingInv PROVE QuorumsKept
    OBVIOUS
  <2>1. ExecutedPauseHasQuorum
    BY BallotCounts DEF VotingInv, CouncilBooks, ExecutedPauseHasQuorum
  <2>2. ExecutedProposalHasQuorum
    BY BallotCounts DEF VotingInv, CommitteeBooks, ExecutedProposalHasQuorum
  <2> QED
    BY <2>1, <2>2 DEF VotingInv, QuorumsKept
<1> QED
  BY <1>1, VotingInvariance, PTL

\* Before the override window opens, a guardian pause ends only when every
\* guardian asked for it since it began (guardian.rs: BUG-018); no crank of
\* the keeper and no timelocked operation ends it.
THEOREM EarlyLiftIsUnanimous == Spec => EarlyLiftNeedsEveryGuardian
<1>1. GovernanceInv /\ VotingInv /\ [Next]_vars =>
        [ /\ guardianPause.active /\ slot < guardianPause.unlocksAt
          /\ paused /\ ~paused'
          /\ timelockDelay > 0 /\ FLAG_DAO_COMMITTEE \notin flags
          => council.guardians \subseteq liftersSince' ]_vars
  BY VotingStep DEF StepLift
<1> QED
  BY <1>1, Invariance, VotingInvariance, PTL DEF Spec, EarlyLiftNeedsEveryGuardian

=============================================================================
