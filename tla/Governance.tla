----------------------------- MODULE Governance -----------------------------
(***************************************************************************)
(* Everything that can move the governance part of a StablecoinConfig,     *)
(* interleaved: the timelock and the direct setters, the hand-over of the  *)
(* authority, the guardians, the committee, the circuit-breaker keeper and *)
(* the fee controller.  They share the authority, the flags, the delay,    *)
(* the settings and the pause bit.                                         *)
(***************************************************************************)
EXTENDS Authority, Guardian, DaoCommittee, CircuitBreakerKeeper

CONSTANTS
  FeeBands,     \* [min, max]: the bounds init_pid_config may be given
  PID_COOLDOWN  \* 10 slots in the code

ASSUME ControllerAssumption ==
  FeeBands \subseteq [min : Nat, max : Nat] /\ PID_COOLDOWN \in Nat

VARIABLE pidConfig   \* the PidConfig account: its bounds and its last update

authorityVars == <<historyVars, rotation>>
vars == <<slot, configVars, authorityVars, guardianVars, daoVars, keeperVars, pidConfig>>

(***************************************************************************)
(* The fee controller (pid_fee.rs), as governance sees it.  Its gains are  *)
(* any, and so is the price its caller reports, so an update may set any   *)
(* fee within the bounds; module PidFee computes the fee.  The bounds are  *)
(* u16 values, not held to the 10_000 of the timelock's operation.         *)
(***************************************************************************)
NoPidConfig == [open |-> FALSE, min |-> 0, max |-> 0, lastUpdate |-> 0]

controllerUnchanged == <<slot, roleVars, paused, opVars>>

\* init_pid_config: once, by the authority, whatever the timelock's delay.
InitPidConfig(k, band) ==
  /\ AuthoritySigns(k)
  /\ ~pidConfig.open
  /\ band.min =< band.max
  /\ pidConfig' = [open |-> TRUE, min |-> band.min, max |-> band.max, lastUpdate |-> slot]
  /\ flags' = flags \cup {FLAG_PID_FEE_CONTROL}
  /\ UNCHANGED <<controllerUnchanged, settings>>

\* Mutant: the fee is not clamped to the bounds.
FeesToSetUnclamped == {settings.stabilityFeeBps + 1}

FeesToSet == pidConfig.min..pidConfig.max

\* update_stability_fee_pid: anyone.
UpdateStabilityFeePid(bps) ==
  /\ pidConfig.open
  /\ FLAG_PID_FEE_CONTROL \in flags
  /\ slot >= pidConfig.lastUpdate + PID_COOLDOWN
  /\ settings' = [settings EXCEPT !.stabilityFeeBps = bps]
  /\ pidConfig' = [pidConfig EXCEPT !.lastUpdate = slot]
  /\ UNCHANGED <<controllerUnchanged, flags>>

ControllerNext ==
  \/ \E k \in Keys, band \in FeeBands : InitPidConfig(k, band)
  \/ \E bps \in FeesToSet : UpdateStabilityFeePid(bps)

-----------------------------------------------------------------------------

Init ==
  /\ InitConfig
  /\ pendingBy = NoKey
  /\ complianceProposedAt = 0
  /\ rotation = NoRequest
  /\ InitGuardian
  /\ InitDao
  /\ InitKeeper
  /\ pidConfig = NoPidConfig

Next ==
  \/ Tick /\ UNCHANGED <<authorityVars, guardianVars, daoVars, keeperVars, pidConfig>>
  \/ TimelockNext /\ UNCHANGED <<rotation, guardianVars, daoVars, keeperVars, pidConfig>>
  \/ AuthorityNext /\ UNCHANGED <<guardianVars, daoVars, keeperVars, pidConfig>>
  \/ GuardianNext /\ UNCHANGED <<authorityVars, daoVars, keeperVars, pidConfig>>
  \/ DaoNext /\ UNCHANGED <<authorityVars, guardianVars, keeperVars, pidConfig>>
  \/ KeeperNext /\ UNCHANGED <<authorityVars, guardianVars, daoVars, pidConfig>>
  \/ ControllerNext /\ UNCHANGED <<authorityVars, guardianVars, daoVars, keeperVars>>

Spec == Init /\ [][Next]_vars

-----------------------------------------------------------------------------
Requested == [kind : AdminOpKinds \cup {ADMIN_OP_NONE}, bits : SUBSET Flags,
              num : Nat, target : KeyOrNone, mature : Nat, proposedAt : Nat]

\* Type invariant of the configuration and of the accounts around it
\* (state.rs: StablecoinConfig, AuthorityRotationRequest, GuardianConfig,
\* DaoCommitteeConfig, KeeperConfig, PidConfig).
ConfigTypeOK ==
  /\ slot \in Nat
  /\ authority \in Keys /\ complianceAuthority \in Keys
  /\ pendingAuthority \in KeyOrNone /\ pendingComplianceAuthority \in KeyOrNone
  /\ squadsMultisig \in KeyOrNone
  /\ preset \in 1..4
  /\ flags \subseteq Flags
  /\ paused \in BOOLEAN
  /\ timelockDelay \in Nat
  /\ adminOp \in Requested
  /\ settings \in Settings
  /\ pendingBy \in KeyOrNone /\ complianceProposedAt \in Nat
  /\ rotation \in [open : BOOLEAN, currentAuthority : KeyOrNone,
                   newAuthority : KeyOrNone, backupAuthority : KeyOrNone,
                   proposedSlot : Nat]
  /\ rotation.open => rotation.newAuthority \in Keys
                      /\ rotation.backupAuthority \in Keys

CouncilTypeOK ==
  /\ council \in [guardians : SUBSET Keys, threshold : Nat]
  /\ guardianPause \in [active : BOOLEAN, unlocksAt : Nat]
  /\ liftVotes \in Seq(Keys)
  /\ pauseProposals \in Seq([votes : Seq(Keys), executed : BOOLEAN])
  /\ liftersSince \subseteq Keys

CommitteeTypeOK ==
  /\ committee \in [members : SUBSET Keys, quorum : Nat]
  /\ proposals \in Seq([action : ProposalActions, bits : SUBSET Flags,
                        votes : Seq(Keys), quorum : Nat, executed : BOOLEAN])

KeeperTypeOK ==
  /\ keeper \in [open : BOOLEAN, cooldown : Nat, recovery : Nat]
  /\ lastTrigger \in Nat /\ lastWithin \in Nat
  /\ peg \in {"within", "outside"}

ControllerTypeOK ==
  pidConfig \in [open : BOOLEAN, min : Nat, max : Nat, lastUpdate : Nat]

TypeOK == ConfigTypeOK /\ CouncilTypeOK /\ CommitteeTypeOK /\ KeeperTypeOK
          /\ ControllerTypeOK

-----------------------------------------------------------------------------
(***************************************************************************)
(* The timelock.                                                           *)
(***************************************************************************)
\* The delay a pending operation was given is the delay in force now: no
\* interleaving of proposals, delay changes and cancellations leaves an
\* operation waiting under an older, shorter delay (admin_timelock.rs,
\* propose and execute).
PendingOpHonoursDelay ==
  adminOp.kind # ADMIN_OP_NONE =>
    adminOp.mature = adminOp.proposedAt + EffectiveDelay(adminOp.kind)

\* The settings that only the timelock changes: all but the two sanctions
\* fields, which clear_sanctions_oracle also resets, and the stability fee,
\* which the fee controller also sets.
GuardedSettings == [settings EXCEPT !.sanctionsOracle = NoKey,
                                    !.sanctionsMaxStalenessSlots = 0,
                                    !.stabilityFeeBps = 0]

\* The step spends a pending operation whose full delay has passed.
SpendsMatureOp ==
  /\ adminOp.kind # ADMIN_OP_NONE
  /\ slot >= adminOp.proposedAt + timelockDelay
  /\ adminOp' = NoOp

FeeChanges == settings'.stabilityFeeBps # settings.stabilityFeeBps

\* The controller is on, and the new fee is one the authority left to it.
FeeLeftToController ==
  /\ pidConfig.open /\ FLAG_PID_FEE_CONTROL \in flags
  /\ settings'.stabilityFeeBps \in pidConfig.min..pidConfig.max

\* With a positive delay, a guarded setting, the delay itself and a
\* nomination for the authority change only in a step that spends a pending
\* operation announced a full delay before; so an operation takes effect
\* once, and never early (require_timelock_executed,
\* execute_timelocked_op_handler, update_roles.rs handler).  The stability
\* fee changes that way too, or else within the bounds that the authority
\* gave a controller which is still switched on (update_stability_fee_pid).
GuardedChangesNeedMatureOp ==
  [][ timelockDelay > 0 =>
        /\ \/ GuardedSettings' # GuardedSettings
           \/ timelockDelay' # timelockDelay
           \/ pendingAuthority' \notin {pendingAuthority, NoKey}
           => SpendsMatureOp
        /\ FeeChanges => SpendsMatureOp \/ FeeLeftToController ]_vars

\* The compliance authority changes hands only when the default delay has
\* passed since the transfer was proposed, however short the configured
\* delay is or was made (BUG-019 in propose_timelocked_op_handler and
\* update_roles.rs).
ComplianceHandoverNotice ==
  [][ complianceAuthority' # complianceAuthority =>
        slot >= complianceProposedAt + DEFAULT_ADMIN_TIMELOCK_DELAY ]_vars

\* An SSS-3 mint stays timelocked by at least an epoch, and stays behind the
\* multisig check, whatever governance does (initialize.rs, SET_TIMELOCK_DELAY
\* and the protected flags).  It is why the direct setters that demand
\* preset 3 (set_stability_fee, set_psm_fee, set_backstop_params) can never
\* succeed.
Sss3StaysTimelocked ==
  preset = 3 => /\ timelockDelay >= MIN_TIMELOCK_DELAY
                /\ squadsMultisig # NoKey
                /\ FLAG_SQUADS_AUTHORITY \in flags

\* No path - direct call, timelock, committee vote, spend policy, sanctions -
\* ever clears the committee's or the multisig's flag (BUG-011, AUDIT3C).
GovernanceFlagsSticky == [][(flags \cap ProtectedFlags) \subseteq flags']_vars

-----------------------------------------------------------------------------
(***************************************************************************)
(* The authority.                                                          *)
(***************************************************************************)
\* A standing nomination was made by the authority in office: a rotation
\* drops the nominations of the authority it replaces (accept and emergency
\* recovery reset pending_authority).  The hand-over to a multisig is the
\* exception: it leaves the nomination standing.
NominationByAuthorityInOffice ==
  pendingAuthority # NoKey =>
    pendingBy = authority \/ preset = PRESET_INSTITUTIONAL

-----------------------------------------------------------------------------
(***************************************************************************)
(* The guardians and the committee.                                        *)
(***************************************************************************)
\* A pause proposal that took effect carries the votes of at least
\* threshold different guardians (guardian_propose_pause, guardian_vote_pause).
ExecutedPauseHasQuorum ==
  \A i \in DOMAIN pauseProposals :
    pauseProposals[i].executed =>
      Cardinality(council.guardians \cap ToSet(pauseProposals[i].votes))
        >= council.threshold

\* While the override window of a guardian pause is closed, and neither the
\* zero-delay pause instruction nor the committee can unpause, the mint is
\* unpaused only after every guardian asked for it since that pause: votes
\* cast before it do not count (BUG-018; pending_lift_votes is cleared when
\* the pause takes effect).
EarlyLiftNeedsEveryGuardian ==
  [][ /\ guardianPause.active /\ slot < guardianPause.unlocksAt
      /\ paused /\ ~paused'
      /\ timelockDelay > 0 /\ FLAG_DAO_COMMITTEE \notin flags
      => council.guardians \subseteq liftersSince' ]_vars

\* A committee proposal that took effect carries the votes of at least
\* quorum different members (vote_action, execute_action).
ExecutedProposalHasQuorum ==
  \A i \in DOMAIN proposals :
    proposals[i].executed =>
      Cardinality(committee.members \cap ToSet(proposals[i].votes))
        >= committee.quorum

\* What guardians and committee write is well-formed, and nothing either of
\* them carried out went without its quorum (guardian.rs, dao_committee.rs).
QuorumsKept == TypeOK /\ ExecutedPauseHasQuorum /\ ExecutedProposalHasQuorum

-----------------------------------------------------------------------------
(***************************************************************************)
(* The keeper, under fairness: the cluster's clock advances, and as the    *)
(* cranks are open to anyone, some keeper keeps calling them.              *)
(***************************************************************************)
ClockStep ==
  Tick /\ UNCHANGED <<authorityVars, guardianVars, daoVars, keeperVars, pidConfig>>
TriggerStep ==
  CrankCircuitBreaker /\ UNCHANGED <<authorityVars, guardianVars, daoVars, pidConfig>>
RecoveryStep ==
  CrankUnpause /\ UNCHANGED <<authorityVars, guardianVars, daoVars, pidConfig>>

LiveSpec == /\ Spec
            /\ WF_vars(ClockStep)
            /\ WF_vars(TriggerStep)
            /\ WF_vars(RecoveryStep)

\* A depeg that lasts is answered: while the breaker is armed and the price
\* stays outside the band, the mint is paused again and again, whoever
\* unpauses it in between (crank_circuit_breaker).  Excluded: a cooldown that
\* runs past the end of the bounded clock.
LastingDepegPauses ==
  []<>(\/ ~keeper.open \/ FLAG_CIRCUIT_BREAKER \notin flags \/ peg = "within"
       \/ paused
       \/ lastTrigger + keeper.cooldown > MaxSlot)

-----------------------------------------------------------------------------
(***************************************************************************)
(* What a comment of the code says, and the code does not do: a run of its *)
(* own refutes it.                                                         *)
(***************************************************************************)
\* circuit_breaker_keeper.rs: crank_unpause "if price has returned within
\* threshold for sustained_recovery_slots consecutive slots, clears paused".
RecoveryUnpauses == []<>(~paused \/ peg = "outside")

=============================================================================
