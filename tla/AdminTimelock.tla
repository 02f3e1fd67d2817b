--------------------------- MODULE AdminTimelock ---------------------------
(***************************************************************************)
(* admin_timelock.rs: propose, execute and cancel the single pending       *)
(* timelocked operation, and the direct setters the timelock replaces when *)
(* admin_timelock_delay is positive (feature_flags.rs, pause.rs,           *)
(* spend_policy.rs, psm_fee.rs, stability_fee.rs, bad_debt_backstop.rs,    *)
(* oracle_config.rs, travel_rule.rs, sanctions_oracle.rs).                 *)
(***************************************************************************)
EXTENDS StablecoinConfig

CONSTANTS
  OpKinds,   \* the operation kinds the authority proposes
  Masks,     \* flag masks given to flag instructions
  Nums,      \* numbers given as u64 parameters
  Targets,   \* keys given as targets
  DirectSetters  \* the direct-call setters the authority calls

FlagOps == {"SET_FEATURE_FLAG", "CLEAR_FEATURE_FLAG"}
KeyOps == {"TRANSFER_AUTHORITY", "SET_PYTH_FEED", "TRANSFER_COMPLIANCE_AUTHORITY"}
NumOps == {"SET_ORACLE_PARAMS", "SET_STABILITY_FEE", "SET_PSM_FEE",
           "SET_SPEND_LIMIT", "SET_MIN_RESERVE_RATIO",
           "SET_TRAVEL_RULE_THRESHOLD", "SET_TIMELOCK_DELAY"}
NumKeyOps == {"SET_BACKSTOP_PARAMS", "SET_ORACLE_CONFIG", "SET_SANCTIONS_PARAMS"}

\* The kinds propose_timelocked_op accepts; UNPAUSE is not one of them.
AdminOpKinds == FlagOps \cup KeyOps \cup NumOps \cup NumKeyOps \cup {"PAUSE"}

ASSUME AdminTimelockAssumption ==
  /\ OpKinds \subseteq AdminOpKinds \cup {"UNPAUSE"}
  /\ Masks \subseteq SUBSET Flags
  /\ Nums \subseteq Nat
  /\ Targets \subseteq KeyOrNone
  /\ DirectSetters \subseteq
       AdminOpKinds \cup {"CLEAR_SPEND_LIMIT", "CLEAR_SANCTIONS_ORACLE"}

\* History variables: no guard reads them.
VARIABLES
  pendingBy,            \* the authority that nominated pendingAuthority
  complianceProposedAt  \* when the standing compliance nomination was proposed

historyVars == <<pendingBy, complianceProposedAt>>

Max2(a, b) == IF a >= b THEN a ELSE b

\* Mutant: BUG-019 before its fix.
EffectiveDelayConfigured(kind) == timelockDelay

\* BUG-019: a compliance transfer waits the default delay at least.
EffectiveDelay(kind) ==
  IF kind = "TRANSFER_COMPLIANCE_AUTHORITY"
    THEN Max2(timelockDelay, DEFAULT_ADMIN_TIMELOCK_DELAY)
    ELSE timelockDelay

\* The operations the authority may ask for: each kind reads only its own
\* parameter, so the ones it ignores are left at their neutral value.
Requests ==
  [kind : OpKinds \cap FlagOps, bits : Masks, num : {0}, target : {NoKey}]
  \cup [kind : OpKinds \cap KeyOps, bits : {{}}, num : {0}, target : Targets]
  \cup [kind : OpKinds \cap NumOps, bits : {{}}, num : Nums, target : {NoKey}]
  \cup [kind : OpKinds \cap NumKeyOps, bits : {{}}, num : Nums, target : Targets]
  \cup [kind : OpKinds \cap {"PAUSE", "UNPAUSE"}, bits : {{}}, num : {0},
        target : {NoKey}]

\* propose_timelocked_op: overwrites whatever was pending.
ProposeTimelockedOp(k, req) ==
  /\ AuthoritySigns(k)
  /\ req.kind # "UNPAUSE"
  /\ req.kind \in AdminOpKinds
  /\ adminOp' = [kind |-> req.kind, bits |-> req.bits, num |-> req.num,
                 target |-> req.target,
                 mature |-> slot + EffectiveDelay(req.kind),
                 proposedAt |-> slot]
  /\ UNCHANGED <<slot, roleVars, flags, paused, timelockDelay, settings,
                 historyVars>>

-----------------------------------------------------------------------------
(***************************************************************************)
(* execute_timelocked_op.  OpAllowed is the require! of the match arm, and *)
(* the six fields an arm may write are given their new values one by one.  *)
(***************************************************************************)
\* Mutant: an arm without its bounds on the parameter.
OpAllowedUnbounded(op) == ClearMaskAllowed(op.bits)

OpAllowed(op) ==
  CASE op.kind \in {"TRANSFER_AUTHORITY", "TRANSFER_COMPLIANCE_AUTHORITY"}
                                           -> op.target # NoKey
    [] op.kind = "CLEAR_FEATURE_FLAG"      -> ClearMaskAllowed(op.bits)
    [] op.kind = "SET_STABILITY_FEE"       -> op.num =< 10000
    [] op.kind = "SET_PSM_FEE"             -> op.num =< 1000
    [] op.kind = "SET_BACKSTOP_PARAMS"     -> op.num =< 10000
    [] op.kind = "SET_ORACLE_CONFIG"       -> op.num % 256 =< 2
    [] op.kind = "SET_MIN_RESERVE_RATIO"   -> op.num =< 20000
    [] op.kind = "SET_TIMELOCK_DELAY"      -> op.num >= MIN_TIMELOCK_DELAY
    [] OTHER                               -> TRUE

FlagsAfter(op) ==
  CASE op.kind = "SET_FEATURE_FLAG"   -> flags \cup op.bits
    [] op.kind = "CLEAR_FEATURE_FLAG" -> flags \ op.bits
    [] OTHER                          -> flags

\* The oracle parameters are (max_age_secs << 16 | max_conf_bps), unpacked to
\* u32 and u16 (the parameters here stay below 2^48, where the u32 cast drops
\* nothing); the oracle type keeps the low byte of its parameter.
SettingsAfter(op) ==
  CASE op.kind = "SET_PYTH_FEED" ->
         [settings EXCEPT !.expectedPythFeed = op.target,
                          !.oracleFeed = IF settings.oracleType = 0
                                           THEN op.target ELSE @]
    [] op.kind = "SET_ORACLE_PARAMS" ->
         [settings EXCEPT !.maxOracleAgeSecs = op.num \div 65536,
                          !.maxOracleConfBps = op.num % 65536]
    [] op.kind = "SET_STABILITY_FEE" -> [settings EXCEPT !.stabilityFeeBps = op.num]
    [] op.kind = "SET_PSM_FEE" -> [settings EXCEPT !.redemptionFeeBps = op.num]
    [] op.kind = "SET_BACKSTOP_PARAMS" ->
         [settings EXCEPT !.insuranceFund = op.target, !.maxBackstopBps = op.num]
    [] op.kind = "SET_SPEND_LIMIT" -> [settings EXCEPT !.maxTransferAmount = op.num]
    [] op.kind = "SET_ORACLE_CONFIG" ->
         [settings EXCEPT !.oracleType = op.num % 256, !.oracleFeed = op.target]
    [] op.kind = "SET_MIN_RESERVE_RATIO" ->
         [settings EXCEPT !.minReserveRatioBps = op.num]
    [] op.kind = "SET_TRAVEL_RULE_THRESHOLD" ->
         [settings EXCEPT !.travelRuleThreshold = op.num]
    [] op.kind = "SET_SANCTIONS_PARAMS" ->
         [settings EXCEPT !.sanctionsOracle = op.target,
                          !.sanctionsMaxStalenessSlots = op.num]
    [] OTHER -> settings

\* Mutant: the slot is not compared.
MaturedAtOnce(op) == TRUE

\* The timelock has run out.
Matured(op) == slot >= op.mature

\* Mutant: the executed operation stays pending.
OpAfterExecutionKept == adminOp

\* The last lines of execute: the pending operation is cleared.
OpAfterExecution == NoOp

ExecuteTimelockedOp(k) ==
  /\ AuthoritySigns(k)
  /\ adminOp.kind # ADMIN_OP_NONE
  /\ Matured(adminOp)
  /\ OpAllowed(adminOp)
  /\ pendingAuthority' = IF adminOp.kind = "TRANSFER_AUTHORITY"
                           THEN adminOp.target ELSE pendingAuthority
  /\ pendingBy' = IF adminOp.kind = "TRANSFER_AUTHORITY"
                    THEN authority ELSE pendingBy
  /\ pendingComplianceAuthority' =
       IF adminOp.kind = "TRANSFER_COMPLIANCE_AUTHORITY"
         THEN adminOp.target ELSE pendingComplianceAuthority
  /\ complianceProposedAt' =
       IF adminOp.kind = "TRANSFER_COMPLIANCE_AUTHORITY"
         THEN adminOp.proposedAt ELSE complianceProposedAt
  /\ flags' = FlagsAfter(adminOp)
  /\ settings' = SettingsAfter(adminOp)
  /\ timelockDelay' = IF adminOp.kind = "SET_TIMELOCK_DELAY"
                        THEN adminOp.num ELSE timelockDelay
  /\ paused' = IF adminOp.kind = "PAUSE" THEN TRUE ELSE paused
  /\ adminOp' = OpAfterExecution
  /\ UNCHANGED <<slot, authority, complianceAuthority, squadsMultisig, preset>>

\* cancel_timelocked_op.
CancelTimelockedOp(k) ==
  /\ AuthoritySigns(k)
  /\ adminOp.kind # ADMIN_OP_NONE
  /\ adminOp' = NoOp
  /\ UNCHANGED <<slot, roleVars, flags, paused, timelockDelay, settings,
                 historyVars>>

-----------------------------------------------------------------------------
(***************************************************************************)
(* Direct setters.  All but clear_sanctions_oracle are shut when the       *)
(* timelock is on; set_pyth_feed and set_oracle_params skip the Squads     *)
(* check.                                                                  *)
(***************************************************************************)
directUnchanged == <<slot, roleVars, opVars, historyVars>>

\* The direct setter called name is one the authority calls.
Direct(name, k) == /\ name \in DirectSetters
                   /\ RequireTimelockExecuted
                   /\ AuthoritySigns(k)

SetFeatureFlag(k, bits) ==
  /\ Direct("SET_FEATURE_FLAG", k)
  /\ DaoNotRequired
  /\ flags' = flags \cup bits
  /\ UNCHANGED <<directUnchanged, paused, settings>>

ClearFeatureFlag(k, bits) ==
  /\ Direct("CLEAR_FEATURE_FLAG", k)
  /\ ClearMaskAllowed(bits)
  /\ DaoNotRequired
  /\ flags' = flags \ bits
  /\ UNCHANGED <<directUnchanged, paused, settings>>

\* pause / unpause: does not look at a guardian pause.
Pause(k, b) ==
  /\ Direct("PAUSE", k)
  /\ DaoNotRequired
  /\ paused' = b
  /\ UNCHANGED <<directUnchanged, flags, settings>>

SetSpendLimit(k, n) ==
  /\ Direct("SET_SPEND_LIMIT", k)
  /\ n > 0
  /\ settings' = [settings EXCEPT !.maxTransferAmount = n]
  /\ flags' = flags \cup {FLAG_SPEND_POLICY}
  /\ UNCHANGED <<directUnchanged, paused>>

ClearSpendLimit(k) ==
  /\ Direct("CLEAR_SPEND_LIMIT", k)
  /\ settings' = [settings EXCEPT !.maxTransferAmount = 0]
  /\ flags' = flags \ {FLAG_SPEND_POLICY}
  /\ UNCHANGED <<directUnchanged, paused>>

SetPythFeed(k, feed) ==
  /\ "SET_PYTH_FEED" \in DirectSetters
  /\ RequireTimelockExecuted
  /\ IsAuthority(k)
  /\ settings' = [settings EXCEPT !.expectedPythFeed = feed]
  /\ UNCHANGED <<directUnchanged, flags, paused>>

SetOracleParams(k, age, conf) ==
  /\ "SET_ORACLE_PARAMS" \in DirectSetters
  /\ RequireTimelockExecuted
  /\ IsAuthority(k)
  /\ settings' = [settings EXCEPT !.maxOracleAgeSecs = age,
                                  !.maxOracleConfBps = conf]
  /\ UNCHANGED <<directUnchanged, flags, paused>>

SetOracleConfig(k, type, feed) ==
  /\ Direct("SET_ORACLE_CONFIG", k)
  /\ type \in 0..2
  /\ settings' = [settings EXCEPT !.oracleType = type, !.oracleFeed = feed]
  /\ UNCHANGED <<directUnchanged, flags, paused>>

SetTravelRuleThreshold(k, n) ==
  /\ Direct("SET_TRAVEL_RULE_THRESHOLD", k)
  /\ FLAG_TRAVEL_RULE \in flags => n > 0
  /\ settings' = [settings EXCEPT !.travelRuleThreshold = n]
  /\ UNCHANGED <<directUnchanged, flags, paused>>

SetSanctionsOracle(k, oracle, staleness) ==
  /\ Direct("SET_SANCTIONS_PARAMS", k)
  /\ settings' = [settings EXCEPT !.sanctionsOracle = oracle,
                                  !.sanctionsMaxStalenessSlots = staleness]
  /\ flags' = flags \cup {FLAG_SANCTIONS_ORACLE}
  /\ UNCHANGED <<directUnchanged, paused>>

\* clear_sanctions_oracle never asks for the timelock.
ClearSanctionsOracle(k) ==
  /\ "CLEAR_SANCTIONS_ORACLE" \in DirectSetters
  /\ AuthoritySigns(k)
  /\ settings' = [settings EXCEPT !.sanctionsOracle = NoKey,
                                  !.sanctionsMaxStalenessSlots = 0]
  /\ flags' = flags \ {FLAG_SANCTIONS_ORACLE}
  /\ UNCHANGED <<directUnchanged, paused>>

TimelockNext ==
  \E k \in Keys :
    \/ \E req \in Requests : ProposeTimelockedOp(k, req)
    \/ ExecuteTimelockedOp(k)
    \/ CancelTimelockedOp(k)
    \/ \E bits \in Masks : SetFeatureFlag(k, bits) \/ ClearFeatureFlag(k, bits)
    \/ \E b \in BOOLEAN : Pause(k, b)
    \/ \E n \in Nums : SetSpendLimit(k, n) \/ SetTravelRuleThreshold(k, n)
    \/ ClearSpendLimit(k) \/ ClearSanctionsOracle(k)
    \/ \E t \in Targets : SetPythFeed(k, t)
    \/ \E age, conf \in Nums : SetOracleParams(k, age, conf)
    \/ \E n \in Nums, t \in Targets : SetOracleConfig(k, n, t)
                                      \/ SetSanctionsOracle(k, t, n)

=============================================================================
