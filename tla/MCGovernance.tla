---------------------------- MODULE MCGovernance ----------------------------
(***************************************************************************)
(* Governance for TLC: the sets the configurations name.                   *)
(***************************************************************************)
EXTENDS Governance

CONSTANTS a, b, c, none

mcNone == {}
mcN == {none}
mcB == {b}
mcA == {a}
mcAB == {a, b}
mcABC == {a, b, c}
mcAN == {a, none}

\* Kinds of timelocked operation.
mcClearFlagOps == {"CLEAR_FEATURE_FLAG"}
mcAllOps == AdminOpKinds \cup {"UNPAUSE"}
mcPauseOps == {"PAUSE"}

mcAllDirect == AdminOpKinds \cup {"CLEAR_SPEND_LIMIT", "CLEAR_SANCTIONS_ORACLE"}
mcDirectPause == {"PAUSE"}

mcNoFlags == {{}}
mcArmed == {{FLAG_CIRCUIT_BREAKER}}
mcFeeMasks == {{FLAG_PID_FEE_CONTROL}, {FLAG_SQUADS_AUTHORITY}}
mcDaoMasks == {{FLAG_CIRCUIT_BREAKER}, {FLAG_DAO_COMMITTEE}, {FLAG_SQUADS_AUTHORITY}}
mcBand == {[min |-> 1, max |-> 2]}

mcCouncilBC == {{b, c}}
mcCommittees == {{b, c}}
mcDaoActions == ProposalActions

Changed == {f \in DOMAIN settings : settings[f] # NoSettings[f]}

\* Bounds: at most one of the guarded settings differs from its initial value
\* at a time, and only the spend limit may once there is a committee; beside
\* the fee controller, no hand-over is under way and the timelock is busy with
\* nothing but the fee, the flags and the delay.
FewSettings ==
  /\ Cardinality(Changed) =< 1
  /\ committee # NoCommittee => Changed \subseteq {"maxTransferAmount"}
  /\ pidConfig.open =>
       /\ ~rotation.open
       /\ pendingAuthority = NoKey /\ pendingComplianceAuthority = NoKey
       /\ adminOp.kind \in {ADMIN_OP_NONE, "SET_STABILITY_FEE", "CLEAR_FEATURE_FLAG",
                            "SET_TIMELOCK_DELAY"}

=============================================================================
