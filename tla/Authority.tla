----------------------------- MODULE Authority -----------------------------
(***************************************************************************)
(* Who holds config.authority: the two-step transfer (update_roles.rs,     *)
(* accept_authority.rs), the rotation with a timelock and a backup key     *)
(* (authority_rotation.rs) and the hand-over to a Squads multisig          *)
(* (squads_authority.rs).                                                  *)
(***************************************************************************)
EXTENDS AdminTimelock

CONSTANTS
  ROTATION_TIMELOCK_SLOTS,   \* 432_000 in the code
  EMERGENCY_RECOVERY_SLOTS,  \* 7 * 432_000 in the code
  RotationKeys               \* keys a rotation may name

ASSUME RotationAssumption ==
  /\ ROTATION_TIMELOCK_SLOTS \in Nat /\ EMERGENCY_RECOVERY_SLOTS \in Nat
  /\ ROTATION_TIMELOCK_SLOTS < EMERGENCY_RECOVERY_SLOTS
  /\ RotationKeys \subseteq Keys

VARIABLE rotation  \* the AuthorityRotationRequest account; NoRequest if closed

NoRequest == [open |-> FALSE, currentAuthority |-> NoKey, newAuthority |-> NoKey,
              backupAuthority |-> NoKey, proposedSlot |-> 0]

authorityUnchanged == <<slot, flags, paused, opVars, settings>>

\* update_roles, authority half: only with a zero delay.  The compliance
\* half always fails.  Pubkey::default() withdraws the nomination.
UpdateRoles(k, proposed) ==
  /\ AuthoritySigns(k)
  /\ timelockDelay = 0
  /\ pendingAuthority' = proposed
  /\ pendingBy' = authority
  /\ UNCHANGED <<authorityUnchanged, authority, complianceAuthority,
                 pendingComplianceAuthority, squadsMultisig, preset,
                 complianceProposedAt, rotation>>

\* accept_authority.
AcceptAuthority(k) ==
  /\ pendingAuthority # NoKey
  /\ k = pendingAuthority
  /\ authority' = pendingAuthority
  /\ pendingAuthority' = NoKey
  /\ UNCHANGED <<authorityUnchanged, complianceAuthority,
                 pendingComplianceAuthority, squadsMultisig, preset,
                 historyVars, rotation>>

\* accept_compliance_authority.
AcceptComplianceAuthority(k) ==
  /\ pendingComplianceAuthority # NoKey
  /\ k = pendingComplianceAuthority
  /\ complianceAuthority' = pendingComplianceAuthority
  /\ pendingComplianceAuthority' = NoKey
  /\ UNCHANGED <<authorityUnchanged, authority, pendingAuthority,
                 squadsMultisig, preset, historyVars, rotation>>

-----------------------------------------------------------------------------
\* propose_authority_rotation: one request at a time.
ProposeAuthorityRotation(k, new, backup) ==
  /\ AuthoritySigns(k)
  /\ ~rotation.open
  /\ new # authority /\ backup # authority /\ backup # new
  /\ new # NoKey /\ backup # NoKey
  /\ rotation' = [open |-> TRUE, currentAuthority |-> authority,
                  newAuthority |-> new, backupAuthority |-> backup,
                  proposedSlot |-> slot]
  /\ UNCHANGED <<slot, configVars, historyVars>>

\* Mutant: the nomination survives.
PendingAfterRotationKept == pendingAuthority

\* What accept and emergency recovery share: the config's authority is
\* replaced without being compared with the request's current_authority, a
\* standing nomination is dropped and the request is closed.
PendingAfterRotation == NoKey

RotateTo(k) ==
  /\ authority' = k
  /\ pendingAuthority' = PendingAfterRotation
  /\ rotation' = NoRequest
  /\ UNCHANGED <<authorityUnchanged, complianceAuthority,
                 pendingComplianceAuthority, squadsMultisig, preset,
                 historyVars>>

\* accept_authority_rotation.
AcceptAuthorityRotation(k) ==
  /\ rotation.open
  /\ k = rotation.newAuthority
  /\ slot >= rotation.proposedSlot + ROTATION_TIMELOCK_SLOTS
  /\ RotateTo(rotation.newAuthority)

\* emergency_recover_authority.
EmergencyRecoverAuthority(k) ==
  /\ rotation.open
  /\ k = rotation.backupAuthority
  /\ slot >= rotation.proposedSlot + EMERGENCY_RECOVERY_SLOTS
  /\ RotateTo(rotation.backupAuthority)

\* cancel_authority_rotation: the signer is both the authority of the
\* config and the one that made the request.
CancelAuthorityRotation(k) ==
  /\ AuthoritySigns(k)
  /\ rotation.open
  /\ k = rotation.currentAuthority
  /\ rotation' = NoRequest
  /\ UNCHANGED <<slot, configVars, historyVars>>

-----------------------------------------------------------------------------
\* init_squads_authority: once, at once, and without the timelock.  The
\* member list is kept for clients only.
InitSquadsAuthority(k, multisig) ==
  /\ IsAuthority(k)
  /\ squadsMultisig = NoKey
  /\ multisig # NoKey
  /\ authority' = multisig
  /\ squadsMultisig' = multisig
  /\ preset' = PRESET_INSTITUTIONAL
  /\ flags' = flags \cup {FLAG_SQUADS_AUTHORITY}
  /\ UNCHANGED <<slot, complianceAuthority, pendingAuthority,
                 pendingComplianceAuthority, paused, opVars, settings,
                 historyVars, rotation>>

AuthorityNext ==
  \E k \in Keys :
    \/ \E t \in Targets : UpdateRoles(k, t)
    \/ AcceptAuthority(k)
    \/ AcceptComplianceAuthority(k)
    \/ \E new, backup \in RotationKeys : ProposeAuthorityRotation(k, new, backup)
    \/ AcceptAuthorityRotation(k)
    \/ EmergencyRecoverAuthority(k)
    \/ CancelAuthorityRotation(k)
    \/ \E m \in Targets : InitSquadsAuthority(k, m)

=============================================================================
