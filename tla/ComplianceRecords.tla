-------------------------- MODULE ComplianceRecords --------------------------
(***************************************************************************)
(* The records about wallets that others write and the hook reads: proofs  *)
(* of compliance (zk_compliance.rs), credentials (zk_credential.rs),       *)
(* sanctions (sanctions_oracle.rs) and travel-rule data (travel_rule.rs).  *)
(* Proofs are not checked on chain: what counts is who signs.              *)
(***************************************************************************)
EXTENDS TransferLedger

CONSTANTS
  Verifiers,      \* values of verifier_pubkey, NoKey for None
  Issuers,        \* values of the registry's issuer
  Roots,          \* Merkle roots
  Oracles,        \* sanctions oracles that get registered
  Cosigners,      \* keys that may sign beside the wallet
  Lifetimes,      \* values of ttl_slots and credential_ttl_slots
  DEFAULT_TTL_SLOTS,   \* 1_500 in the code
  Stalenesses,    \* values of sanctions_max_staleness_slots
  Thresholds,     \* values of travel_rule_threshold
  Nonces          \* nonces of travel-rule records

ASSUME RecordAssumption ==
  /\ Lifetimes \cup Stalenesses \cup Thresholds \subseteq Nat
  /\ DEFAULT_TTL_SLOTS \in Nat \ {0}
  /\ NoKey \notin Issuers \cup Oracles \cup Cosigners

VARIABLES
  zk,          \* the ZkComplianceConfig account
  verified,    \* the VerificationRecord of each wallet
  registry,    \* the CredentialRegistry account
  credential,  \* the CredentialRecord of each wallet
  screening,   \* sanctions_oracle and its staleness in the configuration
  sanctions,   \* the SanctionsRecord of each wallet
  threshold,   \* travel_rule_threshold
  travel,      \* the TravelRuleRecord of each nonce
  vouched,     \* history: the slot of the last signature for a wallet
  barred,      \* history: wallets whose last word from the issuer is a revocation
  flagged      \* history: wallets whose last word from an oracle is "sanctioned"

recordVars == <<zk, verified, registry, credential, screening, sanctions, threshold,
                travel, vouched, barred, flagged>>
zkVars == <<zk, verified>>
credentialVars == <<registry, credential, barred>>
sanctionVars == <<screening, sanctions, flagged>>
travelVars == <<threshold, travel>>

NoZk == [open |-> FALSE, ttl |-> 0, verifier |-> NoKey]
NoVerification == [open |-> FALSE, expires |-> 0]
NoRegistry == [open |-> FALSE, issuer |-> NoKey, root |-> 0, ttl |-> 0]
NoCredential == [open |-> FALSE, expires |-> 0, revoked |-> FALSE]
NoScreening == [oracle |-> NoKey, staleness |-> 0]
NoSanction == [open |-> FALSE, sanctioned |-> FALSE, updated |-> 0]
NoTravel == [open |-> FALSE, amount |-> 0, beneficiary |-> NoKey, originator |-> NoKey]

InitRecords ==
  /\ zk = NoZk /\ verified = [w \in Wallets |-> NoVerification]
  /\ registry = NoRegistry /\ credential = [w \in Wallets |-> NoCredential]
  /\ screening = NoScreening /\ sanctions = [w \in Wallets |-> NoSanction]
  /\ threshold = 0 /\ travel = [n \in Nonces |-> NoTravel]
  /\ vouched = [w \in Wallets |-> [verifier |-> 0, issuer |-> 0]]
  /\ barred = {} /\ flagged = {}

\* The instructions that create an account switch its flag on with it.
Enable(f) == /\ f \in rules
             /\ flags' = flags \cup {f}
             /\ UNCHANGED <<slot, rules, maxTransfer, compliance, balance, frozen,
                            blacklist>>

-----------------------------------------------------------------------------
(***************************************************************************)
(* zk_compliance.rs                                                        *)
(***************************************************************************)
InitZkCompliance(ttl, verifier) ==
  /\ ~zk.open
  /\ Enable(FLAG_ZK_COMPLIANCE)
  /\ zk' = [open |-> TRUE, verifier |-> verifier,
            ttl |-> IF ttl = 0 THEN DEFAULT_TTL_SLOTS ELSE ttl]
  /\ UNCHANGED <<verified, credentialVars, sanctionVars, travelVars, vouched>>

\* The wallet signs, and k beside it; without a verifier k does not matter.
SubmitZkProof(w, k) ==
  /\ zk.open
  /\ FLAG_ZK_COMPLIANCE \in flags
  /\ zk.verifier # NoKey => k = zk.verifier
  /\ verified' = [verified EXCEPT ![w] = [open |-> TRUE, expires |-> slot + zk.ttl]]
  /\ vouched' = [vouched EXCEPT ![w].verifier = slot]
  /\ UNCHANGED <<ledgerVars, zk, credentialVars, sanctionVars, travelVars>>

\* Authority only, and only once the record no longer counts.
CloseVerificationRecord(w) ==
  /\ verified[w].open
  /\ slot >= verified[w].expires
  /\ verified' = [verified EXCEPT ![w] = NoVerification]
  /\ UNCHANGED <<ledgerVars, zk, credentialVars, sanctionVars, travelVars, vouched>>

\* What the hook asks of a sender.
ZkOk(w) == FLAG_ZK_COMPLIANCE \in flags => /\ verified[w].open
                                           /\ slot < verified[w].expires

-----------------------------------------------------------------------------
(***************************************************************************)
(* zk_credential.rs                                                        *)
(***************************************************************************)
InitCredentialRegistry(issuer, root, ttl) ==
  /\ ~registry.open
  /\ Enable(FLAG_ZK_CREDENTIALS)
  /\ registry' = [open |-> TRUE, issuer |-> issuer, root |-> root, ttl |-> ttl]
  /\ UNCHANGED <<zkVars, credential, barred, sanctionVars, travelVars, vouched>>

RotateCredentialRoot(k, root) ==
  /\ registry.open /\ k = registry.issuer
  /\ registry' = [registry EXCEPT !.root = root]
  /\ UNCHANGED <<ledgerVars, zkVars, credential, barred, sanctionVars, travelVars,
                 vouched>>

\* Mutant: the proof's root vouches for the holder.
IssuerSignsNone(k) == TRUE

IssuerSigns(k) == k = registry.issuer

\* verify_zk_credential: the holder and k sign; root is the one in the public
\* signals.  It also renews, and lifts a revocation.
VerifyZkCredential(w, k, root) ==
  /\ registry.open
  /\ IssuerSigns(k)
  /\ FLAG_ZK_CREDENTIALS \in flags
  /\ root = registry.root
  /\ credential' = [credential EXCEPT ![w] =
       [open |-> TRUE, revoked |-> FALSE,
        expires |-> IF registry.ttl = 0 THEN 0 ELSE slot + registry.ttl]]
  /\ vouched' = IF k = registry.issuer THEN [vouched EXCEPT ![w].issuer = slot]
                                       ELSE vouched
  /\ barred' = IF k = registry.issuer THEN barred \ {w} ELSE barred
  /\ UNCHANGED <<ledgerVars, zkVars, registry, sanctionVars, travelVars>>

RevokeCredential(k, w) ==
  /\ registry.open /\ k = registry.issuer
  /\ credential[w].open
  /\ credential' = [credential EXCEPT ![w].revoked = TRUE]
  /\ barred' = barred \cup {w}
  /\ UNCHANGED <<ledgerVars, zkVars, registry, sanctionVars, travelVars, vouched>>

\* The holder, a revoked one too.
CloseCredentialRecord(w) ==
  /\ credential[w].open
  /\ credential' = [credential EXCEPT ![w] = NoCredential]
  /\ UNCHANGED <<ledgerVars, zkVars, registry, barred, sanctionVars, travelVars,
                 vouched>>

CredentialOk(w) ==
  FLAG_ZK_CREDENTIALS \in flags =>
    /\ credential[w].open
    /\ ~credential[w].revoked
    /\ credential[w].expires > 0 => slot =< credential[w].expires

-----------------------------------------------------------------------------
(***************************************************************************)
(* sanctions_oracle.rs                                                     *)
(***************************************************************************)
SetSanctionsOracle(oracle, staleness) ==
  /\ Enable(FLAG_SANCTIONS_ORACLE)
  /\ screening' = [oracle |-> oracle, staleness |-> staleness]
  /\ UNCHANGED <<zkVars, credentialVars, sanctions, flagged, travelVars, vouched>>

ClearSanctionsOracle ==
  /\ FLAG_SANCTIONS_ORACLE \in rules
  /\ screening' = NoScreening
  /\ flags' = flags \ {FLAG_SANCTIONS_ORACLE}
  /\ UNCHANGED <<slot, rules, maxTransfer, compliance, balance, frozen, blacklist,
                 zkVars, credentialVars, sanctions, flagged, travelVars, vouched>>

UpdateSanctionsRecord(k, w, is) ==
  /\ FLAG_SANCTIONS_ORACLE \in flags /\ k = screening.oracle
  /\ sanctions' = [sanctions EXCEPT ![w] =
                     [open |-> TRUE, sanctioned |-> is, updated |-> slot]]
  /\ flagged' = IF is THEN flagged \cup {w} ELSE flagged \ {w}
  /\ UNCHANGED <<ledgerVars, zkVars, credentialVars, screening, travelVars, vouched>>

CloseSanctionsRecord(k, w) ==
  /\ k = screening.oracle
  /\ sanctions[w].open
  /\ sanctions' = [sanctions EXCEPT ![w] = NoSanction]
  /\ flagged' = flagged \ {w}
  /\ UNCHANGED <<ledgerVars, zkVars, credentialVars, screening, travelVars, vouched>>

Stale(w) == /\ screening.staleness > 0
            /\ slot - sanctions[w].updated > screening.staleness

\* Mutant: a record that is too old is passed over.
SanctionsOkFreshOnly(w) ==
  /\ FLAG_SANCTIONS_ORACLE \in flags
  /\ screening.oracle # NoKey
  => ~sanctions[w].open \/ ~sanctions[w].sanctioned \/ Stale(w)

\* A stale record that says "sanctioned" is refused for its age, a fresh one
\* for what it says.
SanctionsOk(w) ==
  /\ FLAG_SANCTIONS_ORACLE \in flags
  /\ screening.oracle # NoKey
  => \/ ~sanctions[w].open
     \/ ~sanctions[w].sanctioned

-----------------------------------------------------------------------------
(***************************************************************************)
(* travel_rule.rs.  verify_travel_rule_if_required has no caller.          *)
(***************************************************************************)
SetTravelRuleThreshold(n) ==
  /\ FLAG_TRAVEL_RULE \in rules
  /\ FLAG_TRAVEL_RULE \in flags => n > 0
  /\ threshold' = n
  /\ UNCHANGED <<ledgerVars, zkVars, credentialVars, sanctionVars, travel, vouched>>

SubmitTravelRuleRecord(k, nonce, amount, beneficiary) ==
  /\ FLAG_TRAVEL_RULE \in rules
  /\ ~travel[nonce].open
  /\ amount > 0
  /\ FLAG_TRAVEL_RULE \in flags => threshold > 0
  /\ travel' = [travel EXCEPT ![nonce] = [open |-> TRUE, amount |-> amount,
                  beneficiary |-> beneficiary, originator |-> k]]
  /\ UNCHANGED <<ledgerVars, zkVars, credentialVars, sanctionVars, threshold, vouched>>

CloseTravelRuleRecord(k, nonce) ==
  /\ travel[nonce].open
  /\ k = travel[nonce].originator
  /\ travel' = [travel EXCEPT ![nonce] = NoTravel]
  /\ UNCHANGED <<ledgerVars, zkVars, credentialVars, sanctionVars, threshold, vouched>>

-----------------------------------------------------------------------------
RecordNext ==
  \/ \E ttl \in Lifetimes :
       \/ \E v \in Verifiers : InitZkCompliance(ttl, v)
       \/ \E i \in Issuers, r \in Roots : InitCredentialRegistry(i, r, ttl)
  \/ \E k \in Cosigners, r \in Roots : RotateCredentialRoot(k, r)
  \/ \E o \in Oracles, n \in Stalenesses : SetSanctionsOracle(o, n)
  \/ ClearSanctionsOracle
  \/ \E n \in Thresholds : SetTravelRuleThreshold(n)
  \/ \E w \in Wallets :
       \/ CloseVerificationRecord(w) \/ CloseCredentialRecord(w)
       \/ \E k \in Cosigners :
            \/ SubmitZkProof(w, k) \/ RevokeCredential(k, w)
            \/ \E r \in Roots : VerifyZkCredential(w, k, r)
       \/ \E k \in Oracles :
            \/ CloseSanctionsRecord(k, w)
            \/ \E is \in BOOLEAN : UpdateSanctionsRecord(k, w, is)
  \/ \E k, b \in Wallets, nonce \in Nonces :
       \/ CloseTravelRuleRecord(k, nonce)
       \/ \E n \in Amounts : SubmitTravelRuleRecord(k, nonce, n, b)

RecordTypeOK ==
  /\ zk \in [open : BOOLEAN, ttl : Nat, verifier : Verifiers \cup {NoKey}]
  /\ verified \in [Wallets -> [open : BOOLEAN, expires : Nat]]
  /\ registry \in [open : BOOLEAN, issuer : Issuers \cup {NoKey}, root : Roots \cup {0},
                   ttl : Nat]
  /\ credential \in [Wallets -> [open : BOOLEAN, expires : Nat, revoked : BOOLEAN]]
  /\ screening \in [oracle : Oracles \cup {NoKey}, staleness : Nat]
  /\ sanctions \in [Wallets -> [open : BOOLEAN, sanctioned : BOOLEAN,
                                updated : 0..MaxSlot]]
  /\ threshold \in Nat
  /\ travel \in [Nonces -> [open : BOOLEAN, amount : Nat,
                            beneficiary : Wallets \cup {NoKey},
                            originator : Wallets \cup {NoKey}]]
  /\ vouched \in [Wallets -> [verifier : 0..MaxSlot, issuer : 0..MaxSlot]]
  /\ barred \subseteq Wallets /\ flagged \subseteq Wallets

=============================================================================
