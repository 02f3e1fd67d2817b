---------------------------- MODULE TransferHook ----------------------------
(***************************************************************************)
(* A transfer of the token: Token-2022 calls transfer_hook in              *)
(* transfer-hook/src/lib.rs, which asks the blacklist, the spend policy,   *)
(* the compliance records and the rate limit, each under its flag.         *)
(*                                                                         *)
(* The hook is taken to be handed the accounts it looks for; how           *)
(* Token-2022 resolves them is not modelled.  No instruction creates the   *)
(* DelegateConsent account that the last check looks for, so there the     *)
(* owner has to sign.                                                      *)
(***************************************************************************)
EXTENDS WalletRateLimit, ComplianceRecords

vars == <<ledgerVars, limitVars, recordVars>>

Init == InitLedger /\ InitLimits /\ InitRecords

-----------------------------------------------------------------------------
SpendPolicyOk(n) ==
  FLAG_SPEND_POLICY \in flags => /\ FLAG_CONFIDENTIAL_TRANSFERS \notin flags
                                 /\ n =< maxTransfer

ConsentOk(w, signer) == FLAG_REQUIRE_OWNER_CONSENT \in flags => signer = w

NotListed(w) == blacklist.open /\ w \notin blacklist.listed

\* n tokens of w go to v; signer is the owner or the permanent delegate.
Transfer(w, v, n, signer) ==
  /\ w # v
  /\ n =< balance[w]
  /\ w \notin frozen /\ v \notin frozen
  /\ NotListed(w) /\ NotListed(v)
  /\ SpendPolicyOk(n)
  /\ ZkOk(w)
  /\ SanctionsOk(w)
  /\ CredentialOk(w)
  /\ RateLimited(w, n)
  /\ ConsentOk(w, signer)
  /\ balance' = [balance EXCEPT ![w] = @ - n, ![v] = @ + n]
  /\ UNCHANGED <<slot, rules, flags, maxTransfer, compliance, frozen, blacklist,
                 recordVars>>

LedgerStep == LedgerNext /\ UNCHANGED <<limitVars, recordVars>>
LimitStep == LimitNext /\ UNCHANGED recordVars
RecordStep == RecordNext /\ UNCHANGED limitVars
ClockStep == SlotPasses /\ UNCHANGED <<limitVars, recordVars>>

Next ==
  \/ LedgerStep \/ LimitStep \/ RecordStep \/ ClockStep
  \/ \E w, v \in Wallets, n \in Amounts :
       \E signer \in {w, Delegate} : Transfer(w, v, n, signer)

Spec == Init /\ [][Next]_vars

-----------------------------------------------------------------------------
\* Type invariant.
TypeOK == LedgerTypeOK /\ LimitTypeOK /\ RecordTypeOK

\* The blacklist stays within the room of its account, no window counts more
\* than its allowance, and no wallet moves more than two allowances in any
\* window (transfer-hook/src/lib.rs, wallet_rate_limit.rs).
AllowancesHold == TypeOK /\ RateLimitHolds

\* w gives up tokens in this step.
Sends(w) == balance'[w] < balance[w]

\* zk_credential.rs and zk_compliance.rs: whoever sends while the flag is on
\* was vouched for by the issuer, and by the verifier if there is one, no
\* longer ago than the lifetime of the record, and was not revoked since, even
\* if the holder closed the revoked record or the root was rotated.
SendersVouchedFor ==
  [][\A w \in Wallets : Sends(w) =>
       /\ FLAG_ZK_CREDENTIALS \in flags =>
            /\ w \notin barred
            /\ vouched[w].issuer > 0
            /\ registry.ttl > 0 => slot - vouched[w].issuer =< registry.ttl
       /\ FLAG_ZK_COMPLIANCE \in flags =>
            /\ vouched[w].verifier > 0
            /\ slot - vouched[w].verifier < zk.ttl]_vars

\* sanctions_oracle.rs: with an oracle registered, a wallet whose last word
\* from any oracle was "sanctioned" sends nothing, however old that word is
\* and whether or not the oracle has changed since.
SanctionsOutliveStaleness ==
  [][\A w \in flagged :
       FLAG_SANCTIONS_ORACLE \in flags /\ screening.oracle # NoKey => ~Sends(w)]_vars

=============================================================================
