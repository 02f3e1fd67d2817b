------------------------- MODULE ProbabilisticVault -------------------------
(***************************************************************************)
(* pbs.rs: an issuer locks tokens for a claimant, who is paid on showing   *)
(* the preimage of a hash; after the expiry slot anyone may send what      *)
(* remains back to the issuer.  The hash is taken to be injective: the     *)
(* condition is the secret itself.                                         *)
(***************************************************************************)
EXTENDS EscrowLedger

CONSTANTS
  Secrets,      \* preimages a claimant may show
  NoSecret,     \* the condition of a vault not yet created
  Conditions,   \* secrets issuers make payment depend on
  Lifetimes     \* slots from the commitment to its expiry_slot

ASSUME VaultAssumption ==
  /\ Conditions \subseteq Secrets /\ NoSecret \notin Secrets
  /\ Lifetimes \subseteq 0..MaxAge

VARIABLES
  vaultsOn,   \* FLAG_PROBABILISTIC_MONEY is set and the config not paused
  vaults      \* the ProbabilisticVault accounts

vaultVars == <<vaultsOn, vaults>>

NoVault == [status |-> "None", issuer |-> Nobody, claimant |-> Nobody, committed |-> 0,
            resolved |-> 0, condition |-> NoSecret, lifetime |-> 0, age |-> 0]

InitVaults ==
  /\ vaultsOn = FALSE
  /\ vaults = [i \in Ids |-> NoVault]

VaultRemaining(i) == vaults[i].committed - vaults[i].resolved

\* is_terminal; no handler sets PartiallyResolved, which the code also tests.
VaultClosed(i) == vaults[i].status \in {"Resolved", "Expired"}
VaultOpen(i) == vaults[i].status = "Pending"

VaultGateMoves ==
  /\ vaultsOn' = ~vaultsOn
  /\ UNCHANGED <<tokenVars, vaults>>

CommitProbabilistic(i, k, claimant, n, condition, lifetime) ==
  /\ vaultsOn
  /\ vaults[i].status = "None"
  /\ n > 0
  /\ lifetime > 0
  /\ Lock(i, k, n)
  /\ vaults' = [vaults EXCEPT ![i] =
       [status |-> "Pending", issuer |-> k, claimant |-> claimant, committed |-> n,
        resolved |-> 0, condition |-> condition, lifetime |-> lifetime, age |-> 0]]
  /\ UNCHANGED vaultsOn

\* prove_and_resolve: before or after the expiry slot.
ProveAndResolve(i, secret) ==
  /\ VaultOpen(i)
  /\ secret = vaults[i].condition
  /\ VaultRemaining(i) > 0
  /\ PayOut(i, vaults[i].claimant, VaultRemaining(i), vaults[i].issuer, 0)
  /\ vaults' = [vaults EXCEPT ![i].resolved = vaults[i].committed,
                              ![i].status = "Resolved"]
  /\ UNCHANGED vaultsOn

StatusAfterPart(i, x) == "Resolved"

\* partial_resolve: what the claimant does not take goes back at once.
PartialResolve(i, x, secret) ==
  /\ VaultOpen(i)
  /\ secret = vaults[i].condition
  /\ x > 0
  /\ x =< VaultRemaining(i)
  /\ PayOut(i, vaults[i].claimant, x, vaults[i].issuer, VaultRemaining(i) - x)
  /\ vaults' = [vaults EXCEPT ![i].resolved = vaults[i].committed,
                              ![i].status = StatusAfterPart(i, x)]
  /\ UNCHANGED vaultsOn

\* expire_and_refund: anyone.
ExpireAndRefund(i) ==
  /\ VaultOpen(i)
  /\ vaults[i].age >= vaults[i].lifetime
  /\ PayOut(i, vaults[i].claimant, 0, vaults[i].issuer, VaultRemaining(i))
  /\ vaults' = [vaults EXCEPT ![i].status = "Expired"]
  /\ UNCHANGED vaultsOn

\* A slot passes.
VaultTick ==
  /\ vaults' = [i \in Ids |-> IF VaultOpen(i)
                  THEN [vaults[i] EXCEPT !.age = Older(@)] ELSE vaults[i]]
  /\ UNCHANGED vaultsOn

\* The instructions on one vault.
VaultNext(i) ==
  \/ \E secret \in Secrets :
       \/ ProveAndResolve(i, secret)
       \/ \E x \in Amounts : PartialResolve(i, x, secret)
  \/ ExpireAndRefund(i)

-----------------------------------------------------------------------------
VaultTypeOK ==
  /\ vaultsOn \in BOOLEAN
  /\ vaults \in [Ids ->
       [status : {"None", "Pending", "Resolved", "Expired"},
        issuer : Agents \cup {Nobody}, claimant : Agents \cup {Nobody},
        committed : Nat, resolved : Nat, condition : Conditions \cup {NoSecret},
        lifetime : 0..MaxAge, age : 0..MaxAge]]

=============================================================================
