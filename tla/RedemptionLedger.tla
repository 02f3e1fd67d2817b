-------------------------- MODULE RedemptionLedger --------------------------
(***************************************************************************)
(* What the three redemption rails of a stablecoin share: the holders'     *)
(* tokens, the counters of the config, and the collateral they pay from.   *)
(* Queue and guarantee pay from an account whose owner signs beside the    *)
(* keeper (deskVault); the pool has a vault of its own.  The account that  *)
(* receives collateral is named by the caller and read by nothing here, so *)
(* a payment only lowers the vault.                                        *)
(*                                                                         *)
(* Instructions of the authority are plain actions: who the authority is,  *)
(* is the matter of module Governance.  Slots are counted as ages: an      *)
(* account keeps how many slots passed since it was written, and stops     *)
(* counting at MaxAge, past every delay in use.                            *)
(***************************************************************************)
EXTENDS Integers, FiniteSets

CONSTANTS
  Holders,      \* wallets that redeem
  NoHolder,     \* the owner of an account not yet created
  Amounts,      \* amounts given to instructions
  InitBalance,  \* what each holder starts with
  InitVault,    \* collateral in deskVault, and on record, at the start
  BPS,          \* 10_000 in the code
  MaxAge,       \* ages saturate here
  MaxSupply     \* bound on what Issue mints

ASSUME LedgerAssumption ==
  /\ IsFiniteSet(Holders) /\ NoHolder \notin Holders
  /\ Amounts \subseteq Nat
  /\ InitBalance \in Nat /\ InitVault \in Nat
  /\ BPS \in Nat \ {0} /\ MaxAge \in Nat \ {0} /\ MaxSupply \in Nat

VARIABLES
  balance,          \* Token-2022: stable tokens of each holder
  supply,           \* Token-2022: Mint.supply
  totalMinted,      \* the config's counters
  totalBurned,
  totalCollateral,
  deskVault         \* collateral the queue and the guarantee pay from

ledgerVars == <<balance, supply, totalMinted, totalBurned, totalCollateral, deskVault>>

InitLedger ==
  /\ balance = [h \in Holders |-> InitBalance]
  /\ supply = Cardinality(Holders) * InitBalance
  /\ totalMinted = supply
  /\ totalBurned = 0
  /\ totalCollateral = InitVault
  /\ deskVault = InitVault

\* A minter mints to a holder (module Issuance).
Issue(h, n) ==
  /\ supply + n =< MaxSupply
  /\ balance' = [balance EXCEPT ![h] = @ + n]
  /\ supply' = supply + n
  /\ totalMinted' = totalMinted + n
  /\ UNCHANGED <<totalBurned, totalCollateral, deskVault>>

Older(age) == IF age < MaxAge THEN age + 1 ELSE age
Least(m, n) == IF m =< n THEN m ELSE n
Most(m, n) == IF m >= n THEN m ELSE n

=============================================================================
