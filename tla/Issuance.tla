------------------------------ MODULE Issuance ------------------------------
(***************************************************************************)
(* How tokens of one stablecoin come to exist and cease to exist, and how  *)
(* its reserve vault is filled and drawn on: mint.rs, cpi_mint.rs,         *)
(* burn.rs, cpi_burn.rs, update_minter.rs, revoke_minter.rs,               *)
(* set_mint_velocity_limit (psm_fee.rs), interface_version.rs,             *)
(* proof_of_reserves.rs, deposit_collateral.rs and redeem.rs.              *)
(*                                                                         *)
(* Governance is the environment: GateMoves lets it change the pause bit,  *)
(* the flags and the two settings that these handlers read, at any time.   *)
(* The authority itself does not change here: each handler reads it once,  *)
(* in the step it takes.  Token-2022 is external: it keeps the balances    *)
(* and the mint's supply, and lets holders transfer and burn on their own. *)
(***************************************************************************)
EXTENDS StablecoinConfig

CONSTANTS
  Minters,      \* keys that may be registered as minters
  Attesters,    \* keys that may be named attester of the reserves
  Amounts,      \* amounts given to instructions
  Limits,       \* caps and velocity limits given to instructions, 0 for none
  MaxSupplies,  \* values initialize may be given for max_supply
  GateFlags,    \* flag sets governance may put in force
  Fees,         \* values governance gives redemption_fee_bps
  Ratios,       \* reserve ratios: attested, and required by governance
  Versions,     \* interface versions, u8 in the code
  InitEpochs,   \* epochs in which initialize may run
  BPS,          \* 10_000 in the code
  U64_MAX

ASSUME IssuanceAssumption ==
  /\ Minters \subseteq Keys /\ Attesters \subseteq Keys
  /\ Amounts \subseteq Nat /\ Limits \subseteq Nat /\ Ratios \subseteq Nat
  /\ MaxSupplies \subseteq Nat
  /\ GateFlags \subseteq SUBSET Flags
  /\ BPS \in Nat \ {0} /\ Fees \subseteq 0..BPS
  /\ Versions \subseteq Nat
  /\ InitEpochs \subseteq Nat
  /\ U64_MAX \in Nat

VARIABLES
  epoch,            \* Clock::get()?.epoch
  maxSupply,        \* max_supply, 0 for unlimited; set once
  totalMinted,
  totalBurned,
  totalCollateral,
  minters,          \* the MinterInfo account of each key
  por,              \* the ProofOfReserves account
  interface,        \* the InterfaceVersion account
  balance,          \* Token-2022: what each wallet holds
  supply,           \* Token-2022: Mint.supply
  vault,            \* collateral in the reserve vault's token account
  mintedIn          \* history: minted by each minter in this epoch and registration

tokenVars == <<balance, supply>>
accountVars == <<minters, por, interface>>
issuanceVars == <<maxSupply, totalMinted, totalBurned, totalCollateral,
                  accountVars, tokenVars, vault, mintedIn>>
clockVars == <<slot, epoch>>
vars == <<clockVars, configVars, issuanceVars>>

\* A MinterInfo account that does not exist, or was just created.
NoMinter == [open |-> FALSE, cap |-> 0, minted |-> 0, maxMintPerEpoch |-> 0,
             mintedThisEpoch |-> 0, lastEpochReset |-> 0]
NoReserves == [open |-> FALSE, attester |-> NoKey, slot |-> 0, ratio |-> 0]
NoInterface == [open |-> FALSE, version |-> 0, active |-> FALSE]
CURRENT_VERSION == 1

\* initialize: preset 3 demands a finite supply.
Init ==
  /\ InitConfig
  /\ epoch \in InitEpochs
  /\ maxSupply \in MaxSupplies
  /\ preset = 3 => maxSupply > 0
  /\ totalMinted = 0 /\ totalBurned = 0 /\ totalCollateral = 0
  /\ minters = [m \in Minters |-> NoMinter]
  /\ por = NoReserves
  /\ interface = NoInterface
  /\ balance = [h \in Keys |-> 0]
  /\ supply = 0
  /\ vault = 0
  /\ mintedIn = [m \in Minters |-> 0]

-----------------------------------------------------------------------------
(***************************************************************************)
(* Token-2022 (external).                                                  *)
(***************************************************************************)
MintTo(to, n) ==
  /\ supply + n =< U64_MAX
  /\ supply' = supply + n
  /\ balance' = [balance EXCEPT ![to] = @ + n]

Burn(from, n) ==
  /\ n =< balance[from] /\ n =< supply
  /\ supply' = supply - n
  /\ balance' = [balance EXCEPT ![from] = @ - n]

\* A holder moves tokens.
Transfer(from, to, n) ==
  /\ from # to /\ n =< balance[from]
  /\ balance' = [balance EXCEPT ![from] = @ - n, ![to] = @ + n]
  /\ UNCHANGED <<clockVars, configVars, maxSupply, totalMinted, totalBurned,
                 totalCollateral, accountVars, supply, vault, mintedIn>>

\* A holder burns through Token-2022, past this program: total_burned does
\* not hear of it.
HolderBurn(from, n) ==
  /\ Burn(from, n)
  /\ UNCHANGED <<clockVars, configVars, maxSupply, totalMinted, totalBurned,
                 totalCollateral, accountVars, vault, mintedIn>>

\* Anyone sends collateral straight to the vault.
Donate(n) ==
  /\ preset = 3
  /\ vault + n =< U64_MAX
  /\ vault' = vault + n
  /\ UNCHANGED <<clockVars, configVars, maxSupply, totalMinted, totalBurned,
                 totalCollateral, accountVars, tokenVars, mintedIn>>

-----------------------------------------------------------------------------
(***************************************************************************)
(* Minting.                                                                *)
(***************************************************************************)
\* net_supply: a saturating subtraction.
NetSupply == IF totalMinted >= totalBurned THEN totalMinted - totalBurned ELSE 0

\* Pause bit and circuit breaker.
Open == /\ ~paused
        /\ FLAG_CIRCUIT_BREAKER \notin flags

\* The proof-of-reserves halt.
ReservesAttested ==
  FLAG_POR_HALT_ON_BREACH \in flags =>
    /\ por.open
    /\ por.slot > 0
    /\ settings.minReserveRatioBps > 0 => por.ratio >= settings.minReserveRatioBps

\* Mutant: the epoch counter restarts with every mint.
EpochResetOfAlways(info) ==
  [info EXCEPT !.mintedThisEpoch = 0, !.lastEpochReset = epoch]

EpochResetOf(info) ==
  IF info.lastEpochReset = 0 \/ epoch # info.lastEpochReset
    THEN [info EXCEPT !.mintedThisEpoch = 0, !.lastEpochReset = epoch]
    ELSE info

VelocityAllows(info, n) ==
  info.maxMintPerEpoch > 0 => info.mintedThisEpoch + n =< info.maxMintPerEpoch
CapAllows(info, n) == info.cap > 0 => info.minted + n =< info.cap

\* Mutant: the supply before the mint is compared.
SupplyAllowsBefore(n) == maxSupply > 0 => NetSupply =< maxSupply

SupplyAllows(n) == maxSupply > 0 => NetSupply + n =< maxSupply

\* Mutant: the minted tokens are not counted.
TotalMintedAfterKept(n) == totalMinted

TotalMintedAfter(n) == totalMinted + n

\* Mutant: an addition that is not checked.
TotalMintedFitsAlways(n) == TRUE

\* The checked_add of total_minted.
TotalMintedFits(n) == totalMinted + n =< U64_MAX

Mint(m, to, n) ==
  LET info == EpochResetOf(minters[m]) IN
  /\ minters[m].open
  /\ n > 0
  /\ Open
  /\ ReservesAttested
  /\ VelocityAllows(info, n)
  /\ CapAllows(info, n)
  /\ SupplyAllows(n)
  /\ MintTo(to, n)
  /\ TotalMintedFits(n)
  /\ info.minted + n =< U64_MAX
  /\ info.mintedThisEpoch + n =< U64_MAX
  /\ totalMinted' = TotalMintedAfter(n)
  /\ minters' = [minters EXCEPT
       ![m] = [info EXCEPT !.minted = @ + n, !.mintedThisEpoch = @ + n]]
  /\ mintedIn' = [mintedIn EXCEPT ![m] = @ + n]
  /\ UNCHANGED <<clockVars, configVars, maxSupply, totalBurned, totalCollateral,
                 por, interface, vault>>

\* The caller of cpi_mint and cpi_burn pins the interface version.
InterfaceMatches(v) == /\ interface.open
                       /\ interface.active
                       /\ interface.version = v

CpiMint(m, to, n, v) == InterfaceMatches(v) /\ Mint(m, to, n)

-----------------------------------------------------------------------------
\* burn: a registered minter burns from its own account.
BurnTokens(m, n) ==
  /\ minters[m].open
  /\ n > 0
  /\ Open
  /\ Burn(m, n)
  /\ totalBurned + n =< U64_MAX
  /\ totalBurned' = totalBurned + n
  /\ UNCHANGED <<clockVars, configVars, maxSupply, totalMinted, totalCollateral,
                 accountVars, vault, mintedIn>>

CpiBurn(m, n, v) == InterfaceMatches(v) /\ BurnTokens(m, n)

-----------------------------------------------------------------------------
(***************************************************************************)
(* The reserve vault of an SSS-3 stablecoin.                               *)
(***************************************************************************)
\* deposit_collateral: open to anyone, and while paused.
DepositCollateral(n) ==
  /\ n > 0
  /\ preset = 3
  /\ vault + n =< U64_MAX
  /\ totalCollateral + n =< U64_MAX
  /\ vault' = vault + n
  /\ totalCollateral' = totalCollateral + n
  /\ UNCHANGED <<clockVars, configVars, maxSupply, totalMinted, totalBurned,
                 accountVars, tokenVars, mintedIn>>

\* The fee stays in the vault; the redeemer receives the rest.
CollateralOut(n) == n - (n * settings.redemptionFeeBps) \div BPS

\* Mutant: the fee is left in the record twice.
TotalCollateralAfterFeeTwice(n) ==
  totalCollateral - (CollateralOut(n) - (n - CollateralOut(n)))

TotalCollateralAfter(n) == totalCollateral - CollateralOut(n)

Redeem(h, n) ==
  /\ preset = 3
  /\ n > 0
  /\ Open
  /\ vault >= n
  /\ Burn(h, n)
  /\ vault' = vault - CollateralOut(n)
  /\ totalBurned + n =< U64_MAX
  /\ totalBurned' = totalBurned + n
  /\ totalCollateral >= CollateralOut(n)
  /\ totalCollateral' = TotalCollateralAfter(n)
  /\ UNCHANGED <<clockVars, configVars, maxSupply, totalMinted, accountVars,
                 mintedIn>>

-----------------------------------------------------------------------------
(***************************************************************************)
(* Minters, reserves and the interface: administration.                    *)
(***************************************************************************)
administered == <<clockVars, configVars, maxSupply, totalMinted, totalBurned,
                  totalCollateral, tokenVars, vault>>

\* update_minter: creates the account or changes its cap; the counters stay.
UpdateMinter(k, m, cap) ==
  /\ AuthoritySigns(k)
  /\ DaoNotRequired
  /\ minters' = [minters EXCEPT ![m].open = TRUE, ![m].cap = cap]
  /\ UNCHANGED <<administered, por, interface, mintedIn>>

\* revoke_minter closes the account: its counters are gone.
RevokeMinter(k, m) ==
  /\ AuthoritySigns(k)
  /\ DaoNotRequired
  /\ minters[m].open
  /\ minters' = [minters EXCEPT ![m] = NoMinter]
  /\ mintedIn' = [mintedIn EXCEPT ![m] = 0]
  /\ UNCHANGED <<administered, por, interface>>

\* set_mint_velocity_limit.
SetMintVelocityLimit(k, m, limit) ==
  /\ AuthoritySigns(k)
  /\ minters[m].open
  /\ minters' = [minters EXCEPT ![m].maxMintPerEpoch = limit]
  /\ UNCHANGED <<administered, por, interface, mintedIn>>

\* init_proof_of_reserves: once, and without the Squads check.
InitProofOfReserves(k, attester) ==
  /\ IsAuthority(k)
  /\ ~por.open
  /\ por' = [open |-> TRUE, attester |-> attester, slot |-> 0, ratio |-> 0]
  /\ UNCHANGED <<administered, minters, interface, mintedIn>>

\* attest_proof_of_reserves: any ratio the attester states.
AttestProofOfReserves(k, ratio) ==
  /\ por.open
  /\ k = por.attester
  /\ por' = [por EXCEPT !.slot = slot, !.ratio = ratio]
  /\ UNCHANGED <<administered, minters, interface, mintedIn>>

InitInterfaceVersion(k) ==
  /\ AuthoritySigns(k)
  /\ ~interface.open
  /\ interface' = [open |-> TRUE, version |-> CURRENT_VERSION, active |-> TRUE]
  /\ UNCHANGED <<administered, minters, por, mintedIn>>

\* update_interface_version: each argument is optional, and leaving one out
\* is giving the value in force.
UpdateInterfaceVersion(k, version, active) ==
  /\ AuthoritySigns(k)
  /\ interface.open
  /\ version >= interface.version
  /\ interface' = [interface EXCEPT !.version = version, !.active = active]
  /\ UNCHANGED <<administered, minters, por, mintedIn>>

-----------------------------------------------------------------------------
\* Governance moves the gate: the pause bit, the flags and the two settings
\* read above.  The governance flags stay once set.
GateMoves ==
  /\ paused' \in BOOLEAN
  /\ \E on \in GateFlags : flags' = (flags \cap ProtectedFlags) \cup on
  /\ \E fee \in Fees, ratio \in Ratios :
       settings' = [settings EXCEPT !.redemptionFeeBps = fee,
                                    !.minReserveRatioBps = ratio]
  /\ UNCHANGED <<clockVars, roleVars, opVars, issuanceVars>>

\* The clock advances, perhaps into the next epoch.
ClockTick ==
  /\ Tick
  /\ epoch' \in {epoch, epoch + 1}
  /\ mintedIn' = IF epoch' = epoch THEN mintedIn ELSE [m \in Minters |-> 0]
  /\ UNCHANGED <<maxSupply, totalMinted, totalBurned, totalCollateral,
                 accountVars, tokenVars, vault>>

Next ==
  \/ ClockTick
  \/ GateMoves
  \/ \E m \in Minters, n \in Amounts :
       \/ \E to \in Keys : Mint(m, to, n) \/ \E v \in Versions : CpiMint(m, to, n, v)
       \/ BurnTokens(m, n)
       \/ \E v \in Versions : CpiBurn(m, n, v)
  \/ \E h \in Keys, n \in Amounts :
       \/ Redeem(h, n)
       \/ HolderBurn(h, n)
       \/ \E to \in Keys : Transfer(h, to, n)
  \/ \E n \in Amounts : DepositCollateral(n) \/ Donate(n)
  \/ \E k \in Keys :
       \/ \E m \in Minters, l \in Limits :
            UpdateMinter(k, m, l) \/ SetMintVelocityLimit(k, m, l)
       \/ \E m \in Minters : RevokeMinter(k, m)
       \/ \E attester \in Attesters : InitProofOfReserves(k, attester)
       \/ \E r \in Ratios : AttestProofOfReserves(k, r)
       \/ InitInterfaceVersion(k)
       \/ \E v \in Versions, on \in BOOLEAN : UpdateInterfaceVersion(k, v, on)

Spec == Init /\ [][Next]_vars

-----------------------------------------------------------------------------
MinterInfos ==
  [open : BOOLEAN, cap : Nat, minted : 0..U64_MAX, maxMintPerEpoch : Nat,
   mintedThisEpoch : 0..U64_MAX, lastEpochReset : Nat]

\* Type invariant of the supply counters, the accounts beside the config and
\* the token balances; every u64 stays within its width.
TypeOK ==
  /\ slot \in Nat /\ epoch \in Nat
  /\ paused \in BOOLEAN
  /\ flags \subseteq Flags
  /\ settings \in Settings /\ settings.redemptionFeeBps =< BPS
  /\ maxSupply \in Nat
  /\ totalMinted \in 0..U64_MAX /\ totalBurned \in 0..U64_MAX
  /\ totalCollateral \in 0..U64_MAX
  /\ minters \in [Minters -> MinterInfos]
  /\ por \in [open : BOOLEAN, attester : KeyOrNone, slot : Nat, ratio : Nat]
  /\ interface \in [open : BOOLEAN, version : Nat, active : BOOLEAN]
  /\ balance \in [Keys -> Nat]
  /\ supply \in 0..U64_MAX
  /\ vault \in 0..U64_MAX
  /\ mintedIn \in [Minters -> Nat]

\* The counters cover the tokens: all tokens in circulation are accounted for
\* by total_minted - total_burned, which therefore never underflows (the
\* debug_assert of net_supply), though holders may burn behind its back.
CountersCoverSupply == supply + totalBurned =< totalMinted

\* With a finite max_supply no interleaving of minters, burns and redemptions
\* puts more tokens in circulation (mint.rs, cpi_mint.rs: the check reads
\* net_supply, not the token's own supply).
SupplyWithinMax ==
  maxSupply > 0 => /\ totalMinted - totalBurned =< maxSupply
                   /\ supply =< maxSupply

\* From epoch 1 on, the lazily reset counter of a minter is exact once it was
\* touched in the current epoch, and a minter whose counter was not touched
\* has minted nothing in it since it was last registered (the reset in mint.rs
\* and cpi_mint.rs; revoke_minter.rs closes the account and its counters).
EpochCounterExact ==
  \A m \in Minters :
    /\ minters[m].lastEpochReset =< epoch
    /\ epoch > 0 => mintedIn[m] = IF minters[m].lastEpochReset = epoch
                                    THEN minters[m].mintedThisEpoch ELSE 0

\* From epoch 1 on, no minter with a velocity limit exceeds it within one
\* epoch of one registration, by whichever of mint and cpi_mint, however the
\* limit or the cap was changed before (SSS-093).
VelocityLimitHolds ==
  [][ \A m \in Minters :
        /\ epoch > 0
        /\ mintedIn'[m] > mintedIn[m]
        /\ minters[m].maxMintPerEpoch > 0
        => mintedIn'[m] =< minters[m].maxMintPerEpoch ]_vars

\* The vault always holds the collateral the config has on record, so a
\* redemption the record allows can be paid out of it (deposit_collateral.rs,
\* redeem.rs: the fee stays in both).
VaultCoversRecord == totalCollateral =< vault

=============================================================================
