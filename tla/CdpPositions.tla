---------------------------- MODULE CdpPositions ----------------------------
(***************************************************************************)
(* Collateralised debt: cdp_deposit_collateral.rs, cdp_borrow_stable.rs,   *)
(* cdp_repay_stable.rs, cdp_liquidate.rs, cdp_liquidate_v2.rs,             *)
(* collateral_config.rs, stability_fee.rs, and the fee that pid_fee.rs     *)
(* writes.                                                                 *)
(*                                                                         *)
(* One price serves every collateral mint, but not every handler: borrow   *)
(* and cdp_liquidate take the effective price (oracle.rs: the consensus    *)
(* when it is on, else the configured feed), cdp_liquidate_v2 reads the    *)
(* Pyth feed itself.  The token has the six decimals of the code's USD     *)
(* amounts, so a token is one dollar and only prices are scaled, by SCALE. *)
(* A call whose price is refused fails and takes no step.  The burn of     *)
(* collect_stability_fee is signed by the config PDA: the debtors here     *)
(* have made it a delegate of their token account.                         *)
(*                                                                         *)
(* Time is kept as the age of a position's last accrual; the second does   *)
(* not pass when an age has reached MaxAge.                                *)
(***************************************************************************)
EXTENDS Integers, Sums

CONSTANTS
  Users, Collaterals,
  NoMint,          \* the collateral of a position not yet opened
  Amounts,         \* amounts given to instructions
  Quotes,          \* [price, pyth]: effective and Pyth prices, in 1/SCALE dollars
  SCALE,
  InitCollateral,  \* collateral tokens of each user
  BPS,             \* 10_000 in the code
  MIN_COLLATERAL_RATIO_BPS,       \* 15_000
  LIQUIDATION_THRESHOLD_BPS,      \* 12_000
  DEFAULT_LIQUIDATION_BONUS_BPS,  \* 500
  CollateralParams,               \* parameters given for a CollateralConfig
  FeeRates,                       \* values given for stability_fee_bps
  MaxFeeBps,                      \* 10_000: the timelock's bound on the fee
  PidFees,                        \* fees between the PID controller's bounds
  YEAR,                           \* SECS_PER_YEAR
  GateSets,                       \* sets of gates that come into force together
  MaxAge, MaxIssued               \* bounds on the model

ASSUME CdpAssumption ==
  /\ IsFiniteSet(Users) /\ NoMint \notin Collaterals
  /\ Amounts \subseteq Nat /\ FeeRates \subseteq Nat /\ PidFees \subseteq Nat
  /\ Quotes \subseteq [price : Nat \ {0}, pyth : Nat \ {0}]
  /\ SCALE \in Nat \ {0} /\ BPS \in Nat \ {0} /\ YEAR \in Nat \ {0}
  /\ InitCollateral \in [Users -> [Collaterals -> Nat]]
  /\ MIN_COLLATERAL_RATIO_BPS \in Nat
  /\ LIQUIDATION_THRESHOLD_BPS \in BPS..MIN_COLLATERAL_RATIO_BPS
  /\ DEFAULT_LIQUIDATION_BONUS_BPS \in Nat
  /\ MaxFeeBps \in Nat /\ MaxAge \in Nat /\ MaxIssued \in Nat
  /\ GateSets \subseteq SUBSET {"paused", "breaker"}
  /\ CollateralParams \subseteq
       [whitelisted : BOOLEAN, ltv : Nat, threshold : Nat, bonus : Nat, cap : Nat]

VARIABLES
  price,                     \* external: the effective price
  pythPrice,                 \* external: what the Pyth feed shows
  gates,                     \* of "paused" and "breaker", those in force
  feeBps,                    \* config.stability_fee_bps
  balance, supply,           \* Token-2022: stable tokens of each user, and in all
  totalMinted, totalBurned,  \* the config's counters
  wallet,                    \* collateral tokens of each user
  vault,                     \* CollateralVault.deposited_amount
  position,                  \* CdpPosition of each user
  registered,                \* CollateralConfig of each mint
  issued,                    \* history: what minters minted (module Issuance)
  shaken                     \* history: the price fell, or the position was
                             \* liquidated, since its last borrow

ledgerVars == <<balance, supply, totalMinted, totalBurned>>
priceVars == <<price, pythPrice>>
cdpVars == <<priceVars, gates, feeBps, ledgerVars, wallet, vault, position, registered,
             issued, shaken>>

NoPosition == [mint |-> NoMint, debt |-> 0, fees |-> 0, age |-> 0]
NoConfig == [open |-> FALSE, whitelisted |-> FALSE, threshold |-> 0, bonus |-> 0,
             cap |-> 0, deposited |-> 0]

InitCdp ==
  /\ \E q \in Quotes : price = q.price /\ pythPrice = q.pyth
  /\ gates = {}
  /\ feeBps = 0
  /\ balance = [u \in Users |-> 0]
  /\ supply = 0 /\ totalMinted = 0 /\ totalBurned = 0
  /\ wallet = InitCollateral
  /\ vault = [u \in Users |-> [c \in Collaterals |-> 0]]
  /\ position = [u \in Users |-> NoPosition]
  /\ registered = [c \in Collaterals |-> NoConfig]
  /\ issued = 0
  /\ shaken = [u \in Users |-> FALSE]

-----------------------------------------------------------------------------
(***************************************************************************)
(* Amounts.  Each division rounds down, in the order of the code.          *)
(***************************************************************************)
Value(n, p) == (n * p) \div SCALE
MaxBorrow(n) == (Value(n, price) * BPS) \div MIN_COLLATERAL_RATIO_BPS
RatioBps(n, debt, p) == (Value(n, p) * BPS) \div debt

PendingFees(u) == (position[u].debt * feeBps * position[u].age) \div (BPS * YEAR)
EffectiveDebt(u) == position[u].debt + position[u].fees

BurnFrom(u, n) ==
  /\ n =< balance[u]
  /\ balance' = [balance EXCEPT ![u] = @ - n]
  /\ supply' = supply - n
  /\ totalBurned' = totalBurned + n
  /\ UNCHANGED totalMinted

-----------------------------------------------------------------------------
(***************************************************************************)
(* collateral_config.rs.                                                   *)
(***************************************************************************)
ValidParams(p) ==
  /\ p.ltv =< BPS
  /\ p.threshold =< BPS
  /\ p.threshold > p.ltv
  /\ p.bonus =< BPS \div 2

ConfigWith(p, deposited) ==
  [open |-> TRUE, whitelisted |-> p.whitelisted, threshold |-> p.threshold,
   bonus |-> p.bonus, cap |-> p.cap, deposited |-> deposited]

RegisterCollateral(c, p) ==
  /\ ValidParams(p)
  /\ ~registered[c].open
  /\ registered' = [registered EXCEPT ![c] = ConfigWith(p, 0)]
  /\ UNCHANGED <<priceVars, gates, feeBps, ledgerVars, wallet, vault, position,
                 issued, shaken>>

UpdateCollateralConfig(c, p) ==
  /\ ValidParams(p)
  /\ registered[c].open
  /\ registered' = [registered EXCEPT ![c] = ConfigWith(p, @.deposited)]
  /\ UNCHANGED <<priceVars, gates, feeBps, ledgerVars, wallet, vault, position,
                 issued, shaken>>

\* An instruction that takes the CollateralConfig as an optional account and is
\* given it (named) lowers its running total, and fails if that underflows.
Release(c, n, named) ==
  /\ named => registered[c].open /\ n =< registered[c].deposited
  /\ registered' = IF named THEN [registered EXCEPT ![c].deposited = @ - n] ELSE registered

-----------------------------------------------------------------------------
(***************************************************************************)
(* Deposit, borrow, repay.                                                 *)
(***************************************************************************)
DepositAllowed(c, n) ==
  /\ registered[c].open
  /\ registered[c].whitelisted
  /\ registered[c].cap > 0 => registered[c].deposited + n =< registered[c].cap

\* cdp_deposit_collateral: also while paused.
CdpDepositCollateral(u, c, n, named) ==
  /\ n > 0
  /\ named => DepositAllowed(c, n)
  /\ n =< wallet[u][c]
  /\ wallet' = [wallet EXCEPT ![u][c] = @ - n]
  /\ vault' = [vault EXCEPT ![u][c] = @ + n]
  /\ registered' = IF named THEN [registered EXCEPT ![c].deposited = @ + n] ELSE registered
  /\ UNCHANGED <<priceVars, gates, feeBps, ledgerVars, position, issued, shaken>>

\* Mutant: the vault may be of any mint (before SSS-054).
LockedToAny(u, c) == TRUE

LockedTo(u, c) == position[u].mint \in {NoMint, c}

\* cdp_borrow_stable: fees accrue first; a first borrow locks the collateral.
\* There is no check against max_supply.
CdpBorrowStable(u, c, n) ==
  /\ n > 0
  /\ gates = {}
  /\ vault[u][c] > 0
  /\ LockedTo(u, c)
  /\ EffectiveDebt(u) + PendingFees(u) + n =< MaxBorrow(vault[u][c])
  /\ totalMinted + n =< MaxIssued
  /\ balance' = [balance EXCEPT ![u] = @ + n]
  /\ supply' = supply + n
  /\ totalMinted' = totalMinted + n
  /\ position' = [position EXCEPT ![u] =
       [mint |-> IF @.mint = NoMint THEN c ELSE @.mint, debt |-> @.debt + n,
        fees |-> @.fees + PendingFees(u), age |-> 0]]
  /\ shaken' = [shaken EXCEPT ![u] = FALSE]
  /\ UNCHANGED <<priceVars, gates, feeBps, totalBurned, wallet, vault, registered, issued>>

CollateralToRelease(u, c, n) == (vault[u][c] * n) \div position[u].debt

\* cdp_repay_stable: of the principal, with all accrued fees on top; the part
\* of the vault that is released is that of the principal repaid.  Any vault of
\* the user may be named.  The time of the last accrual stays.
CdpRepayStable(u, c, n, named) ==
  LET released == CollateralToRelease(u, c, n) IN
  /\ n > 0
  /\ position[u].mint # NoMint
  /\ n =< position[u].debt
  /\ BurnFrom(u, n + position[u].fees)
  /\ released > 0 => Release(c, released, named)
  /\ released = 0 => UNCHANGED registered /\ (named => registered[c].open)
  /\ wallet' = [wallet EXCEPT ![u][c] = @ + released]
  /\ vault' = [vault EXCEPT ![u][c] = @ - released]
  /\ position' = [position EXCEPT ![u] = [position[u] EXCEPT !.debt = @ - n, !.fees = 0]]
  /\ UNCHANGED <<priceVars, gates, feeBps, issued, shaken>>

-----------------------------------------------------------------------------
(***************************************************************************)
(* Liquidation, by anyone who holds the tokens to burn.                    *)
(***************************************************************************)
Threshold(c, named) ==
  IF named THEN registered[c].threshold ELSE LIQUIDATION_THRESHOLD_BPS
Bonus(c, named) ==
  IF named THEN registered[c].bonus ELSE DEFAULT_LIQUIDATION_BONUS_BPS

Liquidatable(u, c, threshold, p) ==
  /\ "breaker" \notin gates
  /\ position[u].mint = c
  /\ vault[u][c] > 0
  /\ EffectiveDebt(u) > 0
  /\ RatioBps(vault[u][c], EffectiveDebt(u), p) < threshold

\* What burning and seizing leave behind.
Seize(l, u, c, burned, seized, left) ==
  /\ BurnFrom(l, burned)
  /\ wallet' = [wallet EXCEPT ![l][c] = @ + seized]
  /\ vault' = [vault EXCEPT ![u][c] = @ - seized]
  /\ position' = [position EXCEPT ![u] = left]
  /\ shaken' = [shaken EXCEPT ![u] = TRUE]
  /\ UNCHANGED <<priceVars, gates, feeBps, issued>>

\* cdp_liquidate.  A repayment below the principal is a partial liquidation, and
\* must lift the position to the threshold; fees survive it.
SeizedV1(u, c, repay, bonus) ==
  Min({((repay * (BPS + bonus) * SCALE) \div price) \div BPS, vault[u][c]})

CdpLiquidateFull(l, u, c, named) ==
  /\ Liquidatable(u, c, Threshold(c, named), price)
  /\ Release(c, vault[u][c], named)
  /\ Seize(l, u, c, EffectiveDebt(u), vault[u][c],
           [position[u] EXCEPT !.debt = 0, !.fees = 0])

\* Mutant: the health of what remains is not checked.
RestoredAlways(n, debt, threshold, p) == TRUE

Restored(n, debt, threshold, p) == RatioBps(n, debt, p) >= threshold

\* Mutant: every liquidation clears the debt.
LeftV1None(u, repay) == [position[u] EXCEPT !.debt = 0, !.fees = 0]

LeftV1(u, repay) == [position[u] EXCEPT !.debt = @ - repay]

CdpLiquidatePartial(l, u, c, repay, named) ==
  LET seized == SeizedV1(u, c, repay, Bonus(c, named)) IN
  /\ Liquidatable(u, c, Threshold(c, named), price)
  /\ repay > 0 /\ repay < position[u].debt
  /\ Restored(vault[u][c] - seized, EffectiveDebt(u) - repay, Threshold(c, named), price)
  /\ Release(c, seized, named)
  /\ Seize(l, u, c, repay, seized, LeftV1(u, repay))

\* cdp_liquidate_v2: at the price of the Pyth feed, whatever the oracle adapter or
\* the consensus says; the CollateralConfig is always named; a repayment of zero,
\* or of all that is owed, is a full liquidation; what is left after a partial
\* one is at the ratio a borrow needs.
SeizedV2(u, c, repay) ==
  IF repay = EffectiveDebt(u) THEN vault[u][c]
  ELSE Min({(((repay * (BPS + registered[c].bonus)) \div BPS) * SCALE) \div pythPrice,
            vault[u][c]})

\* Principal first, then fees; a position without principal owes no fees.
LeftV2(u, repay) ==
  IF repay >= position[u].debt
  THEN [position[u] EXCEPT !.debt = 0, !.fees = 0]
  ELSE [position[u] EXCEPT !.debt = @ - repay]

CdpLiquidateV2(l, u, c, debtToRepay) ==
  LET repay == IF debtToRepay = 0 THEN EffectiveDebt(u)
               ELSE Min({debtToRepay, EffectiveDebt(u)})
      seized == SeizedV2(u, c, repay) IN
  /\ registered[c].open /\ registered[c].whitelisted
  /\ Liquidatable(u, c, registered[c].threshold, pythPrice)
  /\ repay < EffectiveDebt(u) =>
       Restored(vault[u][c] - seized, EffectiveDebt(u) - repay, MIN_COLLATERAL_RATIO_BPS,
                pythPrice)
  /\ Release(c, seized, TRUE)
  /\ Seize(l, u, c, repay, seized, LeftV2(u, repay))

-----------------------------------------------------------------------------
(***************************************************************************)
(* stability_fee.rs: a keeper on the list, or the authority, burns what a  *)
(* debtor owes in fees.                                                    *)
(***************************************************************************)
\* Mutant: fees are burned and stay on the books (BUG-016).
FeesCollectedKept(u) == [position[u] EXCEPT !.age = 0]

FeesCollected(u) == [position[u] EXCEPT !.fees = 0, !.age = 0]

\* With a rate of zero, or within the second, the call does nothing.
CollectStabilityFee(u) ==
  LET toBurn == position[u].fees + PendingFees(u) IN
  /\ "paused" \notin gates
  /\ position[u].mint # NoMint
  /\ feeBps > 0
  /\ position[u].age > 0
  /\ BurnFrom(u, toBurn)
  /\ position' = [position EXCEPT ![u] = FeesCollected(u)]
  /\ UNCHANGED <<priceVars, gates, feeBps, wallet, vault, registered, issued, shaken>>

\* The timelock executes SET_STABILITY_FEE (module AdminTimelock).  The direct
\* setter never gets to run: it wants preset 3, whose delay is never zero.
SetStabilityFee(bps) ==
  /\ bps =< MaxFeeBps
  /\ feeBps' = bps
  /\ UNCHANGED <<priceVars, gates, ledgerVars, wallet, vault, position, registered,
                 issued, shaken>>

\* update_stability_fee_pid, open to anyone while the controller is on (module
\* PidFee): its bounds are the issuer's, and MaxFeeBps is not among them.
UpdateStabilityFeePid(bps) ==
  /\ feeBps' = bps
  /\ UNCHANGED <<priceVars, gates, ledgerVars, wallet, vault, position, registered, issued,
                 shaken>>

-----------------------------------------------------------------------------
(***************************************************************************)
(* The world: the price moves, the gates open and close, time passes, and  *)
(* holders send each other tokens.                                         *)
(***************************************************************************)
PriceMoves ==
  /\ \E q \in Quotes : price' = q.price /\ pythPrice' = q.pyth
  /\ shaken' = [u \in Users |-> shaken[u] \/ (position[u].debt > 0 /\ price' < price)]
  /\ UNCHANGED <<gates, feeBps, ledgerVars, wallet, vault, position, registered, issued>>

GateMoves ==
  /\ gates' \in GateSets \ {gates}
  /\ UNCHANGED <<priceVars, feeBps, ledgerVars, wallet, vault, position, registered,
                 issued, shaken>>

SecondPasses ==
  /\ \A u \in Users : position[u].age < MaxAge
  /\ position' = [u \in Users |-> IF position[u].mint = NoMint THEN position[u]
                                  ELSE [position[u] EXCEPT !.age = @ + 1]]
  /\ UNCHANGED <<priceVars, gates, feeBps, ledgerVars, wallet, vault, registered,
                 issued, shaken>>

Send(u, v, n) ==
  /\ u # v /\ n =< balance[u]
  /\ balance' = [balance EXCEPT ![u] = @ - n, ![v] = @ + n]
  /\ UNCHANGED <<priceVars, gates, feeBps, supply, totalMinted, totalBurned, wallet, vault,
                 position, registered, issued, shaken>>

\* A minter mints (module Issuance); mint reads no InsuranceVault.
Issue(u, n) ==
  /\ totalMinted + n =< MaxIssued
  /\ balance' = [balance EXCEPT ![u] = @ + n]
  /\ supply' = supply + n
  /\ totalMinted' = totalMinted + n
  /\ issued' = issued + n
  /\ UNCHANGED <<priceVars, gates, feeBps, totalBurned, wallet, vault, position,
                 registered, shaken>>

PositionNext ==
  \E u \in Users, c \in Collaterals :
    \/ \E n \in Amounts, named \in BOOLEAN :
         \/ CdpDepositCollateral(u, c, n, named)
         \/ CdpRepayStable(u, c, n, named)
    \/ \E n \in Amounts : CdpBorrowStable(u, c, n)

LiquidationNext ==
  \E l \in Users, u \in Users, c \in Collaterals :
    \/ \E named \in BOOLEAN : \/ CdpLiquidateFull(l, u, c, named)
                              \/ \E n \in Amounts : CdpLiquidatePartial(l, u, c, n, named)
    \/ \E n \in Amounts \cup {0} : CdpLiquidateV2(l, u, c, n)

ParameterNext ==
  \/ \E c \in Collaterals, p \in CollateralParams :
       RegisterCollateral(c, p) \/ UpdateCollateralConfig(c, p)
  \/ \E bps \in FeeRates : SetStabilityFee(bps)
  \/ \E bps \in PidFees : UpdateStabilityFeePid(bps)
  \/ \E u \in Users : CollectStabilityFee(u)

CdpNext ==
  \/ PositionNext
  \/ LiquidationNext
  \/ ParameterNext
  \/ PriceMoves
  \/ GateMoves
  \/ SecondPasses
  \/ \E u, v \in Users, n \in Amounts : Send(u, v, n)

-----------------------------------------------------------------------------
Positions ==
  [mint : Collaterals \cup {NoMint}, debt : Nat, fees : Nat, age : 0..MaxAge]
Configs ==
  [open : BOOLEAN, whitelisted : BOOLEAN, threshold : Nat, bonus : Nat, cap : Nat,
   deposited : Nat]

\* Type invariant of the debt side: no amount falls below zero.
CdpTypeOK ==
  /\ [price |-> price, pyth |-> pythPrice] \in Quotes
  /\ gates \subseteq {"paused", "breaker"}
  /\ feeBps \in Nat
  /\ balance \in [Users -> Nat] /\ supply \in Nat
  /\ totalMinted \in Nat /\ totalBurned \in Nat
  /\ wallet \in [Users -> [Collaterals -> Nat]]
  /\ vault \in [Users -> [Collaterals -> Nat]]
  /\ position \in [Users -> Positions]
  /\ registered \in [Collaterals -> Configs]
  /\ issued \in Nat
  /\ shaken \in [Users -> BOOLEAN]

\* Every token that minters did not mint is principal some position still owes:
\* repayment, fees and both liquidations burn at least what they forgive, so the
\* debts always suffice to retire the supply.
Principal == Total([u \in Users |-> position[u].debt])
EveryTokenIsOwed == supply =< issued + Principal

\* What a position owes and has been charged, the fees of the running interval
\* included.
Owed == Total([u \in Users |-> EffectiveDebt(u) + PendingFees(u)])

\* While the fee rate stands and no time passes, no instruction burns more than
\* it takes off the debts: no interval of a lazily accrued stability fee, and no
\* fee already collected, is charged twice (BUG-012, BUG-016).
NothingPaidTwice ==
  [][ feeBps' = feeBps /\ (\A u \in Users : position'[u].age =< position[u].age)
      => Owed' + totalBurned' - totalBurned =< Owed + totalMinted' - totalMinted ]_cdpVars

\* The debt of a position is covered at 150% by the one vault it is locked to,
\* unless the price fell or a liquidation took from the vault since the last
\* borrow: repaying never weakens a position, in whatever portions, and neither
\* does naming another vault (SSS-054).
NoUnbackedDebt ==
  \A u \in Users :
    position[u].debt > 0 /\ ~shaken[u] =>
      EffectiveDebt(u) * MIN_COLLATERAL_RATIO_BPS * SCALE
        =< vault[u][position[u].mint] * price * BPS

Taken(u, c) == vault[u][c] - vault'[u][c]
Seized(u, c) == Taken(u, c) > 0 /\ wallet'[u][c] # wallet[u][c] + Taken(u, c)

\* The position of u, backed by c, is below 120% at price p, and if it survives
\* the step, better off at p afterwards.
FairAt(u, c, p) ==
  /\ RatioBps(vault[u][c], EffectiveDebt(u), p) < LIQUIDATION_THRESHOLD_BPS
  /\ EffectiveDebt(u)' > 0 =>
       RatioBps(vault'[u][c], EffectiveDebt(u)', p) > RatioBps(vault[u][c], EffectiveDebt(u), p)

\* Collateral leaves a vault to its owner by repayment, and otherwise only
\* from a position below 120%, at the effective price or at the Pyth feed's; a
\* position that survives is better off than before, at that price.
LiquidationJustified ==
  [][ \A u \in Users, c \in Collaterals :
        Seized(u, c) => FairAt(u, c, price) \/ FairAt(u, c, pythPrice) ]_cdpVars

=============================================================================
