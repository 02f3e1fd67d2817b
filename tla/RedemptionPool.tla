--------------------------- MODULE RedemptionPool ---------------------------
(***************************************************************************)
(* redemption_pool.rs: redemption at par less a fee, from a pool of        *)
(* collateral the issuer seeds and anyone may replenish.                   *)
(***************************************************************************)
EXTENDS RedemptionLedger

CONSTANTS
  PoolSizes,     \* values given for max_pool_size, 0 for unlimited
  PoolFees,      \* values given for instant_redemption_fee_bps
  MAX_FEE_BPS,   \* 500 in the code
  MaxPooled      \* bound on the collateral ever put into the pool

ASSUME PoolAssumption ==
  /\ PoolSizes \subseteq Nat /\ PoolFees \subseteq Nat
  /\ MAX_FEE_BPS \in 0..BPS /\ MaxPooled \in Nat

VARIABLES
  paused,     \* the config's pause bit
  pool,       \* the RedemptionPool account
  poolVault,  \* collateral in its reserve vault
  drained     \* history: what drain_redemption_pool took

poolVars == <<paused, pool, poolVault, drained>>

NoPool == [open |-> FALSE, maxSize |-> 0, feeBps |-> 0, liquidity |-> 0, seeded |-> 0,
           replenished |-> 0, redeemed |-> 0, utilization |-> 0]

InitPool ==
  /\ paused = FALSE
  /\ pool = NoPool
  /\ poolVault = 0
  /\ drained = 0

PauseMoves ==
  /\ paused' = ~paused
  /\ UNCHANGED <<ledgerVars, pool, poolVault, drained>>

\* Mutant: the size before the deposit is compared.
FitsBefore(size, n) == size > 0 => pool.liquidity =< size

Fits(size, n) == size > 0 => pool.liquidity + n =< size

\* seed_redemption_pool: creates the pool or adds to it, with new limits.
SeedRedemptionPool(n, size, fee) ==
  /\ n > 0
  /\ fee =< MAX_FEE_BPS
  /\ Fits(size, n)
  /\ pool.seeded + pool.replenished + n =< MaxPooled
  /\ pool' = [pool EXCEPT !.open = TRUE, !.maxSize = size, !.feeBps = fee,
                          !.liquidity = @ + n, !.seeded = @ + n]
  /\ poolVault' = poolVault + n
  /\ UNCHANGED <<ledgerVars, paused, drained>>

PoolFee(n) == (n * pool.feeBps) \div BPS

Utilization(redeemed, in) == IF in > 0 THEN Least((redeemed * BPS) \div in, BPS)
                                       ELSE pool.utilization

PoolCovers(n) == pool.liquidity >= n

\* instant_redemption: the whole amount leaves the books, the fee stays in the
\* vault, and total_burned is not raised.
InstantRedemption(h, n) ==
  /\ ~paused
  /\ pool.open
  /\ n > 0
  /\ PoolCovers(n)
  /\ n - PoolFee(n) > 0
  /\ n =< balance[h]
  /\ n - PoolFee(n) =< poolVault
  /\ pool' = [pool EXCEPT !.liquidity = @ - n, !.redeemed = @ + n,
       !.utilization = Utilization(pool.redeemed + n, pool.seeded + pool.replenished)]
  /\ balance' = [balance EXCEPT ![h] = @ - n]
  /\ supply' = supply - n
  /\ poolVault' = poolVault - (n - PoolFee(n))
  /\ UNCHANGED <<totalMinted, totalBurned, totalCollateral, deskVault, paused, drained>>

\* replenish_redemption_pool: anyone, up to the size set last.
ReplenishRedemptionPool(n) ==
  /\ pool.open
  /\ n > 0
  /\ Fits(pool.maxSize, n)
  /\ pool.seeded + pool.replenished + n =< MaxPooled
  /\ pool' = [pool EXCEPT !.liquidity = @ + n, !.replenished = @ + n]
  /\ poolVault' = poolVault + n
  /\ UNCHANGED <<ledgerVars, paused, drained>>

\* drain_redemption_pool: takes the liquidity on the books, not the fees.
DrainRedemptionPool ==
  /\ pool.open
  /\ pool.liquidity > 0
  /\ pool.liquidity =< poolVault
  /\ pool' = [pool EXCEPT !.liquidity = 0]
  /\ poolVault' = poolVault - pool.liquidity
  /\ drained' = drained + pool.liquidity
  /\ UNCHANGED <<ledgerVars, paused>>

PoolNext ==
  \/ PauseMoves
  \/ \E n \in Amounts :
       \/ \E size \in PoolSizes, fee \in PoolFees : SeedRedemptionPool(n, size, fee)
       \/ \E h \in Holders : InstantRedemption(h, n)
       \/ ReplenishRedemptionPool(n)
  \/ DrainRedemptionPool

-----------------------------------------------------------------------------
Pools == [open : BOOLEAN, maxSize : Nat, feeBps : 0..BPS, liquidity : Nat, seeded : Nat,
          replenished : Nat, redeemed : Nat, utilization : 0..BPS]

PoolTypeOK ==
  /\ paused \in BOOLEAN
  /\ pool \in Pools
  /\ poolVault \in Nat
  /\ drained \in Nat

\* The vault covers the liquidity on the books, so an instant redemption the
\* books allow is always paid; what went in is redeemed, drained or still on
\* the books; and the books never exceed the size set last, whichever way
\* seeding, replenishing, redeeming and draining interleave.
PoolBooksBacked ==
  /\ pool.liquidity =< poolVault
  /\ pool.liquidity + pool.redeemed + drained = pool.seeded + pool.replenished
  /\ pool.maxSize > 0 => pool.liquidity =< pool.maxSize

=============================================================================
