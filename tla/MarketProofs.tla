---------------------------- MODULE MarketProofs ----------------------------
(***************************************************************************)
(* Proofs about Issuance and Market, for every set of keys, every amount   *)
(* and every width of the counters: first minters and redeemers alone      *)
(* (specification Spec), then with the bridge, the market makers and the   *)
(* fee curve beside them (specification MarketSpec).                       *)
(***************************************************************************)
EXTENDS Market, TLAPS

\* The inductive invariant: the properties need each other.  A burn keeps
\* the counters above the supply only if they were, the cap is checked on the
\* counters, and the velocity limit on a counter that must be exact.
IssuanceInv == /\ TypeOK
               /\ CountersCoverSupply
               /\ SupplyWithinMax
               /\ VaultCoversRecord
               /\ EpochCounterExact

-----------------------------------------------------------------------------
(***************************************************************************)
(* The redemption fee.                                                     *)
(***************************************************************************)
\* A quotient by a positive number is at most the factor of its dividend's
\* bound.
LEMMA QuotientBound ==
  ASSUME NEW x \in Nat, NEW n \in Nat, NEW d \in Nat \ {0}, x =< n * d
  PROVE  x \div d \in 0..n
  OBVIOUS

\* The redeemer never receives more than the redeemed amount (redeem.rs).
LEMMA CollateralOutBound ==
  ASSUME TypeOK, NEW n \in Nat
  PROVE  CollateralOut(n) \in 0..n
<1> DEFINE fee == settings.redemptionFeeBps
<1>1. fee \in Nat /\ fee =< BPS
  BY DEF TypeOK, Settings
<1>2. BPS \in Nat \ {0}
  BY IssuanceAssumption
<1> HIDE DEF fee
<1>3. n * fee \in Nat /\ n * fee =< n * BPS
  BY <1>1, <1>2
<1>4. (n * fee) \div BPS \in 0..n
  BY <1>2, <1>3, QuotientBound
<1> QED
  BY <1>4 DEF CollateralOut, fee

-----------------------------------------------------------------------------
(***************************************************************************)
(* The initial states, and one lemma per instruction that moves tokens,    *)
(* collateral or minter accounts.                                          *)
(***************************************************************************)
\* A freshly initialized stablecoin satisfies the invariant (initialize.rs).
LEMMA InitInv == Init => IssuanceInv
<1> SUFFICES ASSUME Init PROVE IssuanceInv
  OBVIOUS
<1> USE IssuanceAssumption, InitAssumption, KeysAssumption DEF Init, InitConfig
<1>1. flags \subseteq Flags
  BY DEF Flags
<1>2. settings \in Settings /\ settings.redemptionFeeBps = 0
  BY DEF Settings, NoSettings, KeyOrNone
<1>3. minters \in [Minters -> MinterInfos] /\ mintedIn \in [Minters -> Nat]
  BY DEF NoMinter, MinterInfos
<1>4. TypeOK
  <2>1. por \in [open : BOOLEAN, attester : KeyOrNone, slot : Nat, ratio : Nat]
    BY DEF NoReserves, KeyOrNone
  <2>2. interface \in [open : BOOLEAN, version : Nat, active : BOOLEAN]
    BY DEF NoInterface
  <2>3. balance \in [Keys -> Nat]
    OBVIOUS
  <2>4. slot \in Nat /\ epoch \in Nat /\ paused \in BOOLEAN /\ maxSupply \in Nat
    OBVIOUS
  <2>5. /\ totalMinted \in 0..U64_MAX /\ totalBurned \in 0..U64_MAX
        /\ totalCollateral \in 0..U64_MAX /\ supply \in 0..U64_MAX
        /\ vault \in 0..U64_MAX
    OBVIOUS
  <2>6. settings.redemptionFeeBps =< BPS
    BY <1>2
  <2> HIDE IssuanceAssumption, InitAssumption, KeysAssumption DEF Init, InitConfig
  <2> QED
    BY <1>1, <1>2, <1>3, <2>1, <2>2, <2>3, <2>4, <2>5, <2>6 DEF TypeOK
<1>5. EpochCounterExact
  BY DEF EpochCounterExact, NoMinter
<1> QED
  BY <1>4, <1>5 DEF IssuanceInv, CountersCoverSupply, SupplyWithinMax,
                    VaultCoversRecord

\* mint.rs and cpi_mint.rs.
LEMMA MintInv ==
  ASSUME IssuanceInv, NEW m \in Minters, NEW to \in Keys, NEW n \in Amounts,
         Mint(m, to, n)
  PROVE  IssuanceInv'
<1> DEFINE info == EpochResetOf(minters[m])
<1> USE IssuanceAssumption
<1>1. n \in Nat /\ TypeOK /\ CountersCoverSupply
  BY DEF IssuanceInv
<1>2. info \in MinterInfos
  <2>1. minters[m] \in MinterInfos /\ epoch \in Nat /\ U64_MAX \in Nat
    BY <1>1 DEF TypeOK
  <2>2. [minters[m] EXCEPT !.mintedThisEpoch = 0] \in MinterInfos
    BY <2>1 DEF MinterInfos
  <2>3. [[minters[m] EXCEPT !.mintedThisEpoch = 0] EXCEPT !.lastEpochReset = epoch]
          \in MinterInfos
    BY <2>1, <2>2 DEF MinterInfos
  <2>4. [minters[m] EXCEPT !.mintedThisEpoch = 0, !.lastEpochReset = epoch]
          = [[minters[m] EXCEPT !.mintedThisEpoch = 0] EXCEPT !.lastEpochReset = epoch]
    OBVIOUS
  <2> QED
    BY <2>1, <2>3, <2>4 DEF EpochResetOf
<1>3. /\ info.lastEpochReset =< epoch
      /\ epoch > 0 => /\ info.lastEpochReset = epoch
                      /\ info.mintedThisEpoch = mintedIn[m]
  BY <1>1 DEF MinterInfos, IssuanceInv, EpochCounterExact, EpochResetOf, TypeOK
<1> HIDE DEF info
<1>4. minters' = [minters EXCEPT
        ![m] = [info EXCEPT !.minted = @ + n, !.mintedThisEpoch = @ + n]]
      /\ info.minted + n =< U64_MAX /\ info.mintedThisEpoch + n =< U64_MAX
  BY DEF Mint, info
<1>5. minters' \in [Minters -> MinterInfos]
  <2> DEFINE counted == [info EXCEPT !.minted = @ + n]
  <2>1. counted \in MinterInfos /\ counted.mintedThisEpoch = info.mintedThisEpoch
    BY <1>1, <1>2, <1>4 DEF MinterInfos
  <2> HIDE DEF counted
  <2>2. [counted EXCEPT !.mintedThisEpoch = @ + n] \in MinterInfos
    BY <1>1, <1>2, <1>4, <2>1 DEF MinterInfos
  <2>3. [info EXCEPT !.minted = @ + n, !.mintedThisEpoch = @ + n]
          = [counted EXCEPT !.mintedThisEpoch = @ + n]
    BY DEF counted
  <2> QED
    BY <1>1, <1>4, <2>2, <2>3 DEF TypeOK
<1>6. TypeOK'
  BY <1>1, <1>5 DEF TypeOK, Mint, MintTo, TotalMintedAfter, TotalMintedFits, clockVars, configVars
<1>7. CountersCoverSupply'
  BY <1>1 DEF CountersCoverSupply, TypeOK, Mint, MintTo, TotalMintedAfter, TotalMintedFits
<1>8. SupplyWithinMax'
  BY <1>1 DEF IssuanceInv, SupplyWithinMax, CountersCoverSupply, TypeOK, Mint,
              MintTo, TotalMintedAfter, TotalMintedFits, SupplyAllows, NetSupply
<1>9. VaultCoversRecord'
  BY DEF IssuanceInv, VaultCoversRecord, Mint
<1>10. EpochCounterExact'
  <2> SUFFICES ASSUME NEW x \in Minters
               PROVE  /\ minters'[x].lastEpochReset =< epoch
                      /\ epoch > 0 =>
                           mintedIn'[x] = IF minters'[x].lastEpochReset = epoch
                                            THEN minters'[x].mintedThisEpoch ELSE 0
    BY DEF EpochCounterExact, Mint, clockVars
  <2>1. mintedIn' = [mintedIn EXCEPT ![m] = @ + n]
    BY DEF Mint
  <2>2. CASE x = m
    BY <1>1, <1>2, <1>3, <1>4, <2>1, <2>2 DEF TypeOK, MinterInfos
  <2>3. CASE x # m
    BY <1>1, <1>4, <2>1, <2>3 DEF IssuanceInv, EpochCounterExact, TypeOK
  <2> QED
    BY <2>2, <2>3
<1> QED
  BY <1>6, <1>7, <1>8, <1>9, <1>10 DEF IssuanceInv

\* burn.rs and cpi_burn.rs.
LEMMA BurnInv ==
  ASSUME IssuanceInv, NEW m \in Minters, NEW n \in Amounts, BurnTokens(m, n)
  PROVE  IssuanceInv'
<1> USE IssuanceAssumption
<1>1. n \in Nat /\ m \in Keys /\ TypeOK
  BY DEF IssuanceInv
<1>2. TypeOK'
  BY <1>1 DEF TypeOK, BurnTokens, Burn, clockVars, configVars, accountVars
<1>3. CountersCoverSupply' /\ SupplyWithinMax'
  BY <1>1 DEF IssuanceInv, CountersCoverSupply, SupplyWithinMax, TypeOK,
              BurnTokens, Burn
<1>4. VaultCoversRecord' /\ EpochCounterExact'
  BY DEF IssuanceInv, VaultCoversRecord, EpochCounterExact, BurnTokens,
         accountVars, clockVars
<1> QED
  BY <1>2, <1>3, <1>4 DEF IssuanceInv

\* redeem.rs.
LEMMA RedeemInv ==
  ASSUME IssuanceInv, NEW h \in Keys, NEW n \in Amounts, Redeem(h, n)
  PROVE  IssuanceInv'
<1> USE IssuanceAssumption
<1>1. n \in Nat /\ TypeOK
  BY DEF IssuanceInv
<1>2. CollateralOut(n) \in 0..n
  BY <1>1, CollateralOutBound
<1>3. TypeOK'
  BY <1>1, <1>2 DEF TypeOK, Redeem, Burn, TotalCollateralAfter, clockVars,
                    configVars, accountVars
<1>4. CountersCoverSupply' /\ SupplyWithinMax'
  BY <1>1 DEF IssuanceInv, CountersCoverSupply, SupplyWithinMax, TypeOK,
              Redeem, Burn
<1>5. VaultCoversRecord'
  BY <1>1, <1>2 DEF IssuanceInv, VaultCoversRecord, TypeOK, Redeem,
                    TotalCollateralAfter
<1>6. EpochCounterExact'
  BY DEF IssuanceInv, EpochCounterExact, Redeem, accountVars, clockVars
<1> QED
  BY <1>3, <1>4, <1>5, <1>6 DEF IssuanceInv

\* What happens in Token-2022 without this program, and deposit_collateral.rs.
LEMMA OutsideInv ==
  ASSUME IssuanceInv, NEW n \in Amounts,
         \/ \E h \in Keys : HolderBurn(h, n) \/ \E to \in Keys : Transfer(h, to, n)
         \/ Donate(n)
         \/ DepositCollateral(n)
  PROVE  IssuanceInv'
<1> USE IssuanceAssumption
<1>1. n \in Nat /\ TypeOK
  BY DEF IssuanceInv
<1>2. CASE \E h \in Keys : HolderBurn(h, n) \/ \E to \in Keys : Transfer(h, to, n)
  <2>1. TypeOK'
    BY <1>1, <1>2 DEF TypeOK, HolderBurn, Transfer, Burn, clockVars, configVars,
                      accountVars
  <2>2. CountersCoverSupply' /\ SupplyWithinMax'
    BY <1>1, <1>2 DEF IssuanceInv, CountersCoverSupply, SupplyWithinMax, TypeOK,
                      HolderBurn, Transfer, Burn
  <2>3. VaultCoversRecord' /\ EpochCounterExact'
    BY <1>2 DEF IssuanceInv, VaultCoversRecord, EpochCounterExact, HolderBurn,
                Transfer, accountVars, clockVars
  <2> QED
    BY <2>1, <2>2, <2>3 DEF IssuanceInv
<1>3. CASE Donate(n) \/ DepositCollateral(n)
  <2>1. TypeOK'
    BY <1>1, <1>3 DEF TypeOK, Donate, DepositCollateral, clockVars, configVars,
                      accountVars, tokenVars
  <2>2. CountersCoverSupply' /\ SupplyWithinMax' /\ EpochCounterExact'
    BY <1>3 DEF IssuanceInv, CountersCoverSupply, SupplyWithinMax,
                EpochCounterExact, Donate, DepositCollateral, accountVars,
                tokenVars, clockVars
  <2>3. VaultCoversRecord'
    BY <1>1, <1>3 DEF IssuanceInv, VaultCoversRecord, TypeOK, Donate,
                      DepositCollateral
  <2> QED
    BY <2>1, <2>2, <2>3 DEF IssuanceInv
<1> QED
  BY <1>2, <1>3

\* update_minter.rs, revoke_minter.rs and set_mint_velocity_limit.
LEMMA MinterAdminInv ==
  ASSUME IssuanceInv, NEW k \in Keys, NEW m \in Minters,
         \/ \E l \in Limits : UpdateMinter(k, m, l) \/ SetMintVelocityLimit(k, m, l)
         \/ RevokeMinter(k, m)
  PROVE  IssuanceInv'
<1> USE IssuanceAssumption
<1>1. TypeOK /\ minters[m] \in MinterInfos
  BY DEF IssuanceInv, TypeOK
<1>2. CountersCoverSupply' /\ SupplyWithinMax' /\ VaultCoversRecord'
  BY DEF IssuanceInv, CountersCoverSupply, SupplyWithinMax, VaultCoversRecord,
         UpdateMinter, SetMintVelocityLimit, RevokeMinter, administered, tokenVars
<1>3. CASE \E l \in Limits : UpdateMinter(k, m, l)
  <2>1. PICK l \in Limits : UpdateMinter(k, m, l)
    BY <1>3
  <2> DEFINE opened == [minters[m] EXCEPT !.open = TRUE]
  <2>2. opened \in MinterInfos
        /\ opened.lastEpochReset = minters[m].lastEpochReset
        /\ opened.mintedThisEpoch = minters[m].mintedThisEpoch
    BY <1>1 DEF MinterInfos
  <2> HIDE DEF opened
  <2> DEFINE capped == [opened EXCEPT !.cap = l]
  <2>3. capped \in MinterInfos
        /\ capped.lastEpochReset = minters[m].lastEpochReset
        /\ capped.mintedThisEpoch = minters[m].mintedThisEpoch
    BY <2>2 DEF MinterInfos
  <2>4. minters' = [minters EXCEPT ![m] = capped]
    BY <2>1, <1>1 DEF UpdateMinter, opened, TypeOK
  <2> HIDE DEF capped
  <2>5. TypeOK'
    BY <1>1, <2>1, <2>3, <2>4 DEF TypeOK, UpdateMinter, administered, clockVars,
                                  configVars, tokenVars
  <2>6. EpochCounterExact'
    BY <1>1, <2>1, <2>3, <2>4 DEF IssuanceInv, EpochCounterExact, UpdateMinter,
                                  administered, clockVars, TypeOK
  <2> QED
    BY <1>2, <2>5, <2>6 DEF IssuanceInv
<1>4. CASE \E l \in Limits : SetMintVelocityLimit(k, m, l)
  <2>1. PICK l \in Limits : SetMintVelocityLimit(k, m, l)
    BY <1>4
  <2> DEFINE limited == [minters[m] EXCEPT !.maxMintPerEpoch = l]
  <2>2. limited \in MinterInfos
        /\ limited.lastEpochReset = minters[m].lastEpochReset
        /\ limited.mintedThisEpoch = minters[m].mintedThisEpoch
    BY <1>1 DEF MinterInfos
  <2>3. minters' = [minters EXCEPT ![m] = limited]
    BY <2>1, <1>1 DEF SetMintVelocityLimit, TypeOK
  <2> HIDE DEF limited
  <2>4. TypeOK'
    BY <1>1, <2>1, <2>2, <2>3 DEF TypeOK, SetMintVelocityLimit, administered,
                                  clockVars, configVars, tokenVars
  <2>5. EpochCounterExact'
    BY <1>1, <2>1, <2>2, <2>3 DEF IssuanceInv, EpochCounterExact,
                                  SetMintVelocityLimit, administered, clockVars,
                                  TypeOK
  <2> QED
    BY <1>2, <2>4, <2>5 DEF IssuanceInv
<1>5. CASE RevokeMinter(k, m)
  <2>1. NoMinter \in MinterInfos
    BY DEF NoMinter, MinterInfos
  <2>2. TypeOK'
    BY <1>1, <1>5, <2>1 DEF TypeOK, RevokeMinter, administered, clockVars,
                            configVars, tokenVars
  <2>3. EpochCounterExact'
    BY <1>1, <1>5 DEF IssuanceInv, EpochCounterExact, RevokeMinter, NoMinter,
                      administered, clockVars, TypeOK
  <2> QED
    BY <1>2, <2>2, <2>3 DEF IssuanceInv
<1> QED
  BY <1>3, <1>4, <1>5

\* proof_of_reserves.rs and interface_version.rs.
LEMMA AccountAdminInv ==
  ASSUME IssuanceInv, NEW k \in Keys,
         \/ \E attester \in Attesters : InitProofOfReserves(k, attester)
         \/ \E r \in Ratios : AttestProofOfReserves(k, r)
         \/ InitInterfaceVersion(k)
         \/ \E v \in Versions, on \in BOOLEAN : UpdateInterfaceVersion(k, v, on)
  PROVE  IssuanceInv'
<1> USE IssuanceAssumption
<1>1. TypeOK
  BY DEF IssuanceInv
<1>2. UNCHANGED <<administered, minters, mintedIn>>
  BY DEF InitProofOfReserves, AttestProofOfReserves, InitInterfaceVersion,
         UpdateInterfaceVersion
<1>3. por' \in [open : BOOLEAN, attester : KeyOrNone, slot : Nat, ratio : Nat]
  <2>1. CASE \E r \in Ratios : AttestProofOfReserves(k, r)
    <3>1. PICK r \in Ratios : AttestProofOfReserves(k, r)
      BY <2>1
    <3> DEFINE at == [por EXCEPT !.slot = slot]
    <3>2. at \in [open : BOOLEAN, attester : KeyOrNone, slot : Nat, ratio : Nat]
      BY <1>1 DEF TypeOK
    <3>3. por' = [at EXCEPT !.ratio = r]
      BY <3>1 DEF AttestProofOfReserves
    <3> HIDE DEF at
    <3> QED
      BY <3>2, <3>3
  <2>2. CASE \E attester \in Attesters : InitProofOfReserves(k, attester)
    BY <2>2 DEF InitProofOfReserves, KeyOrNone
  <2>3. CASE por' = por
    BY <1>1, <2>3 DEF TypeOK
  <2> QED
    BY <2>1, <2>2, <2>3 DEF InitInterfaceVersion, UpdateInterfaceVersion
<1>4. interface' \in [open : BOOLEAN, version : Nat, active : BOOLEAN]
  <2>1. CASE \E v \in Versions, on \in BOOLEAN : UpdateInterfaceVersion(k, v, on)
    <3>1. PICK v \in Versions, on \in BOOLEAN : UpdateInterfaceVersion(k, v, on)
      BY <2>1
    <3> DEFINE at == [interface EXCEPT !.version = v]
    <3>2. at \in [open : BOOLEAN, version : Nat, active : BOOLEAN]
      BY <1>1 DEF TypeOK
    <3>3. interface' = [at EXCEPT !.active = on]
      BY <3>1 DEF UpdateInterfaceVersion
    <3> HIDE DEF at
    <3> QED
      BY <3>2, <3>3
  <2>2. CASE InitInterfaceVersion(k)
    BY <2>2 DEF InitInterfaceVersion, CURRENT_VERSION
  <2>3. CASE interface' = interface
    BY <1>1, <2>3 DEF TypeOK
  <2> QED
    BY <2>1, <2>2, <2>3 DEF InitProofOfReserves, AttestProofOfReserves
<1>5. TypeOK'
  BY <1>1, <1>2, <1>3, <1>4 DEF TypeOK, administered, clockVars, configVars,
                                tokenVars
<1> QED
  BY <1>2, <1>5 DEF IssuanceInv, CountersCoverSupply, SupplyWithinMax,
                    VaultCoversRecord, EpochCounterExact, administered,
                    clockVars, tokenVars

\* Governance moving the gate; the clock.
LEMMA EnvironmentInv ==
  ASSUME IssuanceInv, GateMoves \/ ClockTick
  PROVE  IssuanceInv'
<1> USE IssuanceAssumption
<1>1. TypeOK
  BY DEF IssuanceInv
<1>2. CASE GateMoves
  <2>1. UNCHANGED <<clockVars, issuanceVars>> /\ paused' \in BOOLEAN
    BY <1>2 DEF GateMoves
  <2>2. flags' \subseteq Flags
    BY <1>1, <1>2 DEF GateMoves, TypeOK
  <2>3. settings' \in Settings /\ settings'.redemptionFeeBps =< BPS
    <3>1. PICK fee \in Fees, ratio \in Ratios :
            settings' = [settings EXCEPT !.redemptionFeeBps = fee,
                                         !.minReserveRatioBps = ratio]
      BY <1>2 DEF GateMoves
    <3> DEFINE charged == [settings EXCEPT !.redemptionFeeBps = fee]
    <3>2. charged \in Settings /\ charged.redemptionFeeBps =< BPS
      BY <1>1 DEF TypeOK, Settings
    <3>3. settings' = [charged EXCEPT !.minReserveRatioBps = ratio]
      BY <3>1
    <3> HIDE DEF charged
    <3> QED
      BY <3>2, <3>3 DEF Settings
  <2>4. TypeOK'
    BY <1>1, <2>1, <2>2, <2>3 DEF TypeOK, clockVars, issuanceVars, accountVars,
                                  tokenVars
  <2> QED
    BY <2>1, <2>4 DEF IssuanceInv, CountersCoverSupply, SupplyWithinMax,
                      VaultCoversRecord, EpochCounterExact, clockVars,
                      issuanceVars, accountVars, tokenVars
<1>3. CASE ClockTick
  <2>1. TypeOK'
    BY <1>1, <1>3 DEF TypeOK, ClockTick, Tick, configVars, accountVars, tokenVars
  <2>2. EpochCounterExact'
    <3>1. CASE epoch' = epoch
      BY <1>3, <3>1 DEF IssuanceInv, EpochCounterExact, ClockTick, accountVars
    <3>2. CASE epoch' = epoch + 1
      BY <1>1, <1>3, <3>2 DEF IssuanceInv, EpochCounterExact, ClockTick,
                              accountVars, TypeOK, MinterInfos
    <3> QED
      BY <1>3, <3>1, <3>2 DEF ClockTick
  <2> QED
    BY <1>3, <2>1, <2>2 DEF IssuanceInv, CountersCoverSupply, SupplyWithinMax,
                            VaultCoversRecord, ClockTick, tokenVars
<1> QED
  BY <1>2, <1>3

-----------------------------------------------------------------------------
(***************************************************************************)
(* The theorems.                                                           *)
(***************************************************************************)
\* No step of any instruction, of Token-2022 or of the environment leaves the
\* invariant.
LEMMA NextInv == IssuanceInv /\ [Next]_vars => IssuanceInv'
<1> SUFFICES ASSUME IssuanceInv, [Next]_vars PROVE IssuanceInv'
  OBVIOUS
<1>1. CASE \E m \in Minters, n \in Amounts, to \in Keys :
             Mint(m, to, n) \/ \E v \in Versions : CpiMint(m, to, n, v)
  BY <1>1, MintInv DEF CpiMint
<1>2. CASE \E m \in Minters, n \in Amounts :
             BurnTokens(m, n) \/ \E v \in Versions : CpiBurn(m, n, v)
  BY <1>2, BurnInv DEF CpiBurn
<1>3. CASE \E h \in Keys, n \in Amounts : Redeem(h, n)
  BY <1>3, RedeemInv
<1>4. CASE \/ \E h \in Keys, n \in Amounts :
                HolderBurn(h, n) \/ \E to \in Keys : Transfer(h, to, n)
           \/ \E n \in Amounts : Donate(n) \/ DepositCollateral(n)
  BY <1>4, OutsideInv
<1>5. CASE \E k \in Keys, m \in Minters :
             \/ \E l \in Limits : UpdateMinter(k, m, l) \/ SetMintVelocityLimit(k, m, l)
             \/ RevokeMinter(k, m)
  BY <1>5, MinterAdminInv
<1>6. CASE \E k \in Keys :
             \/ \E attester \in Attesters : InitProofOfReserves(k, attester)
             \/ \E r \in Ratios : AttestProofOfReserves(k, r)
             \/ InitInterfaceVersion(k)
             \/ \E v \in Versions, on \in BOOLEAN : UpdateInterfaceVersion(k, v, on)
  BY <1>6, AccountAdminInv
<1>7. CASE GateMoves \/ ClockTick
  BY <1>7, EnvironmentInv
<1>8. CASE UNCHANGED vars
  BY <1>8 DEF vars, clockVars, configVars, issuanceVars, accountVars, tokenVars,
              IssuanceInv, TypeOK, CountersCoverSupply, SupplyWithinMax,
              VaultCoversRecord, EpochCounterExact
<1> QED
  BY <1>1, <1>2, <1>3, <1>4, <1>5, <1>6, <1>7, <1>8 DEF Next

\* Every reachable state satisfies the inductive invariant.
THEOREM Invariance == Spec => []IssuanceInv
<1>1. Init => IssuanceInv
  BY InitInv
<1>2. IssuanceInv /\ [Next]_vars => IssuanceInv'
  BY NextInv
<1> QED
  BY <1>1, <1>2, PTL DEF Spec

\* No u64 of the supply accounting ever leaves its width, however long the
\* history (mint.rs, burn.rs, redeem.rs, deposit_collateral.rs).
THEOREM IssuanceTypeCorrect == Spec => []TypeOK
<1>1. IssuanceInv => TypeOK
  BY DEF IssuanceInv
<1> QED
  BY <1>1, Invariance, PTL

\* total_minted - total_burned covers the tokens in circulation: net_supply
\* never underflows.
THEOREM SupplyAccounted == Spec => []CountersCoverSupply
<1>1. IssuanceInv => CountersCoverSupply
  BY DEF IssuanceInv
<1> QED
  BY <1>1, Invariance, PTL

\* A finite max_supply bounds the tokens in circulation.
THEOREM SupplyCapped == Spec => []SupplyWithinMax
<1>1. IssuanceInv => SupplyWithinMax
  BY DEF IssuanceInv
<1> QED
  BY <1>1, Invariance, PTL

\* The vault holds the recorded collateral whatever the redemption fee was.
THEOREM VaultSound == Spec => []VaultCoversRecord
<1>1. IssuanceInv => VaultCoversRecord
  BY DEF IssuanceInv
<1> QED
  BY <1>1, Invariance, PTL

\* A step that raises a minter's total of this epoch stays within its limit.
LEMMA MintWithinVelocity ==
  ASSUME IssuanceInv, NEW m \in Minters, NEW to \in Keys, NEW n \in Amounts,
         Mint(m, to, n), epoch > 0, minters[m].maxMintPerEpoch > 0
  PROVE  mintedIn'[m] =< minters[m].maxMintPerEpoch
<1> DEFINE info == EpochResetOf(minters[m])
<1>1. n \in Nat /\ TypeOK /\ minters[m] \in MinterInfos
  BY IssuanceAssumption DEF IssuanceInv, TypeOK
<1>2. info.maxMintPerEpoch = minters[m].maxMintPerEpoch
  BY <1>1 DEF EpochResetOf, MinterInfos
<1>3. info.mintedThisEpoch = mintedIn[m]
  BY <1>1 DEF IssuanceInv, EpochCounterExact, EpochResetOf, MinterInfos
<1>4. info.maxMintPerEpoch > 0 => info.mintedThisEpoch + n =< info.maxMintPerEpoch
  BY DEF Mint, VelocityAllows
<1>5. mintedIn'[m] = mintedIn[m] + n
  BY <1>1 DEF Mint, TypeOK
<1> HIDE DEF info
<1> QED
  BY <1>2, <1>3, <1>4, <1>5

\* What the velocity limit asks of one step.
VelocityStep == \A m \in Minters :
                  /\ epoch > 0
                  /\ mintedIn'[m] > mintedIn[m]
                  /\ minters[m].maxMintPerEpoch > 0
                  => mintedIn'[m] =< minters[m].maxMintPerEpoch

\* Only minting raises a minter's total of the epoch (mint.rs, cpi_mint.rs).
LEMMA NextVelocity == IssuanceInv /\ Next => VelocityStep
<1> SUFFICES ASSUME IssuanceInv, Next, NEW m \in Minters, epoch > 0,
                    mintedIn'[m] > mintedIn[m], minters[m].maxMintPerEpoch > 0
             PROVE  mintedIn'[m] =< minters[m].maxMintPerEpoch
  BY DEF VelocityStep
<1>1. TypeOK
  BY DEF IssuanceInv
<1>2. PICK x \in Minters, n \in Amounts, to \in Keys : Mint(x, to, n)
  <2>1. mintedIn' # mintedIn
    BY <1>1 DEF TypeOK
  <2>2. ~ ClockTick
    BY <1>1 DEF ClockTick, TypeOK
  <2>3. \A k \in Keys, x \in Minters : ~ RevokeMinter(k, x)
    BY <1>1 DEF RevokeMinter, TypeOK
  <2> QED
    BY <2>1, <2>2, <2>3
    DEF Next, GateMoves, issuanceVars, CpiMint, BurnTokens, CpiBurn, Redeem,
        HolderBurn, Transfer, DepositCollateral, Donate, UpdateMinter,
        SetMintVelocityLimit, InitProofOfReserves, AttestProofOfReserves,
        InitInterfaceVersion, UpdateInterfaceVersion
<1>3. x = m
  BY <1>1, <1>2 DEF Mint, TypeOK
<1> QED
  BY <1>2, <1>3, MintWithinVelocity

\* From epoch 1 on the per-epoch velocity limit of every minter holds.
THEOREM VelocityLimited == Spec => VelocityLimitHolds
<1>1. IssuanceInv /\ [Next]_vars => [VelocityStep]_vars
  BY NextVelocity
<1> QED
  BY <1>1, Invariance, PTL DEF Spec, VelocityLimitHolds, VelocityStep

-----------------------------------------------------------------------------
(***************************************************************************)
(* Every route together.                                                   *)
(***************************************************************************)
\* What the fee arithmetic of the routes needs of their accounts.
RoutesSound ==
  /\ BridgeTypeOK /\ bridge.fee =< BRIDGE_MAX_FEE
  /\ MakerTypeOK
  /\ CurveTypeOK /\ curve.base =< curve.max /\ curve.max =< PSM_MAX_FEE_BPS

\* The lazily restarted counters of the market makers against what they did in
\* this slot.
MakersInStep ==
  /\ ~mm.open => mm = NoMakers
  /\ slot > 0 /\ mm.lastMintSlot =< slot /\ mm.lastBurnSlot =< slot
  /\ mmIn.minted = MintedBefore /\ mmIn.burned = BurnedBefore
  /\ MintedBefore =< mm.mintLimit /\ BurnedBefore =< mm.burnLimit

\* The bridge counts what it delivered: each message consumed, once.
BridgeBooks ==
  /\ bridge.in = Carried(consumed)
  /\ ~bridge.open => consumed = {}

MarketInv == IssuanceInv /\ RoutesSound /\ MakersInStep /\ BridgeBooks

-----------------------------------------------------------------------------
(***************************************************************************)
(* What every route has in common.                                         *)
(***************************************************************************)
routeUnchanged == <<clockVars, configVars, maxSupply, accountVars, mintedIn>>

\* Tokens minted within the supply check, by whichever route (bridge_in in
\* bridge.rs, mm_mint in market_maker.rs).
LEMMA RouteMints ==
  ASSUME IssuanceInv, NEW to \in Keys, NEW n \in Nat,
         MintTo(to, n), SupplyAllows(n), TotalMintedFits(n),
         totalMinted' = TotalMintedAfter(n),
         UNCHANGED <<routeUnchanged, totalBurned, totalCollateral, vault>>
  PROVE  IssuanceInv'
<1> USE IssuanceAssumption
<1>1. TypeOK
  BY DEF IssuanceInv
<1>2. TypeOK'
  BY <1>1 DEF TypeOK, MintTo, TotalMintedAfter, TotalMintedFits, routeUnchanged,
              clockVars, configVars, accountVars
<1>3. CountersCoverSupply'
  BY <1>1 DEF IssuanceInv, CountersCoverSupply, TypeOK, MintTo, TotalMintedAfter
<1>4. SupplyWithinMax'
  BY <1>1 DEF IssuanceInv, SupplyWithinMax, CountersCoverSupply, TypeOK, MintTo,
              TotalMintedAfter, SupplyAllows, NetSupply, routeUnchanged
<1>5. VaultCoversRecord' /\ EpochCounterExact'
  BY DEF IssuanceInv, VaultCoversRecord, EpochCounterExact, routeUnchanged,
         accountVars, clockVars
<1> QED
  BY <1>2, <1>3, <1>4, <1>5 DEF IssuanceInv

\* Tokens burnt and counted, with so much collateral paid out for them
\* (bridge_out, mm_burn, psm_dynamic_swap).
LEMMA RouteBurns ==
  ASSUME IssuanceInv, NEW n \in Nat, NEW out \in Nat,
         n =< supply, supply' = supply - n, balance' \in [Keys -> Nat],
         totalBurned + n =< U64_MAX, totalBurned' = totalBurned + n,
         out =< vault, vault' = vault - out,
         out =< totalCollateral, totalCollateral' = totalCollateral - out,
         UNCHANGED <<routeUnchanged, totalMinted>>
  PROVE  IssuanceInv'
<1> USE IssuanceAssumption
<1>1. TypeOK
  BY DEF IssuanceInv
<1>2. TypeOK'
  BY <1>1 DEF TypeOK, routeUnchanged, clockVars, configVars, accountVars
<1>3. CountersCoverSupply' /\ SupplyWithinMax' /\ VaultCoversRecord'
  BY <1>1 DEF IssuanceInv, CountersCoverSupply, SupplyWithinMax,
              VaultCoversRecord, TypeOK, routeUnchanged
<1>4. EpochCounterExact'
  BY DEF IssuanceInv, EpochCounterExact, routeUnchanged, accountVars, clockVars
<1> QED
  BY <1>2, <1>3, <1>4 DEF IssuanceInv

\* A step that leaves tokens, counters and collateral alone.
LEMMA RouteIdle ==
  ASSUME IssuanceInv, UNCHANGED <<clockVars, issuanceVars, paused>>,
         flags' \subseteq Flags,
         settings' \in Settings, settings'.redemptionFeeBps =< BPS
  PROVE  IssuanceInv'
<1>1. TypeOK'
  BY DEF IssuanceInv, TypeOK, clockVars, issuanceVars, accountVars, tokenVars
<1> QED
  BY <1>1 DEF IssuanceInv, CountersCoverSupply, SupplyWithinMax,
              VaultCoversRecord, EpochCounterExact, clockVars, issuanceVars,
              accountVars, tokenVars

\* A fee of at most BPS basis points, rounded down, leaves a part of the
\* amount.
LEMMA FeeBound ==
  ASSUME NEW n \in Nat, NEW fee \in Nat, fee =< BPS
  PROVE  (n * fee) \div BPS \in 0..n
<1>1. BPS \in Nat \ {0}
  BY IssuanceAssumption
<1>2. n * fee \in Nat /\ n * fee =< n * BPS
  BY <1>1
<1> QED
  BY <1>1, <1>2, QuotientBound

-----------------------------------------------------------------------------
(***************************************************************************)
(* The bridge.                                                             *)
(***************************************************************************)
Bridges == [open : BOOLEAN, relayer : KeyOrNone, limit : Nat, fee : Nat,
            out : Nat, in : Nat]
Messages == [to : Keys, amount : Nat]

\* The totals of the bridge grow, its terms stay.
LEMMA BridgeTotalsGrow ==
  ASSUME NEW b \in Bridges, NEW n \in Nat
  PROVE  /\ [b EXCEPT !.out = @ + n] \in Bridges
         /\ [b EXCEPT !.out = @ + n].fee = b.fee
         /\ [b EXCEPT !.in = @ + n] \in Bridges
         /\ [b EXCEPT !.in = @ + n].fee = b.fee
<1> DEFINE out == b.out + n
           in == b.in + n
<1>1. out \in Nat /\ in \in Nat
  BY DEF Bridges
<1> HIDE DEF out, in
<1>2. [b EXCEPT !.out = out] \in Bridges /\ [b EXCEPT !.out = out].fee = b.fee
  BY <1>1 DEF Bridges
<1>3. [b EXCEPT !.in = in] \in Bridges /\ [b EXCEPT !.in = in].fee = b.fee
  BY <1>1 DEF Bridges
<1> QED
  BY <1>2, <1>3 DEF out, in

\* bridge.rs, and the messages the other chain sends.
LEMMA BridgeInv ==
  ASSUME IssuanceInv, BridgeTypeOK, bridge.fee =< BRIDGE_MAX_FEE, BridgeNext
  PROVE  IssuanceInv' /\ BridgeTypeOK' /\ bridge'.fee =< BRIDGE_MAX_FEE
<1> USE IssuanceAssumption, BridgeAssumption
<1>1. TypeOK /\ bridge \in Bridges /\ bridge.fee =< BPS
      /\ messages \in Seq(Messages) /\ consumed \subseteq DOMAIN messages
  BY DEF IssuanceInv, BridgeTypeOK, Bridges, Messages
<1>2. CASE \E k \in Keys, l \in BridgeLimits, f \in BridgeFees :
             InitBridgeConfig(k, l, f)
  <2>1. PICK k \in Keys, l \in BridgeLimits, f \in BridgeFees :
          InitBridgeConfig(k, l, f)
    BY <1>2
  <2>2. bridge' = [open |-> TRUE, relayer |-> authority, limit |-> l, fee |-> f,
                   out |-> 0, in |-> 0]
    BY <2>1 DEF InitBridgeConfig, NoBridge
  <2>3. authority \in KeyOrNone /\ f =< BRIDGE_MAX_FEE /\ l \in Nat /\ f \in Nat
    BY <2>1 DEF InitBridgeConfig, IsAuthority, KeyOrNone
  <2>4. bridge' \in Bridges /\ bridge'.fee =< BRIDGE_MAX_FEE
    BY <2>2, <2>3 DEF Bridges
  <2>5. IssuanceInv'
    BY <1>1, <2>1, RouteIdle DEF InitBridgeConfig, configVars, TypeOK
  <2> QED
    BY <1>1, <2>1, <2>4, <2>5 DEF InitBridgeConfig, BridgeTypeOK, Bridges, Messages
<1>3. CASE \E h \in Keys, n \in Amounts : BridgeOut(h, n)
  <2>1. PICK h \in Keys, n \in Amounts : BridgeOut(h, n)
    BY <1>3
  <2> DEFINE fee == BridgeFee(n)
             burnt == BurnAmount(n)
             paid == [balance EXCEPT ![h] = @ - n]
  <2>2. n \in Nat /\ fee \in 0..n /\ burnt = n - fee
    BY <1>1, FeeBound DEF BridgeFee, BurnAmount, Bridges
  <2>3. /\ balance' = [paid EXCEPT ![FeeVaultOwner] = @ + fee]
        /\ n =< balance[h] /\ burnt =< supply /\ supply' = supply - burnt
        /\ totalBurned + burnt =< U64_MAX /\ totalBurned' = totalBurned + burnt
        /\ bridge' = [bridge EXCEPT !.out = @ + burnt]
        /\ UNCHANGED <<routeUnchanged, totalMinted, totalCollateral, vault,
                       messages, consumed>>
    BY <2>1 DEF BridgeOut, routeUnchanged
  <2> HIDE DEF fee, burnt
  <2>4. paid \in [Keys -> Nat]
    <3>1. balance \in [Keys -> Nat]
      BY <1>1 DEF TypeOK
    <3>2. n \in Nat /\ n =< balance[h]
      BY <2>2, <2>3
    <3> HIDE DEF paid
    <3>3. balance[h] - n \in Nat
      BY <3>1, <3>2
    <3> QED
      BY <3>1, <3>3 DEF paid
  <2> HIDE DEF paid
  <2>5. balance' \in [Keys -> Nat]
    BY <2>2, <2>3, <2>4
  <2>6. burnt \in Nat
    BY <2>2
  <2>7. vault \in Nat /\ totalCollateral \in Nat
    BY <1>1 DEF TypeOK
  <2>8. vault' = vault - 0 /\ totalCollateral' = totalCollateral - 0
        /\ 0 =< vault /\ 0 =< totalCollateral
    BY <2>3, <2>7
  <2>9. IssuanceInv'
    BY <2>3, <2>5, <2>6, <2>8, RouteBurns
  <2>10. bridge' \in Bridges /\ bridge'.fee = bridge.fee
    BY <1>1, <2>3, <2>6, BridgeTotalsGrow
  <2> QED
    BY <1>1, <2>3, <2>9, <2>10 DEF BridgeTypeOK, Bridges, Messages
<1>4. CASE \E h \in Keys, n \in Amounts : RemoteSend(h, n)
  <2>1. PICK h \in Keys, n \in Amounts : RemoteSend(h, n)
    BY <1>4
  <2>2. messages' = Append(messages, [to |-> h, amount |-> n])
        /\ UNCHANGED <<clockVars, configVars, issuanceVars, bridge, consumed>>
    BY <2>1 DEF RemoteSend
  <2>3. [to |-> h, amount |-> n] \in Messages
    BY DEF Messages
  <2>4. messages' \in Seq(Messages) /\ DOMAIN messages \subseteq DOMAIN messages'
    BY <1>1, <2>2, <2>3
  <2>5. IssuanceInv'
    BY <1>1, <2>2, RouteIdle DEF configVars, TypeOK
  <2> QED
    BY <1>1, <2>2, <2>4, <2>5 DEF BridgeTypeOK, Bridges, Messages
<1>5. CASE \E k \in Keys, id \in DOMAIN messages : BridgeIn(k, id)
  <2>1. PICK k \in Keys, id \in DOMAIN messages : BridgeIn(k, id)
    BY <1>5
  <2> DEFINE n == messages[id].amount
             to == messages[id].to
  <2>2. n \in Nat /\ to \in Keys
    <3>1. messages[id] \in Messages
      BY <1>1
    <3> QED
      BY <3>1 DEF Messages
  <2>3. /\ SupplyAllows(n) /\ MintTo(to, n) /\ TotalMintedFits(n)
        /\ totalMinted' = TotalMintedAfter(n)
        /\ bridge' = [bridge EXCEPT !.in = @ + n]
        /\ consumed' = consumed \cup {id}
        /\ UNCHANGED <<routeUnchanged, totalBurned, totalCollateral, vault, messages>>
    BY <2>1 DEF BridgeIn, ConsumedAfter, routeUnchanged
  <2> HIDE DEF n, to
  <2>4. IssuanceInv'
    BY <2>2, <2>3, RouteMints
  <2>5. bridge' \in Bridges /\ bridge'.fee = bridge.fee
    BY <1>1, <2>2, <2>3, BridgeTotalsGrow
  <2> QED
    BY <1>1, <2>3, <2>4, <2>5 DEF BridgeTypeOK, Bridges, Messages
<1> QED
  BY <1>2, <1>3, <1>4, <1>5 DEF BridgeNext

\* The amounts of the messages, by id.
Amount == [i \in DOMAIN messages |-> messages[i].amount]

LEMMA MessagesFinite ==
  ASSUME BridgeTypeOK
  PROVE  /\ messages \in Seq(Messages) /\ consumed \in SUBSET DOMAIN messages
         /\ DOMAIN messages = 1..Len(messages) /\ IsFiniteSet(DOMAIN messages)
         /\ \A i \in DOMAIN messages : Amount[i] = messages[i].amount /\ Amount[i] \in Nat
<1>1. messages \in Seq(Messages) /\ consumed \in SUBSET DOMAIN messages
  BY DEF BridgeTypeOK, Messages
<1>2. DOMAIN messages = 1..Len(messages) /\ Len(messages) \in Nat
  BY <1>1
<1>3. IsFiniteSet(DOMAIN messages)
  BY <1>2, FS_Interval
<1>4. \A i \in DOMAIN messages : messages[i] \in Messages
  BY <1>1
<1> QED
  BY <1>1, <1>2, <1>3, <1>4 DEF Messages, Amount

\* Delivering a message books its amount, and sending one or burning here
\* changes nothing that was delivered.
LEMMA BridgeBooked ==
  ASSUME BridgeTypeOK, BridgeBooks, BridgeNext
  PROVE  BridgeBooks'
<1>1. /\ messages \in Seq(Messages) /\ consumed \in SUBSET DOMAIN messages
      /\ DOMAIN messages = 1..Len(messages) /\ IsFiniteSet(DOMAIN messages)
      /\ IsFiniteSet(consumed)
      /\ \A i \in DOMAIN messages : Amount[i] = messages[i].amount /\ Amount[i] \in Nat
  BY MessagesFinite, FS_Subset
<1>2. bridge \in Bridges
  BY DEF BridgeTypeOK, Bridges
<1>3. CASE \E k \in Keys, l \in BridgeLimits, f \in BridgeFees : InitBridgeConfig(k, l, f)
  <2>1. /\ ~bridge.open /\ bridge'.in = 0 /\ bridge'.open
        /\ UNCHANGED <<messages, consumed>>
    BY <1>3 DEF InitBridgeConfig, NoBridge
  <2>2. consumed' = {} /\ Carried(consumed)' = SumOn(Amount, {})
    BY <2>1 DEF BridgeBooks, Carried, Amount
  <2> QED
    BY <2>1, <2>2, SumEmpty DEF BridgeBooks
<1>4. CASE \E h \in Keys, n \in Amounts : BridgeOut(h, n)
  <2>1. PICK h \in Keys, n \in Amounts : BridgeOut(h, n)
    BY <1>4
  <2> DEFINE out == bridge.out + BurnAmount(n)
  <2>2. bridge' = [bridge EXCEPT !.out = out] /\ UNCHANGED <<messages, consumed>>
    BY <2>1 DEF BridgeOut
  <2> HIDE DEF out
  <2>3. bridge'.in = bridge.in /\ bridge'.open = bridge.open
    BY <1>2, <2>2 DEF Bridges
  <2> QED
    BY <2>2, <2>3 DEF BridgeBooks, Carried
<1>5. CASE \E h \in Keys, n \in Amounts : RemoteSend(h, n)
  <2>1. PICK h \in Keys, n \in Amounts : RemoteSend(h, n)
    BY <1>5
  <2>2. /\ messages' = Append(messages, [to |-> h, amount |-> n])
        /\ UNCHANGED <<bridge, consumed>>
    BY <2>1 DEF RemoteSend
  <2>3. \A i \in DOMAIN messages : i \in DOMAIN messages' /\ messages'[i] = messages[i]
    BY <1>1, <2>2
  <2>4. \A i \in consumed : Amount[i] = Amount'[i]
    BY <1>1, <2>3 DEF Amount
  <2>5. SumOn(Amount, consumed) = SumOn(Amount', consumed)
    BY <1>1, <2>4, SumAgree
  <2>6. Carried(consumed)' = Carried(consumed)
    BY <2>2, <2>5 DEF Carried, Amount
  <2> QED
    BY <2>2, <2>6 DEF BridgeBooks
<1>6. CASE \E k \in Keys, id \in DOMAIN messages : BridgeIn(k, id)
  <2>1. PICK k \in Keys, id \in DOMAIN messages : BridgeIn(k, id)
    BY <1>6
  <2> DEFINE n == messages[id].amount
             in == bridge.in + n
  <2>2. /\ bridge.open /\ id \notin consumed /\ consumed' = consumed \cup {id}
        /\ bridge' = [bridge EXCEPT !.in = in] /\ messages' = messages
    BY <2>1 DEF BridgeIn, ConsumedAfter
  <2>3. n = Amount[id]
    BY <1>1
  <2> HIDE DEF in
  <2>4. bridge'.in = in /\ bridge'.open
    BY <1>2, <2>2 DEF Bridges
  <2>5. SumOn(Amount, consumed \cup {id}) = SumOn(Amount, consumed) + Amount[id]
    BY <1>1, <2>2, SumAdd
  <2>6. Carried(consumed)' = SumOn(Amount, consumed \cup {id})
        /\ Carried(consumed) = SumOn(Amount, consumed)
    BY <2>2 DEF Carried, Amount
  <2> QED
    BY <2>3, <2>4, <2>5, <2>6 DEF BridgeBooks, in
<1> QED
  BY <1>3, <1>4, <1>5, <1>6 DEF BridgeNext

\* What was sent is what was delivered and what is still under way.
LEMMA MessagesSplit ==
  ASSUME BridgeTypeOK, BridgeBooks
  PROVE  /\ Carried(DOMAIN messages) = bridge.in + Carried(DOMAIN messages \ consumed)
         /\ Carried(DOMAIN messages) \in Int /\ Carried(DOMAIN messages \ consumed) \in Int
<1> DEFINE all == DOMAIN messages
           rest == DOMAIN messages \ consumed
<1>1. /\ consumed \in SUBSET all /\ IsFiniteSet(all) /\ IsFiniteSet(rest)
      /\ \A i \in all : Amount[i] \in Int
  BY MessagesFinite, FS_Subset
<1>2. \A ids : Carried(ids) = SumOn(Amount, ids)
  BY DEF Carried, Amount
<1>3. SumOn(Amount, all) = SumOn(Amount, consumed) + SumOn(Amount, all \ consumed)
  <2> HIDE DEF all
  <2> QED
    BY <1>1, SumSplit
<1>4. SumOn(Amount, all) \in Int /\ SumOn(Amount, rest) \in Int
  BY <1>1, SumInt
<1> QED
  BY <1>2, <1>3, <1>4 DEF BridgeBooks

-----------------------------------------------------------------------------
(***************************************************************************)
(* The market makers.                                                      *)
(***************************************************************************)
MakerConfigs == [open : BOOLEAN, makers : SUBSET Makers, mintLimit : Nat,
                 burnLimit : Nat, spread : Nat, lastMintSlot : Nat, minted : Nat,
                 lastBurnSlot : Nat, burned : Nat]
Done == [minted : Nat, burned : Nat]

\* mm_mint.
LEMMA MmMintInv ==
  ASSUME IssuanceInv, MakerTypeOK, MakersInStep,
         NEW maker \in Makers, NEW n \in Amounts, NEW p \in PegPrices,
         MmMint(maker, n, p)
  PROVE  IssuanceInv' /\ MakerTypeOK' /\ MakersInStep'
<1> USE IssuanceAssumption, MakerAssumption
<1>1. slot \in Nat /\ mm \in MakerConfigs /\ mmIn \in Done /\ n \in Nat
  BY DEF IssuanceInv, TypeOK, MakerTypeOK, MakerConfigs, Done
<1> DEFINE total == MintedBefore + n
           counted == [mm EXCEPT !.lastMintSlot = slot]
<1>2. /\ mm.open /\ total =< mm.mintLimit
      /\ SupplyAllows(n) /\ MintTo(maker, n) /\ TotalMintedFits(n)
      /\ totalMinted' = TotalMintedAfter(n)
      /\ mm' = [counted EXCEPT !.minted = total]
      /\ mmIn' = [mmIn EXCEPT !.minted = @ + n]
      /\ UNCHANGED <<routeUnchanged, totalBurned, totalCollateral, vault>>
  BY DEF MmMint, MakerAllowed, routeUnchanged
<1>3. total \in Nat
  BY <1>1 DEF MintedBefore, MakerConfigs
<1>4. counted \in MakerConfigs
      /\ counted.open = mm.open /\ counted.lastMintSlot = slot
      /\ counted.mintLimit = mm.mintLimit /\ counted.burnLimit = mm.burnLimit
      /\ counted.lastBurnSlot = mm.lastBurnSlot /\ counted.burned = mm.burned
  BY <1>1 DEF MakerConfigs
<1>5. total = mmIn.minted + n
  BY <1>1 DEF MakersInStep
<1> HIDE DEF total, counted
<1>6. mm' \in MakerConfigs
      /\ mm'.open = mm.open /\ mm'.lastMintSlot = slot /\ mm'.minted = total
      /\ mm'.mintLimit = mm.mintLimit /\ mm'.burnLimit = mm.burnLimit
      /\ mm'.lastBurnSlot = mm.lastBurnSlot /\ mm'.burned = mm.burned
  BY <1>2, <1>3, <1>4 DEF MakerConfigs
<1>7. mmIn' \in Done /\ mmIn'.minted = total /\ mmIn'.burned = mmIn.burned
  BY <1>1, <1>2, <1>5 DEF Done
<1>8. slot' = slot
  BY <1>2 DEF routeUnchanged, clockVars
<1>9. IssuanceInv'
  BY <1>1, <1>2, RouteMints
<1>10. MakersInStep'
  <2>1. MintedBefore' = total
    BY <1>6, <1>8 DEF MintedBefore
  <2>2. BurnedBefore' = BurnedBefore
    BY <1>6, <1>8 DEF BurnedBefore
  <2>3. slot' > 0 /\ mm'.lastMintSlot =< slot' /\ mm'.lastBurnSlot =< slot'
    BY <1>1, <1>6, <1>8 DEF MakersInStep
  <2>4. ~mm'.open => mm' = NoMakers
    BY <1>2, <1>6
  <2>5. mmIn'.minted = MintedBefore' /\ mmIn'.burned = BurnedBefore'
    BY <1>7, <2>1, <2>2 DEF MakersInStep
  <2>6. MintedBefore' =< mm'.mintLimit /\ BurnedBefore' =< mm'.burnLimit
    BY <1>2, <1>6, <2>1, <2>2 DEF MakersInStep
  <2> QED
    BY <2>3, <2>4, <2>5, <2>6 DEF MakersInStep
<1> QED
  BY <1>6, <1>7, <1>9, <1>10 DEF MakerTypeOK, MakerConfigs, Done

\* mm_burn.
LEMMA MmBurnInv ==
  ASSUME IssuanceInv, MakerTypeOK, MakersInStep,
         NEW maker \in Makers, NEW n \in Amounts, NEW p \in PegPrices,
         MmBurn(maker, n, p)
  PROVE  IssuanceInv' /\ MakerTypeOK' /\ MakersInStep'
<1> USE IssuanceAssumption, MakerAssumption
<1>1. slot \in Nat /\ mm \in MakerConfigs /\ mmIn \in Done /\ n \in Nat
  BY DEF IssuanceInv, TypeOK, MakerTypeOK, MakerConfigs, Done
<1> DEFINE total == BurnedBefore + n
           counted == [mm EXCEPT !.lastBurnSlot = slot]
<1>2. /\ mm.open /\ total =< mm.burnLimit
      /\ Burn(maker, n)
      /\ totalBurned + n =< U64_MAX /\ totalBurned' = totalBurned + n
      /\ mm' = [counted EXCEPT !.burned = total]
      /\ mmIn' = [mmIn EXCEPT !.burned = @ + n]
      /\ UNCHANGED <<routeUnchanged, totalMinted, totalCollateral, vault>>
  BY DEF MmBurn, MakerAllowed, routeUnchanged
<1>3. total \in Nat
  BY <1>1 DEF BurnedBefore, MakerConfigs
<1>4. counted \in MakerConfigs
      /\ counted.open = mm.open /\ counted.lastBurnSlot = slot
      /\ counted.mintLimit = mm.mintLimit /\ counted.burnLimit = mm.burnLimit
      /\ counted.lastMintSlot = mm.lastMintSlot /\ counted.minted = mm.minted
  BY <1>1 DEF MakerConfigs
<1>5. total = mmIn.burned + n
  BY <1>1 DEF MakersInStep
<1> HIDE DEF total, counted
<1>6. mm' \in MakerConfigs
      /\ mm'.open = mm.open /\ mm'.lastBurnSlot = slot /\ mm'.burned = total
      /\ mm'.mintLimit = mm.mintLimit /\ mm'.burnLimit = mm.burnLimit
      /\ mm'.lastMintSlot = mm.lastMintSlot /\ mm'.minted = mm.minted
  BY <1>2, <1>3, <1>4 DEF MakerConfigs
<1>7. mmIn' \in Done /\ mmIn'.burned = total /\ mmIn'.minted = mmIn.minted
  BY <1>1, <1>2, <1>5 DEF Done
<1>8. slot' = slot
  BY <1>2 DEF routeUnchanged, clockVars
<1>9. IssuanceInv'
  <2>1. balance \in [Keys -> Nat] /\ supply \in Nat /\ vault \in Nat
        /\ totalCollateral \in Nat
    BY DEF IssuanceInv, TypeOK
  <2>2. /\ n =< balance[maker] /\ n =< supply /\ supply' = supply - n
        /\ balance' = [balance EXCEPT ![maker] = @ - n]
    BY <1>2 DEF Burn
  <2>3. balance' \in [Keys -> Nat]
    BY <1>1, <2>1, <2>2
  <2>4. /\ 0 =< vault /\ vault' = vault - 0
        /\ 0 =< totalCollateral /\ totalCollateral' = totalCollateral - 0
    BY <1>2, <2>1
  <2> QED
    BY <1>1, <1>2, <2>2, <2>3, <2>4, RouteBurns
<1>10. MakersInStep'
  <2>1. BurnedBefore' = total
    BY <1>6, <1>8 DEF BurnedBefore
  <2>2. MintedBefore' = MintedBefore
    BY <1>6, <1>8 DEF MintedBefore
  <2>3. slot' > 0 /\ mm'.lastMintSlot =< slot' /\ mm'.lastBurnSlot =< slot'
    BY <1>1, <1>6, <1>8 DEF MakersInStep
  <2>4. ~mm'.open => mm' = NoMakers
    BY <1>2, <1>6
  <2>5. mmIn'.minted = MintedBefore' /\ mmIn'.burned = BurnedBefore'
    BY <1>7, <2>1, <2>2 DEF MakersInStep
  <2>6. MintedBefore' =< mm'.mintLimit /\ BurnedBefore' =< mm'.burnLimit
    BY <1>2, <1>6, <2>1, <2>2 DEF MakersInStep
  <2> QED
    BY <2>3, <2>4, <2>5, <2>6 DEF MakersInStep
<1> QED
  BY <1>6, <1>7, <1>9, <1>10 DEF MakerTypeOK, MakerConfigs, Done

\* market_maker.rs: the limits hold whoever mints, burns or is registered.
LEMMA MakerInv ==
  ASSUME IssuanceInv, MakerTypeOK, MakersInStep, MakerNext
  PROVE  IssuanceInv' /\ MakerTypeOK' /\ MakersInStep'
<1> USE IssuanceAssumption, MakerAssumption
<1>1. TypeOK /\ slot \in Nat /\ mm \in MakerConfigs /\ mmIn \in Done
  BY DEF IssuanceInv, TypeOK, MakerTypeOK, MakerConfigs, Done
<1>2. CASE \E k \in Keys, l \in MakerLimits, b \in MakerLimits, s \in Spreads :
             InitMarketMakerConfig(k, l, b, s)
  <2>1. PICK k \in Keys, l \in MakerLimits, b \in MakerLimits, s \in Spreads :
          InitMarketMakerConfig(k, l, b, s)
    BY <1>2
  <2>2. /\ ~mm.open
        /\ mm' = [open |-> TRUE, makers |-> {}, mintLimit |-> l, burnLimit |-> b,
                  spread |-> s, lastMintSlot |-> 0, minted |-> 0,
                  lastBurnSlot |-> 0, burned |-> 0]
        /\ UNCHANGED <<clockVars, configVars, issuanceVars, mmIn>>
    BY <2>1 DEF InitMarketMakerConfig, NoMakers
  <2>3. mm' \in MakerConfigs
    BY <2>2 DEF MakerConfigs
  <2>4. mmIn.minted = 0 /\ mmIn.burned = 0 /\ l \in Nat /\ b \in Nat
    BY <1>1, <2>2 DEF MakersInStep, MintedBefore, BurnedBefore, NoMakers
  <2>5. slot' = slot /\ mmIn' = mmIn
    BY <2>2 DEF clockVars
  <2>6. MakersInStep'
    BY <1>1, <2>2, <2>4, <2>5 DEF MakersInStep, MintedBefore, BurnedBefore
  <2>7. IssuanceInv'
    BY <1>1, <2>2, RouteIdle DEF configVars, TypeOK
  <2> QED
    BY <1>1, <2>3, <2>5, <2>6, <2>7 DEF MakerTypeOK, MakerConfigs, Done
<1>3. CASE \E k \in Keys, maker \in Makers : RegisterMarketMaker(k, maker)
  <2>1. PICK k \in Keys, maker \in Makers : RegisterMarketMaker(k, maker)
    BY <1>3
  <2>2. /\ mm.open
        /\ mm' = [mm EXCEPT !.makers = @ \cup {maker}]
        /\ UNCHANGED <<clockVars, configVars, issuanceVars, mmIn>>
    BY <2>1 DEF RegisterMarketMaker
  <2>3. mm' \in MakerConfigs
        /\ mm'.open = mm.open
        /\ mm'.lastBurnSlot = mm.lastBurnSlot /\ mm'.burned = mm.burned
        /\ mm'.mintLimit = mm.mintLimit /\ mm'.burnLimit = mm.burnLimit
        /\ mm'.lastMintSlot = mm.lastMintSlot /\ mm'.minted = mm.minted
    BY <1>1, <2>2 DEF MakerConfigs
  <2>4. slot' = slot /\ mmIn' = mmIn
    BY <2>2 DEF clockVars
  <2>5. MakersInStep'
    BY <1>1, <2>2, <2>3, <2>4 DEF MakersInStep, MintedBefore, BurnedBefore
  <2>6. IssuanceInv'
    BY <1>1, <2>2, RouteIdle DEF configVars, TypeOK
  <2> QED
    BY <1>1, <2>3, <2>4, <2>5, <2>6 DEF MakerTypeOK, MakerConfigs, Done
<1>4. CASE \E feed \in Makers \cup {NoKey} : FeedMoves(feed)
  <2>1. PICK feed \in Makers \cup {NoKey} : FeedMoves(feed)
    BY <1>4
  <2>2. settings' = [settings EXCEPT !.oracleFeed = feed]
        /\ UNCHANGED <<clockVars, flags, paused, issuanceVars, makerVars>>
    BY <2>1 DEF FeedMoves
  <2>3. settings' \in Settings /\ settings'.redemptionFeeBps =< BPS
    BY <1>1, <2>1, <2>2 DEF TypeOK, Settings, KeyOrNone
  <2>4. IssuanceInv'
    BY <1>1, <2>2, <2>3, RouteIdle DEF TypeOK
  <2>5. MakersInStep' /\ MakerTypeOK'
    BY <2>2 DEF MakersInStep, MintedBefore, BurnedBefore, MakerTypeOK, makerVars,
                clockVars
  <2> QED
    BY <2>4, <2>5
<1> QED
  BY <1>2, <1>3, <1>4, MmMintInv, MmBurnInv DEF MakerNext

-----------------------------------------------------------------------------
(***************************************************************************)
(* The fee curve.                                                          *)
(***************************************************************************)
\* The smaller of two numbers.
LEMMA MinOfTwo ==
  ASSUME NEW x \in Nat, NEW y \in Nat
  PROVE  Min({x, y}) \in {x, y} /\ Min({x, y}) =< x /\ Min({x, y}) =< y
<1>1. \E z \in {x, y} : \A w \in {x, y} : z =< w
  <2>1. CASE x =< y
    BY <2>1
  <2>2. CASE y =< x
    BY <2>2
  <2> QED
    BY <2>1, <2>2
<1> QED
  BY <1>1 DEF Min

\* Whatever the vault holds, compute_fee stays within the curve's maximum.
LEMMA ComputeFeeBound ==
  ASSUME TypeOK, CurveTypeOK, curve.base =< curve.max
  PROVE  ComputeFee \in Nat /\ ComputeFee =< curve.max
<1> USE PsmAssumption
<1>1. /\ curve.base \in Nat /\ curve.k \in Nat /\ curve.max \in Nat
      /\ totalCollateral \in Nat /\ vault \in Nat
  BY IssuanceAssumption DEF TypeOK, CurveTypeOK
<1>2. CASE totalCollateral = 0
  BY <1>1, <1>2 DEF ComputeFee
<1>3. CASE totalCollateral # 0
  <2> DEFINE ideal == totalCollateral \div 2
             imbalance == IF vault > ideal THEN vault - ideal ELSE ideal - vault
             ratio == (imbalance * RATIO_SCALE) \div totalCollateral
             raised == (curve.k * ratio * ratio) \div (RATIO_SCALE * RATIO_SCALE)
             delta == Min({raised, curve.max})
  <2>1. imbalance \in Nat
    BY <1>1
  <2>2. imbalance * RATIO_SCALE \in Nat
    BY <2>1
  <2> HIDE DEF imbalance
  <2>3. ratio \in Nat
    BY <1>1, <1>3, <2>2
  <2> HIDE DEF ratio
  <2>4. curve.k * ratio \in Nat
    BY <1>1, <2>3
  <2>5. curve.k * ratio * ratio \in Nat
    BY <2>3, <2>4
  <2>6. RATIO_SCALE * RATIO_SCALE \in Nat \ {0}
    OBVIOUS
  <2>7. raised \in Nat
    <3> DEFINE p == curve.k * ratio * ratio
               q == RATIO_SCALE * RATIO_SCALE
    <3>1. p \in Nat /\ q \in Nat \ {0}
      BY <2>5, <2>6
    <3> HIDE DEF p, q
    <3>2. p \div q \in Nat
      BY <3>1
    <3> QED
      BY <3>2 DEF p, q
  <2> HIDE DEF raised
  <2>8. delta \in Nat
    BY <1>1, <2>7, MinOfTwo
  <2>9. ComputeFee = Min({curve.base + delta, curve.max})
    BY <1>3 DEF ComputeFee, delta, raised, ratio, imbalance
  <2> HIDE DEF delta
  <2>10. curve.base + delta \in Nat
    BY <1>1, <2>8
  <2>11. Min({curve.base + delta, curve.max}) \in {curve.base + delta, curve.max}
         /\ Min({curve.base + delta, curve.max}) =< curve.max
    BY <1>1, <2>10, MinOfTwo
  <2> QED
    BY <1>1, <2>9, <2>10, <2>11
<1> QED
  BY <1>2, <1>3

\* psm_amm_slippage.rs: a swap pays out of the vault and of the record what it
\* says, never more than the amount.
LEMMA CurveInv ==
  ASSUME IssuanceInv, RoutesSound, CurveNext
  PROVE  IssuanceInv' /\ CurveTypeOK'
         /\ curve'.base =< curve'.max /\ curve'.max =< PSM_MAX_FEE_BPS
<1> USE IssuanceAssumption, PsmAssumption
<1>1. TypeOK /\ CurveTypeOK /\ curve.base =< curve.max /\ curve.max =< PSM_MAX_FEE_BPS
  BY DEF IssuanceInv, RoutesSound
<1>2. CASE \E key \in Keys, c \in Curves :
             InitPsmCurveConfig(key, c) \/ UpdatePsmCurveConfig(key, c)
  <2>1. PICK key \in Keys, c \in Curves :
          InitPsmCurveConfig(key, c) \/ UpdatePsmCurveConfig(key, c)
    BY <1>2
  <2>2. ValidCurve(c) /\ curve' = OpenCurve(c)
        /\ flags' \in {flags, flags \cup {FLAG_PSM_DYNAMIC_FEES}}
        /\ UNCHANGED <<clockVars, issuanceVars, paused, settings>>
    BY <2>1 DEF InitPsmCurveConfig, UpdatePsmCurveConfig, configVars
  <2>3. flags' \subseteq Flags /\ settings' \in Settings
        /\ settings'.redemptionFeeBps =< BPS
    BY <1>1, <2>2 DEF TypeOK, Flags
  <2>4. IssuanceInv'
    BY <2>2, <2>3, RouteIdle
  <2>5. c \in [base : Nat, k : Nat, max : Nat]
    BY <2>1
  <2> QED
    BY <2>2, <2>4, <2>5 DEF ValidCurve, OpenCurve, CurveTypeOK
<1>3. CASE \E h \in Keys, n \in Amounts : PsmDynamicSwap(h, n)
  <2>1. PICK h \in Keys, n \in Amounts : PsmDynamicSwap(h, n)
    BY <1>3
  <2> DEFINE out == SwapOut(n)
  <2>2. n \in Nat /\ PSM_MAX_FEE_BPS =< BPS /\ PSM_MAX_FEE_BPS \in Nat
        /\ curve.max \in Nat
    BY <1>1 DEF CurveTypeOK
  <2>3. ComputeFee \in Nat /\ ComputeFee =< BPS
    BY <1>1, <2>2, ComputeFeeBound
  <2>4. (n * ComputeFee) \div BPS \in 0..n
    BY <2>2, <2>3, FeeBound
  <2>5. out \in Nat /\ out =< n
    BY <2>2, <2>4 DEF SwapOut
  <2>6. /\ n =< vault /\ Burn(h, n)
        /\ vault' = vault - out
        /\ totalBurned + n =< U64_MAX /\ totalBurned' = totalBurned + n
        /\ out =< totalCollateral /\ totalCollateral' = totalCollateral - out
        /\ UNCHANGED <<routeUnchanged, totalMinted, curve>>
    BY <2>1 DEF PsmDynamicSwap, RecordAfterSwap, routeUnchanged
  <2> HIDE DEF out
  <2>7. /\ n =< balance[h] /\ n =< supply /\ supply' = supply - n
        /\ balance' = [balance EXCEPT ![h] = @ - n]
    BY <2>6 DEF Burn
  <2>8. balance \in [Keys -> Nat] /\ vault \in Nat
    BY <1>1 DEF TypeOK
  <2>9. balance' \in [Keys -> Nat] /\ out =< vault
    BY <2>2, <2>5, <2>6, <2>7, <2>8
  <2>10. IssuanceInv'
    BY <2>2, <2>5, <2>6, <2>7, <2>9, RouteBurns
  <2> QED
    BY <1>1, <2>6, <2>10 DEF CurveTypeOK
<1> QED
  BY <1>2, <1>3 DEF CurveNext

-----------------------------------------------------------------------------
(***************************************************************************)
(* The theorems.                                                           *)
(***************************************************************************)
\* A slot never ends the invariant: the clock moves by one, and what the
\* market makers did in the old slot does not count in the new one.
LEMMA MakersAcrossSlots ==
  ASSUME IssuanceInv, MakerTypeOK, MakersInStep, IssuanceStep
  PROVE  MakerTypeOK' /\ MakersInStep'
<1>1. slot \in Nat /\ mm \in MakerConfigs /\ mmIn \in Done
  BY DEF IssuanceInv, TypeOK, MakerTypeOK, MakerConfigs, Done
<1>2. mm' = mm
  BY DEF IssuanceStep
<1>3. slot' = slot \/ slot' = slot + 1
  <2>1. CASE ClockTick
    BY <2>1 DEF ClockTick, Tick
  <2>2. CASE \E m \in Minters, n \in Amounts :
               \/ \E to \in Keys : Mint(m, to, n) \/ \E v \in Versions : CpiMint(m, to, n, v)
               \/ BurnTokens(m, n)
               \/ \E v \in Versions : CpiBurn(m, n, v)
    BY <2>2 DEF Mint, CpiMint, BurnTokens, CpiBurn, clockVars
  <2>3. CASE \/ \E h \in Keys, n \in Amounts :
                  \/ Redeem(h, n) \/ HolderBurn(h, n)
                  \/ \E to \in Keys : Transfer(h, to, n)
             \/ \E n \in Amounts : DepositCollateral(n) \/ Donate(n)
    BY <2>3 DEF Redeem, HolderBurn, Transfer, DepositCollateral, Donate, clockVars
  <2>4. CASE \E k \in Keys :
               \/ \E m \in Minters, l \in Limits :
                    UpdateMinter(k, m, l) \/ SetMintVelocityLimit(k, m, l)
               \/ \E m \in Minters : RevokeMinter(k, m)
               \/ \E attester \in Attesters : InitProofOfReserves(k, attester)
               \/ \E r \in Ratios : AttestProofOfReserves(k, r)
               \/ InitInterfaceVersion(k)
               \/ \E v \in Versions, on \in BOOLEAN : UpdateInterfaceVersion(k, v, on)
    BY <2>4 DEF UpdateMinter, SetMintVelocityLimit, RevokeMinter,
                InitProofOfReserves, AttestProofOfReserves, InitInterfaceVersion,
                UpdateInterfaceVersion, administered, clockVars
  <2>5. CASE GateMoves
    BY <2>5 DEF GateMoves, clockVars
  <2> QED
    BY <2>1, <2>2, <2>3, <2>4, <2>5 DEF IssuanceStep, Next
<1>4. mmIn' = IF slot' = slot THEN mmIn ELSE NothingYet
  BY DEF IssuanceStep
<1>5. mmIn' \in Done
  BY <1>1, <1>4 DEF NothingYet, Done
<1>6. CASE slot' = slot
  <2>1. MintedBefore' = MintedBefore /\ BurnedBefore' = BurnedBefore
    BY <1>2, <1>6 DEF MintedBefore, BurnedBefore
  <2> QED
    BY <1>2, <1>4, <1>5, <1>6, <2>1 DEF MakersInStep, MakerTypeOK, Done
<1>7. CASE slot' = slot + 1
  <2>1. MintedBefore' = 0 /\ BurnedBefore' = 0
    BY <1>1, <1>2, <1>7 DEF MintedBefore, BurnedBefore, MakersInStep, MakerConfigs
  <2>2. mmIn'.minted = 0 /\ mmIn'.burned = 0
    BY <1>1, <1>4, <1>7 DEF NothingYet
  <2>3. slot' > 0 /\ mm'.lastMintSlot =< slot' /\ mm'.lastBurnSlot =< slot'
    BY <1>1, <1>2, <1>7 DEF MakersInStep, MakerConfigs
  <2>4. mm.mintLimit >= 0 /\ mm.burnLimit >= 0
    BY <1>1 DEF MakerConfigs
  <2> QED
    BY <1>2, <1>5, <2>1, <2>2, <2>3, <2>4 DEF MakersInStep, MakerTypeOK, Done
<1> QED
  BY <1>3, <1>6, <1>7

\* A freshly initialized stablecoin satisfies the invariant of all routes.
LEMMA MarketInitInv == MarketInit => MarketInv
<1> SUFFICES ASSUME MarketInit PROVE MarketInv
  OBVIOUS
<1>1. IssuanceInv
  BY InitInv DEF MarketInit
<1>2. BridgeTypeOK /\ bridge.fee =< BRIDGE_MAX_FEE
  BY BridgeAssumption, IssuanceAssumption
  DEF MarketInit, InitBridge, NoBridge, BridgeTypeOK, KeyOrNone
<1>3. mm = NoMakers /\ mmIn = NothingYet /\ slot = 1
  BY DEF MarketInit, InitMakers, Init, InitConfig
<1>4. MakerTypeOK
  BY <1>3 DEF NoMakers, NothingYet, MakerTypeOK
<1>5. MakersInStep
  BY <1>3 DEF NoMakers, NothingYet, MakersInStep, MintedBefore, BurnedBefore
<1>6. CurveTypeOK /\ curve.base =< curve.max /\ curve.max =< PSM_MAX_FEE_BPS
  BY PsmAssumption, IssuanceAssumption DEF MarketInit, InitCurve, NoCurve, CurveTypeOK
<1>7. BridgeBooks
  <2>1. bridge.in = 0 /\ consumed = {}
    BY DEF MarketInit, InitBridge, NoBridge
  <2> QED
    BY <2>1, SumEmpty DEF BridgeBooks, Carried
<1> QED
  BY <1>1, <1>2, <1>4, <1>5, <1>6, <1>7 DEF MarketInv, RoutesSound

\* No step of any route leaves it.
LEMMA MarketNextInv == MarketInv /\ [MarketNext]_marketVars => MarketInv'
<1> SUFFICES ASSUME MarketInv, [MarketNext]_marketVars PROVE MarketInv'
  OBVIOUS
<1>1. IssuanceInv /\ RoutesSound /\ MakersInStep /\ BridgeBooks
      /\ BridgeTypeOK /\ bridge.fee =< BRIDGE_MAX_FEE /\ MakerTypeOK
  BY DEF MarketInv, RoutesSound
<1>0. ASSUME UNCHANGED bridgeVars
      PROVE  BridgeBooks'
  BY <1>0, <1>1 DEF bridgeVars, BridgeBooks, Carried
<1>2. CASE IssuanceStep
  <2>1. IssuanceInv'
    BY <1>1, <1>2, NextInv DEF IssuanceStep
  <2>2. MakerTypeOK' /\ MakersInStep'
    BY <1>1, <1>2, MakersAcrossSlots
  <2>3. UNCHANGED <<bridgeVars, curve>>
    BY <1>2 DEF IssuanceStep
  <2> QED
    BY <1>0, <1>1, <2>1, <2>2, <2>3
    DEF MarketInv, RoutesSound, bridgeVars, BridgeTypeOK, CurveTypeOK
<1>3. CASE BridgeStep
  <2>1. BridgeNext /\ UNCHANGED <<makerVars, curve>>
    BY <1>3 DEF BridgeStep
  <2>2. IssuanceInv' /\ BridgeTypeOK' /\ bridge'.fee =< BRIDGE_MAX_FEE
    BY <1>1, <2>1, BridgeInv
  <2>3. slot' = slot
    BY <2>1 DEF BridgeNext, InitBridgeConfig, BridgeOut, RemoteSend, BridgeIn, clockVars
  <2>4. MakerTypeOK' /\ MakersInStep'
    BY <1>1, <2>1, <2>3 DEF makerVars, MakerTypeOK, MakersInStep, MintedBefore,
                            BurnedBefore
  <2>5. BridgeBooks'
    BY <1>1, <2>1, BridgeBooked
  <2> QED
    BY <1>1, <2>1, <2>2, <2>4, <2>5 DEF MarketInv, RoutesSound, CurveTypeOK
<1>4. CASE MakerStep
  <2>1. MakerNext /\ UNCHANGED <<bridgeVars, curve>>
    BY <1>4 DEF MakerStep
  <2>2. IssuanceInv' /\ MakerTypeOK' /\ MakersInStep'
    BY <1>1, <2>1, MakerInv
  <2> QED
    BY <1>0, <1>1, <2>1, <2>2
    DEF MarketInv, RoutesSound, bridgeVars, BridgeTypeOK, CurveTypeOK
<1>5. CASE CurveStep
  <2>1. CurveNext /\ UNCHANGED <<bridgeVars, makerVars>>
    BY <1>5 DEF CurveStep
  <2>2. IssuanceInv' /\ CurveTypeOK'
        /\ curve'.base =< curve'.max /\ curve'.max =< PSM_MAX_FEE_BPS
    BY <1>1, <2>1, CurveInv
  <2>3. slot' = slot
    BY <2>1 DEF CurveNext, InitPsmCurveConfig, UpdatePsmCurveConfig,
                PsmDynamicSwap, clockVars
  <2>4. MakerTypeOK' /\ MakersInStep'
    BY <1>1, <2>1, <2>3 DEF makerVars, MakerTypeOK, MakersInStep, MintedBefore,
                            BurnedBefore
  <2> QED
    BY <1>0, <1>1, <2>1, <2>2, <2>4 DEF MarketInv, RoutesSound, bridgeVars, BridgeTypeOK
<1>6. CASE UNCHANGED marketVars
  <2>1. IssuanceInv'
    BY <1>1, <1>6, NextInv DEF marketVars
  <2>2. slot' = slot /\ UNCHANGED <<bridgeVars, makerVars, curve>>
    BY <1>6 DEF marketVars, vars, clockVars
  <2> QED
    BY <1>0, <1>1, <2>1, <2>2 DEF MarketInv, RoutesSound, bridgeVars, BridgeTypeOK,
       CurveTypeOK, makerVars, MakerTypeOK, MakersInStep, MintedBefore, BurnedBefore
<1> QED
  BY <1>2, <1>3, <1>4, <1>5, <1>6 DEF MarketNext

\* Every reachable state of the composition satisfies the invariant.
THEOREM MarketInvariance == MarketSpec => []MarketInv
<1>1. MarketInit => MarketInv
  BY MarketInitInv
<1>2. MarketInv /\ [MarketNext]_marketVars => MarketInv'
  BY MarketNextInv
<1> QED
  BY <1>1, <1>2, PTL DEF MarketSpec

\* No u64 of the supply accounting leaves its width and no account its type,
\* whichever routes are in use (mint.rs, bridge.rs, market_maker.rs,
\* psm_amm_slippage.rs).
THEOREM MarketTypeCorrect == MarketSpec => []MarketTypeOK
<1>1. MarketInv => MarketTypeOK
  BY DEF MarketInv, IssuanceInv, RoutesSound, MarketTypeOK
<1> QED
  BY <1>1, MarketInvariance, PTL

\* total_minted - total_burned covers the tokens in circulation whichever
\* route minted or burnt them, so net_supply never saturates (state.rs).
THEOREM MarketSupplyAccounted == MarketSpec => []CountersCoverSupply
<1>1. MarketInv => CountersCoverSupply
  BY DEF MarketInv, IssuanceInv
<1> QED
  BY <1>1, MarketInvariance, PTL

\* A finite max_supply bounds minters, the bridge and market makers together.
THEOREM MarketSupplyCapped == MarketSpec => []SupplyWithinMax
<1>1. MarketInv => SupplyWithinMax
  BY DEF MarketInv, IssuanceInv
<1> QED
  BY <1>1, MarketInvariance, PTL

\* The vault covers the recorded collateral under the flat fee and under every
\* curve (redeem.rs, psm_amm_slippage.rs).
THEOREM MarketVaultSound == MarketSpec => []VaultCoversRecord
<1>1. MarketInv => VaultCoversRecord
  BY DEF MarketInv, IssuanceInv
<1> QED
  BY <1>1, MarketInvariance, PTL

\* No token is created by crossing, however often and in whatever order the
\* relayer reports the messages (bridge.rs).
THEOREM BridgeIsConservative == MarketSpec => []BridgeConserves
<1>1. MarketInv => BridgeConserves
  <2> SUFFICES ASSUME MarketInv PROVE BridgeConserves
    OBVIOUS
  <2>1. /\ Carried(DOMAIN messages) = bridge.in + Carried(DOMAIN messages \ consumed)
        /\ Carried(DOMAIN messages) \in Int /\ Carried(DOMAIN messages \ consumed) \in Int
    BY MessagesSplit DEF MarketInv, RoutesSound
  <2>2. /\ supply \in Nat /\ totalMinted \in Nat /\ totalBurned \in Nat
        /\ supply + totalBurned =< totalMinted
    BY IssuanceAssumption DEF MarketInv, IssuanceInv, TypeOK, CountersCoverSupply
  <2>3. bridge.in \in Nat /\ bridge.out \in Nat
    BY DEF MarketInv, RoutesSound, BridgeTypeOK
  <2> QED
    BY <2>1, <2>2, <2>3 DEF BridgeConserves, Remote
<1> QED
  BY <1>1, MarketInvariance, PTL

\* Market makers stay within both limits in every slot, and the reported
\* capacity is exact (market_maker.rs).
THEOREM MakersLimited == MarketSpec => []MakersWithinLimits
<1>1. MarketInv => MakersWithinLimits
  <2> SUFFICES ASSUME MarketInv PROVE MakersWithinLimits
    OBVIOUS
  <2>1. MakersInStep /\ mm \in MakerConfigs /\ mmIn \in Done
    BY DEF MarketInv, RoutesSound, MakerTypeOK, MakerConfigs, Done
  <2>2. mm.mintLimit \in Nat /\ mmIn.minted \in Nat /\ mmIn.minted = MintedBefore
        /\ MintedBefore =< mm.mintLimit
        /\ mmIn.burned = BurnedBefore /\ BurnedBefore =< mm.burnLimit
    BY <2>1 DEF MakersInStep, MakerConfigs, Done
  <2> QED
    BY <2>2 DEF MakersWithinLimits, MintCapacity
<1> QED
  BY <1>1, MarketInvariance, PTL

\* The epoch counter of every minter counts what it minted in this epoch,
\* idle epochs, changes of the limit and re-registration included
\* (mint.rs, cpi_mint.rs, update_minter.rs, revoke_minter.rs).
THEOREM MarketEpochCounted == MarketSpec => []EpochCounterExact
<1>1. MarketInv => EpochCounterExact
  BY DEF MarketInv, IssuanceInv
<1> QED
  BY <1>1, MarketInvariance, PTL

\* No other route mints in the name of a minter: from epoch 1 on the velocity
\* limit holds whatever the bridge, market makers and the curve do.
THEOREM MarketVelocityLimited == MarketSpec => VelocityLimitHolds
<1>1. MarketInv /\ [MarketNext]_marketVars => [VelocityStep]_vars
  <2> SUFFICES ASSUME MarketInv, [MarketNext]_marketVars PROVE [VelocityStep]_vars
    OBVIOUS
  <2>1. IssuanceInv
    BY DEF MarketInv
  <2>2. CASE IssuanceStep
    BY <2>1, <2>2, NextVelocity DEF IssuanceStep
  <2>3. CASE BridgeStep \/ MakerStep \/ CurveStep
    <3>1. mintedIn' = mintedIn
      BY <2>3 DEF BridgeStep, BridgeNext, InitBridgeConfig, BridgeOut, RemoteSend,
        BridgeIn, MakerStep, MakerNext, InitMarketMakerConfig, RegisterMarketMaker,
        FeedMoves, MmMint, MmBurn, CurveStep, CurveNext, InitPsmCurveConfig,
        UpdatePsmCurveConfig, PsmDynamicSwap, issuanceVars
    <3>2. mintedIn \in [Minters -> Nat]
      BY <2>1 DEF IssuanceInv, TypeOK
    <3> QED
      BY <3>1, <3>2 DEF VelocityStep
  <2>4. CASE UNCHANGED marketVars
    BY <2>4 DEF marketVars
  <2> QED
    BY <2>2, <2>3, <2>4 DEF MarketNext
<1> QED
  BY <1>1, MarketInvariance, PTL DEF MarketSpec, VelocityLimitHolds, VelocityStep

=============================================================================
