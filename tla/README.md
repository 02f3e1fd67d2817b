# A TLA+ verification of the Solana Stablecoin Standard

This directory specifies, model-checks and proves parts of the `sss-token`
program (`src/programs/sss-token`), the Anchor program behind the Solana
Stablecoin Standard, and of its transfer hook (`src/programs/transfer-hook`).
Paths below are relative to the repository root unless they name a module of
this directory. `*.rs` without a path is a file of
`src/programs/sss-token/src/instructions/`.

## 1. The system

One `StablecoinConfig` account per mint holds the roles, the feature flags, the
pause bit, the timelock and the supply counters. About a hundred instructions
read and write it and the accounts around it. Solana runs each instruction as
one transaction: it takes write locks on its accounts, and an error undoes every
write. An action of these modules is therefore a whole handler, and a failing
`require!` is a guard that is false. Concurrency is the order in which
independent signers (authority, minters, guardians, committee members, keepers,
relayers, debtors, holders) get their transactions in; time enters as slots,
epochs and unix seconds.

### Inventory

| Component | State | Operations | What makes it correct |
|---|---|---|---|
| Configuration (`initialize.rs`, `state.rs`) | roles, flags, pause, delay, pending operation, settings | initialize | presets demand what they promise |
| Admin timelock (`admin_timelock.rs`) and direct setters (`feature_flags.rs`, `pause.rs`, `spend_policy.rs`, `psm_fee.rs`, `oracle_config.rs`, `travel_rule.rs`, `sanctions_oracle.rs`) | `admin_op_*`, guarded settings | propose, execute, cancel; eleven direct setters | a guarded field changes once, and only a full delay after its announcement; the fee, also within a controller's bounds |
| Authority (`update_roles.rs`, `accept_authority.rs`, `authority_rotation.rs`, `squads_authority.rs`) | authority, nominations, rotation request | nominate, accept, rotate, recover, cancel, hand over to Squads | nobody takes office on the word of a former authority |
| Guardians (`guardian.rs`) | council, pause window, votes | register, propose, vote, lift | a pause carries a quorum, and an early lift every guardian |
| Committee (`dao_committee.rs`) | members, proposals | register, propose, vote, execute | executed proposals carry a quorum; its flag stays |
| Keeper (`circuit_breaker_keeper.rs`) | cooldown, recovery clock | init, two cranks | a lasting depeg is answered, a lasting recovery too |
| Minters and supply (`mint.rs`, `cpi_mint.rs`, `burn.rs`, `cpi_burn.rs`, `update_minter.rs`, `revoke_minter.rs`, `psm_fee.rs`, `interface_version.rs`) | `MinterInfo`, counters, interface version | mint, burn, administer | caps, max_supply and the epoch limit hold over any interleaving |
| Reserves (`deposit_collateral.rs`, `redeem.rs`, `proof_of_reserves.rs`) | vault, recorded collateral, attestation | deposit, redeem, attest | the vault covers the record |
| Bridge (`bridge.rs`) | consumed messages, totals | init, out, in | a message is spent once, nothing is created by crossing |
| Market makers (`market_maker.rs`) | list, two per-slot counters | init, register, mint, burn, capacity | both limits hold in every slot |
| PSM curve (`psm_amm_slippage.rs`) | fee curve | init, update, swap, quote | the vault still covers the record |
| Redemption queue (`redemption_queue.rs`) | indices, entries and their escrows, per-slot total | init, update, enqueue, process, cancel, compact | FIFO, cap per slot, nothing stranded |
| Redemption guarantee (`redemption_guarantee.rs`) | request and escrow per holder, daily total | register, request, fulfil, claim | one end per request, daily limit |
| Redemption pool (`redemption_pool.rs`) | liquidity on the books, pool vault | seed, replenish, redeem, drain | the books are backed |
| CDPs and stability fee (`cdp_*.rs`, `collateral_config.rs`, `stability_fee.rs`) | vaults, positions, collateral parameters | deposit, borrow, repay, three liquidations, collect | debt is counted once and backed |
| Insurance vault (`insurance_vault.rs`) | balance, draws | init, seed, contribute, draw | draws stay within their mandates |
| Payment channels (`apc.rs`), probabilistic vaults (`pbs.rs`) | contracts and their escrows | open, prove, propose, countersign, dispute, resolve, close; commit, prove, partly prove, expire | an escrow is paid out once, all of it |
| Oracles (`multi_oracle.rs`, `oracle_config.rs`, `oracle/mod.rs`), fee controller (`pid_fee.rs`) | sources, consensus, average; error, integral | set, remove, crank, publish; init, update | a minority cannot move the price; the fee follows the peg, within its bounds |
| Transfer hook (`src/programs/transfer-hook`), wallet limits, freeze and blacklist, compliance records (`wallet_rate_limit.rs`, `freeze.rs`, `thaw.rs`, `blacklist.rs`, `zk_*.rs`, `sanctions_oracle.rs`, `travel_rule.rs`) | windows, list, records of wallets | transfer, charge, list, verify, issue, revoke, screen | every rule holds at the moment of every transfer |
| Backend, SDKs, CLI, scripts, CPI crate | off-chain mirrors, transaction builders | - | decide nothing on chain |

The components meet in the configuration account: the timelock, the authority, the
guardians, the committee and the keeper write the pause bit; the first two, the
committee, `init_pid_config` and several record-keeping setters write the flags; every
other handler reads both. The stability fee is written by the timelock and by the fee
controller, and read by the CDPs. The supply counters are moved by minters, the
bridge, market makers, borrowers, burners and redeemers. Token-2022 is called to mint,
burn and transfer, holders call it without this program, and it calls the transfer
hook, which calls back `update_wallet_rate_limit`.

What is hard to test here is listed, with its lines, under `hazards` in
`PROJECT.json`: voters and signers racing each other, state that goes stale
between the proposal and the execution of something, windows and epochs that
are counted lazily, counters that several handlers move, messages delivered
twice or late, deadlines at which two exits race, and writes that a later
`require!` of the same transaction rolls back.

## 2. Modules

| Module | Models | Extends |
|---|---|---|
| `StablecoinConfig` | the account, `initialize`, the guards the handlers share | |
| `AdminTimelock` | the pending operation and the direct setters | `StablecoinConfig` |
| `Authority` | who holds the authority | `AdminTimelock` |
| `Guardian`, `DaoCommittee`, `CircuitBreakerKeeper` | pauses and lifts; the committee; the cranks | `StablecoinConfig` |
| `Governance` | all of these and the fee controller interleaved, and their properties | the five above |
| `Issuance` | minting, burning, redemption, reserves, under a governance that moves freely | `StablecoinConfig` |
| `Bridge`, `MarketMaker`, `PsmCurve` | the other routes in and out of the supply | `Issuance` |
| `Market` | all routes over one supply | the three above |
| `RedemptionLedger` | the supply, the holders and the issuer's vault behind the redemption rails | |
| `RedemptionQueue`, `RedemptionGuarantee`, `RedemptionPool` | one rail each | `RedemptionLedger` |
| `Redemption` | the rails over one ledger, their properties | the three above |
| `Escrow` | abstract: a deposit is held whole and paid out once | |
| `EscrowLedger`, `PaymentChannel`, `ProbabilisticVault` | the tokens, the two kinds of contract | |
| `Escrows` | both kinds; their refinement of `Escrow` | the two above |
| `CdpPositions`, `InsuranceVault` | debt, liquidation and the two writers of the fee; the first-loss vault | |
| `Cdp` | a preset-3 stablecoin with either | the two above |
| `PriceConsensus`, `PidFee` | the price; the fee controller | |
| `Pricing` | both loops and their fairness | the two above |
| `TransferLedger` | balances, freezing, flags, blacklist | |
| `WalletRateLimit`, `ComplianceRecords` | the allowance; the records about wallets | `TransferLedger` |
| `TransferHook` | a transfer with all its checks | the two above |
| `Sums` | the totals the properties and some models compare, and the lemmas about them | `TLAPS` |
| `GovernanceProofs`, `MarketProofs`, `RedemptionProofs`, `EscrowProofs`, `CdpProofs`, `TransferProofs`, `PricingProofs` | theorems | the composition they are named for, `TLAPS` |
| `MC*` | for the compositions whose configurations need sets of records or functions: these sets, by name | the composition |

How the state corresponds to the code:

* Public keys are model values; `NoKey` is `Pubkey::default()`. `flags` is the
  set of bits that are on. The PDA accounts are records with an `open` field
  (or a distinguished value such as `NoCouncil`), as `init` and `close` create
  and remove them.
* In the governance modules `slot` stands for the slot number and for unix
  seconds. The code compares them only with values of the same kind, and both
  only grow. `epoch`, where it matters, advances with the clock. The other
  modules keep an `age`, the slots since a stored slot, which stops growing one
  past the largest value it is compared with: the state space is finite and
  deadlines are never out of the clock's reach.
* The pending operation has one `u64` parameter in the code; here it is `bits`
  for the two flag operations and `num` for the rest. `OpAllowed`, `FlagsAfter`
  and `SettingsAfter` are the match arms of `execute_timelocked_op_handler`.
* A vote list is a sequence, as the threshold counts its length.
* History variables, which no guard reads, are marked `history` where they are
  declared.
* In `Issuance` every `checked_add` is a guard at the width `U64_MAX`, and
  `BPS` is the 10 000 of the fee formulas. Burns by holders (`HolderBurn`) and
  collateral sent to the vault (`Donate`) happen in Token-2022 without this
  program. `GateMoves` lets governance set the pause bit, the flags and the two
  settings that issuance reads, to anything the configuration allows at any
  moment, which covers every behaviour of `Governance` for these fields. The
  modules that do not extend `StablecoinConfig` have a gate of the same kind
  for the bits they read.
* `set_psm_fee`, `set_stability_fee` and `set_backstop_params` need preset 3
  and a zero delay; `Sss3StaysTimelocked` shows that they never meet, so they
  have no action. The stability fee changes by the timelock's operation
  (`SetStabilityFee` of `CdpPositions`) or by the fee controller.
* The fee controller appears three times. `PidFee` computes: error, integral, gains,
  truncation, clamps and cooldown, in a system whose flag is on. `Governance` has who
  may do what: creation by the authority without the timelock, the flag, the cooldown,
  and an update by anyone to any fee within the bounds, as the caller reports the
  price and the gains are the issuer's. `CdpPositions` takes the fees such updates
  write (`PidFees`), which the timelock's maximum does not bound.
* `CdpPositions` has two prices. `price` is the effective one, which
  `cdp_borrow_stable` and `cdp_liquidate` take: the consensus when
  `FLAG_MULTI_ORACLE_CONSENSUS` is on, else the configured feed. `pythPrice` is what
  the Pyth account shows, which `cdp_liquidate_v2.rs:184` reads itself. They move
  together or apart (`Quotes`). `expected_pyth_feed` is taken to be set; without it
  the caller of the second liquidation names the account.
* The other chain of the bridge is external: it burns what was announced to it
  and sends messages, which the relayer delivers late, repeatedly, in any order
  or not at all. Pyth and Switchboard feeds are external prices.
* Hashes and proofs are secrets that match or do not (`ProbabilisticVault`) or
  signers that agree or do not (`ComplianceRecords`): the program verifies no
  zero-knowledge proof itself.
* Events, log messages, PDA derivation, rent and account layout are left out.

**Scope of the supply properties.** `Market` has minters, `cpi_mint`, the bridge,
market makers, the curve, redemption and burns over one supply. Two more
handlers move it outside: `cdp_borrow_stable.rs:233` raises `total_minted`
without the `max_supply` check, so `SupplyWithinMax` is a statement about the
routes of `Market` and not about debt (`EveryTokenIsOwed` of `CdpPositions` is what
must hold there instead); and the redemption pool burns without raising
`total_burned` (`TokensConserved` of `Redemption` states the drift).

## 3. Runs

Run one with `tlc -workers 2 -config X.cfg M`. Each passing run is exhaustive
within its bounds.

| Run | Module | Properties | States | Shows |
|---|---|---|---|---|
| `timelock` | `MCGovernance` | `PendingOpHonoursDelay`, `Sss3StaysTimelocked`, `NominationByAuthorityInOffice`, `GuardedChangesNeedMatureOp`, `ComplianceHandoverNotice` | 1 020 000 | presets 1 and 3; every kind of operation, the direct setters, the fee controller and all ways the authority changes hands |
| `dao` | `MCGovernance` | `QuorumsKept`, `GovernanceFlagsSticky` | 700 000 | committee and timelock side by side, votes to clear the committee's and the multisig's own flag among them, from a delay of zero that is raised on the way |
| `pause` | `MCGovernance` | `QuorumsKept`, `EarlyLiftNeedsEveryGuardian`, `LastingDepegPauses` | 150 000 | guardians, cranks, timelock and `pause` on one bit |
| `market` | `MCMarket` | `MarketTypeOK`, `CountersCoverSupply`, `SupplyWithinMax`, `VaultCoversRecord`, `BridgeConserves`, `MakersWithinLimits`, `EpochCounterExact`, `VelocityLimitHolds` | 1 260 000 | every route over one supply, up to the width of the counters |
| `redemption` | `Redemption` | `NoEntryStranded`, `SettledOnce`, `PoolBooksBacked`, `TokensConserved`, `FirstInFirstOut`, `RailLimitsHold`, `UnitEntriesSettle`, `RequestsEnd` | 370 000 | each rail, with parameters that change while holders wait |
| `escrow` | `Escrows` | `SettledByAgreement`, `ImplementsEscrow`, `EveryEscrowCloses` | 540 000 | two contracts of either kind; settlement, dispute, proof and time-out racing |
| `cdp` | `MCCdp` | `DebtSound`, `NoUnbackedDebt`, `DrawsWithinMandates`, `NothingPaidTwice`, `LiquidationJustified` | 1 200 000 | two users, two collaterals, two moving prices, both writers of the fee, the gates; mandates of a committee |
| `pricing` | `MCPricing` | `MajorityPriceWins`, `SourcesSound`, `FeeFollowsPeg` | 280 000 | three slots of sources, wrong and silent feeds; the controller with wound-up integral |
| `transfers` | `TransferHook` | `AllowancesHold`, `SendersVouchedFor`, `SanctionsOutliveStaleness` | 1 630 000 | every check of the hook while what it reads changes |
| `keeper_recovery` | `MCGovernance` | `RecoveryUnpauses` | refuted | see below |
| `queue_stall` | `Redemption` | `QueuedEntriesSettle` | refuted | see below |
| `twap_refresh` | `MCPricing` | `TwapFallbackBounded` | refuted | see below |

The type invariant of a composition is checked as a conjunct of the invariant
it supports: `QuorumsKept` is `TypeOK` with `ExecutedPauseHasQuorum` and
`ExecutedProposalHasQuorum`; `SettledOnce` is `TypeOK` with
`EscrowMatchesEntries` and `RequestSettledOnce`; `SettledByAgreement`,
`DebtSound`, `SourcesSound` and `AllowancesHold` are `TypeOK` with
`NoUnilateralPayout`, `EveryTokenIsOwed`, `SourceCountExact` and
`RateLimitHolds`. `RailLimitsHold` joins the queue's cap per slot and the
guarantee's limit per day.

Refuted statements. Each of these runs checks one sentence of a comment or
document, and TLC shows a behaviour of the code that contradicts it. `findings`
in `PROJECT.json` quotes the sentence.

* `keeper_recovery`: a sustained recovery unpauses. The start of the recovery
  clock is rolled back with the failing call, so with a positive window it
  never runs.
* `queue_stall`: a redemption refused by the per-slot cap can be retried in a
  later slot. An entry larger than a slot's whole cap is refused in every slot
  and, as service is strictly in order, so is everything behind it.
* `twap_refresh`: an average older than 1000 slots is rejected. Each fallback
  stores the average anew with the current slot, so it never grows old.

### Refinement

`Escrow` says what an escrow promises: held whole, closed once, split exactly
between beneficiary and depositor. `Escrows` maps a channel or vault to it
(`PhaseOf`, the deposit, the escrow's token account) and checks
`ImplementsEscrow == Abstract!Spec`: every handler is an opening, a closing or
a stutter, so no order of settlements, disputes, partial proofs, force-closes
and refunds pays a second time or leaves a remainder behind.

### Bounds

`MaxSlot` bounds the clock of the governance runs. It leaves room for an announcement, a
full delay and a second operation (delays are 1 or 2 slots, the rotation and
recovery windows 1 and 2); since the handlers only compare slots with sums of a stored
slot and a constant, longer delays reorder nothing. Three keys suffice for roles
that must differ: an outgoing authority, its nominee and a third. The council and the
committee have two members, and registration tries every threshold; with two
proposals a second pause follows a lift. `FewSettings` keeps at most one of the
guarded settings away from its initial value at a time: the settings are
written one per operation and never read by one another's setters. Once a fee
controller exists it also keeps hand-overs away and the timelock to the fee, the flags
and the delay, which are what an update reads or writes; the theorems have every
combination. The controller's band is 1 to 2, so that 0 and 3, which the timelock may
set, lie below and above it. The masks of a run name a protected bit and one
that is not: in `dao` both protected bits are proposed to be cleared, by vote, by
timelock and directly. Each
governance run gives the components it does not ask about empty sets, which
disables them.

In `market` amounts 1 and 2 with `BPS = 2` make fees round down and not;
`U64_MAX = 4` is reached in every counter; `max_supply = 3` is reached by two
routes together; two messages can be delivered in both orders. `mcIssuers` is
one issuer per optional route and one without; `OneThingAtATime` lets the one
without go through epochs, velocity limits, interface versions and
attestations, and keeps those with a route in one epoch. The theorems of
section 5 cover the combinations these two leave out.

`redemption` has two holders, three entries and each rail on its own (`Deployments`): the
rails share the supply and the issuer's vault, and no handler of one reads an account
of another. With `BPS = 2` the cap per slot is half the supply (the default) or all of
it, and with one token left the floor of one unit binds. `escrow` has two contracts of
two agents, so that a party can be on either side and a wallet run dry. In `cdp` the
user who starts with collateral holds unequal amounts of two mints; prices 2 to 4
cross the borrowing ratio and both liquidation thresholds, and in one quote the Pyth
feed is at 1 while the effective price is at 4; the controller's fee of 8 is above the
timelock's maximum of 5; `mcParts` looks at positions and at the insurance vault in
turn, as `mint.rs` and the CDP handlers read no insurance account. In `pricing`,
`Loops` does the same for the two loops; the reported prices lie below, on and above
the target, and the gains have a proportional and an integral controller. `transfers`
gives each family of flags its own rule set, with two wallets and a delegate; four
slots are two windows of the rate limit and more than a record's lifetime.

Deadlock is checked in the `market`, `redemption`, `escrow`, `pricing` and
`transfers` runs. The governance runs switch it off: the clock is bounded, and a
mint whose authority is out of reach (a multisig that is not the authority)
really can stop. So does `cdp`: an insurance vault that is not initialised and
whose issuer has minted all it may has nothing left to do.

### Fairness

Every `LiveSpec` has weak fairness only.

* `Governance`: the clock and the two cranks. The slot number advances whatever the
  program does, and the cranks take any signer and pay a reward. Nothing is assumed of
  the authority, the guardians or the price. `LastingDepegPauses` excludes only a
  cooldown that ends beyond the bounded clock.
* `Redemption`: the clock, keepers that process or compact (a rewarded call, and one open
  to anyone; the owner of the vault that pays is taken to sign), and each
  holder's own claim after the deadline. The issuer need not act.
* `Escrows`: the clock, the initiator's force-close and the refund, which is
  open to anyone. Neither the counterparty nor the authority need act.
* `Pricing`: the controller's clock and some report, which anyone may make. The
  reports themselves are free; `FeeFollowsPeg` is about those that stay on one
  side, for the gains of the configuration (a gain whose every step truncates
  to zero would not move the fee).

## 4. Observations

Other differences between text and code that the translation met. They have no run: the
models behave as the code does, and the properties are stated around them.

Governance

* `squads_authority.rs:118` leaves `pending_authority` standing, so a nominee
  named before the hand-over can replace the multisig afterwards, although
  `update_roles.rs:30` says the authority then is the multisig.
  `NominationByAuthorityInOffice` therefore excludes preset 4.
* `authority_rotation.rs:162` does not compare the request's proposer with the
  authority, although `state.rs:773` says it must still be: a request that outlived
  its proposer's term is accepted.
* `pause.rs:51` lifts a guardian pause at once when the delay is zero, although
  `guardian.rs:8` reserves that to all guardians. `EarlyLiftNeedsEveryGuardian`
  assumes a positive delay, and that no committee can vote to unpause.
* `admin_timelock.rs:233` changes flags while a committee is installed, although
  `feature_flags.rs:48` reserves that to proposals.
* `sanctions_oracle.rs:109` resets two timelocked fields without the timelock,
  although `admin_timelock.rs:47` calls it the only path. `GuardedSettings` leaves the
  two out.
* `pid_fee.rs:224` writes the stability fee for any caller, without the timelock,
  although `stability_fee.rs:212` guards the fee by `require_timelock_executed`, whose
  comment (`admin_timelock.rs:47`) calls the timelock the only path to the fields it
  guards. Creating the controller takes no timelock either (`pid_fee.rs:78` says so).
  `GuardedSettings` leaves the fee out; `GuardedChangesNeedMatureOp` says of it what
  does hold: it changes by a matured operation, or within the bounds the authority
  gave a controller that is on.
* `initialize.rs:86` refuses an SSS-3 mint without a Squads key and `:206` sets the
  flag, although `docs/TRUST-MODEL.md:49`, `:68` and `:80` call that planned and a
  single-key SSS-3 deployment valid (`docs/SSS-3.md:180` and `:270` agree with the code).
  `Sss3StaysTimelocked` asks for both.
* `dao_committee.rs:367` refuses to clear `FLAG_DAO_COMMITTEE` by a vote, and no other
  path clears it: once set, it stays. `admin_timelock.rs:242`, `docs/DAO-GOVERNANCE.md:48`
  and `:57`, `docs/TRUST-MODEL.md:40`, `:64` and `:97`, and `docs/SSS-3.md:182` and `:272`
  say that a proposal can clear it. `GovernanceFlagsSticky` is what the code does.
* `admin_timelock.rs:286` accepts a stability fee up to 10 000 bps, although
  `stability_fee.rs:7` names 2000 as the maximum.

Supply

* `mint.rs:130` compares the net supply with `max_supply`, although
  `docs/API-REFERENCE.md:344` names `total_minted`.
* `mint.rs:119` and `:128` let an uncapped minter mint tokens of a stablecoin
  without a `max_supply`, although `docs/SUPPLY-CAP-POR-HALT.md:22` says the
  instruction rejects this.
* `mint.rs:104` resets the epoch counter with every mint of epoch 0, although
  `mint.rs:103` reads 0 as never minted. The velocity properties start at
  epoch 1.
* `mint.rs:81` accepts an attestation of any age, although
  `docs/SUPPLY-CAP-POR-HALT.md:121` has minting halt when attestations stop.
* No mint looks at the insurance vault, although `docs/INSURANCE-VAULT.md:14`
  has an unseeded vault block minting.
* The bridge's relayer is the authority of the moment of `init_bridge_config`
  and never changes. The list of market makers is compared with 10, its account
  has room for 8, and nobody is ever removed. The curve's swap does not look at
  the circuit breaker.

Redemption and escrow

* `redemption_guarantee.rs:300` burns the escrowed tokens on fulfilment, although
  `docs/REDEMPTION-GUARANTEE.md:137`, `:145` and `:234` move them to `burn_destination`, and
  `tests/sss-125-redemption-guarantee.ts:436` expects to find them there.
  `TokensConserved` follows the code: the supply falls.
* `redemption_queue.rs:325` processes the head and nothing else, although
  `docs/REDEMPTION-QUEUE.md:417` lets keepers process out of order and orders only the
  advancement of the head. `FirstInFirstOut` is what the code does.
* A request account of the guarantee is never closed: one request per holder,
  ever. Registering the pool again opens a new daily allowance. The queue lowers
  `total_collateral` and the guarantee does not; the pool burns without raising
  `total_burned`.
* A settlement proposal cannot be replaced, a dispute overwrites the work proof
  and does not stop `force_close`, and the dispute policy is read by no handler.
  `prove_and_resolve` does not look at the expiry.

CDPs and pricing

* `cdp_liquidate_v2.rs:184` goes by the Pyth feed whatever the consensus says,
  although `docs/MULTI-ORACLE-CONSENSUS.md:21` and `:243` make the consensus the CDP's
  price. It so seizes from positions that are healthy at the price they were borrowed
  at, and which `cdp_liquidate` would refuse. `LiquidationJustified` therefore says
  that a liquidated position is below 120% at one of the two prices, and better off at
  that one.
* One feed prices every collateral. The collateral's own threshold is at most
  100% while the default is 120%. The configuration account is optional on
  deposit, repay and the first liquidation, so `total_deposited` drifts from the
  vaults, and a later checked subtraction may refuse a liquidation.
* Repaying charges no fee of the running interval and does not move
  `last_fee_accrual`; a changed rate applies to the whole running interval; a
  partial second-version liquidation that covers the principal forgives fees.
* `trigger_backstop` has no caller that can sign for it, and
  `LiquidationBonusConfig` is never read.
* The controller's ceiling is any `u16`, not capped by the maximum fee of the
  timelock, and its report is bounded only when an oracle is configured. The custom
  feed keeps the authority it was created with. The consensus takes the exponent to be
  -8.

Transfers

* The hook enforces no travel rule, although `travel_rule.rs:19` says it does:
  a record is created, and no transfer asks for it.
* `wallet_rate_limit.rs:15` promises the allowance over any window; the window
  restarts lazily (`:263`), so up to twice the allowance passes around a boundary.
  `RateLimitHolds` is the bound the code gives. Anyone who names the hook's program
  may charge a wallet's counter. While the flag is on, a wallet without an allowance
  cannot send.
* The hook's blacklist authority is the first caller of
  `initialize_extra_account_meta_list`, also after a compliance hand-over. No
  instruction creates a `DelegateConsent`. Sanctions are checked for the sender
  only.

## 5. Proofs

`tlapm X.tla` checks each of the eight modules with theorems, `Sums` and the seven
`*Proofs`. Everything is proved from the named assumptions of the modules
(`IssuanceAssumption`, `KeysAssumption`, `DelayAssumption`, ...): amounts, caps and
widths are natural numbers, fees are at most their base, prices and scales are
positive, the sets of holders, users, wallets and messages are finite, and the minimum
delay is positive. A theorem holds for every choice of the constants within these: any
number of accounts, any amounts, any delays. The runs of section 3 check the same
formulas on small instances, and each inductive invariant was checked there before it
was proved.

**Sums.** Supplies are compared with the sum of all balances, debts or messages
in transit. `SumOn` is a fold, and what is known of a fold is a recursive
equation. `Sums` shows that the equation has exactly one solution for every
finite set, by looking at a smallest set for which it fails (the library's induction
theorems cannot be used here, but its minimum principle for well-founded relations
can). From there the sum does not depend on the order (`SumRemove`), changing
one summand changes it by as much (`SumChange`, `TotalExcept`), it splits over
disjoint sets (`SumSplit`), and is monotone and bounded by its parts.

**Issuance** (in `MarketProofs`). The inductive invariant is `IssuanceInv`: `TypeOK`,
`CountersCoverSupply`, `SupplyWithinMax`, `VaultCoversRecord` and
`EpochCounterExact` together. They need each other. A burn checks the token's
supply and raises a counter, so `CountersCoverSupply` needs itself; the cap is
checked on the counters, so that it bounds the tokens needs
`CountersCoverSupply`; that redemption takes no more from the vault than was
redeemed needs the type of the fee (`CollateralOutBound`); the velocity limit
is checked on a counter that must be exact. There is one lemma per group of
handlers, and `NextInv` puts them together. From `Invariance` follow
`IssuanceTypeCorrect`, `SupplyAccounted`, `SupplyCapped`, `VaultSound` and, with
`NextVelocity` for the step, `VelocityLimited`: no minter passes its limit within
an epoch, from epoch 1 on (section 4 says why not before).

**Market.** The same for every route together. `MarketInv` is `IssuanceInv`,
`RoutesSound` (the types of the routes' accounts and the bounds of their fees) and
`MakersInStep`, which ties the lazily restarted counters of the market makers to
what they did in this slot: the restart is only sound because a stored slot is
never ahead of the clock. Any route that mints under the cap, burns what it
counts, or leaves the supply alone keeps `IssuanceInv` (`RouteMints`,
`RouteBurns`, `RouteIdle`); `BridgeInv`, `MmMintInv`, `MmBurnInv` and `CurveInv` show
that each handler is of such a kind, with `FeeBound` and `ComputeFeeBound` for the
roundings; `MakersAcrossSlots` carries the counters over the clock. It follows that

* `MarketTypeCorrect` - no counter leaves its width;
* `MarketSupplyAccounted` - `net_supply` never saturates;
* `MarketSupplyCapped` - `max_supply` bounds all these routes together;
* `MarketVaultSound` - the vault covers the record under every admissible curve;
* `MakersLimited` - both per-slot limits hold and the reported capacity is exact;
* `MarketEpochCounted`, `MarketVelocityLimited` - the epoch counter is exact and
  the velocity limit holds whatever the other routes do;
* `BridgeIsConservative` - the tokens here, on the other chain and in undelivered
  messages are at most what the other routes minted: a delivery moves the amount
  of a message out of the sum of the undelivered ones, once, and every later
  delivery of it is refused.

**Governance: the timelock.** The inductive invariant is `GovernanceInv`:
`PendingOpHonoursDelay`, `Sss3StaysTimelocked`, `NominationByAuthorityInOffice`,
the types of the timelock's numbers, and `ComplianceNominationAged` (a standing
compliance nomination was announced the default delay ago). An operation is
matured when the slot it stores has come; that this is a full delay after its
announcement, under the delay in force now, is `PendingOpHonoursDelay`, and it
survives a change of the delay because the step that changes it spends the
pending operation. The two guarantees about a compliance hand-over and about
guarded fields rest on it. `StepSafe` is what a step must do: keep the
invariant and satisfy the three action properties. `UntouchedSafe` settles the
clock, the guardians, the committee and the keeper at once, as they leave the
core of the configuration alone; the timelock and the authority have a lemma per
instruction, and `ControllerSafe` is the fee controller's. It follows that

* `PendingHonoured`, `Sss3Timelocked`, `NominationsCurrent` - the invariants of
  the same content hold always;
* `FlagsSticky` - no path clears the committee's or the multisig's flag;
* `GuardedChangesAnnounced` - under a positive delay a guarded field changes
  only by spending an operation announced a full delay before, and the stability fee
  only so or within the bounds of a controller that is on;
* `ComplianceNoticed` - a compliance hand-over has its two epochs of notice.

**Governance: the votes.** A second inductive invariant, `VotingInv`, is about
guardians and committee, next to the type of the whole configuration. The code
compares the length of a vote list with a threshold; `Ballot` says that the list names
distinct electors, so that its length counts voters. `CouncilBooks` adds that an
executed pause has its threshold and that the standing lift votes were all cast
since the last guardian pause; `CommitteeBooks`, that a proposal carries the quorum of
its committee and was voted for by so many members before it took effect;
`KeeperBooks`, that the recovery clock is never set (`keeper_recovery`, section 3),
without which `crank_unpause` would be a way around the guardians. It follows that

* `QuorumsAreKept` - every executed pause and proposal has the votes of as many
  different electors as its threshold says;
* `EarlyLiftIsUnanimous` - within its window a guardian pause ends only with the vote
  of every guardian, cast since that pause: a ballot as long as the council is the
  whole council (`FullBallot`).

**Redemption.** `RedemptionInv` has one part per rail and one for the ledger.
`QueueBooks` joins `NoEntryStranded` and `EscrowMatchesEntries` (the escrow of an
entry holds its tokens exactly while it is open) with the owners of open
entries and with the meaning of the lazily restarted total: in the slot it is
stored for, it is what was redeemed. `GuaranteeBooks` does the same for requests
and the day's total, `PoolBooks` for the liquidity. `TokensConserved` ties the
sum of balances and escrows to the supply, and needs all three: a burn takes
tokens from an escrow that must hold them. Each handler has a lemma; the rails
leave each other's books alone (`QueueIdle`, `GuaranteeIdle`, `PoolIdle`). It
follows that

* `QueueStrandsNoEntry` - no open entry is outside the window of the indices;
* `RailsSettleOnce` - every entry and every request has one end and is paid once;
* `PoolIsBacked` - the pool's liquidity is in its vault;
* `SupplyIsAccounted` - the tokens in all accounts are the supply, and its drift from
  the counters is what the pool burned;
* `QueueIsFirstInFirstOut` - an entry is processed only when all older ones are closed
  (only `process_redemption` fulfils, `FulfilledByProcessing`, and it serves the
  head, before which nothing is open);
* `RailLimits` - both caps hold, though redeeming moves the supply the first is a
  fraction of.

**Escrow.** `EscrowInv` says of every address that it is a channel, a vault or
nothing, that its escrow account holds the whole deposit until it closes and nothing
was paid before (`DepositWhole`), and that a standing proposal was made by a
party. `ContractsImplementEscrow` is the refinement, step by step: each handler
opens one escrow (`Opened`), closes one with all of its money (`PaidOut`) or
changes none (`Stutters`). `SettledTogether` is the invariant that a channel is
settled only on an amount both parties signed (a proposal and its countersignature, or a
dispute they resolve together), or on one the authority signed in a dispute that a party
raised with evidence; it needs that a standing proposal carries the signature of its
proposer. That a closed contract stays closed is part of the refinement.

**CDPs.** `CdpInv` is `EveryTokenIsOwed` (the supply is at most what minters issued
and what positions still owe of their principal), `NoUnbackedDebt`, types, and what
these rest on: the supply is the sum of the balances, an unopened position owes
nothing, and a registered threshold is at most par. What needs an argument is
rounding: repaying a part releases collateral in proportion, rounded down, so that the
rest stays covered (`RepayCovered`); a seizure is at most the vault (`SeizedV1Fits`,
`SeizedV2Fits`). `InsuranceInv` bounds the balance and the draws by what was seeded
and by the records of the mandates.

* `DebtsAreSound`, `DebtIsBacked` - the two properties of positions;
* `DrawsAreApproved` - draws through the committee never exceed what it approved;
* `LiquidationsAreJustified` - collateral is seized only below 120% at the effective or
  at the Pyth price, and a surviving position is better covered at it than before;
* `NoFeeIsChargedTwice` - while rate and time stand, each step burns at most
  what it takes off the sum of debts and pending fees: one lemma per handler says what
  it takes off its own position, and the others owe what they owed.

**Transfers.** `RateBooks` says what the lazy restart of a wallet's counter preserves:
what was sent since the counter started is counted in it, and what was sent in the last
window before it started was within the allowance. A window of slots is covered
by these two (`SumSplit`), hence twice the allowance, and the bound survives a restart
because the old counter then is the second part. The records have
a part each: a verification, a credential or a verdict in force was given by
who could give it, within its lifetime, and a revocation outlives the holder's
closing of the record.

* `AllowancesAlwaysHold` - at most twice the allowance in every window, also when others
  charge the counter or the limit is set anew;
* `SendersAreVouchedFor` - a sender has a live proof and an unrevoked credential
  while the flags ask for them;
* `SanctionsStayInForce` - a wallet reported as sanctioned does not send while screening
  is on.

**Pricing.** The median is defined by rank: the price that fewer than k slots show
less than, and at least k at most. That there is one (`Ranked`) takes the least number
with enough prices up to it; that it is the majority's price where there is a majority
(`MajorityInTheMiddle`) is a count: the slots of a majority and those up to a smaller
price would be more than there are. A slot of the majority has no distance from the
first median, so no outlier bound removes it, and it is a majority of the accepted
slots again (`MajorityAccepted`). `ConsensusInv` adds the exact count of sources and
that an open account asks for at least one accepted price, so that a median is never
taken of none.

* `SourcesAreCounted` - `source_count` is the number of filled slots;
* `MajorityDecides` - what more than half of the fresh sources show is the consensus.

The models are written so that they can be reasoned about: totals with `Sums`, so
that one set of lemmas serves the bridge, the redemption rails, the CDPs and the
rate limit; the median by rank instead of with a sorting permutation; type invariants
split by component. The sets of guardians, holders, users and mandates are assumed
finite, as vectors and accounts are.

Every safety invariant and action property of the passing runs is proved. Only
model-checked is liveness, which is out of the prover's reach with its fairness:
`LastingDepegPauses`, `UnitEntriesSettle`, `RequestsEnd`, `EveryEscrowCloses` and
`FeeFollowsPeg`.

Next to prove: the step facts liveness rests on, as action properties (that
processing at the head makes progress, that a winding-down integral moves the fee);
the bound on how far a minority that is not outvoted can move the price.

## 6. Not modelled

Listed with reasons under `components` in `PROJECT.json`; in short:

* off-chain code (backend, SDKs, CLI, scripts): it decides nothing on chain;
* the Rust proofs and fuzz tests: they exercise the same program;
* upgrade and account migration: byte layout and a call of the loader;
* the backstop, which no caller can trigger, and the liquidation bonus tiers,
  which nothing reads;
* the legal entity registry, reserve composition and the published fields of
  the proof of reserves: records no handler reads back; the list of yield
  collaterals: an optional guard of one deposit;
* of modelled components: the keeper list of the stability fee and
  `burn_accrued_fees`, the slippage guard of a liquidation, the confidence
  interval of a feed, the SOL reward of the breaker's keeper, and how
  Token-2022 resolves the hook's extra accounts.
