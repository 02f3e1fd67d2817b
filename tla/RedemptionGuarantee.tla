------------------------ MODULE RedemptionGuarantee ------------------------
(***************************************************************************)
(* redemption_guarantee.rs: redemption at par within sla_slots, or the     *)
(* tokens back and a penalty from the insurance fund.                      *)
(***************************************************************************)
EXTENDS RedemptionLedger

CONSTANTS
  DailyLimits,        \* values given for max_daily_redemption
  DEFAULT_SLA_SLOTS,  \* 450 in the code
  SLOTS_PER_DAY,      \* 216_000 in the code
  PENALTY_BPS,        \* 1_000 in the code
  InitFund            \* collateral in the insurance fund at the start

ASSUME GuaranteeAssumption ==
  /\ DailyLimits \subseteq Nat
  /\ DEFAULT_SLA_SLOTS \in Nat /\ DEFAULT_SLA_SLOTS < MaxAge
  /\ SLOTS_PER_DAY \in 1..MaxAge
  /\ PENALTY_BPS \in 0..BPS /\ InitFund \in Nat

VARIABLES
  guarantee,        \* the RedemptionGuarantee account
  requests,         \* the RedemptionRequest account of each holder
  guaranteeEscrow,  \* tokens in each holder's escrow account
  fund,             \* collateral in the insurance fund
  fundSet,          \* insurance_fund_pubkey is configured
  acceptedInDay     \* history: requested since the day window was started

guaranteeVars == <<guarantee, requests, guaranteeEscrow, fund, fundSet, acceptedInDay>>

NoGuarantee == [open |-> FALSE, maxDaily |-> 0, daily |-> 0, dayAge |-> 0]
NoRequest == [status |-> "none", amount |-> 0, age |-> 0]

InitGuarantee ==
  /\ guarantee = NoGuarantee
  /\ requests = [h \in Holders |-> NoRequest]
  /\ guaranteeEscrow = [h \in Holders |-> 0]
  /\ fund = InitFund
  /\ fundSet = FALSE
  /\ acceptedInDay = 0

\* The timelock names the insurance fund, or takes it away.
FundMoves ==
  /\ fundSet' = ~fundSet
  /\ UNCHANGED <<ledgerVars, guarantee, requests, guaranteeEscrow, fund, acceptedInDay>>

\* register_redemption_pool: registering again starts a new day window.
RegisterRedemptionPool(limit) ==
  /\ limit > 0
  /\ guarantee' = [open |-> TRUE, maxDaily |-> limit, daily |-> 0, dayAge |-> 0]
  /\ acceptedInDay' = 0
  /\ UNCHANGED <<ledgerVars, requests, guaranteeEscrow, fund, fundSet>>

DayOver == guarantee.dayAge >= SLOTS_PER_DAY

DayAgeAfter == IF DayOver THEN 0 ELSE guarantee.dayAge

DailyBefore == IF DayOver THEN 0 ELSE guarantee.daily

\* request_redemption: the request account is created once per holder and
\* never closed.
RequestRedemption(h, n) ==
  /\ n > 0
  /\ guarantee.open
  /\ requests[h].status = "none"
  /\ DailyBefore + n =< guarantee.maxDaily
  /\ n =< balance[h]
  /\ balance' = [balance EXCEPT ![h] = @ - n]
  /\ guaranteeEscrow' = [guaranteeEscrow EXCEPT ![h] = @ + n]
  /\ guarantee' = [guarantee EXCEPT !.daily = DailyBefore + n, !.dayAge = DayAgeAfter]
  /\ requests' = [requests EXCEPT ![h] = [status |-> "open", amount |-> n, age |-> 0]]
  /\ acceptedInDay' = IF DayOver THEN n ELSE acceptedInDay + n
  /\ UNCHANGED <<supply, totalMinted, totalBurned, totalCollateral, deskVault,
                 fund, fundSet>>

WithinSla(h) == requests[h].age =< DEFAULT_SLA_SLOTS

\* Mutant: the length of a day is taken for the window.
SlaOverAfterDay(h) == requests[h].age > SLOTS_PER_DAY

SlaOver(h) == requests[h].age > DEFAULT_SLA_SLOTS

FulfilledStatus(h) == "fulfilled"

\* Mutant: the tokens are moved on instead of burned.
SupplyAfterKept(n) == supply

SupplyAfter(n) == supply - n

\* fulfill_redemption: the owner of the vault signs.  The collateral on record
\* is not lowered.
FulfillRedemption(h) ==
  LET n == requests[h].amount IN
  /\ requests[h].status = "open"
  /\ WithinSla(h)
  /\ n =< guaranteeEscrow[h]
  /\ n =< deskVault
  /\ guaranteeEscrow' = [guaranteeEscrow EXCEPT ![h] = @ - n]
  /\ supply' = SupplyAfter(n)
  /\ deskVault' = deskVault - n
  /\ totalBurned' = totalBurned + n
  /\ requests' = [requests EXCEPT ![h].status = FulfilledStatus(h)]
  /\ UNCHANGED <<balance, totalMinted, totalCollateral, guarantee, fund, fundSet,
                 acceptedInDay>>

Penalty(n) == Least((n * PENALTY_BPS) \div BPS, fund)

\* claim_expired_redemption: the holder, once the window has passed.
ClaimExpiredRedemption(h) ==
  LET n == requests[h].amount IN
  /\ requests[h].status = "open"
  /\ SlaOver(h)
  /\ fundSet
  /\ n =< guaranteeEscrow[h]
  /\ guaranteeEscrow' = [guaranteeEscrow EXCEPT ![h] = @ - n]
  /\ balance' = [balance EXCEPT ![h] = @ + n]
  /\ fund' = fund - Penalty(n)
  /\ requests' = [requests EXCEPT ![h].status = "breached"]
  /\ UNCHANGED <<supply, totalMinted, totalBurned, totalCollateral, deskVault,
                 guarantee, fundSet, acceptedInDay>>

\* A slot passes.
GuaranteeTick ==
  /\ guarantee' = [guarantee EXCEPT !.dayAge = IF guarantee.open THEN Older(@) ELSE @]
  /\ requests' = [h \in Holders |-> IF requests[h].status = "open"
                    THEN [requests[h] EXCEPT !.age = Older(@)] ELSE requests[h]]
  /\ UNCHANGED <<guaranteeEscrow, fund, fundSet, acceptedInDay>>

GuaranteeNext ==
  \/ FundMoves
  \/ \E limit \in DailyLimits : RegisterRedemptionPool(limit)
  \/ \E h \in Holders : \/ \E n \in Amounts : RequestRedemption(h, n)
                        \/ FulfillRedemption(h)
                        \/ ClaimExpiredRedemption(h)

-----------------------------------------------------------------------------
Guarantees == [open : BOOLEAN, maxDaily : Nat, daily : Nat, dayAge : 0..MaxAge]
Requests == [status : {"none", "open", "fulfilled", "breached"}, amount : Nat, age : 0..MaxAge]

GuaranteeTypeOK ==
  /\ guarantee \in Guarantees
  /\ requests \in [Holders -> Requests]
  /\ guaranteeEscrow \in [Holders -> Nat]
  /\ fund \in Nat
  /\ fundSet \in BOOLEAN
  /\ acceptedInDay \in Nat

\* The escrow of a request that is open holds its amount and is empty
\* otherwise: a request is paid at par or returned, never both, whichever of
\* fulfilment and claim comes first at the deadline.
RequestSettledOnce ==
  \A h \in Holders :
    guaranteeEscrow[h] = IF requests[h].status = "open" THEN requests[h].amount ELSE 0

\* Within one day window no more than max_daily_redemption is accepted, though
\* the counter is reset lazily by the first request after the day.
DailyLimitHolds ==
  [][ acceptedInDay' > acceptedInDay => acceptedInDay' =< guarantee.maxDaily ]_guaranteeVars

=============================================================================
