----------------------------- MODULE Redemption -----------------------------
(***************************************************************************)
(* The three redemption rails over one ledger.  rails says which of them   *)
(* the issuer of this stablecoin ever opens; a rail that is not opened     *)
(* takes no step.                                                          *)
(***************************************************************************)
EXTENDS RedemptionQueue, RedemptionGuarantee, RedemptionPool, Sums

CONSTANT Deployments   \* sets of rails an issuer may open

ASSUME DeploymentAssumption ==
  Deployments \subseteq SUBSET {"queue", "guarantee", "pool"}

VARIABLE rails         \* the rails this issuer opens; never changes

vars == <<ledgerVars, queueVars, guaranteeVars, poolVars, rails>>

Init ==
  /\ rails \in Deployments
  /\ InitLedger
  /\ InitQueue
  /\ InitGuarantee
  /\ InitPool

\* The cluster moves to the next slot.
SlotPasses ==
  /\ QueueTick
  /\ GuaranteeTick
  /\ UNCHANGED <<ledgerVars, poolVars, rails>>

Mints ==
  /\ \E h \in Holders, n \in Amounts : Issue(h, n)
  /\ UNCHANGED <<queueVars, guaranteeVars, poolVars, rails>>

QueueStep ==
  /\ "queue" \in rails
  /\ QueueNext
  /\ UNCHANGED <<guaranteeVars, poolVars, rails>>

GuaranteeStep ==
  /\ "guarantee" \in rails
  /\ GuaranteeNext
  /\ UNCHANGED <<queueVars, poolVars, rails>>

PoolStep ==
  /\ "pool" \in rails
  /\ PoolNext
  /\ UNCHANGED <<queueVars, guaranteeVars, rails>>

Next == SlotPasses \/ Mints \/ QueueStep \/ GuaranteeStep \/ PoolStep

Spec == Init /\ [][Next]_vars

-----------------------------------------------------------------------------
(***************************************************************************)
(* Fairness.  Slots keep passing.  Keepers are rewarded for processing and *)
(* anyone may compact the head, so a call that stays possible is made; the *)
(* owner of the vault is taken to sign.  A holder whose deadline passed    *)
(* claims.                                                                 *)
(***************************************************************************)
Processes ==
  /\ "queue" \in rails
  /\ \E i \in Indices : ProcessRedemption(i) \/ CompactRedemptionHead(i)
  /\ UNCHANGED <<guaranteeVars, poolVars, rails>>

Claims(h) ==
  /\ "guarantee" \in rails
  /\ ClaimExpiredRedemption(h)
  /\ UNCHANGED <<queueVars, poolVars, rails>>

LiveSpec == /\ Spec
            /\ WF_vars(SlotPasses)
            /\ WF_vars(Processes)
            /\ \A h \in Holders : WF_vars(Claims(h))

-----------------------------------------------------------------------------
\* Type invariant of the redemption rails.
TypeOK ==
  /\ balance \in [Holders -> Nat]
  /\ supply \in Nat /\ totalMinted \in Nat /\ totalBurned \in Nat
  /\ totalCollateral \in Nat /\ deskVault \in Nat
  /\ QueueTypeOK
  /\ GuaranteeTypeOK
  /\ PoolTypeOK

\* No rail creates or loses tokens: the supply is what holders own and what is
\* held in escrow, and total_minted - total_burned never falls below it,
\* although the pool burns without raising total_burned.
TokensConserved ==
  /\ supply = Total(balance) + Total(guaranteeEscrow) + Total(queueEscrow)
  /\ supply + totalBurned + pool.redeemed = totalMinted

\* Every escrow of the queue and of the guarantee holds what is still to be
\* settled and nothing else, so no entry and no request is settled twice,
\* whichever of processing and cancelling, or of fulfilment and claim, comes
\* first; and no balance falls below zero (redemption_queue.rs,
\* redemption_guarantee.rs).
SettledOnce == TypeOK /\ EscrowMatchesEntries /\ RequestSettledOnce

\* The queue keeps its cap per slot and the guarantee its limit per day, though
\* both totals are restarted lazily (redemption_queue.rs,
\* redemption_guarantee.rs).
RailLimitsHold == SlotCapHolds /\ DailyLimitHolds

\* The account the queue pays from, and the collateral on record, cover every
\* open entry: without them process_redemption fails.
Funded(i) == IsOpen(i) => /\ entries[i].amount =< deskVault
                          /\ entries[i].amount =< totalCollateral
QueueServed == queueOn /\ \A i \in Indices : Funded(i)

\* While the queue stays enabled and funded, an entry of one unit with none but units
\* before it is eventually fulfilled or cancelled: the floor of one unit per
\* slot keeps the queue moving (process_redemption, "always allow at least 1
\* unit to avoid deadlock"), and cancelled entries do not block it
\* (compact_redemption_head).
UnitsAhead(i) == \A j \in Indices : j =< i /\ IsOpen(j) => entries[j].amount = 1

UnitEntriesSettle ==
  <>[]QueueServed => \A i \in Indices : IsOpen(i) /\ UnitsAhead(i) ~> IsSettled(i)

\* Once an insurance fund stays configured, every request ends: at par or with
\* the tokens returned, whatever the issuer does (redemption_guarantee.rs).
RequestsEnd ==
  <>[]fundSet => \A h \in Holders : requests[h].status = "open" ~> requests[h].status # "open"

-----------------------------------------------------------------------------
(***************************************************************************)
(* What a document says, and the code does not do.                         *)
(***************************************************************************)
\* docs/REDEMPTION-QUEUE.md, on RedemptionSlotCapExceeded: "Per-slot cap
\* exceeded; retry in a later slot".  An entry larger than a whole slot's cap
\* is refused in every slot, and all entries behind it wait.
QueuedEntriesSettle ==
  <>[]QueueServed => \A i \in Indices : IsOpen(i) ~> IsSettled(i)

=============================================================================
