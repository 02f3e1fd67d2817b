------------------------------ MODULE Escrows ------------------------------
(***************************************************************************)
(* Payment channels and probabilistic vaults over the same wallets.  An    *)
(* address holds one account, so it becomes a channel or a vault.          *)
(***************************************************************************)
EXTENDS PaymentChannel, ProbabilisticVault

vars == <<tokenVars, channelVars, vaultVars>>

Init == InitTokens /\ InitChannels /\ InitVaults

ChannelExists(i) == channels[i].status # "None"
VaultExists(i) == vaults[i].status # "None"

Opens(i) ==
  \E k \in Depositors, other \in Agents, n \in Amounts :
    \/ /\ ~VaultExists(i)
       /\ \E t \in Timeouts : OpenChannel(i, k, other, n, t)
       /\ UNCHANGED vaultVars
    \/ /\ ~ChannelExists(i)
       /\ \E c \in Conditions, t \in Lifetimes : CommitProbabilistic(i, k, other, n, c, t)
       /\ UNCHANGED channelVars

ChannelStep(i) == ChannelNext(i) /\ UNCHANGED vaultVars
VaultStep(i) == VaultNext(i) /\ UNCHANGED channelVars
GatesMove == \/ ChannelGateMoves /\ UNCHANGED vaultVars
             \/ VaultGateMoves /\ UNCHANGED channelVars

SlotPasses == ChannelTick /\ VaultTick /\ UNCHANGED tokenVars

Next ==
  \/ SlotPasses
  \/ GatesMove
  \/ \E i \in Ids : Opens(i) \/ ChannelStep(i) \/ VaultStep(i)

Spec == Init /\ [][Next]_vars

\* Slots pass, the initiator of a channel takes its deposit back when it can,
\* and someone refunds an expired vault (the call is open to anyone).
Reclaims(i) == ForceClose(i) /\ UNCHANGED vaultVars
Refunds(i) == ExpireAndRefund(i) /\ UNCHANGED channelVars
LiveSpec == /\ Spec
            /\ WF_vars(SlotPasses)
            /\ \A i \in Ids : WF_vars(Reclaims(i)) /\ WF_vars(Refunds(i))

-----------------------------------------------------------------------------
\* Type invariant of the contracts and their tokens.
TypeOK ==
  /\ wallet \in [Agents -> Nat]
  /\ escrow \in [Ids -> Nat] /\ paid \in [Ids -> Nat] /\ returned \in [Ids -> Nat]
  /\ ChannelTypeOK
  /\ VaultTypeOK

\* No account runs below zero, and what a settled channel paid was signed by
\* both of its parties, or by the authority in a dispute (apc.rs).  That a closed
\* contract never pays again or reopens is ImplementsEscrow's to say.
SettledByAgreement == TypeOK /\ NoUnilateralPayout

-----------------------------------------------------------------------------
(***************************************************************************)
(* Refinement: each contract is an escrow.                                 *)
(***************************************************************************)
PhaseOf(i) ==
  IF ChannelClosed(i) \/ VaultClosed(i) THEN "closed"
  ELSE IF ChannelExists(i) \/ VaultExists(i) THEN "held" ELSE "none"

phaseBar == [i \in Ids |-> PhaseOf(i)]
depositBar == [i \in Ids |-> channels[i].deposit + vaults[i].committed]

Abstract == INSTANCE Escrow WITH phase <- phaseBar, deposit <- depositBar, held <- escrow

\* Channels and vaults implement the escrow: whatever order settlements,
\* disputes, force-closes, proofs and refunds come in, tokens leave an escrow
\* account in one step, all of them, and only the step that closes it.
ImplementsEscrow == Abstract!Spec

\* No deposit is locked for ever: a channel ends by its timeout at the latest,
\* disputed or not and whatever proposal stands, a vault by its expiry.
EveryEscrowCloses == \A i \in Ids : PhaseOf(i) = "held" ~> PhaseOf(i) = "closed"

=============================================================================
