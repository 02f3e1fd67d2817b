--------------------------- MODULE PaymentChannel ---------------------------
(***************************************************************************)
(* apc.rs: payment channels between an initiator, who deposits, and a      *)
(* counterparty, who works.  A channel ends by a settlement both sign, by  *)
(* a resolved dispute, or by the initiator after a timeout.                *)
(***************************************************************************)
EXTENDS EscrowLedger

CONSTANTS Timeouts   \* values given for timeout_slots

ASSUME ChannelAssumption == Timeouts \subseteq 0..MaxAge

VARIABLES
  channelsOn,  \* FLAG_AGENT_PAYMENT_CHANNEL is set and the config not paused
  channels,    \* the PaymentChannel accounts
  proposals,   \* the ProposedSettlement account of each channel
  signed       \* history: who signed what amount for the counterparty

channelVars == <<channelsOn, channels, proposals, signed>>

NoChannel == [status |-> "None", initiator |-> Nobody, counterparty |-> Nobody,
              deposit |-> 0, timeout |-> 0, age |-> 0, proof |-> "none"]
NoProposal == [open |-> FALSE, amount |-> 0, by |-> Nobody]

InitChannels ==
  /\ channelsOn = FALSE
  /\ channels = [i \in Ids |-> NoChannel]
  /\ proposals = [i \in Ids |-> NoProposal]
  /\ signed = [i \in Ids |-> {}]

\* k signs that the counterparty gets x.
Signature(k, x) == [by |-> k, amount |-> x]

Parties(i) == {channels[i].initiator, channels[i].counterparty}

\* ChannelStatus::is_terminal
ChannelClosed(i) == channels[i].status \in {"Settled", "ForceClose"}

\* Governance sets the flag and the pause bit.
ChannelGateMoves ==
  /\ channelsOn' = ~channelsOn
  /\ UNCHANGED <<tokenVars, channels, proposals, signed>>

OpenChannel(i, k, counterparty, n, timeout) ==
  /\ channelsOn
  /\ channels[i].status = "None"
  /\ timeout > 0
  /\ n > 0
  /\ Lock(i, k, n)
  /\ channels' = [channels EXCEPT ![i] =
       [status |-> "Open", initiator |-> k, counterparty |-> counterparty,
        deposit |-> n, timeout |-> timeout, age |-> 0, proof |-> "none"]]
  /\ UNCHANGED <<channelsOn, proposals, signed>>

\* submit_work_proof: either party, over any proof before it.
SubmitWorkProof(i, k) ==
  /\ channels[i].status = "Open"
  /\ k \in Parties(i)
  /\ channels' = [channels EXCEPT ![i].proof = "work"]
  /\ UNCHANGED <<tokenVars, channelsOn, proposals, signed>>

\* propose_settle: the proposal's account exists once, so the first proposal
\* stands until it is countersigned.
ProposeSettle(i, k, x) ==
  /\ channels[i].status = "Open"
  /\ k \in Parties(i)
  /\ ~proposals[i].open
  /\ x =< channels[i].deposit
  /\ proposals' = [proposals EXCEPT ![i] = [open |-> TRUE, amount |-> x, by |-> k]]
  /\ signed' = [signed EXCEPT ![i] = @ \cup {Signature(k, x)}]
  /\ UNCHANGED <<tokenVars, channelsOn, channels>>

\* Mutant: a proposer may countersign its own proposal.
CountersignerAny(i, k) == k \in Parties(i)

Countersigner(i, k) == k \in Parties(i) /\ k # proposals[i].by

\* Mutant: the remainder stays in the escrow.
RemainderNone(i, x) == 0

Remainder(i, x) == channels[i].deposit - x

CountersignSettle(i, k, x) ==
  /\ channels[i].status = "Open"
  /\ proposals[i].open
  /\ Countersigner(i, k)
  /\ x = proposals[i].amount
  /\ x =< channels[i].deposit
  /\ PayOut(i, channels[i].counterparty, x, channels[i].initiator, Remainder(i, x))
  /\ channels' = [channels EXCEPT ![i].status = "Settled"]
  /\ proposals' = [proposals EXCEPT ![i] = NoProposal]
  /\ signed' = [signed EXCEPT ![i] = @ \cup {Signature(k, x)}]
  /\ UNCHANGED channelsOn

\* dispute: the evidence takes the place of the work proof.
Dispute(i, k) ==
  /\ channels[i].status = "Open"
  /\ k \in Parties(i)
  /\ channels' = [channels EXCEPT ![i].status = "Disputed", ![i].proof = "evidence"]
  /\ UNCHANGED <<tokenVars, channelsOn, proposals, signed>>

\* Mutant: a channel in dispute cannot be closed by its initiator.
ForceClosableOpenOnly(i) == channels[i].status = "Open"

\* A dispute does not stop the timeout.
ForceClosable(i) == channels[i].status \in {"Open", "Disputed"}

ForceClose(i) ==
  /\ ForceClosable(i)
  /\ channels[i].age >= channels[i].timeout
  /\ PayOut(i, channels[i].counterparty, 0, channels[i].initiator, channels[i].deposit)
  /\ channels' = [channels EXCEPT ![i].status = "ForceClose"]
  /\ UNCHANGED <<channelsOn, proposals, signed>>

\* resolve_dispute: both parties sign, or the authority does.
ResolveDispute(i, signers, x) ==
  /\ channels[i].status = "Disputed"
  /\ Parties(i) \subseteq signers \/ Authority \in signers
  /\ x =< channels[i].deposit
  /\ PayOut(i, channels[i].counterparty, x, channels[i].initiator, Remainder(i, x))
  /\ channels' = [channels EXCEPT ![i].status = "Settled"]
  /\ signed' = [signed EXCEPT ![i] = @ \cup {Signature(k, x) : k \in signers}]
  /\ UNCHANGED <<channelsOn, proposals>>

\* A slot passes.
ChannelTick ==
  /\ channels' = [i \in Ids |-> IF ForceClosable(i)
                    THEN [channels[i] EXCEPT !.age = Older(@)] ELSE channels[i]]
  /\ UNCHANGED <<channelsOn, proposals, signed>>

\* The instructions on one channel.
ChannelNext(i) ==
  \/ \E k \in Agents :
       \/ SubmitWorkProof(i, k)
       \/ Dispute(i, k)
       \/ \E x \in Amounts \cup {0} : ProposeSettle(i, k, x) \/ CountersignSettle(i, k, x)
  \/ ForceClose(i)
  \/ \E signers \in {Parties(i), {Authority}}, x \in Amounts \cup {0} :
       ResolveDispute(i, signers, x)

-----------------------------------------------------------------------------
ChannelTypeOK ==
  /\ channelsOn \in BOOLEAN
  /\ channels \in [Ids ->
       [status : {"None", "Open", "Disputed", "Settled", "ForceClose"},
        initiator : Agents \cup {Nobody}, counterparty : Agents \cup {Nobody},
        deposit : Nat, timeout : 0..MaxAge, age : 0..MaxAge,
        proof : {"none", "work", "evidence"}]]
  /\ proposals \in [Ids -> [open : BOOLEAN, amount : Nat, by : Agents \cup {Nobody}]]
  /\ signed \in [Ids -> SUBSET [by : Agents \cup {Nobody, Authority}, amount : Nat]]

AgreedBy(i, x) == \A k \in Parties(i) : Signature(k, x) \in signed[i]
Arbitrated(i, x) == /\ Signature(Authority, x) \in signed[i]
                    /\ channels[i].proof = "evidence"

\* No party settles alone: what the counterparty of a settled channel was paid
\* is an amount that both parties signed, by countersigning a proposal or by
\* resolving a dispute together, or one the authority signed in a dispute that
\* a party raised with evidence.
NoUnilateralPayout ==
  \A i \in Ids : channels[i].status = "Settled" =>
    AgreedBy(i, paid[i]) \/ Arbitrated(i, paid[i])

=============================================================================
