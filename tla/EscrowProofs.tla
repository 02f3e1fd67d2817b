---------------------------- MODULE EscrowProofs ----------------------------
(***************************************************************************)
(* Proofs about Escrows: whatever the parties, amounts and timeouts, each  *)
(* payment channel and each probabilistic vault is an escrow, and no party *)
(* settles a channel alone.                                                *)
(***************************************************************************)
EXTENDS Escrows, TLAPS

Exists(i) == ChannelExists(i) \/ VaultExists(i)
Closed(i) == ChannelClosed(i) \/ VaultClosed(i)
Holds(i) == Exists(i) /\ ~Closed(i)

\* An address is one contract at most, and what is not yet created holds
\* nothing.
OneContract(i) ==
  /\ ~ChannelExists(i) \/ ~VaultExists(i)
  /\ ~ChannelExists(i) => channels[i].deposit = 0
  /\ ~VaultExists(i) => vaults[i].committed = 0
  /\ VaultOpen(i) => vaults[i].resolved = 0

\* The escrow account holds the whole deposit until the contract closes, and
\* nothing was paid before.
DepositWhole(i) ==
  /\ escrow[i] = IF Holds(i) THEN channels[i].deposit + vaults[i].committed ELSE 0
  /\ ~Closed(i) => paid[i] = 0 /\ returned[i] = 0

\* A proposal stands on a channel that exists, made and signed by one of its
\* parties.
ProposedByParty(i) ==
  proposals[i].open =>
    /\ ChannelExists(i) /\ proposals[i].by \in Parties(i)
    /\ Signature(proposals[i].by, proposals[i].amount) \in signed[i]

\* A dispute was raised with evidence.
DisputeFounded(i) == channels[i].status = "Disputed" => channels[i].proof = "evidence"

EscrowInv ==
  /\ TypeOK
  /\ NoUnilateralPayout
  /\ \A i \in Ids : /\ OneContract(i) /\ DepositWhole(i)
                    /\ ProposedByParty(i) /\ DisputeFounded(i)

-----------------------------------------------------------------------------
(***************************************************************************)
(* The accounts.                                                           *)
(***************************************************************************)
Channels == [status : {"None", "Open", "Disputed", "Settled", "ForceClose"},
             initiator : Agents \cup {Nobody}, counterparty : Agents \cup {Nobody},
             deposit : Nat, timeout : 0..MaxAge, age : 0..MaxAge,
             proof : {"none", "work", "evidence"}]
Vaults == [status : {"None", "Pending", "Resolved", "Expired"},
           issuer : Agents \cup {Nobody}, claimant : Agents \cup {Nobody},
           committed : Nat, resolved : Nat, condition : Conditions \cup {NoSecret},
           lifetime : 0..MaxAge, age : 0..MaxAge]
Proposals == [open : BOOLEAN, amount : Nat, by : Agents \cup {Nobody}]
Signatures == [by : Agents \cup {Nobody, Authority}, amount : Nat]

\* The type invariant, account by account.
LEMMA Types ==
  TypeOK <=> /\ wallet \in [Agents -> Nat] /\ escrow \in [Ids -> Nat]
             /\ paid \in [Ids -> Nat] /\ returned \in [Ids -> Nat]
             /\ channelsOn \in BOOLEAN /\ channels \in [Ids -> Channels]
             /\ proposals \in [Ids -> Proposals]
             /\ signed \in [Ids -> SUBSET Signatures]
             /\ vaultsOn \in BOOLEAN /\ vaults \in [Ids -> Vaults]
  BY DEF TypeOK, ChannelTypeOK, VaultTypeOK, Channels, Vaults, Proposals, Signatures

\* The split of channel i was agreed to, or arbitrated.
AgreedSplit(i) == channels[i].status = "Settled" =>
                    AgreedBy(i, paid[i]) \/ Arbitrated(i, paid[i])

\* The invariant of one contract, beside its types.
ContractOK(i) ==
  /\ OneContract(i) /\ DepositWhole(i)
  /\ ProposedByParty(i) /\ DisputeFounded(i) /\ AgreedSplit(i)

LEMMA Contracts == EscrowInv <=> TypeOK /\ \A i \in Ids : ContractOK(i)
  BY DEF EscrowInv, NoUnilateralPayout, ContractOK, AgreedSplit

\* Nothing of the contract at j changes.
Kept(j) ==
  /\ channels'[j] = channels[j] /\ proposals'[j] = proposals[j]
  /\ signed'[j] = signed[j] /\ vaults'[j] = vaults[j]
  /\ escrow'[j] = escrow[j] /\ paid'[j] = paid[j] /\ returned'[j] = returned[j]

LEMMA KeptOK ==
  ASSUME NEW j \in Ids, ContractOK(j), Kept(j)
  PROVE  ContractOK(j)'
  BY DEF ContractOK, Kept, OneContract, DepositWhole, ProposedByParty, AgreedSplit,
         AgreedBy, Arbitrated, DisputeFounded,
         Holds, Exists, Closed, ChannelExists, VaultExists, ChannelClosed,
         VaultClosed, VaultOpen, Parties

\* A step on one contract.
LEMMA OneChanges ==
  ASSUME EscrowInv, NEW i \in Ids, TypeOK', ContractOK(i)',
         \A j \in Ids \ {i} : Kept(j)
  PROVE  EscrowInv'
<1>1. \A j \in Ids : ContractOK(j)'
  BY KeptOK, Contracts
<1>2. (TypeOK /\ \A j \in Ids : ContractOK(j))'
  BY <1>1
<1> QED
  BY <1>2 DEF EscrowInv, NoUnilateralPayout, ContractOK, AgreedSplit

-----------------------------------------------------------------------------
(***************************************************************************)
(* Steps that the abstract escrow does not see.                            *)
(***************************************************************************)
\* The contract at i stays in its phase, with its deposit.
SamePhase(i) ==
  /\ Exists(i)' = Exists(i) /\ Closed(i)' = Closed(i)
  /\ channels'[i].deposit = channels[i].deposit
  /\ vaults'[i].committed = vaults[i].committed

LEMMA Stutters ==
  ASSUME UNCHANGED tokenVars, \A i \in Ids : SamePhase(i)
  PROVE  UNCHANGED Abstract!vars
<1>1. \A i \in Ids : PhaseOf(i)' = PhaseOf(i)
  BY DEF SamePhase, PhaseOf, Exists, Closed
<1>2. phaseBar' = phaseBar
  BY <1>1 DEF phaseBar
<1>3. depositBar' = depositBar
  BY DEF depositBar, SamePhase
<1> QED
  BY <1>2, <1>3 DEF Abstract!vars, tokenVars

-----------------------------------------------------------------------------
(***************************************************************************)
(* The two steps of the abstract escrow.                                   *)
(***************************************************************************)
\* Crediting an account, or one that is no wallet, keeps every balance a
\* natural number.
LEMMA Credited ==
  ASSUME NEW f \in [Agents -> Nat], NEW k, NEW n \in Nat
  PROVE  [f EXCEPT ![k] = @ + n] \in [Agents -> Nat]
<1>1. CASE k \in Agents
  BY <1>1
<1>2. CASE k \notin Agents
  BY <1>2
<1> QED
  BY <1>1, <1>2

\* A contract is created with its deposit: the abstract escrow opens.
LEMMA Opened ==
  ASSUME EscrowInv, NEW i \in Ids, ~Exists(i), NEW k \in Agents,
         NEW n \in Amounts \ {0}, Lock(i, k, n),
         Exists(i)', ~Closed(i)',
         channels'[i].deposit + vaults'[i].committed = n,
         \A j \in Ids \ {i} : channels'[j] = channels[j] /\ vaults'[j] = vaults[j]
  PROVE  /\ Abstract!Open(i)
         /\ DepositWhole(i)'
         /\ wallet' \in [Agents -> Nat] /\ escrow' \in [Ids -> Nat]
         /\ UNCHANGED <<paid, returned>>
         /\ \A j \in Ids \ {i} : escrow'[j] = escrow[j]
<1>1. n \in Nat /\ wallet \in [Agents -> Nat] /\ escrow \in [Ids -> Nat]
  BY EscrowAssumption, Types DEF EscrowInv
<1>2. /\ n =< wallet[k] /\ wallet' = [wallet EXCEPT ![k] = @ - n]
      /\ escrow' = [escrow EXCEPT ![i] = @ + n] /\ UNCHANGED <<paid, returned>>
  BY DEF Lock
<1>3. ~Closed(i)
  BY DEF Exists, Closed, ChannelExists, VaultExists, ChannelClosed, VaultClosed
<1>4. escrow[i] = 0 /\ paid[i] = 0 /\ returned[i] = 0
  BY <1>3 DEF EscrowInv, DepositWhole, Holds
<1>5. escrow' = [escrow EXCEPT ![i] = n] /\ escrow' \in [Ids -> Nat]
  BY <1>1, <1>2, <1>4
<1>6. wallet' \in [Agents -> Nat]
  <2>1. wallet[k] - n \in Nat
    BY <1>1, <1>2
  <2> QED
    BY <1>1, <1>2, <2>1
<1>7. DepositWhole(i)'
  BY <1>1, <1>2, <1>4, <1>5 DEF DepositWhole, Holds
<1>8. PhaseOf(i) = "none" /\ PhaseOf(i)' = "held"
  BY <1>3 DEF PhaseOf, Exists, Closed
<1>9. \A j \in Ids \ {i} : PhaseOf(j)' = PhaseOf(j)
  BY DEF PhaseOf, ChannelClosed, VaultClosed, ChannelExists, VaultExists
<1>10. phaseBar[i] = "none" /\ phaseBar' = [phaseBar EXCEPT ![i] = "held"]
  BY <1>8, <1>9 DEF phaseBar
<1>11. depositBar' = [depositBar EXCEPT ![i] = n]
  BY DEF depositBar
<1>12. Abstract!Open(i)
  BY <1>2, <1>5, <1>10, <1>11 DEF Abstract!Open
<1> QED
  BY <1>1, <1>2, <1>5, <1>6, <1>7, <1>12

\* A contract pays out its whole deposit and closes: so does the abstract
\* escrow.
LEMMA PaidOut ==
  ASSUME EscrowInv, NEW i \in Ids, Holds(i), NEW to, NEW from,
         NEW x \in Nat, NEW y \in Nat,
         x + y = channels[i].deposit + vaults[i].committed,
         PayOut(i, to, x, from, y),
         Closed(i)',
         channels'[i].deposit = channels[i].deposit,
         vaults'[i].committed = vaults[i].committed,
         \A j \in Ids \ {i} : channels'[j] = channels[j] /\ vaults'[j] = vaults[j]
  PROVE  /\ Abstract!Close(i)
         /\ DepositWhole(i)'
         /\ wallet' \in [Agents -> Nat] /\ escrow' \in [Ids -> Nat]
         /\ paid' \in [Ids -> Nat] /\ returned' \in [Ids -> Nat]
         /\ \A j \in Ids \ {i} : /\ escrow'[j] = escrow[j]
                                 /\ paid'[j] = paid[j] /\ returned'[j] = returned[j]
<1> DEFINE mid == [wallet EXCEPT ![to] = @ + x]
<1>1. /\ wallet \in [Agents -> Nat] /\ escrow \in [Ids -> Nat]
      /\ paid \in [Ids -> Nat] /\ returned \in [Ids -> Nat]
  BY Types DEF EscrowInv
<1>2. /\ escrow' = [escrow EXCEPT ![i] = @ - (x + y)]
      /\ wallet' = [mid EXCEPT ![from] = @ + y]
      /\ paid' = [paid EXCEPT ![i] = @ + x]
      /\ returned' = [returned EXCEPT ![i] = @ + y]
  BY DEF PayOut
<1>3. escrow[i] = x + y /\ paid[i] = 0 /\ returned[i] = 0
  BY DEF EscrowInv, DepositWhole, Holds
<1>4. /\ escrow' = [escrow EXCEPT ![i] = 0] /\ paid' = [paid EXCEPT ![i] = x]
      /\ returned' = [returned EXCEPT ![i] = y]
  BY <1>1, <1>2, <1>3
<1>5. wallet' \in [Agents -> Nat]
  <2>1. mid \in [Agents -> Nat]
    BY <1>1, Credited
  <2> HIDE DEF mid
  <2> QED
    BY <1>2, <2>1, Credited
<1>6. DepositWhole(i)'
  BY <1>1, <1>4 DEF DepositWhole, Holds
<1>7. PhaseOf(i) = "held" /\ PhaseOf(i)' = "closed"
  BY DEF PhaseOf, Exists, Closed, Holds
<1>8. \A j \in Ids \ {i} : PhaseOf(j)' = PhaseOf(j)
  BY DEF PhaseOf, ChannelClosed, VaultClosed, ChannelExists, VaultExists
<1>9. phaseBar[i] = "held" /\ phaseBar' = [phaseBar EXCEPT ![i] = "closed"]
  BY <1>7, <1>8 DEF phaseBar
<1>10. depositBar' = depositBar /\ depositBar[i] = x + y
  BY DEF depositBar
<1>11. x \in 0..depositBar[i] /\ y = depositBar[i] - x
  BY <1>10
<1>12. Abstract!Close(i)
  BY <1>4, <1>9, <1>10, <1>11 DEF Abstract!Close
<1> QED
  BY <1>1, <1>4, <1>5, <1>6, <1>12

-----------------------------------------------------------------------------
(***************************************************************************)
(* The instructions on one channel.                                        *)
(***************************************************************************)
\* What every step does: it keeps the invariant, and the abstract escrow takes
\* a step or none.
StepOK == EscrowInv' /\ (Abstract!Next \/ UNCHANGED Abstract!vars)

\* An open channel stays open or goes into dispute, with the same parties and
\* deposit; at most its proposal and its proof are written.
LEMMA ChannelIdle ==
  ASSUME EscrowInv, NEW i \in Ids, channels[i].status = "Open",
         NEW c \in Channels, c.status \in {"Open", "Disputed"},
         c.initiator = channels[i].initiator,
         c.counterparty = channels[i].counterparty,
         c.deposit = channels[i].deposit,
         channels' = [channels EXCEPT ![i] = c],
         c.status = "Disputed" => c.proof = "evidence",
         NEW s \in SUBSET Signatures, signed' = [signed EXCEPT ![i] = s],
         NEW p \in Proposals,
         p.open => p.by \in Parties(i) /\ Signature(p.by, p.amount) \in s,
         proposals' = [proposals EXCEPT ![i] = p],
         UNCHANGED <<tokenVars, channelsOn, vaultVars>>
  PROVE  StepOK
<1>1. TypeOK /\ ContractOK(i)
  BY Contracts
<1>2. /\ channels \in [Ids -> Channels] /\ proposals \in [Ids -> Proposals]
      /\ signed \in [Ids -> SUBSET Signatures]
  BY <1>1, Types
<1>3. /\ channels' \in [Ids -> Channels] /\ channels'[i] = c
      /\ \A j \in Ids \ {i} : channels'[j] = channels[j]
  BY <1>2
<1>4. /\ proposals' \in [Ids -> Proposals] /\ proposals'[i] = p
      /\ \A j \in Ids \ {i} : proposals'[j] = proposals[j]
  BY <1>2
<1>5. UNCHANGED <<wallet, escrow, paid, returned, vaultsOn, vaults>>
  BY DEF tokenVars, vaultVars
<1>0. /\ signed' \in [Ids -> SUBSET Signatures] /\ signed'[i] = s
      /\ \A j \in Ids \ {i} : signed'[j] = signed[j]
  BY <1>2
<1>6. TypeOK'
  BY <1>0, <1>1, <1>3, <1>4, <1>5
  DEF TypeOK, ChannelTypeOK, VaultTypeOK, Channels, Proposals, Signatures
<1>7. \A j \in Ids : SamePhase(j)
  BY <1>3, <1>5 DEF SamePhase, Exists, Closed, ChannelExists, VaultExists,
                    ChannelClosed, VaultClosed
<1>8. OneContract(i)' /\ ProposedByParty(i)' /\ DisputeFounded(i)' /\ AgreedSplit(i)'
  BY <1>0, <1>1, <1>3, <1>4, <1>5 DEF ContractOK, OneContract, ProposedByParty,
       DisputeFounded, AgreedSplit, ChannelExists, VaultExists, VaultOpen, Parties
<1>9. DepositWhole(i)'
  BY <1>1, <1>3, <1>5, <1>7 DEF ContractOK, DepositWhole, Holds, SamePhase
<1>10. \A j \in Ids \ {i} : Kept(j)
  BY <1>0, <1>3, <1>4, <1>5 DEF Kept
<1>11. EscrowInv'
  BY <1>6, <1>8, <1>9, <1>10, OneChanges DEF ContractOK
<1> QED
  BY <1>7, <1>11, Stutters DEF StepOK

\* submit_work_proof, propose_settle and dispute.
LEMMA ParleyOK ==
  ASSUME EscrowInv, NEW i \in Ids, NEW k \in Agents, UNCHANGED vaultVars,
         \/ SubmitWorkProof(i, k)
         \/ Dispute(i, k)
         \/ \E x \in Amounts \cup {0} : ProposeSettle(i, k, x)
  PROVE  StepOK
<1> DEFINE stamped == [channels[i] EXCEPT !.proof = "work"]
           accused == [channels[i] EXCEPT !.status = "Disputed"]
<1>1. /\ channels \in [Ids -> Channels] /\ channels[i] \in Channels
      /\ proposals \in [Ids -> Proposals] /\ proposals[i] \in Proposals
      /\ signed \in [Ids -> SUBSET Signatures] /\ signed[i] \in SUBSET Signatures
      /\ proposals[i].open =>
           /\ proposals[i].by \in Parties(i)
           /\ Signature(proposals[i].by, proposals[i].amount) \in signed[i]
  BY Types DEF EscrowInv, ProposedByParty
<1>2. /\ proposals = [proposals EXCEPT ![i] = proposals[i]]
      /\ channels = [channels EXCEPT ![i] = channels[i]]
      /\ signed = [signed EXCEPT ![i] = signed[i]]
  BY <1>1
<1>3. CASE SubmitWorkProof(i, k)
  <2>1. /\ stamped \in Channels /\ stamped.status = channels[i].status
        /\ stamped.initiator = channels[i].initiator
        /\ stamped.counterparty = channels[i].counterparty
        /\ stamped.deposit = channels[i].deposit
    BY <1>1 DEF Channels
  <2>2. /\ channels[i].status = "Open"
        /\ channels' = [channels EXCEPT ![i] = stamped]
        /\ UNCHANGED <<tokenVars, channelsOn, proposals, signed>>
    BY <1>1, <1>3 DEF SubmitWorkProof
  <2> HIDE DEF stamped
  <2> QED
    BY <1>1, <1>2, <2>1, <2>2, ChannelIdle
<1>4. CASE Dispute(i, k)
  <2> DEFINE disputed == [accused EXCEPT !.proof = "evidence"]
  <2>1. /\ accused \in Channels /\ accused.status = "Disputed"
        /\ accused.initiator = channels[i].initiator
        /\ accused.counterparty = channels[i].counterparty
        /\ accused.deposit = channels[i].deposit
    BY <1>1 DEF Channels
  <2>2. channels' = [channels EXCEPT ![i] = disputed]
    BY <1>1, <1>4 DEF Dispute
  <2> HIDE DEF accused
  <2>3. /\ disputed \in Channels /\ disputed.status = "Disputed"
        /\ disputed.proof = "evidence"
        /\ disputed.initiator = channels[i].initiator
        /\ disputed.counterparty = channels[i].counterparty
        /\ disputed.deposit = channels[i].deposit
    BY <2>1 DEF Channels
  <2>4. /\ channels[i].status = "Open"
        /\ UNCHANGED <<tokenVars, channelsOn, proposals, signed>>
    BY <1>4 DEF Dispute
  <2> HIDE DEF disputed
  <2> QED
    BY <1>1, <1>2, <2>2, <2>3, <2>4, ChannelIdle
<1>5. CASE \E x \in Amounts \cup {0} : ProposeSettle(i, k, x)
  <2>1. PICK x \in Amounts \cup {0} : ProposeSettle(i, k, x)
    BY <1>5
  <2> DEFINE p == [open |-> TRUE, amount |-> x, by |-> k]
             s == signed[i] \cup {Signature(k, x)}
  <2>2. x \in Nat
    BY EscrowAssumption
  <2>3. p \in Proposals /\ s \in SUBSET Signatures
    BY <1>1, <2>2 DEF Proposals, Signatures, Signature
  <2>4. /\ channels[i].status = "Open" /\ k \in Parties(i)
        /\ proposals' = [proposals EXCEPT ![i] = p]
        /\ signed' = [signed EXCEPT ![i] = s]
        /\ UNCHANGED <<tokenVars, channelsOn, channels>>
    BY <1>1, <2>1 DEF ProposeSettle
  <2>5. p.open => p.by \in Parties(i) /\ Signature(p.by, p.amount) \in s
    BY <2>4
  <2> HIDE DEF p, s
  <2> QED
    BY <1>1, <1>2, <2>3, <2>4, <2>5, ChannelIdle
<1> QED
  BY <1>3, <1>4, <1>5

\* A channel that is not closed pays its deposit out and closes.
LEMMA ChannelCloses ==
  ASSUME EscrowInv, NEW i \in Ids, channels[i].status \in {"Open", "Disputed"},
         NEW closed \in {"Settled", "ForceClose"}, NEW to, NEW from,
         NEW x \in Nat, NEW y \in Nat, x + y = channels[i].deposit,
         PayOut(i, to, x, from, y),
         channels' = [channels EXCEPT ![i] = [channels[i] EXCEPT !.status = closed]],
         NEW s \in SUBSET Signatures, signed' = [signed EXCEPT ![i] = s],
         NEW p \in Proposals,
         p.open => p.by \in Parties(i) /\ Signature(p.by, p.amount) \in s,
         proposals' = [proposals EXCEPT ![i] = p],
         closed = "Settled" =>
           \/ \A k \in Parties(i) : Signature(k, x) \in s
           \/ channels[i].status = "Disputed" /\ Signature(Authority, x) \in s,
         UNCHANGED <<channelsOn, vaultVars>>
  PROVE  StepOK
<1> DEFINE c == [channels[i] EXCEPT !.status = closed]
<1>1. /\ TypeOK /\ ContractOK(i) /\ channels \in [Ids -> Channels]
      /\ proposals \in [Ids -> Proposals] /\ channels[i] \in Channels
      /\ signed \in [Ids -> SUBSET Signatures]
      /\ vaults \in [Ids -> Vaults]
  BY Contracts, Types
<1>2. /\ c \in Channels /\ c.status = closed /\ c.proof = channels[i].proof
      /\ c.initiator = channels[i].initiator
      /\ c.counterparty = channels[i].counterparty
      /\ c.deposit = channels[i].deposit
  BY <1>1 DEF Channels
<1> HIDE DEF c
<1>3. /\ channels' \in [Ids -> Channels] /\ channels'[i] = c
      /\ \A j \in Ids \ {i} : channels'[j] = channels[j]
  BY <1>1, <1>2 DEF c
<1>4. /\ proposals' \in [Ids -> Proposals] /\ proposals'[i] = p
      /\ \A j \in Ids \ {i} : proposals'[j] = proposals[j]
  BY <1>1
<1>5. /\ signed' \in [Ids -> SUBSET Signatures]
      /\ signed'[i] = s /\ \A j \in Ids \ {i} : signed'[j] = signed[j]
  BY <1>1
<1>6. vaultsOn' = vaultsOn /\ vaults' = vaults
  BY DEF vaultVars
<1>7. vaults[i].committed = 0 /\ ~VaultExists(i) /\ Holds(i)
  BY <1>1 DEF ContractOK, OneContract, ChannelExists, VaultExists, Holds, Exists,
              Closed, ChannelClosed, VaultClosed
<1>8. Closed(i)'
  BY <1>2, <1>3 DEF Closed, ChannelClosed
<1>9. /\ x + y = channels[i].deposit + vaults[i].committed
      /\ channels'[i].deposit = channels[i].deposit
      /\ vaults'[i].committed = vaults[i].committed
  BY <1>1, <1>2, <1>3, <1>6, <1>7 DEF Channels
<1>10. /\ Abstract!Close(i) /\ DepositWhole(i)'
       /\ wallet' \in [Agents -> Nat] /\ escrow' \in [Ids -> Nat]
       /\ paid' \in [Ids -> Nat] /\ returned' \in [Ids -> Nat]
       /\ \A j \in Ids \ {i} : /\ escrow'[j] = escrow[j]
                               /\ paid'[j] = paid[j] /\ returned'[j] = returned[j]
  BY <1>3, <1>6, <1>7, <1>8, <1>9, PaidOut
<1>11. TypeOK'
  BY <1>1, <1>3, <1>4, <1>5, <1>6, <1>10
  DEF TypeOK, ChannelTypeOK, VaultTypeOK, Channels, Proposals, Signatures
<1>15. paid'[i] = x
  <2>1. paid \in [Ids -> Nat] /\ paid[i] = 0
    BY <1>1, <1>7, Types DEF ContractOK, DepositWhole, Holds
  <2> QED
    BY <2>1 DEF PayOut
<1>16. AgreedSplit(i)'
  BY <1>1, <1>2, <1>3, <1>5, <1>15
  DEF ContractOK, DisputeFounded, AgreedSplit, AgreedBy, Arbitrated, Parties
<1>12. OneContract(i)' /\ ProposedByParty(i)' /\ DisputeFounded(i)'
  BY <1>1, <1>2, <1>3, <1>4, <1>5, <1>6, <1>7 DEF ContractOK, OneContract,
     ProposedByParty, DisputeFounded, ChannelExists, VaultExists, VaultOpen, Parties
<1>13. \A j \in Ids \ {i} : Kept(j)
  BY <1>3, <1>4, <1>5, <1>6, <1>10 DEF Kept
<1>14. EscrowInv'
  BY <1>10, <1>11, <1>12, <1>13, <1>16, OneChanges DEF ContractOK
<1> QED
  BY <1>10, <1>14 DEF StepOK, Abstract!Next

\* countersign_settle, force_close and resolve_dispute.
LEMMA SettlementOK ==
  ASSUME EscrowInv, NEW i \in Ids, UNCHANGED vaultVars,
         \/ \E k \in Agents, x \in Amounts \cup {0} : CountersignSettle(i, k, x)
         \/ ForceClose(i)
         \/ \E signers \in {Parties(i), {Authority}}, x \in Amounts \cup {0} :
              ResolveDispute(i, signers, x)
  PROVE  StepOK
<1>1. /\ channels \in [Ids -> Channels] /\ channels[i] \in Channels
      /\ proposals \in [Ids -> Proposals] /\ proposals[i] \in Proposals
      /\ signed \in [Ids -> SUBSET Signatures]
      /\ ProposedByParty(i)
  BY Types DEF EscrowInv
<1>2. channels[i].deposit \in Nat /\ Parties(i) \subseteq Agents \cup {Nobody}
  BY <1>1 DEF Channels, Parties
<1>3. /\ proposals = [proposals EXCEPT ![i] = proposals[i]]
      /\ signed = [signed EXCEPT ![i] = signed[i]]
      /\ signed[i] \in SUBSET Signatures
  BY <1>1
<1>4. CASE \E k \in Agents, x \in Amounts \cup {0} : CountersignSettle(i, k, x)
  <2>1. PICK k \in Agents, x \in Amounts \cup {0} : CountersignSettle(i, k, x)
    BY <1>4
  <2> DEFINE y == channels[i].deposit - x
             s == signed[i] \cup {Signature(k, x)}
  <2>2. /\ channels[i].status = "Open" /\ proposals[i].open
        /\ k \in Parties(i) /\ k # proposals[i].by /\ x =< channels[i].deposit
        /\ x = proposals[i].amount
        /\ PayOut(i, channels[i].counterparty, x, channels[i].initiator, y)
        /\ proposals' = [proposals EXCEPT ![i] = NoProposal]
        /\ signed' = [signed EXCEPT ![i] = s]
        /\ UNCHANGED channelsOn
    BY <1>1, <2>1 DEF CountersignSettle, Countersigner, Remainder
  <2>3. channels' = [channels EXCEPT ![i] = [channels[i] EXCEPT !.status = "Settled"]]
    BY <2>1, <1>1 DEF CountersignSettle
  <2>4. x \in Nat /\ y \in Nat /\ x + y = channels[i].deposit
    BY <1>2, <2>2, EscrowAssumption
  <2>5. NoProposal \in Proposals /\ ~NoProposal.open
    BY DEF NoProposal, Proposals
  <2>6. s \in SUBSET Signatures
    BY <1>3, <2>4 DEF Signatures, Signature
  <2>7. \A q \in Parties(i) : Signature(q, x) \in s
    BY <1>1, <2>2 DEF ProposedByParty, Parties
  <2> HIDE DEF y, s
  <2> QED
    BY <2>2, <2>3, <2>4, <2>5, <2>6, <2>7, ChannelCloses
<1>5. CASE ForceClose(i)
  <2>1. /\ channels[i].status \in {"Open", "Disputed"}
        /\ PayOut(i, channels[i].counterparty, 0, channels[i].initiator,
                  channels[i].deposit)
        /\ UNCHANGED <<channelsOn, proposals, signed>>
    BY <1>5 DEF ForceClose, ForceClosable
  <2>2. channels' =
          [channels EXCEPT ![i] = [channels[i] EXCEPT !.status = "ForceClose"]]
    BY <1>1, <1>5 DEF ForceClose
  <2>3. 0 + channels[i].deposit = channels[i].deposit
    BY <1>2
  <2>4. /\ proposals[i] \in Proposals
        /\ proposals[i].open =>
             /\ proposals[i].by \in Parties(i)
             /\ Signature(proposals[i].by, proposals[i].amount) \in signed[i]
        /\ proposals' = [proposals EXCEPT ![i] = proposals[i]]
        /\ signed' = [signed EXCEPT ![i] = signed[i]]
    BY <1>1, <1>3, <2>1 DEF ProposedByParty
  <2>5. UNCHANGED <<channelsOn, vaultVars>> /\ 0 \in Nat /\ channels[i].deposit \in Nat
    BY <1>2, <2>1
  <2>6. /\ channels[i].status \in {"Open", "Disputed"}
        /\ PayOut(i, channels[i].counterparty, 0, channels[i].initiator,
                  channels[i].deposit)
    BY <2>1
  <2>7. signed[i] \in SUBSET Signatures /\ "ForceClose" # "Settled"
    BY <1>3
  <2> QED
    BY <2>2, <2>3, <2>4, <2>5, <2>6, <2>7, ChannelCloses
<1>6. CASE \E signers \in {Parties(i), {Authority}}, x \in Amounts \cup {0} :
             ResolveDispute(i, signers, x)
  <2>1. PICK signers \in {Parties(i), {Authority}}, x \in Amounts \cup {0} :
          ResolveDispute(i, signers, x)
    BY <1>6
  <2> DEFINE y == channels[i].deposit - x
             s == signed[i] \cup {Signature(k, x) : k \in signers}
  <2>2. /\ channels[i].status = "Disputed" /\ x =< channels[i].deposit
        /\ Parties(i) \subseteq signers \/ Authority \in signers
        /\ PayOut(i, channels[i].counterparty, x, channels[i].initiator, y)
        /\ signed' = [signed EXCEPT ![i] = s]
        /\ UNCHANGED <<channelsOn, proposals>>
    BY <1>1, <2>1 DEF ResolveDispute, Remainder
  <2>8. x =< channels[i].deposit /\ channels[i].status = "Disputed"
    BY <2>2
  <2>3. channels' = [channels EXCEPT ![i] = [channels[i] EXCEPT !.status = "Settled"]]
    BY <2>1, <1>1 DEF ResolveDispute
  <2>4. x \in Nat /\ y \in Nat /\ x + y = channels[i].deposit
    <3>1. x \in Nat /\ channels[i].deposit \in Nat
      BY <1>2, EscrowAssumption
    <3> QED
      BY <2>8, <3>1
  <2>5. s \in SUBSET Signatures
    <3>1. signers \subseteq Agents \cup {Nobody, Authority}
      BY <1>2
    <3> QED
      BY <1>3, <2>4, <3>1 DEF Signatures, Signature
  <2>6. /\ proposals[i] \in Proposals
        /\ proposals[i].open =>
             /\ proposals[i].by \in Parties(i)
             /\ Signature(proposals[i].by, proposals[i].amount) \in s
        /\ proposals' = [proposals EXCEPT ![i] = proposals[i]]
    BY <1>1, <1>3, <2>2 DEF ProposedByParty
  <2>7. \/ \A k \in Parties(i) : Signature(k, x) \in s
        \/ channels[i].status = "Disputed" /\ Signature(Authority, x) \in s
    BY <2>2
  <2>9. /\ PayOut(i, channels[i].counterparty, x, channels[i].initiator, y)
        /\ signed' = [signed EXCEPT ![i] = s] /\ UNCHANGED <<channelsOn, vaultVars>>
    BY <2>2
  <2> HIDE DEF y, s
  <2> QED
    BY <2>3, <2>4, <2>5, <2>6, <2>7, <2>8, <2>9, ChannelCloses
<1> QED
  BY <1>4, <1>5, <1>6

-----------------------------------------------------------------------------
(***************************************************************************)
(* The instructions on one vault.                                          *)
(***************************************************************************)
\* A pending vault pays its whole commitment out and closes.
LEMMA VaultCloses ==
  ASSUME EscrowInv, NEW i \in Ids, VaultOpen(i),
         NEW v \in Vaults, v.status \in {"Resolved", "Expired"},
         v.committed = vaults[i].committed,
         vaults' = [vaults EXCEPT ![i] = v], NEW to, NEW from,
         NEW x \in Nat, NEW y \in Nat, x + y = vaults[i].committed,
         PayOut(i, to, x, from, y),
         UNCHANGED <<vaultsOn, channelVars>>
  PROVE  StepOK
<1>1. TypeOK /\ ContractOK(i) /\ vaults \in [Ids -> Vaults]
      /\ channels \in [Ids -> Channels]
  BY Contracts, Types
<1>2. /\ vaults' \in [Ids -> Vaults] /\ vaults'[i] = v
      /\ \A j \in Ids \ {i} : vaults'[j] = vaults[j]
  BY <1>1
<1>3. UNCHANGED <<channelsOn, channels, proposals, signed, vaultsOn>>
  BY DEF channelVars
<1>4. VaultExists(i) /\ ~ChannelExists(i) /\ channels[i].deposit = 0 /\ Holds(i)
  BY <1>1 DEF ContractOK, OneContract, ChannelExists, VaultExists, VaultOpen, Holds,
              Exists, Closed, ChannelClosed, VaultClosed
<1>5. Closed(i)' /\ VaultExists(i)' /\ ~VaultOpen(i)' /\ ~ChannelExists(i)'
  BY <1>2, <1>3, <1>4 DEF Closed, VaultClosed, VaultExists, VaultOpen, ChannelExists
<1>6. /\ x + y = channels[i].deposit + vaults[i].committed
      /\ channels'[i].deposit = channels[i].deposit
      /\ vaults'[i].committed = vaults[i].committed
  BY <1>1, <1>2, <1>3, <1>4 DEF Vaults
<1>7. /\ Abstract!Close(i) /\ DepositWhole(i)'
      /\ wallet' \in [Agents -> Nat] /\ escrow' \in [Ids -> Nat]
      /\ paid' \in [Ids -> Nat] /\ returned' \in [Ids -> Nat]
      /\ \A j \in Ids \ {i} : /\ escrow'[j] = escrow[j]
                              /\ paid'[j] = paid[j] /\ returned'[j] = returned[j]
  BY <1>2, <1>3, <1>4, <1>5, <1>6, PaidOut
<1>8. TypeOK'
  BY <1>1, <1>2, <1>3, <1>7 DEF TypeOK, ChannelTypeOK, VaultTypeOK, Vaults
<1>9. OneContract(i)' /\ ProposedByParty(i)' /\ DisputeFounded(i)' /\ AgreedSplit(i)'
  BY <1>1, <1>3, <1>4, <1>5 DEF ContractOK, OneContract, ProposedByParty,
     DisputeFounded, AgreedSplit, ChannelExists, Parties
<1>10. \A j \in Ids \ {i} : Kept(j)
  BY <1>2, <1>3, <1>7 DEF Kept
<1>11. EscrowInv'
  BY <1>7, <1>8, <1>9, <1>10, OneChanges DEF ContractOK
<1> QED
  BY <1>7, <1>11 DEF StepOK, Abstract!Next

\* prove_and_resolve, partial_resolve and expire_and_refund.
LEMMA VaultOK ==
  ASSUME EscrowInv, NEW i \in Ids, VaultNext(i), UNCHANGED channelVars
  PROVE  StepOK
<1> DEFINE taken == [vaults[i] EXCEPT !.resolved = vaults[i].committed]
           resolved == [taken EXCEPT !.status = "Resolved"]
           expired == [vaults[i] EXCEPT !.status = "Expired"]
           n == vaults[i].committed
<1>1. vaults \in [Ids -> Vaults] /\ vaults[i] \in Vaults /\ n \in Nat
  BY Types DEF EscrowInv, Vaults
<1>2. taken \in Vaults /\ taken.committed = n
  BY <1>1 DEF Vaults
<1>3. expired \in Vaults /\ expired.committed = n /\ expired.status = "Expired"
  BY <1>1 DEF Vaults
<1>4. VaultOpen(i) => VaultRemaining(i) = n
  BY <1>1 DEF EscrowInv, OneContract, VaultRemaining
<1>5. CASE \E secret \in Secrets : ProveAndResolve(i, secret)
  <2>1. /\ VaultOpen(i) /\ vaultsOn' = vaultsOn
        /\ PayOut(i, vaults[i].claimant, VaultRemaining(i), vaults[i].issuer, 0)
        /\ vaults' = [vaults EXCEPT ![i] = resolved]
    BY <1>1, <1>5 DEF ProveAndResolve
  <2>2. PayOut(i, vaults[i].claimant, n, vaults[i].issuer, 0) /\ n + 0 = n
    BY <1>1, <1>4, <2>1
  <2> HIDE DEF taken
  <2>3. resolved \in Vaults /\ resolved.committed = n /\ resolved.status = "Resolved"
    BY <1>2 DEF Vaults
  <2> HIDE DEF resolved, expired
  <2> QED
    BY <1>1, <2>1, <2>2, <2>3, VaultCloses
<1>6. CASE \E secret \in Secrets : \E x \in Amounts : PartialResolve(i, x, secret)
  <2>1. PICK secret \in Secrets, x \in Amounts : PartialResolve(i, x, secret)
    BY <1>6
  <2>2. /\ VaultOpen(i) /\ vaultsOn' = vaultsOn /\ x =< VaultRemaining(i)
        /\ PayOut(i, vaults[i].claimant, x, vaults[i].issuer, VaultRemaining(i) - x)
        /\ vaults' = [vaults EXCEPT ![i] = resolved]
    BY <1>1, <2>1 DEF PartialResolve, StatusAfterPart
  <2>3. /\ PayOut(i, vaults[i].claimant, x, vaults[i].issuer, n - x)
        /\ x \in Nat /\ n - x \in Nat /\ x + (n - x) = n
    BY <1>1, <1>4, <2>2, EscrowAssumption
  <2> HIDE DEF taken
  <2>4. resolved \in Vaults /\ resolved.committed = n /\ resolved.status = "Resolved"
    BY <1>2 DEF Vaults
  <2> HIDE DEF resolved, expired
  <2> QED
    BY <1>1, <2>2, <2>3, <2>4, VaultCloses
<1>7. CASE ExpireAndRefund(i)
  <2>1. /\ VaultOpen(i) /\ vaultsOn' = vaultsOn
        /\ PayOut(i, vaults[i].claimant, 0, vaults[i].issuer, VaultRemaining(i))
        /\ vaults' = [vaults EXCEPT ![i] = expired]
    BY <1>1, <1>7 DEF ExpireAndRefund
  <2>2. PayOut(i, vaults[i].claimant, 0, vaults[i].issuer, n) /\ 0 + n = n
    BY <1>1, <1>4, <2>1
  <2> HIDE DEF resolved, expired
  <2> QED
    BY <1>1, <1>3, <2>1, <2>2, VaultCloses
<1> QED
  BY <1>5, <1>6, <1>7 DEF VaultNext

-----------------------------------------------------------------------------
(***************************************************************************)
(* Creation.                                                               *)
(***************************************************************************)
\* open_channel and commit_probabilistic, each at an address of its own.
LEMMA OpensOK ==
  ASSUME EscrowInv, NEW i \in Ids, Opens(i)
  PROVE  StepOK
<1> PICK k \in Depositors, other \in Agents, n \in Amounts :
      \/ /\ ~VaultExists(i)
         /\ \E t \in Timeouts : OpenChannel(i, k, other, n, t)
         /\ UNCHANGED vaultVars
      \/ /\ ~ChannelExists(i)
         /\ \E c \in Conditions, t \in Lifetimes :
              CommitProbabilistic(i, k, other, n, c, t)
         /\ UNCHANGED channelVars
  BY DEF Opens
<1>1. /\ k \in Agents /\ n \in Nat /\ Timeouts \subseteq 0..MaxAge
      /\ Lifetimes \subseteq 0..MaxAge /\ 0 \in 0..MaxAge
  BY EscrowAssumption, ChannelAssumption, VaultAssumption
<1>2. TypeOK /\ ContractOK(i) /\ channels \in [Ids -> Channels]
      /\ vaults \in [Ids -> Vaults]
  BY Contracts, Types
<1>3. CASE /\ ~VaultExists(i) /\ UNCHANGED vaultVars
           /\ \E t \in Timeouts : OpenChannel(i, k, other, n, t)
  <2>1. PICK t \in Timeouts : OpenChannel(i, k, other, n, t)
    BY <1>3
  <2> DEFINE c == [status |-> "Open", initiator |-> k, counterparty |-> other,
                   deposit |-> n, timeout |-> t, age |-> 0, proof |-> "none"]
  <2>2. /\ channels[i].status = "None" /\ n > 0 /\ Lock(i, k, n)
        /\ channels' = [channels EXCEPT ![i] = c]
        /\ UNCHANGED <<channelsOn, proposals, signed>>
    BY <2>1 DEF OpenChannel
  <2>3. c \in Channels
    BY <1>1 DEF Channels
  <2>4. /\ channels' \in [Ids -> Channels] /\ channels'[i] = c
        /\ \A j \in Ids \ {i} : channels'[j] = channels[j]
    BY <1>2, <2>2, <2>3
  <2>5. UNCHANGED <<vaultsOn, vaults>>
    BY <1>3 DEF vaultVars
  <2>6. ~proposals[i].open
    BY <1>2, <2>2 DEF ContractOK, ProposedByParty, ChannelExists
  <2>7. ~Exists(i) /\ vaults[i].committed = 0
    BY <1>2, <1>3, <2>2 DEF Exists, ChannelExists, ContractOK, OneContract
  <2>8. Exists(i)' /\ ~Closed(i)' /\ channels'[i].deposit + vaults'[i].committed = n
    BY <1>1, <1>3, <2>4, <2>5, <2>7 DEF Exists, Closed, ChannelExists, VaultExists,
       ChannelClosed, VaultClosed
  <2>9. n \in Amounts \ {0}
    BY <1>1, <2>2
  <2>10. /\ Abstract!Open(i) /\ DepositWhole(i)'
         /\ wallet' \in [Agents -> Nat] /\ escrow' \in [Ids -> Nat]
         /\ UNCHANGED <<paid, returned>>
         /\ \A j \in Ids \ {i} : escrow'[j] = escrow[j]
    BY <1>1, <2>2, <2>4, <2>5, <2>7, <2>8, <2>9, Opened
  <2>11. TypeOK'
    BY <1>2, <2>2, <2>4, <2>5, <2>10 DEF TypeOK, ChannelTypeOK, VaultTypeOK, Channels
  <2>12. OneContract(i)' /\ ProposedByParty(i)' /\ DisputeFounded(i)' /\ AgreedSplit(i)'
    BY <1>3, <2>2, <2>4, <2>5, <2>6, <2>7 DEF OneContract, ProposedByParty,
       AgreedSplit, DisputeFounded, ChannelExists, VaultExists, VaultOpen
  <2>13. \A j \in Ids \ {i} : Kept(j)
    BY <2>2, <2>4, <2>5, <2>10 DEF Kept
  <2>14. EscrowInv'
    BY <2>10, <2>11, <2>12, <2>13, OneChanges DEF ContractOK
  <2> QED
    BY <2>10, <2>14 DEF StepOK, Abstract!Next
<1>4. CASE /\ ~ChannelExists(i) /\ UNCHANGED channelVars
           /\ \E c \in Conditions, t \in Lifetimes :
                CommitProbabilistic(i, k, other, n, c, t)
  <2>1. PICK c \in Conditions, t \in Lifetimes :
          CommitProbabilistic(i, k, other, n, c, t)
    BY <1>4
  <2> DEFINE v == [status |-> "Pending", issuer |-> k, claimant |-> other,
                   committed |-> n, resolved |-> 0, condition |-> c,
                   lifetime |-> t, age |-> 0]
  <2>2. /\ vaults[i].status = "None" /\ n > 0 /\ Lock(i, k, n)
        /\ vaults' = [vaults EXCEPT ![i] = v]
        /\ vaultsOn' = vaultsOn
    BY <2>1 DEF CommitProbabilistic
  <2>3. v \in Vaults
    BY <1>1 DEF Vaults
  <2>4. /\ vaults' \in [Ids -> Vaults] /\ vaults'[i] = v
        /\ \A j \in Ids \ {i} : vaults'[j] = vaults[j]
    BY <1>2, <2>2, <2>3
  <2>5. UNCHANGED <<channelsOn, channels, proposals, signed>>
    BY <1>4 DEF channelVars
  <2>6. ~Exists(i) /\ channels[i].deposit = 0
    BY <1>2, <1>4, <2>2 DEF Exists, VaultExists, ContractOK, OneContract
  <2>7. Exists(i)' /\ ~Closed(i)' /\ channels'[i].deposit + vaults'[i].committed = n
    BY <1>1, <1>4, <2>4, <2>5, <2>6 DEF Exists, Closed, ChannelExists, VaultExists,
       ChannelClosed, VaultClosed
  <2>8. n \in Amounts \ {0}
    BY <1>1, <2>2
  <2>9. /\ Abstract!Open(i) /\ DepositWhole(i)'
        /\ wallet' \in [Agents -> Nat] /\ escrow' \in [Ids -> Nat]
        /\ UNCHANGED <<paid, returned>>
        /\ \A j \in Ids \ {i} : escrow'[j] = escrow[j]
    BY <1>1, <2>2, <2>4, <2>5, <2>6, <2>7, <2>8, Opened
  <2>10. TypeOK'
    BY <1>2, <2>2, <2>4, <2>5, <2>9 DEF TypeOK, ChannelTypeOK, VaultTypeOK, Vaults
  <2>11. OneContract(i)' /\ ProposedByParty(i)' /\ DisputeFounded(i)' /\ AgreedSplit(i)'
    BY <1>2, <1>4, <2>4, <2>5, <2>6 DEF ContractOK, OneContract, ProposedByParty,
       AgreedSplit, DisputeFounded, ChannelExists, VaultExists, VaultOpen, Parties
  <2>12. \A j \in Ids \ {i} : Kept(j)
    BY <2>4, <2>5, <2>9 DEF Kept
  <2>13. EscrowInv'
    BY <2>9, <2>10, <2>11, <2>12, OneChanges DEF ContractOK
  <2> QED
    BY <2>9, <2>13 DEF StepOK, Abstract!Next
<1> QED
  BY <1>3, <1>4

-----------------------------------------------------------------------------
(***************************************************************************)
(* The clock and the switches.                                             *)
(***************************************************************************)
\* Contracts whose ages alone may change.
LEMMA AgesOK ==
  ASSUME EscrowInv, NEW i \in Ids, UNCHANGED <<tokenVars, proposals, signed>>,
         channels'[i].proof = channels[i].proof,
         channels'[i].status = channels[i].status,
         channels'[i].initiator = channels[i].initiator,
         channels'[i].counterparty = channels[i].counterparty,
         channels'[i].deposit = channels[i].deposit,
         vaults'[i].status = vaults[i].status,
         vaults'[i].committed = vaults[i].committed,
         vaults'[i].resolved = vaults[i].resolved
  PROVE  ContractOK(i)' /\ SamePhase(i)
<1>1. ContractOK(i) /\ UNCHANGED <<escrow, paid, returned>>
  BY Contracts DEF tokenVars
<1>2. SamePhase(i)
  BY DEF SamePhase, Exists, Closed, ChannelExists, VaultExists, ChannelClosed,
         VaultClosed
<1>3. DepositWhole(i)'
  BY <1>1, <1>2 DEF ContractOK, DepositWhole, SamePhase, Holds
<1>4. OneContract(i)' /\ ProposedByParty(i)' /\ DisputeFounded(i)' /\ AgreedSplit(i)'
  BY <1>1 DEF ContractOK, OneContract, ProposedByParty, DisputeFounded, AgreedSplit,
     AgreedBy, Arbitrated, ChannelExists, VaultExists, VaultOpen, Parties
<1> QED
  BY <1>2, <1>3, <1>4 DEF ContractOK

\* A slot passes for every contract.
LEMMA SlotOK ==
  ASSUME EscrowInv, SlotPasses
  PROVE  StepOK
<1> DEFINE older(c) == [c EXCEPT !.age = Older(c.age)]
<1>1. channels \in [Ids -> Channels] /\ vaults \in [Ids -> Vaults]
  BY Types DEF EscrowInv
<1>2. ASSUME NEW c \in Channels
      PROVE  /\ older(c) \in Channels /\ older(c).status = c.status
             /\ older(c).initiator = c.initiator
             /\ older(c).counterparty = c.counterparty
             /\ older(c).deposit = c.deposit
             /\ older(c).proof = c.proof
  BY EscrowAssumption DEF Channels, Older
<1>3. ASSUME NEW v \in Vaults
      PROVE  /\ older(v) \in Vaults /\ older(v).status = v.status
             /\ older(v).committed = v.committed /\ older(v).resolved = v.resolved
  BY EscrowAssumption DEF Vaults, Older
<1>4. /\ channels' = [i \in Ids |-> IF ForceClosable(i) THEN older(channels[i])
                                                        ELSE channels[i]]
      /\ vaults' = [i \in Ids |-> IF VaultOpen(i) THEN older(vaults[i]) ELSE vaults[i]]
      /\ UNCHANGED <<tokenVars, channelsOn, proposals, signed, vaultsOn>>
  BY DEF SlotPasses, ChannelTick, VaultTick
<1> HIDE DEF older
<1>5. channels' \in [Ids -> Channels] /\ vaults' \in [Ids -> Vaults]
  BY <1>1, <1>2, <1>3, <1>4
<1>6. \A i \in Ids : /\ channels'[i].status = channels[i].status
                     /\ channels'[i].initiator = channels[i].initiator
                     /\ channels'[i].counterparty = channels[i].counterparty
                     /\ channels'[i].deposit = channels[i].deposit
                     /\ channels'[i].proof = channels[i].proof
  BY <1>1, <1>2, <1>4
<1>7. \A i \in Ids : /\ vaults'[i].status = vaults[i].status
                     /\ vaults'[i].committed = vaults[i].committed
                     /\ vaults'[i].resolved = vaults[i].resolved
  BY <1>1, <1>3, <1>4
<1>8. \A i \in Ids : ContractOK(i)' /\ SamePhase(i)
  BY <1>4, <1>6, <1>7, AgesOK
<1>9. TypeOK'
  BY <1>4, <1>5 DEF EscrowInv, TypeOK, ChannelTypeOK, VaultTypeOK, Channels, Vaults,
     tokenVars
<1>10. EscrowInv'
  BY <1>8, <1>9 DEF EscrowInv, NoUnilateralPayout, ContractOK, AgreedSplit
<1> QED
  BY <1>4, <1>8, <1>10, Stutters DEF StepOK

\* Governance opens and closes the two features; or nothing happens.
LEMMA GatesOK ==
  ASSUME EscrowInv, GatesMove \/ UNCHANGED vars
  PROVE  StepOK
<1>1. UNCHANGED <<tokenVars, channels, proposals, signed, vaults>>
      /\ channelsOn' \in BOOLEAN /\ vaultsOn' \in BOOLEAN
  BY DEF GatesMove, ChannelGateMoves, VaultGateMoves, vars, channelVars, vaultVars,
         EscrowInv, TypeOK, ChannelTypeOK, VaultTypeOK
<1>2. TypeOK'
  BY <1>1 DEF EscrowInv, TypeOK, ChannelTypeOK, VaultTypeOK, tokenVars
<1>3. \A i \in Ids : ContractOK(i)' /\ SamePhase(i)
  BY <1>1, AgesOK
<1>4. EscrowInv'
  BY <1>2, <1>3 DEF EscrowInv, NoUnilateralPayout, ContractOK, AgreedSplit
<1> QED
  BY <1>1, <1>3, <1>4, Stutters DEF StepOK

-----------------------------------------------------------------------------
(***************************************************************************)
(* The theorems.                                                           *)
(***************************************************************************)
LEMMA InitOK == Init => EscrowInv /\ Abstract!Init
<1> SUFFICES ASSUME Init PROVE EscrowInv /\ Abstract!Init
  OBVIOUS
<1> USE DEF Init, InitTokens, InitChannels, InitVaults
<1>1. NoChannel \in Channels /\ NoProposal \in Proposals /\ NoVault \in Vaults
  BY EscrowAssumption DEF NoChannel, NoProposal, NoVault, Channels, Proposals, Vaults
<1>2. TypeOK
  <2>1. channels \in [Ids -> Channels] /\ proposals \in [Ids -> Proposals]
        /\ vaults \in [Ids -> Vaults]
    BY <1>1
  <2> QED
    BY <2>1, EscrowAssumption, Types
<1>3. \A i \in Ids : channels[i].status = "None" /\ channels[i].deposit = 0
                     /\ vaults[i].status = "None" /\ vaults[i].committed = 0
                     /\ ~proposals[i].open
  BY DEF NoChannel, NoVault, NoProposal
<1>4. \A i \in Ids : ContractOK(i)
  BY <1>3 DEF ContractOK, OneContract, DepositWhole, ProposedByParty, DisputeFounded,
     AgreedSplit, Holds, Exists, Closed, ChannelExists, VaultExists, ChannelClosed,
     VaultClosed, VaultOpen
<1>5. EscrowInv
  BY <1>2, <1>4, Contracts
<1>6. phaseBar = [i \in Ids |-> "none"] /\ depositBar = [i \in Ids |-> 0]
  BY <1>3 DEF phaseBar, depositBar, PhaseOf, ChannelClosed, VaultClosed,
     ChannelExists, VaultExists
<1> QED
  BY <1>5, <1>6 DEF Abstract!Init

\* Every step keeps the invariant and is a step of the abstract escrow, or
\* leaves it alone.
LEMMA NextOK == EscrowInv /\ [Next]_vars => StepOK
<1> SUFFICES ASSUME EscrowInv, [Next]_vars PROVE StepOK
  OBVIOUS
<1>1. CASE SlotPasses
  BY <1>1, SlotOK
<1>2. CASE GatesMove \/ UNCHANGED vars
  BY <1>2, GatesOK
<1>3. ASSUME NEW i \in Ids, Opens(i)
      PROVE  StepOK
  BY <1>3, OpensOK
<1>4. ASSUME NEW i \in Ids, ChannelStep(i)
      PROVE  StepOK
  BY <1>4, ParleyOK, SettlementOK DEF ChannelStep, ChannelNext
<1>5. ASSUME NEW i \in Ids, VaultStep(i)
      PROVE  StepOK
  BY <1>5, VaultOK DEF VaultStep
<1> QED
  BY <1>1, <1>2, <1>3, <1>4, <1>5 DEF Next

\* Every reachable state satisfies the inductive invariant.
THEOREM EscrowInvariance == Spec => []EscrowInv
<1>1. Init => EscrowInv
  BY InitOK
<1>2. EscrowInv /\ [Next]_vars => EscrowInv'
  BY NextOK DEF StepOK
<1> QED
  BY <1>1, <1>2, PTL DEF Spec

\* Whatever the amounts and the order of proposing, countersigning, disputing
\* and resolving, a settled channel paid its counterparty an amount that both
\* parties signed, or one that the authority alone signed in a dispute that a
\* party raised with evidence (apc.rs).
THEOREM SettledTogether == Spec => []SettledByAgreement
<1>1. EscrowInv => SettledByAgreement
  BY DEF EscrowInv, SettledByAgreement
<1> QED
  BY <1>1, EscrowInvariance, PTL

\* Payment channels and probabilistic vaults implement the abstract escrow: a
\* deposit leaves its account whole, once, and only for the two parties
\* (apc.rs, pbs.rs).
THEOREM ContractsImplementEscrow == Spec => ImplementsEscrow
<1>1. Init => Abstract!Init
  BY InitOK
<1>2. EscrowInv /\ [Next]_vars => [Abstract!Next]_(Abstract!vars)
  BY NextOK DEF StepOK
<1> QED
  BY <1>1, <1>2, EscrowInvariance, PTL DEF Spec, ImplementsEscrow, Abstract!Spec

=============================================================================
