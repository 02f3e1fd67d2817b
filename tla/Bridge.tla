------------------------------- MODULE Bridge -------------------------------
(***************************************************************************)
(* The cross-chain bridge: bridge.rs.  bridge_out burns here and emits an  *)
(* event; bridge_in mints what the relayer reports.                        *)
(*                                                                         *)
(* The other chain and the relayer are external.  The other chain only     *)
(* sends back what was burnt here before, each time under a new message    *)
(* id; the relayer reports only what was sent, but may do so late, out of  *)
(* order, never, or again and again.                                       *)
(***************************************************************************)
EXTENDS Issuance, Sums, Sequences

CONSTANTS
  BridgeLimits,   \* values of max_bridge_amount_per_tx, 0 for none
  BridgeFees,     \* values of bridge_fee_bps
  BRIDGE_MAX_FEE, \* 1_000 in the code
  FeeVaultOwner,  \* the owner of the fee vault's token account
  Sanctioned,     \* wallets whose SanctionsRecord says is_sanctioned
  MaxMessages     \* bound on the messages of the other chain

ASSUME BridgeAssumption ==
  /\ BridgeLimits \subseteq Nat /\ BridgeFees \subseteq Nat
  /\ BRIDGE_MAX_FEE \in 0..BPS
  /\ FeeVaultOwner \in Keys
  /\ Sanctioned \subseteq Keys
  /\ MaxMessages \in Nat

VARIABLES
  bridge,     \* the BridgeConfig account
  messages,   \* external: what the other chain sent, a sequence; its index is the id
  consumed    \* the message ids with a ConsumedMessageId account

bridgeVars == <<bridge, messages, consumed>>

NoBridge == [open |-> FALSE, relayer |-> NoKey, limit |-> 0, fee |-> 0,
             out |-> 0, in |-> 0]

InitBridge ==
  /\ bridge = NoBridge
  /\ messages = <<>>
  /\ consumed = {}

-----------------------------------------------------------------------------
\* init_bridge_config: once; the relayer is the authority of that moment and
\* no instruction ever changes it.
InitBridgeConfig(k, limit, fee) ==
  /\ IsAuthority(k)
  /\ ~bridge.open
  /\ fee =< BRIDGE_MAX_FEE
  /\ bridge' = [NoBridge EXCEPT !.open = TRUE, !.relayer = authority,
                                !.limit = limit, !.fee = fee]
  /\ UNCHANGED <<clockVars, configVars, issuanceVars, messages, consumed>>

BridgeOpen == /\ bridge.open
              /\ Open
              /\ FLAG_BRIDGE_ENABLED \in flags

BridgeFee(n) == (n * bridge.fee) \div BPS

\* What is burnt, counted and announced to the other chain.
BurnAmount(n) == n - BridgeFee(n)

\* bridge_out: the fee moves to the fee vault, the rest is burnt.
BridgeOut(h, n) ==
  /\ n > 0
  /\ BridgeOpen
  /\ bridge.limit = 0 \/ n =< bridge.limit
  /\ BurnAmount(n) > 0
  /\ n =< balance[h] /\ BurnAmount(n) =< supply
  /\ supply' = supply - BurnAmount(n)
  /\ balance' = LET paid == [balance EXCEPT ![h] = @ - n]
                IN  [paid EXCEPT ![FeeVaultOwner] = @ + BridgeFee(n)]
  /\ totalBurned + BurnAmount(n) =< U64_MAX
  /\ totalBurned' = totalBurned + BurnAmount(n)
  /\ bridge.out + BurnAmount(n) =< U64_MAX
  /\ bridge' = [bridge EXCEPT !.out = @ + BurnAmount(n)]
  /\ UNCHANGED <<clockVars, configVars, maxSupply, totalMinted, totalCollateral,
                 accountVars, vault, mintedIn, messages, consumed>>

-----------------------------------------------------------------------------
\* The tokens the given messages carry.
Carried(ids) == SumOn([i \in DOMAIN messages |-> messages[i].amount], ids)

\* What circulates on the other chain: announced to it and not sent back.
Remote == bridge.out - Carried(DOMAIN messages)

\* The other chain burns n and sends them to a wallet here (external).
RemoteSend(to, n) ==
  /\ n > 0
  /\ n =< Remote
  /\ Len(messages) < MaxMessages
  /\ messages' = Append(messages, [to |-> to, amount |-> n])
  /\ UNCHANGED <<clockVars, configVars, issuanceVars, bridge, consumed>>

\* With the sanctions oracle on, the recipient's record must not say so.
RecipientAllowed(to) == FLAG_SANCTIONS_ORACLE \in flags => to \notin Sanctioned

\* Mutant: the message is not recorded.
ConsumedAfterNone(id) == consumed

\* The account created for this message id.
ConsumedAfter(id) == consumed \cup {id}

\* bridge_in: creating the ConsumedMessageId account fails for an id seen
\* before.
BridgeIn(k, id) ==
  LET msg == messages[id] IN
  /\ bridge.open
  /\ k = bridge.relayer
  /\ id \notin consumed
  /\ BridgeOpen
  /\ SupplyAllows(msg.amount)
  /\ RecipientAllowed(msg.to)
  /\ MintTo(msg.to, msg.amount)
  /\ TotalMintedFits(msg.amount)
  /\ totalMinted' = TotalMintedAfter(msg.amount)
  /\ bridge.in + msg.amount =< U64_MAX
  /\ bridge' = [bridge EXCEPT !.in = @ + msg.amount]
  /\ consumed' = ConsumedAfter(id)
  /\ UNCHANGED <<clockVars, configVars, maxSupply, totalBurned, totalCollateral,
                 accountVars, vault, mintedIn, messages>>

BridgeNext ==
  \/ \E k \in Keys, l \in BridgeLimits, f \in BridgeFees : InitBridgeConfig(k, l, f)
  \/ \E h \in Keys, n \in Amounts : BridgeOut(h, n) \/ RemoteSend(h, n)
  \/ \E k \in Keys, id \in DOMAIN messages : BridgeIn(k, id)

-----------------------------------------------------------------------------
BridgeTypeOK ==
  /\ bridge \in [open : BOOLEAN, relayer : KeyOrNone, limit : Nat, fee : Nat,
                 out : Nat, in : Nat]
  /\ messages \in Seq([to : Keys, amount : Nat])
  /\ consumed \subseteq DOMAIN messages

\* No token is created by crossing: the tokens here, on the other chain and
\* in messages not delivered yet are at most what was minted by other routes
\* less what was burnt by them, however often and in whatever order the relayer
\* reports the messages (bridge_in: creating consumed_message).
BridgeConserves ==
  supply + Remote + Carried(DOMAIN messages \ consumed)
    =< (totalMinted - bridge.in) - (totalBurned - bridge.out)

=============================================================================
