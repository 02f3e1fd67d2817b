---------------------------- MODULE EscrowLedger ----------------------------
(***************************************************************************)
(* The tokens behind payment channels and probabilistic vaults.  Each      *)
(* contract account has an address (the program derives it from its        *)
(* creator and an identifier) and its own escrow token account, which only *)
(* the contract can sign for.  Slots are counted as ages, up to MaxAge.    *)
(***************************************************************************)
EXTENDS Integers, FiniteSets

CONSTANTS
  Ids,         \* addresses of contract accounts
  Agents,      \* wallets that are party to contracts
  Depositors,  \* those of them that open contracts
  Nobody,      \* the party of a contract not yet created
  Authority,   \* config.authority, the arbiter of disputes
  Amounts,     \* amounts given to instructions
  InitWallet,  \* what each agent starts with
  MaxAge       \* ages saturate here

ASSUME EscrowAssumption ==
  /\ Nobody \notin Agents /\ Depositors \subseteq Agents
  /\ Amounts \subseteq Nat /\ InitWallet \in Nat /\ MaxAge \in Nat \ {0}

VARIABLES
  wallet,    \* tokens of each agent
  escrow,    \* tokens in the escrow account of each contract
  paid,      \* history: paid to the beneficiary of each contract
  returned   \* history: paid back to its depositor

tokenVars == <<wallet, escrow, paid, returned>>

InitTokens ==
  /\ wallet = [k \in Agents |-> InitWallet]
  /\ escrow = [i \in Ids |-> 0]
  /\ paid = [i \in Ids |-> 0]
  /\ returned = [i \in Ids |-> 0]

\* transfer_checked from a wallet into the escrow.
Lock(i, from, n) ==
  /\ n =< wallet[from]
  /\ wallet' = [wallet EXCEPT ![from] = @ - n]
  /\ escrow' = [escrow EXCEPT ![i] = @ + n]
  /\ UNCHANGED <<paid, returned>>

\* The contract pays x to its beneficiary and y back to its depositor.
PayOut(i, beneficiary, x, depositor, y) ==
  /\ x + y =< escrow[i]
  /\ escrow' = [escrow EXCEPT ![i] = @ - (x + y)]
  /\ wallet' = LET credited == [wallet EXCEPT ![beneficiary] = @ + x]
               IN  [credited EXCEPT ![depositor] = @ + y]
  /\ paid' = [paid EXCEPT ![i] = @ + x]
  /\ returned' = [returned EXCEPT ![i] = @ + y]

Older(age) == IF age < MaxAge THEN age + 1 ELSE age

=============================================================================
