-------------------------- MODULE StablecoinConfig --------------------------
(***************************************************************************)
(* The StablecoinConfig account of the sss-token program: the part of it   *)
(* that the governance instructions read and write.  There is one such     *)
(* account per mint.  Every instruction is one atomic step: a Solana       *)
(* transaction that returns an error leaves no trace, so a failing         *)
(* require! is simply a guard that is false.                               *)
(*                                                                         *)
(* Public keys are elements of Keys; NoKey is Pubkey::default().  Slots    *)
(* and unix seconds are one discrete clock, slot: both only move forward,  *)
(* and each delay is a parameter.                                          *)
(***************************************************************************)
EXTENDS Integers, FiniteSets

CONSTANTS
  Keys,           \* public keys that sign or are named in instructions
  NoKey,          \* Pubkey::default()
  Payers,         \* keys that may pay for initialize
  InitDelays,     \* values initialize may be given for admin_timelock_delay
  InitPresets,    \* presets initialize may be given
  InitFlags,      \* feature-flag sets initialize may be given
  InitMultisigs,  \* Squads keys initialize may be given, NoKey for none
  MIN_TIMELOCK_DELAY,            \* 216_000 slots in the code
  DEFAULT_ADMIN_TIMELOCK_DELAY,  \* 432_000 slots in the code
  MaxSlot         \* bound on the clock

\* The feature bits this specification tells apart; feature_flags is the set
\* of bits that are on, so |= is union and &= ! is set difference.
FLAG_CIRCUIT_BREAKER  == "CIRCUIT_BREAKER"
FLAG_SPEND_POLICY     == "SPEND_POLICY"
FLAG_DAO_COMMITTEE    == "DAO_COMMITTEE"
FLAG_TRAVEL_RULE      == "TRAVEL_RULE"
FLAG_SANCTIONS_ORACLE == "SANCTIONS_ORACLE"
FLAG_SQUADS_AUTHORITY == "SQUADS_AUTHORITY"
FLAG_POR_HALT_ON_BREACH == "POR_HALT_ON_BREACH"
FLAG_PSM_DYNAMIC_FEES == "PSM_DYNAMIC_FEES"
FLAG_BRIDGE_ENABLED   == "BRIDGE_ENABLED"
FLAG_MARKET_MAKER_HOOKS == "MARKET_MAKER_HOOKS"
FLAG_PID_FEE_CONTROL  == "PID_FEE_CONTROL"
Flags == {FLAG_CIRCUIT_BREAKER, FLAG_SPEND_POLICY, FLAG_DAO_COMMITTEE,
          FLAG_TRAVEL_RULE, FLAG_SANCTIONS_ORACLE, FLAG_SQUADS_AUTHORITY,
          FLAG_POR_HALT_ON_BREACH, FLAG_PSM_DYNAMIC_FEES, FLAG_BRIDGE_ENABLED,
          FLAG_MARKET_MAKER_HOOKS, FLAG_PID_FEE_CONTROL}

\* The two governance bits, which no path may clear.
ProtectedFlags == {FLAG_DAO_COMMITTEE, FLAG_SQUADS_AUTHORITY}

ASSUME KeysAssumption == /\ NoKey \notin Keys
                         /\ Payers \subseteq Keys
ASSUME DelayAssumption ==
  /\ MIN_TIMELOCK_DELAY \in Nat \ {0}
  /\ DEFAULT_ADMIN_TIMELOCK_DELAY \in Nat
  /\ MIN_TIMELOCK_DELAY =< DEFAULT_ADMIN_TIMELOCK_DELAY
  /\ InitDelays \subseteq Nat
ASSUME InitAssumption == /\ InitPresets \subseteq {1, 2, 3}
                         /\ InitFlags \subseteq SUBSET Flags
                         /\ InitMultisigs \subseteq Keys \cup {NoKey}
ASSUME ClockAssumption == MaxSlot \in Nat \ {0}

PRESET_INSTITUTIONAL == 4

VARIABLES
  slot,                        \* Clock::get()?.slot (and unix_timestamp)
  authority,
  complianceAuthority,
  pendingAuthority,            \* NoKey when none
  pendingComplianceAuthority,  \* NoKey when none
  squadsMultisig,              \* NoKey when not configured
  preset,
  flags,                       \* feature_flags
  paused,
  timelockDelay,               \* admin_timelock_delay
  adminOp,                     \* the single pending timelocked operation
  settings                     \* the other fields the timelock guards

roleVars == <<authority, complianceAuthority, pendingAuthority,
              pendingComplianceAuthority, squadsMultisig, preset>>
opVars == <<timelockDelay, adminOp>>
configVars == <<roleVars, flags, paused, opVars, settings>>

KeyOrNone == Keys \cup {NoKey}

-----------------------------------------------------------------------------
(***************************************************************************)
(* The pending operation.  The code stores one u64 parameter; a flag       *)
(* operation reads it as bits, every other one as a number.  proposedAt is *)
(* a history field: no guard reads it.                                     *)
(***************************************************************************)
ADMIN_OP_NONE == "NONE"
NoOp == [kind |-> ADMIN_OP_NONE, bits |-> {}, num |-> 0, target |-> NoKey,
         mature |-> 0, proposedAt |-> 0]

\* The configuration fields that the timelock writes.  Its direct-call twins
\* write them too while the delay is zero (the sanctions fields are also reset
\* by clear_sanctions_oracle, whatever the delay), and the fee controller writes
\* stabilityFeeBps whatever the delay (module Governance).
NoSettings ==
  [expectedPythFeed |-> NoKey, oracleType |-> 0, oracleFeed |-> NoKey,
   maxOracleAgeSecs |-> 0, maxOracleConfBps |-> 0,
   stabilityFeeBps |-> 0, redemptionFeeBps |-> 0,
   insuranceFund |-> NoKey, maxBackstopBps |-> 0, maxTransferAmount |-> 0,
   minReserveRatioBps |-> 0, travelRuleThreshold |-> 0,
   sanctionsOracle |-> NoKey, sanctionsMaxStalenessSlots |-> 0]

Settings ==
  [expectedPythFeed : KeyOrNone, oracleType : 0..2, oracleFeed : KeyOrNone,
   maxOracleAgeSecs : Nat, maxOracleConfBps : Nat,
   stabilityFeeBps : Nat, redemptionFeeBps : Nat,
   insuranceFund : KeyOrNone, maxBackstopBps : Nat, maxTransferAmount : Nat,
   minReserveRatioBps : Nat, travelRuleThreshold : Nat,
   sanctionsOracle : KeyOrNone, sanctionsMaxStalenessSlots : Nat]

-----------------------------------------------------------------------------
(***************************************************************************)
(* initialize: the payer becomes both authorities.  A Squads key given to  *)
(* initialize is recorded and its flag set, but the authority stays the    *)
(* payer.  Preset 3 demands a Squads key and a delay of at least one epoch.*)
(***************************************************************************)
InitConfig ==
  /\ slot = 1
  /\ authority \in Payers
  /\ complianceAuthority = authority
  /\ pendingAuthority = NoKey
  /\ pendingComplianceAuthority = NoKey
  /\ squadsMultisig \in InitMultisigs
  /\ preset \in InitPresets
  /\ timelockDelay \in InitDelays
  /\ preset = 3 => /\ squadsMultisig # NoKey
                   /\ timelockDelay >= MIN_TIMELOCK_DELAY
  /\ \E given \in InitFlags :
       /\ FLAG_DAO_COMMITTEE \notin given
       /\ flags = IF squadsMultisig # NoKey
                    THEN given \cup {FLAG_SQUADS_AUTHORITY} ELSE given
  /\ paused = FALSE
  /\ adminOp = NoOp
  /\ settings = NoSettings

\* The cluster's clock advances.
Tick ==
  /\ slot < MaxSlot
  /\ slot' = slot + 1
  /\ UNCHANGED configVars

-----------------------------------------------------------------------------
(***************************************************************************)
(* Guards shared by the instruction handlers.                              *)
(***************************************************************************)
\* verify_squads_signer: the signer is the registered multisig.
VerifySquadsSigner(k) ==
  /\ FLAG_SQUADS_AUTHORITY \in flags
  /\ squadsMultisig # NoKey
  /\ k = squadsMultisig

\* The check every authority-gated handler makes when the Squads flag is on.
SquadsEnforced(k) == FLAG_SQUADS_AUTHORITY \in flags => VerifySquadsSigner(k)

\* The account constraint config.authority == authority.key().
IsAuthority(k) == k = authority

\* The signature an authority-gated handler with the Squads check needs.
AuthoritySigns(k) == IsAuthority(k) /\ SquadsEnforced(k)

\* require_timelock_executed: direct setters only work with a zero delay.
RequireTimelockExecuted == timelockDelay = 0

\* The committee's lock on direct calls.
DaoNotRequired == FLAG_DAO_COMMITTEE \notin flags

\* Mutant: only the committee's bit is protected.
ClearMaskAllowedDaoOnly(bits) == FLAG_DAO_COMMITTEE \notin bits

\* The require!s that keep the governance bits out of a clear mask.
ClearMaskAllowed(bits) == bits \cap ProtectedFlags = {}

=============================================================================
