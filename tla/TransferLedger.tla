--------------------------- MODULE TransferLedger ---------------------------
(***************************************************************************)
(* What every transfer of a preset-2 token depends on outside the rules    *)
(* that have records of their own: balances, frozen accounts (freeze.rs,   *)
(* thaw.rs), the feature flags with the spend limit, the compliance        *)
(* authority, and the blacklist that the transfer-hook program keeps       *)
(* (transfer-hook/src/lib.rs and blacklist.rs).                            *)
(*                                                                         *)
(* The authority's signature, the Squads check and the timelock are        *)
(* modelled in AdminTimelock and Authority; here the authority may always  *)
(* act.  A wallet has one token account.                                   *)
(***************************************************************************)
EXTENDS Integers, FiniteSets

CONSTANTS
  Wallets,        \* owners of token accounts
  Delegate,       \* the permanent delegate of the mint
  Officers,       \* keys that hold the compliance role at some time
  NoKey,          \* Pubkey::default()
  Amounts,        \* amounts of transfers
  InitBalance,    \* what each wallet starts with
  SpendLimits,    \* values of max_transfer_amount
  BLACKLIST_CAP,  \* 100 in the code: the addresses the account has room for
  RuleSets,       \* sets of flags; an issuer switches those of one set
  MaxSlot         \* bound on the clock

FLAG_SPEND_POLICY == "SPEND_POLICY"
FLAG_CONFIDENTIAL_TRANSFERS == "CONFIDENTIAL_TRANSFERS"
FLAG_ZK_COMPLIANCE == "ZK_COMPLIANCE"
FLAG_TRAVEL_RULE == "TRAVEL_RULE"
FLAG_SANCTIONS_ORACLE == "SANCTIONS_ORACLE"
FLAG_ZK_CREDENTIALS == "ZK_CREDENTIALS"
FLAG_WALLET_RATE_LIMITS == "WALLET_RATE_LIMITS"
FLAG_REQUIRE_OWNER_CONSENT == "REQUIRE_OWNER_CONSENT"
TransferFlags ==
  {FLAG_SPEND_POLICY, FLAG_CONFIDENTIAL_TRANSFERS, FLAG_ZK_COMPLIANCE,
   FLAG_TRAVEL_RULE, FLAG_SANCTIONS_ORACLE, FLAG_ZK_CREDENTIALS,
   FLAG_WALLET_RATE_LIMITS, FLAG_REQUIRE_OWNER_CONSENT}

ASSUME LedgerAssumption ==
  /\ NoKey \notin Wallets \cup Officers \cup {Delegate}
  /\ Delegate \notin Wallets
  /\ Amounts \subseteq Nat /\ SpendLimits \subseteq Nat
  /\ InitBalance \in Nat
  /\ BLACKLIST_CAP \in Nat
  /\ RuleSets \subseteq SUBSET TransferFlags
  /\ MaxSlot \in Nat \ {0}

VARIABLES
  slot,
  rules,        \* the flags this issuer ever switches; never changes
  flags,        \* feature_flags
  maxTransfer,  \* max_transfer_amount
  compliance,   \* compliance_authority
  balance,
  frozen,       \* wallets whose token account is frozen
  blacklist     \* the BlacklistState account of the hook

ledgerVars == <<slot, rules, flags, maxTransfer, compliance, balance, frozen,
                blacklist>>

NoBlacklist == [open |-> FALSE, authority |-> NoKey, listed |-> {}]

InitLedger ==
  /\ slot = 1
  /\ rules \in RuleSets
  /\ flags = {}
  /\ maxTransfer = 0
  /\ compliance \in Officers
  /\ balance = [w \in Wallets |-> InitBalance]
  /\ frozen = {}
  /\ blacklist = NoBlacklist

-----------------------------------------------------------------------------
(***************************************************************************)
(* The flags and the spend limit (feature_flags.rs, spend_policy.rs).      *)
(***************************************************************************)
SetFlag(f) ==
  /\ f \in rules
  /\ flags' = flags \cup {f}
  /\ UNCHANGED <<slot, rules, maxTransfer, compliance, balance, frozen, blacklist>>

ClearFlag(f) ==
  /\ f \in flags
  /\ flags' = flags \ {f}
  /\ UNCHANGED <<slot, rules, maxTransfer, compliance, balance, frozen, blacklist>>

SetSpendLimit(n) ==
  /\ FLAG_SPEND_POLICY \in rules
  /\ n > 0
  /\ maxTransfer' = n
  /\ flags' = flags \cup {FLAG_SPEND_POLICY}
  /\ UNCHANGED <<slot, rules, compliance, balance, frozen, blacklist>>

ClearSpendLimit ==
  /\ FLAG_SPEND_POLICY \in rules
  /\ maxTransfer' = 0
  /\ flags' = flags \ {FLAG_SPEND_POLICY}
  /\ UNCHANGED <<slot, rules, compliance, balance, frozen, blacklist>>

\* The compliance role passes on (update_roles and accept_compliance_authority).
ComplianceMoves(k) ==
  /\ k # compliance
  /\ compliance' = k
  /\ UNCHANGED <<slot, rules, flags, maxTransfer, balance, frozen, blacklist>>

-----------------------------------------------------------------------------
(***************************************************************************)
(* Freezing and the blacklist.  Token-2022 refuses to freeze a frozen      *)
(* account and to thaw one that is not.                                    *)
(***************************************************************************)
FreezeAccount(k, w) ==
  /\ k = compliance
  /\ w \notin frozen
  /\ frozen' = frozen \cup {w}
  /\ UNCHANGED <<slot, rules, flags, maxTransfer, compliance, balance, blacklist>>

ThawAccount(k, w) ==
  /\ k = compliance
  /\ w \in frozen
  /\ frozen' = frozen \ {w}
  /\ UNCHANGED <<slot, rules, flags, maxTransfer, compliance, balance, blacklist>>

\* initialize_extra_account_meta_list: the first caller keeps the blacklist
\* for good, whoever holds the compliance role later.
InitializeHook(k) ==
  /\ ~blacklist.open
  /\ blacklist' = [NoBlacklist EXCEPT !.open = TRUE, !.authority = k]
  /\ UNCHANGED <<slot, rules, flags, maxTransfer, compliance, balance, frozen>>

\* The list with w; a full list has no room for another address.
ListedWith(w) == blacklist.listed \cup {w}

CanList(k, w) == /\ blacklist.open /\ k = blacklist.authority
                 /\ Cardinality(ListedWith(w)) =< BLACKLIST_CAP

BlacklistAdd(k, w) ==
  /\ CanList(k, w)
  /\ blacklist' = [blacklist EXCEPT !.listed = ListedWith(w)]
  /\ UNCHANGED <<slot, rules, flags, maxTransfer, compliance, balance, frozen>>

BlacklistRemove(k, w) ==
  /\ blacklist.open /\ k = blacklist.authority
  /\ blacklist' = [blacklist EXCEPT !.listed = @ \ {w}]
  /\ UNCHANGED <<slot, rules, flags, maxTransfer, compliance, balance, frozen>>

\* blacklist_add_and_freeze: one signer must satisfy both programs.
BlacklistAddAndFreeze(k, w) ==
  /\ k = compliance
  /\ CanList(k, w)
  /\ w \notin frozen
  /\ blacklist' = [blacklist EXCEPT !.listed = ListedWith(w)]
  /\ frozen' = frozen \cup {w}
  /\ UNCHANGED <<slot, rules, flags, maxTransfer, compliance, balance>>

LedgerNext ==
  \/ \E f \in TransferFlags : SetFlag(f) \/ ClearFlag(f)
  \/ \E n \in SpendLimits : SetSpendLimit(n)
  \/ ClearSpendLimit
  \/ \E k \in Officers :
       \/ ComplianceMoves(k)
       \/ InitializeHook(k)
       \/ \E w \in Wallets : \/ FreezeAccount(k, w) \/ ThawAccount(k, w)
                             \/ BlacklistAdd(k, w) \/ BlacklistRemove(k, w)
                             \/ BlacklistAddAndFreeze(k, w)

\* The cluster's clock.
SlotPasses ==
  /\ slot < MaxSlot
  /\ slot' = slot + 1
  /\ UNCHANGED <<rules, flags, maxTransfer, compliance, balance, frozen, blacklist>>

LedgerTypeOK ==
  /\ slot \in 1..MaxSlot
  /\ rules \in RuleSets
  /\ flags \subseteq rules
  /\ maxTransfer \in Nat
  /\ compliance \in Officers
  /\ balance \in [Wallets -> Nat]
  /\ frozen \subseteq Wallets
  /\ blacklist \in [open : BOOLEAN, authority : Officers \cup {NoKey},
                    listed : SUBSET Wallets]
  /\ Cardinality(blacklist.listed) =< BLACKLIST_CAP

=============================================================================
