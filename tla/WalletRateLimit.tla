--------------------------- MODULE WalletRateLimit ---------------------------
(***************************************************************************)
(* The allowance of a wallet per window of slots: wallet_rate_limit.rs.    *)
(* The counter is written by update_wallet_rate_limit, which the hook      *)
(* calls in every transfer, and which anybody may call who names the       *)
(* hook's program as the caller: such a call counts what nobody moved.     *)
(***************************************************************************)
EXTENDS TransferLedger, Sums

CONSTANTS
  LimitMaxima,   \* values given for max_transfer_per_window
  LimitWindows   \* values given for window_slots

ASSUME LimitAssumption == LimitMaxima \subseteq Nat /\ LimitWindows \subseteq Nat

VARIABLES
  limit,    \* the WalletRateLimit account of each wallet
  sentAt    \* history: what each wallet moved in each slot under its limit

limitVars == <<limit, sentAt>>

NoLimit == [open |-> FALSE, max |-> 0, window |-> 0, used |-> 0, start |-> 0]
NothingSent == [s \in 1..MaxSlot |-> 0]

InitLimits ==
  /\ limit = [w \in Wallets |-> NoLimit]
  /\ sentAt = [w \in Wallets |-> NothingSent]

-----------------------------------------------------------------------------
SetWalletRateLimit(w, max, window) ==
  /\ FLAG_WALLET_RATE_LIMITS \in flags
  /\ max > 0 /\ window > 0
  /\ limit' = [limit EXCEPT ![w] = [NoLimit EXCEPT !.open = TRUE, !.max = max,
                                                   !.window = window]]
  /\ sentAt' = [sentAt EXCEPT ![w] = NothingSent]
  /\ UNCHANGED ledgerVars

RemoveWalletRateLimit(w) ==
  /\ limit[w].open
  /\ limit' = [limit EXCEPT ![w] = NoLimit]
  /\ sentAt' = [sentAt EXCEPT ![w] = NothingSent]
  /\ UNCHANGED ledgerVars

\* The reset of update_wallet_rate_limit, which has no case for a window that
\* never began: its start is 0.
Elapsed(w) == slot >= limit[w].start + limit[w].window

UsedBefore(w) == IF Elapsed(w) THEN 0 ELSE limit[w].used

\* Mutant: the counter restarts and the window does not.
StartAfterKept(w) == limit[w].start

StartAfter(w) == IF Elapsed(w) THEN slot ELSE limit[w].start

\* The write of update_wallet_rate_limit for n tokens of w.
Charge(w, n) ==
  /\ limit[w].open
  /\ UsedBefore(w) + n =< limit[w].max
  /\ limit' = [limit EXCEPT ![w] = [@ EXCEPT !.used = UsedBefore(w) + n,
                                             !.start = StartAfter(w)]]

UpdateWalletRateLimit(w, n) ==
  /\ Charge(w, n)
  /\ UNCHANGED <<ledgerVars, sentAt>>

LimitNext ==
  \E w \in Wallets :
    \/ \E max \in LimitMaxima, window \in LimitWindows :
         SetWalletRateLimit(w, max, window)
    \/ RemoveWalletRateLimit(w)
    \/ \E n \in Amounts : UpdateWalletRateLimit(w, n)

-----------------------------------------------------------------------------
\* The hook reads the account before it calls update_wallet_rate_limit, and
\* takes a window that never began for an elapsed one.
PreCheck(w, n) ==
  LET elapsed == limit[w].start = 0 \/ Elapsed(w)
  IN  (IF elapsed THEN n ELSE limit[w].used + n) =< limit[w].max

\* The hook's last word on n tokens of w: without the account no transfer.
RateLimited(w, n) ==
  IF FLAG_WALLET_RATE_LIMITS \in flags
    THEN /\ PreCheck(w, n)
         /\ Charge(w, n)
         /\ sentAt' = [sentAt EXCEPT ![w][slot] = @ + n]
    ELSE UNCHANGED limitVars

LimitTypeOK ==
  /\ limit \in [Wallets -> [open : BOOLEAN, max : Nat, window : Nat, used : Nat,
                            start : 0..MaxSlot]]
  /\ \A w \in Wallets : limit[w].used =< limit[w].max
  /\ sentAt \in [Wallets -> [1..MaxSlot -> Nat]]

\* What w moved in the window that begins at slot s.
SentFrom(w, s) ==
  SumOn(sentAt[w], {t \in 1..MaxSlot : t >= s /\ t < s + limit[w].window})

\* wallet_rate_limit.rs: whatever windows the counter went through, and
\* whoever else charged it, in no window_slots contiguous slots does a wallet
\* move more than twice its allowance while the limit is enforced.
RateLimitHolds ==
  \A w \in Wallets : limit[w].open =>
    \A s \in 1..MaxSlot : SentFrom(w, s) =< 2 * limit[w].max

=============================================================================
