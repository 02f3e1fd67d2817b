-------------------------- MODULE RedemptionQueue --------------------------
(***************************************************************************)
(* redemption_queue.rs: first come, first served, not before a delay, and  *)
(* never more than a share of the supply per slot.                         *)
(***************************************************************************)
EXTENDS RedemptionLedger

CONSTANTS
  MaxEntries,     \* bound on the entries ever created
  Delays,         \* values given for min_delay_slots
  Depths,         \* values given for max_queue_depth
  CapShares,      \* values given for max_redemption_per_slot_bps
  Rewards,        \* values given for keeper_reward_lamports
  DEFAULT_MIN_DELAY_SLOTS,              \* 750 in the code
  DEFAULT_MAX_QUEUE_DEPTH,              \* 1_000
  DEFAULT_MAX_REDEMPTION_PER_SLOT_BPS,  \* 100
  DEFAULT_KEEPER_REWARD_LAMPORTS,       \* 1_000_000
  InitSurplus     \* lamports of the queue account above its rent

ASSUME QueueAssumption ==
  /\ MaxEntries \in Nat \ {0}
  /\ Delays \subseteq 0..MaxAge /\ DEFAULT_MIN_DELAY_SLOTS \in 0..MaxAge
  /\ Depths \subseteq Nat /\ DEFAULT_MAX_QUEUE_DEPTH \in Nat
  /\ CapShares \subseteq Nat /\ DEFAULT_MAX_REDEMPTION_PER_SLOT_BPS \in 0..BPS
  /\ Rewards \subseteq Nat /\ DEFAULT_KEEPER_REWARD_LAMPORTS \in Nat
  /\ InitSurplus \in Nat

VARIABLES
  queueOn,        \* FLAG_REDEMPTION_QUEUE
  queue,          \* the RedemptionQueue account
  entries,        \* the RedemptionEntry accounts, by queue_index
  queueEscrow,    \* the tokens in each entry's escrow account
  surplus,        \* lamports that can be paid to keepers
  redeemedInSlot  \* history: fulfilled in the current slot

queueVars == <<queueOn, queue, entries, queueEscrow, surplus, redeemedInSlot>>

Indices == 0..(MaxEntries - 1)
NoEntry == [status |-> "none", owner |-> NoHolder, amount |-> 0, age |-> 0]
\* sameSlot says whether last_slot_processed is the current slot.
NoQueue == [open |-> FALSE, head |-> 0, tail |-> 0, minDelay |-> 0, maxDepth |-> 0,
            capBps |-> 0, reward |-> 0, sameSlot |-> FALSE, slotTotal |-> 0]

InitQueue ==
  /\ queueOn = FALSE
  /\ queue = NoQueue
  /\ entries = [i \in Indices |-> NoEntry]
  /\ queueEscrow = [i \in Indices |-> 0]
  /\ surplus = InitSurplus
  /\ redeemedInSlot = 0

IsOpen(i) == entries[i].status = "open"
IsSettled(i) == entries[i].status \in {"fulfilled", "cancelled"}

\* Governance sets or clears FLAG_REDEMPTION_QUEUE.
QueueFlagMoves ==
  /\ queueOn' = ~queueOn
  /\ UNCHANGED <<ledgerVars, queue, entries, queueEscrow, surplus, redeemedInSlot>>

InitRedemptionQueue ==
  /\ queueOn
  /\ ~queue.open
  /\ queue' = [open |-> TRUE, head |-> 0, tail |-> 0,
               minDelay |-> DEFAULT_MIN_DELAY_SLOTS,
               maxDepth |-> DEFAULT_MAX_QUEUE_DEPTH,
               capBps |-> DEFAULT_MAX_REDEMPTION_PER_SLOT_BPS,
               reward |-> DEFAULT_KEEPER_REWARD_LAMPORTS,
               sameSlot |-> FALSE, slotTotal |-> 0]
  /\ UNCHANGED <<ledgerVars, queueOn, entries, queueEscrow, surplus, redeemedInSlot>>

\* A later lower max_queue_depth only stops new entries.  The pause bit is
\* not read.
EnqueueRedemption(h, n) ==
  /\ queueOn /\ queue.open
  /\ n > 0
  /\ queue.tail - queue.head < queue.maxDepth
  /\ queue.tail < MaxEntries
  /\ n =< balance[h]
  /\ balance' = [balance EXCEPT ![h] = @ - n]
  /\ queueEscrow' = [queueEscrow EXCEPT ![queue.tail] = n]
  /\ entries' = [entries EXCEPT
       ![queue.tail] = [status |-> "open", owner |-> h, amount |-> n, age |-> 0]]
  /\ queue' = [queue EXCEPT !.tail = @ + 1]
  /\ UNCHANGED <<supply, totalMinted, totalBurned, totalCollateral, deskVault,
                 queueOn, surplus, redeemedInSlot>>

\* Mutant: the total restarts with every call.
SlotTotalAlwaysZero == 0

\* slot_redemption_total after the lazy reset.
SlotTotal == IF queue.sameSlot THEN queue.slotTotal ELSE 0

\* The share of the present supply, and at least one unit.
SlotCap == Most((supply * queue.capBps) \div BPS, 1)

\* Mutant: any entry may be processed, not only the head.
AtHeadUnchecked(i) == i < queue.tail

AtHead(i) == i = queue.head

\* The keeper's reward, from what the account holds above its rent.
RewardPaid == Least(queue.reward, surplus)

\* process_redemption: a keeper and the owner of the vault sign.
ProcessRedemption(i) ==
  LET n == entries[i].amount IN
  /\ queueOn /\ queue.open
  /\ IsOpen(i)
  /\ AtHead(i)
  /\ entries[i].age >= queue.minDelay
  /\ SlotTotal + n =< SlotCap
  /\ n =< queueEscrow[i]
  /\ n =< deskVault
  /\ n =< totalCollateral
  /\ queue' = [queue EXCEPT !.head = @ + 1, !.sameSlot = TRUE,
                            !.slotTotal = SlotTotal + n]
  /\ queueEscrow' = [queueEscrow EXCEPT ![i] = @ - n]
  /\ supply' = supply - n
  /\ deskVault' = deskVault - n
  /\ totalBurned' = totalBurned + n
  /\ totalCollateral' = totalCollateral - n
  /\ surplus' = surplus - RewardPaid
  /\ entries' = [entries EXCEPT ![i].status = "fulfilled"]
  /\ redeemedInSlot' = redeemedInSlot + n
  /\ UNCHANGED <<balance, totalMinted, queueOn>>

\* update_redemption_queue: neither the flag nor the Squads signer is asked
\* for; leaving an argument out is giving the value in force.
UpdateRedemptionQueue(delay, depth, share, reward) ==
  /\ queue.open
  /\ depth > 0
  /\ share =< BPS
  /\ queue' = [queue EXCEPT !.minDelay = delay, !.maxDepth = depth,
                            !.capBps = share, !.reward = reward]
  /\ UNCHANGED <<ledgerVars, queueOn, entries, queueEscrow, surplus, redeemedInSlot>>

\* Mutant: cancelling any entry moves the head.
HeadAfterCancelAlways(i) == queue.head + 1

HeadAfterCancel(i) == IF i = queue.head THEN queue.head + 1 ELSE queue.head

\* Mutant: the entry is not marked.
EntryAfterCancelKept(i) == entries[i]

EntryAfterCancel(i) == [entries[i] EXCEPT !.status = "cancelled"]

\* cancel_redemption: the owner, with the flag on or off.
CancelRedemption(i) ==
  LET n == entries[i].amount IN
  /\ queue.open
  /\ IsOpen(i)
  /\ n =< queueEscrow[i]
  /\ queueEscrow' = [queueEscrow EXCEPT ![i] = @ - n]
  /\ balance' = [balance EXCEPT ![entries[i].owner] = @ + n]
  /\ entries' = [entries EXCEPT ![i] = EntryAfterCancel(i)]
  /\ queue' = [queue EXCEPT !.head = HeadAfterCancel(i)]
  /\ UNCHANGED <<supply, totalMinted, totalBurned, totalCollateral, deskVault,
                 queueOn, surplus, redeemedInSlot>>

\* Mutant: only fulfilled heads are passed over.
CompactableFulfilledOnly(i) == entries[i].status = "fulfilled"

Compactable(i) == IsSettled(i)

CompactRedemptionHead(i) ==
  /\ queueOn /\ queue.open
  /\ Compactable(i)
  /\ i = queue.head
  /\ queue' = [queue EXCEPT !.head = @ + 1]
  /\ UNCHANGED <<ledgerVars, queueOn, entries, queueEscrow, surplus, redeemedInSlot>>

\* A slot passes.
QueueTick ==
  /\ queue' = [queue EXCEPT !.sameSlot = FALSE]
  /\ entries' = [i \in Indices |-> IF IsOpen(i)
                   THEN [entries[i] EXCEPT !.age = Older(@)] ELSE entries[i]]
  /\ redeemedInSlot' = 0
  /\ UNCHANGED <<queueOn, queueEscrow, surplus>>

QueueNext ==
  \/ QueueFlagMoves
  \/ InitRedemptionQueue
  \/ \E h \in Holders, n \in Amounts : EnqueueRedemption(h, n)
  \/ \E i \in Indices : \/ ProcessRedemption(i)
                        \/ CancelRedemption(i)
                        \/ CompactRedemptionHead(i)
  \/ \E d \in Delays, m \in Depths, s \in CapShares, r \in Rewards :
       UpdateRedemptionQueue(d, m, s, r)

-----------------------------------------------------------------------------
Queues == [open : BOOLEAN, head : Nat, tail : Nat, minDelay : 0..MaxAge, maxDepth : Nat,
           capBps : 0..BPS, reward : Nat, sameSlot : BOOLEAN, slotTotal : Nat]
Entries == [status : {"none", "open", "fulfilled", "cancelled"},
            owner : Holders \cup {NoHolder}, amount : Nat, age : 0..MaxAge]

QueueTypeOK ==
  /\ queueOn \in BOOLEAN
  /\ queue \in Queues
  /\ entries \in [Indices -> Entries]
  /\ queueEscrow \in [Indices -> Nat]
  /\ surplus \in Nat
  /\ redeemedInSlot \in Nat

\* The head never passes an open entry and never runs past the tail, though
\* processing, cancelling and compacting all move it: an entry behind the
\* head could no longer be processed (queue_index == queue_head), and a head
\* past the tail would swallow the entries created next.
NoEntryStranded ==
  /\ queue.head =< queue.tail /\ queue.tail =< MaxEntries
  /\ \A i \in Indices : /\ i < queue.head => IsSettled(i)
                        /\ i >= queue.tail <=> entries[i].status = "none"

\* First in, first out: when an entry is fulfilled, every entry created before
\* it is already settled (BUG-AUDIT3-007, strict FIFO).
FirstInFirstOut ==
  [][ \A i \in Indices : IsOpen(i) /\ entries'[i].status = "fulfilled"
        => \A j \in Indices : j < i => IsSettled(j) ]_<<queue, entries>>

\* Each open entry's escrow holds its amount, each settled one's is empty, so
\* an entry's tokens are burned or returned exactly once.
EscrowMatchesEntries ==
  \A i \in Indices : queueEscrow[i] = IF IsOpen(i) THEN entries[i].amount ELSE 0

\* What is redeemed through the queue in one slot never exceeds the share of
\* the supply at the last redemption of that slot, though the cap is
\* recomputed from a shrinking supply and the total is reset lazily.
SlotCapHolds ==
  [][ redeemedInSlot' > redeemedInSlot => redeemedInSlot' =< SlotCap ]_<<queueVars, ledgerVars>>

=============================================================================
