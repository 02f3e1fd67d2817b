-------------------------- MODULE RedemptionProofs --------------------------
(***************************************************************************)
(* Proofs about the redemption rails (module Redemption): that tokens are  *)
(* conserved across the three rails, that every entry and every request is *)
(* settled once and in order, and that the caps hold.                      *)
(***************************************************************************)
EXTENDS Redemption, TLAPS

-----------------------------------------------------------------------------
(***************************************************************************)
(* The inductive invariant, one part per rail and one for the ledger.      *)
(***************************************************************************)
\* Who cancels an open entry gets the tokens back.
OwnersKnown == \A i \in Indices : IsOpen(i) => entries[i].owner \in Holders

\* The queue account is blank until init_redemption_queue.
FreshQueue == queue.open \/ (queue.head = 0 /\ queue.tail = 0 /\ ~ queue.sameSlot)

\* The total that is reset lazily is what was really fulfilled in this slot.
SlotCounted == redeemedInSlot = SlotTotal

\* The day's total is what was really accepted since it was last reset.
DayCounted == acceptedInDay = guarantee.daily

QueueBooks ==
  QueueTypeOK /\ NoEntryStranded /\ EscrowMatchesEntries /\ OwnersKnown /\ FreshQueue /\ SlotCounted

GuaranteeBooks == GuaranteeTypeOK /\ RequestSettledOnce /\ DayCounted

PoolBooks == PoolTypeOK /\ PoolBooksBacked

LedgerTypeOK ==
  /\ balance \in [Holders -> Nat]
  /\ supply \in Nat /\ totalMinted \in Nat /\ totalBurned \in Nat
  /\ totalCollateral \in Nat /\ deskVault \in Nat

RedemptionInv == LedgerTypeOK /\ QueueBooks /\ GuaranteeBooks /\ PoolBooks /\ TokensConserved

-----------------------------------------------------------------------------
(***************************************************************************)
(* Arithmetic and totals.                                                  *)
(***************************************************************************)
LEMMA DivNat ==
  ASSUME NEW a \in Nat, NEW b \in Nat \ {0}
  PROVE  a \div b \in Nat
OBVIOUS

LEMMA MulNat ==
  ASSUME NEW a \in Nat, NEW b \in Nat
  PROVE  a * b \in Nat
OBVIOUS

LEMMA IndicesFinite == IsFiniteSet(Indices)
BY QueueAssumption, FS_Interval DEF Indices

\* The three parts of the supply.
LEMMA HeldNat ==
  ASSUME RedemptionInv
  PROVE  /\ Total(balance) \in Nat /\ Total(guaranteeEscrow) \in Nat
         /\ Total(queueEscrow) \in Nat
         /\ \A h \in Holders : balance[h] =< Total(balance)
                            /\ guaranteeEscrow[h] =< Total(guaranteeEscrow)
         /\ \A i \in Indices : queueEscrow[i] =< Total(queueEscrow)
<1>1. /\ balance \in [Holders -> Nat] /\ guaranteeEscrow \in [Holders -> Nat]
      /\ queueEscrow \in [Indices -> Nat]
  BY DEF RedemptionInv, LedgerTypeOK, QueueBooks, QueueTypeOK, GuaranteeBooks, GuaranteeTypeOK
<1>2. IsFiniteSet(Holders) /\ IsFiniteSet(Indices)
  BY LedgerAssumption, IndicesFinite
<1> QED
  BY <1>1, <1>2, TotalNat

-----------------------------------------------------------------------------
(***************************************************************************)
(* The queue.                                                              *)
(***************************************************************************)
\* A new entry goes behind the others; its tokens move into its escrow.
LEMMA EnqueueKeeps ==
  ASSUME RedemptionInv, NEW h \in Holders, NEW n \in Amounts, EnqueueRedemption(h, n),
         UNCHANGED <<guaranteeVars, poolVars>>
  PROVE  LedgerTypeOK' /\ QueueBooks' /\ TokensConserved'
<1> DEFINE t == queue.tail
           e == [status |-> "open", owner |-> h, amount |-> n, age |-> 0]
<1>1. /\ queue \in Queues /\ entries \in [Indices -> Entries]
      /\ queueEscrow \in [Indices -> Nat] /\ balance \in [Holders -> Nat]
      /\ MaxEntries \in Nat /\ n \in Nat /\ MaxAge \in Nat
  BY LedgerAssumption, QueueAssumption
     DEF RedemptionInv, QueueBooks, QueueTypeOK, LedgerTypeOK
<1>2. t \in Indices /\ t \in Nat
  BY <1>1 DEF EnqueueRedemption, Indices, Queues
<1>3. entries[t].status = "none" /\ queueEscrow[t] = 0
  BY <1>1, <1>2 DEF RedemptionInv, QueueBooks, NoEntryStranded, EscrowMatchesEntries, IsOpen
<1>4. e \in Entries
  BY <1>1 DEF Entries
<1>5. /\ entries' = [entries EXCEPT ![t] = e]
      /\ queueEscrow' = [queueEscrow EXCEPT ![t] = n]
      /\ queue' = [queue EXCEPT !.tail = t + 1]
      /\ n =< balance[h]
      /\ balance' = [balance EXCEPT ![h] = balance[h] - n]
  BY DEF EnqueueRedemption
<1>6. /\ queue' \in Queues /\ entries' \in [Indices -> Entries]
      /\ queueEscrow' \in [Indices -> Nat] /\ balance' \in [Holders -> Nat]
  <2>1. balance[h] - n \in Nat
    BY <1>1, <1>5
  <2>2. queue' \in Queues
    BY <1>1, <1>2, <1>5 DEF Queues
  <2> QED
    BY <1>1, <1>2, <1>4, <1>5, <2>1, <2>2
<1>7. /\ queue'.head = queue.head /\ queue'.tail = t + 1
      /\ queue'.open = queue.open /\ queue'.sameSlot = queue.sameSlot
      /\ queue'.slotTotal = queue.slotTotal
  BY <1>1, <1>5 DEF Queues
<1>8. /\ entries'[t] = e /\ queueEscrow'[t] = n
      /\ \A i \in Indices : i # t => entries'[i] = entries[i] /\ queueEscrow'[i] = queueEscrow[i]
  BY <1>1, <1>2, <1>5
<1>9. e.status = "open" /\ e.owner = h /\ e.amount = n
  OBVIOUS
<1> HIDE DEF e
<1>10. QueueTypeOK'
  BY <1>6 DEF EnqueueRedemption, QueueTypeOK, RedemptionInv, QueueBooks
<1>11. NoEntryStranded'
  <2>1. /\ queue.head =< queue.tail /\ queue.head \in Nat
        /\ \A i \in Indices : i < queue.head => IsSettled(i)
        /\ \A i \in Indices : i >= queue.tail <=> entries[i].status = "none"
    BY <1>1 DEF RedemptionInv, QueueBooks, NoEntryStranded, Queues
  <2>2. queue'.head =< queue'.tail /\ queue'.tail =< MaxEntries
    BY <1>1, <1>2, <1>7, <2>1 DEF EnqueueRedemption
  <2>3. ASSUME NEW i \in Indices
        PROVE  /\ i < queue'.head => IsSettled(i)'
               /\ i >= queue'.tail <=> entries'[i].status = "none"
    <3>1. CASE i = t
      BY <1>2, <1>7, <1>8, <1>9, <2>1, <3>1 DEF IsSettled
    <3>2. CASE i # t
      <4>1. i \in Nat
        BY DEF Indices
      <4> QED
        BY <1>2, <1>7, <1>8, <2>1, <3>2, <4>1 DEF IsSettled
    <3> QED
      BY <3>1, <3>2
  <2> QED
    BY <2>2, <2>3 DEF NoEntryStranded
<1>12. EscrowMatchesEntries' /\ OwnersKnown'
  BY <1>8, <1>9 DEF RedemptionInv, QueueBooks, EscrowMatchesEntries, OwnersKnown, IsOpen
<1>13. FreshQueue' /\ SlotCounted'
  BY <1>7 DEF EnqueueRedemption, RedemptionInv, QueueBooks, FreshQueue, SlotCounted, SlotTotal
<1>14. LedgerTypeOK'
  BY <1>6 DEF EnqueueRedemption, RedemptionInv, LedgerTypeOK
<1>15. TokensConserved'
  <2>1. Total(balance') = Total(balance) + ((balance[h] - n) - balance[h])
    <3>1. balance[h] - n \in Nat
      BY <1>1, <1>5
    <3> QED
      BY <1>1, <1>5, <3>1, LedgerAssumption, TotalExcept
  <2>2. Total(queueEscrow') = Total(queueEscrow) + (n - queueEscrow[t])
    BY <1>1, <1>2, <1>5, IndicesFinite, TotalExcept, ZenonT(60)
  <2>3. Total(guaranteeEscrow') = Total(guaranteeEscrow) /\ pool' = pool
    BY DEF guaranteeVars, poolVars
  <2>4. balance[h] \in Nat
    BY <1>1
  <2> QED
    BY <1>1, <1>3, <2>1, <2>2, <2>3, <2>4, HeldNat
       DEF EnqueueRedemption, RedemptionInv, TokensConserved
<1> QED
  BY <1>10, <1>11, <1>12, <1>13, <1>14, <1>15 DEF QueueBooks

\* What processing and cancelling have in common: an open entry is settled,
\* its escrow emptied, and the head moves past it at most.
LEMMA EntrySettles ==
  ASSUME RedemptionInv, NEW i \in Indices, IsOpen(i), queue.open,
         NEW s \in {"fulfilled", "cancelled"},
         entries' = [entries EXCEPT ![i] = [entries[i] EXCEPT !.status = s]],
         queueEscrow' = [queueEscrow EXCEPT ![i] = queueEscrow[i] - entries[i].amount],
         queue'.tail = queue.tail, queue'.open = queue.open,
         queue'.head = IF i = queue.head THEN queue.head + 1 ELSE queue.head
  PROVE  /\ entries' \in [Indices -> Entries] /\ queueEscrow' \in [Indices -> Nat]
         /\ NoEntryStranded' /\ EscrowMatchesEntries' /\ OwnersKnown' /\ FreshQueue'
         /\ entries[i].amount \in Nat
         /\ Total(queueEscrow') = Total(queueEscrow) - entries[i].amount
<1> DEFINE e == [entries[i] EXCEPT !.status = s]
<1>1. /\ queue \in Queues /\ entries \in [Indices -> Entries]
      /\ queueEscrow \in [Indices -> Nat] /\ MaxEntries \in Nat /\ i \in Nat
  BY QueueAssumption DEF RedemptionInv, QueueBooks, QueueTypeOK, Indices
<1>2. queueEscrow[i] = entries[i].amount /\ entries[i].amount \in Nat
  BY <1>1 DEF RedemptionInv, QueueBooks, EscrowMatchesEntries, Entries
<1>3. e \in Entries /\ e.status = s
  BY <1>1 DEF Entries
<1>4. entries' = [entries EXCEPT ![i] = e]
  OBVIOUS
<1> HIDE DEF e
<1>5. queueEscrow' = [queueEscrow EXCEPT ![i] = 0]
  <2>1. queueEscrow[i] - entries[i].amount = 0
    BY <1>2
  <2> QED
    BY <2>1
<1>6. entries' \in [Indices -> Entries] /\ queueEscrow' \in [Indices -> Nat]
  BY <1>1, <1>3, <1>4, <1>5
<1>7. /\ entries'[i].status = s /\ queueEscrow'[i] = 0
      /\ \A j \in Indices : j # i => entries'[j] = entries[j] /\ queueEscrow'[j] = queueEscrow[j]
  BY <1>1, <1>3, <1>4, <1>5
<1>8. NoEntryStranded'
  <2>1. /\ queue.head =< queue.tail /\ queue.tail =< MaxEntries
        /\ queue.head \in Nat /\ queue.tail \in Nat
        /\ \A j \in Indices : j < queue.head => IsSettled(j)
        /\ \A j \in Indices : j >= queue.tail <=> entries[j].status = "none"
    BY <1>1 DEF RedemptionInv, QueueBooks, NoEntryStranded, Queues
  <2>2. i < queue.tail
    BY <1>1, <2>1 DEF IsOpen
  <2>3. queue'.head =< queue'.tail /\ queue'.tail =< MaxEntries
    BY <2>1, <2>2
  <2>4. ASSUME NEW j \in Indices
        PROVE  /\ j < queue'.head => IsSettled(j)'
               /\ j >= queue'.tail <=> entries'[j].status = "none"
    <3>1. j \in Nat
      BY DEF Indices
    <3>2. CASE j = i
      BY <1>7, <2>1, <2>2, <3>1, <3>2 DEF IsSettled
    <3>3. CASE j # i
      BY <1>1, <1>7, <2>1, <3>1, <3>3 DEF IsSettled
    <3> QED
      BY <3>2, <3>3
  <2> QED
    BY <2>3, <2>4 DEF NoEntryStranded
<1>9. EscrowMatchesEntries' /\ OwnersKnown'
  BY <1>7 DEF RedemptionInv, QueueBooks, EscrowMatchesEntries, OwnersKnown, IsOpen
<1>10. FreshQueue'
  BY DEF FreshQueue
<1>11. Total(queueEscrow') = Total(queueEscrow) - entries[i].amount
  <2>1. Total([queueEscrow EXCEPT ![i] = 0]) = Total(queueEscrow) + (0 - queueEscrow[i])
    <3>1. 0 \in Nat
      OBVIOUS
    <3> QED
      BY <1>1, <3>1, IndicesFinite, TotalExcept
  <2>2. Total(queueEscrow') = Total([queueEscrow EXCEPT ![i] = 0])
    BY <1>5, Zenon
  <2>3. Total(queueEscrow) \in Nat
    BY HeldNat
  <2> QED
    BY <1>2, <2>1, <2>2, <2>3
<1> QED
  BY <1>2, <1>6, <1>8, <1>9, <1>10, <1>11

\* A processed entry is burned: its escrow and the supply shrink together.
LEMMA ProcessKeeps ==
  ASSUME RedemptionInv, NEW i \in Indices, ProcessRedemption(i),
         UNCHANGED <<guaranteeVars, poolVars>>
  PROVE  LedgerTypeOK' /\ QueueBooks' /\ TokensConserved'
<1> DEFINE n == entries[i].amount
<1>1. /\ queue \in Queues /\ surplus \in Nat /\ redeemedInSlot \in Nat
      /\ redeemedInSlot = SlotTotal /\ SlotTotal \in Nat
      /\ supply \in Nat /\ totalBurned \in Nat /\ totalCollateral \in Nat
      /\ deskVault \in Nat /\ totalMinted \in Nat /\ balance \in [Holders -> Nat]
  BY DEF RedemptionInv, QueueBooks, QueueTypeOK, LedgerTypeOK, SlotCounted
<1>2. /\ entries' = [entries EXCEPT ![i] = [entries[i] EXCEPT !.status = "fulfilled"]]
      /\ queueEscrow' = [queueEscrow EXCEPT ![i] = queueEscrow[i] - n]
      /\ queue' = [queue EXCEPT !.head = queue.head + 1, !.sameSlot = TRUE,
                                !.slotTotal = SlotTotal + n]
      /\ i = queue.head /\ queue.open /\ IsOpen(i)
      /\ n =< deskVault /\ n =< totalCollateral
  BY DEF ProcessRedemption, AtHead
<1>3. /\ queue'.head = queue.head + 1 /\ queue'.tail = queue.tail
      /\ queue'.open = queue.open /\ queue'.sameSlot /\ queue'.slotTotal = SlotTotal + n
  BY <1>1, <1>2 DEF Queues
<1>4. /\ entries' \in [Indices -> Entries] /\ queueEscrow' \in [Indices -> Nat]
      /\ NoEntryStranded' /\ EscrowMatchesEntries' /\ OwnersKnown' /\ FreshQueue'
      /\ n \in Nat
      /\ Total(queueEscrow') = Total(queueEscrow) - n
  <2>1. queue'.head = IF i = queue.head THEN queue.head + 1 ELSE queue.head
    BY <1>2, <1>3
  <2> QED
    BY <1>2, <1>3, <2>1, EntrySettles
<1>5. queue' \in Queues
  <2>1. queue.head + 1 \in Nat /\ SlotTotal + n \in Nat
    BY <1>1, <1>4 DEF Queues
  <2> HIDE DEF n
  <2> QED
    BY <1>1, <1>2, <2>1 DEF Queues
<1>6. surplus' \in Nat
  <2>1. queue.reward \in Nat
    BY <1>1 DEF Queues
  <2> QED
    BY <1>1, <2>1 DEF ProcessRedemption, RewardPaid, Least
<1>7. QueueTypeOK'
  BY <1>1, <1>4, <1>5, <1>6 DEF ProcessRedemption, QueueTypeOK, RedemptionInv, QueueBooks
<1>8. SlotCounted'
  BY <1>1, <1>3 DEF ProcessRedemption, SlotCounted, SlotTotal
<1>9. n =< supply
  <2>1. n =< Total(queueEscrow)
    <3>1. queueEscrow[i] =< Total(queueEscrow) /\ n =< queueEscrow[i] /\ queueEscrow[i] \in Nat
      BY HeldNat DEF ProcessRedemption, RedemptionInv, QueueBooks, QueueTypeOK
    <3> QED
      BY <1>4, <3>1, HeldNat
  <2> QED
    BY <1>1, <1>4, <2>1, HeldNat DEF RedemptionInv, TokensConserved
<1>10. LedgerTypeOK'
  BY <1>1, <1>2, <1>4, <1>9 DEF ProcessRedemption, LedgerTypeOK
<1>11. TokensConserved'
  <2>1. /\ supply' = supply - n /\ totalBurned' = totalBurned + n
        /\ balance' = balance /\ guaranteeEscrow' = guaranteeEscrow /\ pool' = pool
        /\ totalMinted' = totalMinted
    BY DEF ProcessRedemption, guaranteeVars, poolVars
  <2>2. pool.redeemed \in Nat
    BY DEF RedemptionInv, PoolBooks, PoolTypeOK, Pools
  <2> QED
    BY <1>1, <1>4, <2>1, <2>2, HeldNat DEF RedemptionInv, TokensConserved
<1> QED
  BY <1>4, <1>7, <1>8, <1>10, <1>11 DEF QueueBooks

\* A cancelled entry's tokens go back to the owner it was created with.
LEMMA CancelKeeps ==
  ASSUME RedemptionInv, NEW i \in Indices, CancelRedemption(i),
         UNCHANGED <<guaranteeVars, poolVars>>
  PROVE  LedgerTypeOK' /\ QueueBooks' /\ TokensConserved'
<1> DEFINE n == entries[i].amount
           h == entries[i].owner
<1>1. /\ queue \in Queues /\ entries \in [Indices -> Entries]
      /\ balance \in [Holders -> Nat] /\ IsFiniteSet(Holders)
  BY LedgerAssumption DEF RedemptionInv, QueueBooks, QueueTypeOK, LedgerTypeOK
<1>2. /\ entries' = [entries EXCEPT ![i] = [entries[i] EXCEPT !.status = "cancelled"]]
      /\ queueEscrow' = [queueEscrow EXCEPT ![i] = queueEscrow[i] - n]
      /\ queue' = [queue EXCEPT !.head = IF i = queue.head THEN queue.head + 1 ELSE queue.head]
      /\ queue.open /\ IsOpen(i)
      /\ balance' = [balance EXCEPT ![h] = balance[h] + n]
  BY DEF CancelRedemption, EntryAfterCancel, HeadAfterCancel
<1>3. /\ queue'.head = IF i = queue.head THEN queue.head + 1 ELSE queue.head
      /\ queue'.tail = queue.tail /\ queue'.sameSlot = queue.sameSlot
      /\ queue'.open = queue.open /\ queue'.slotTotal = queue.slotTotal
  BY <1>1, <1>2 DEF Queues
<1>4. /\ entries' \in [Indices -> Entries] /\ queueEscrow' \in [Indices -> Nat]
      /\ NoEntryStranded' /\ EscrowMatchesEntries' /\ OwnersKnown' /\ FreshQueue'
      /\ n \in Nat
      /\ Total(queueEscrow') = Total(queueEscrow) - n
  BY <1>2, <1>3, EntrySettles
<1>5. queue' \in Queues
  <2>1. (IF i = queue.head THEN queue.head + 1 ELSE queue.head) \in Nat
    BY <1>1 DEF Queues
  <2> QED
    BY <1>1, <1>2, <2>1 DEF Queues
<1>6. QueueTypeOK'
  BY <1>4, <1>5 DEF CancelRedemption, QueueTypeOK, RedemptionInv, QueueBooks
<1>7. SlotCounted'
  BY <1>3 DEF CancelRedemption, SlotCounted, SlotTotal, RedemptionInv, QueueBooks
<1>8. h \in Holders
  BY <1>2 DEF RedemptionInv, QueueBooks, OwnersKnown
<1>9. balance[h] \in Nat /\ balance[h] + n \in Nat
  BY <1>1, <1>4, <1>8
<1> HIDE DEF n, h
<1>10. LedgerTypeOK'
  <2>1. balance' \in [Holders -> Nat]
    BY <1>1, <1>2, <1>9
  <2> QED
    BY <2>1 DEF CancelRedemption, LedgerTypeOK, RedemptionInv
<1>11. TokensConserved'
  <2>1. Total(balance') = Total(balance) + ((balance[h] + n) - balance[h])
    BY <1>1, <1>2, <1>8, <1>9, TotalExcept
  <2>2. UNCHANGED <<supply, totalBurned, totalMinted, guaranteeEscrow, pool>>
    BY DEF CancelRedemption, guaranteeVars, poolVars
  <2> QED
    BY <1>4, <1>9, <2>1, <2>2, HeldNat DEF RedemptionInv, TokensConserved
<1> QED
  BY <1>4, <1>6, <1>7, <1>10, <1>11 DEF QueueBooks

\* Passing over a settled head strands nothing.
LEMMA CompactKeeps ==
  ASSUME QueueBooks, NEW i \in Indices, CompactRedemptionHead(i)
  PROVE  QueueBooks'
<1>1. /\ queue \in Queues /\ i \in Nat /\ i = queue.head /\ IsSettled(i) /\ queue.open
      /\ queue' = [queue EXCEPT !.head = queue.head + 1]
      /\ UNCHANGED <<queueOn, entries, queueEscrow, surplus, redeemedInSlot>>
  BY DEF QueueBooks, QueueTypeOK, Indices, CompactRedemptionHead, Compactable
<1>2. /\ queue'.head = queue.head + 1 /\ queue'.tail = queue.tail
      /\ queue'.sameSlot = queue.sameSlot /\ queue'.slotTotal = queue.slotTotal
      /\ queue'.open = queue.open /\ queue.tail \in Nat /\ queue' \in Queues
  <2>1. queue.head + 1 \in Nat
    BY <1>1 DEF Queues
  <2> QED
    BY <1>1, <2>1 DEF Queues
<1>3. NoEntryStranded'
  <2>1. /\ queue.head =< queue.tail /\ queue.tail =< MaxEntries
        /\ \A j \in Indices : j < queue.head => IsSettled(j)
        /\ \A j \in Indices : j >= queue.tail <=> entries[j].status = "none"
    BY DEF QueueBooks, NoEntryStranded
  <2>2. i < queue.tail
    BY <1>1, <1>2, <2>1 DEF IsSettled
  <2>3. ASSUME NEW j \in Indices
        PROVE  /\ j < queue'.head => IsSettled(j)'
               /\ j >= queue'.tail <=> entries'[j].status = "none"
    <3>1. j \in Nat
      BY DEF Indices
    <3> QED
      BY <1>1, <1>2, <2>1, <3>1 DEF IsSettled
  <2> QED
    BY <1>1, <1>2, <2>1, <2>2, <2>3 DEF NoEntryStranded
<1> QED
  BY <1>1, <1>2, <1>3
     DEF QueueBooks, QueueTypeOK, EscrowMatchesEntries, OwnersKnown, IsOpen, FreshQueue,
         SlotCounted, SlotTotal

\* New parameters move neither head nor tail nor the slot's total.
LEMMA UpdateKeeps ==
  ASSUME QueueBooks, NEW d \in Delays, NEW m \in Depths, NEW s \in CapShares, NEW r \in Rewards,
         UpdateRedemptionQueue(d, m, s, r)
  PROVE  QueueBooks'
<1>1. /\ queue \in Queues /\ queue.open
      /\ queue' = [queue EXCEPT !.minDelay = d, !.maxDepth = m, !.capBps = s, !.reward = r]
      /\ UNCHANGED <<queueOn, entries, queueEscrow, surplus, redeemedInSlot>>
  BY DEF QueueBooks, QueueTypeOK, UpdateRedemptionQueue
<1>2. d \in 0..MaxAge /\ m \in Nat /\ s \in 0..BPS /\ r \in Nat
  <2>1. s \in Nat /\ s =< BPS /\ BPS \in Nat
    BY QueueAssumption, LedgerAssumption DEF UpdateRedemptionQueue
  <2> QED
    BY <2>1, QueueAssumption
<1>3. /\ queue'.head = queue.head /\ queue'.tail = queue.tail
      /\ queue'.sameSlot = queue.sameSlot /\ queue'.slotTotal = queue.slotTotal
      /\ queue'.open = queue.open /\ queue' \in Queues
  BY <1>1, <1>2 DEF Queues
<1> QED
  BY <1>1, <1>3
     DEF QueueBooks, QueueTypeOK, NoEntryStranded, IsSettled, EscrowMatchesEntries, OwnersKnown,
         IsOpen, FreshQueue, SlotCounted, SlotTotal

\* The queue account appears blank.
LEMMA InitRedemptionQueueKeeps ==
  ASSUME QueueBooks, InitRedemptionQueue
  PROVE  QueueBooks'
<1>1. /\ queue.head = 0 /\ queue.tail = 0 /\ ~ queue.sameSlot
      /\ queue' = [open |-> TRUE, head |-> 0, tail |-> 0,
                   minDelay |-> DEFAULT_MIN_DELAY_SLOTS,
                   maxDepth |-> DEFAULT_MAX_QUEUE_DEPTH,
                   capBps |-> DEFAULT_MAX_REDEMPTION_PER_SLOT_BPS,
                   reward |-> DEFAULT_KEEPER_REWARD_LAMPORTS,
                   sameSlot |-> FALSE, slotTotal |-> 0]
      /\ UNCHANGED <<queueOn, entries, queueEscrow, surplus, redeemedInSlot>>
  BY DEF QueueBooks, FreshQueue, InitRedemptionQueue
<1>2. /\ queue'.head = 0 /\ queue'.tail = 0 /\ ~ queue'.sameSlot /\ queue'.open
      /\ queue' \in Queues
  BY <1>1, QueueAssumption DEF Queues
<1> QED
  BY <1>1, <1>2
     DEF QueueBooks, QueueTypeOK, NoEntryStranded, IsSettled, EscrowMatchesEntries, OwnersKnown,
         IsOpen, FreshQueue, SlotCounted, SlotTotal

\* A slot passes: entries age, and the slot's total counts no more.
LEMMA QueueTickKeeps ==
  ASSUME QueueBooks, QueueTick
  PROVE  QueueBooks'
<1>1. /\ queue \in Queues /\ entries \in [Indices -> Entries] /\ MaxAge \in Nat
      /\ queue' = [queue EXCEPT !.sameSlot = FALSE]
      /\ redeemedInSlot' = 0
      /\ UNCHANGED <<queueOn, queueEscrow, surplus>>
  BY LedgerAssumption DEF QueueBooks, QueueTypeOK, QueueTick
<1>2. ASSUME NEW i \in Indices
      PROVE  /\ entries'[i] \in Entries /\ entries'[i].status = entries[i].status
             /\ entries'[i].owner = entries[i].owner /\ entries'[i].amount = entries[i].amount
  <2>1. entries[i] \in Entries /\ Older(entries[i].age) \in 0..MaxAge
    BY <1>1 DEF Entries, Older
  <2>2. entries'[i] = IF IsOpen(i) THEN [entries[i] EXCEPT !.age = Older(entries[i].age)]
                                   ELSE entries[i]
    BY DEF QueueTick
  <2> QED
    BY <2>1, <2>2 DEF Entries
<1>3. entries' \in [Indices -> Entries]
  <2>1. entries' = [i \in Indices |-> IF IsOpen(i)
                      THEN [entries[i] EXCEPT !.age = Older(entries[i].age)] ELSE entries[i]]
    BY DEF QueueTick
  <2>2. entries' = [i \in Indices |-> entries'[i]]
    BY <2>1
  <2> QED
    BY <1>2, <2>2
<1>4. /\ queue'.head = queue.head /\ queue'.tail = queue.tail /\ ~ queue'.sameSlot
      /\ queue'.open = queue.open /\ queue' \in Queues
  BY <1>1 DEF Queues
<1>5. QueueTypeOK'
  BY <1>1, <1>3, <1>4 DEF QueueBooks, QueueTypeOK
<1>6. NoEntryStranded' /\ EscrowMatchesEntries' /\ OwnersKnown'
  BY <1>1, <1>2, <1>4
     DEF QueueBooks, NoEntryStranded, IsSettled, EscrowMatchesEntries, OwnersKnown, IsOpen
<1>7. FreshQueue' /\ SlotCounted'
  BY <1>1, <1>4 DEF QueueBooks, FreshQueue, SlotCounted, SlotTotal
<1> QED
  BY <1>5, <1>6, <1>7 DEF QueueBooks

\* Every step of the queue.
LEMMA QueueKeeps ==
  ASSUME RedemptionInv, QueueNext, UNCHANGED <<guaranteeVars, poolVars>>
  PROVE  LedgerTypeOK' /\ QueueBooks' /\ TokensConserved'
<1>1. QueueBooks
  BY DEF RedemptionInv
<1>2. ASSUME UNCHANGED ledgerVars, UNCHANGED queueEscrow
      PROVE  LedgerTypeOK' /\ TokensConserved'
  BY <1>2 DEF RedemptionInv, LedgerTypeOK, TokensConserved, ledgerVars, guaranteeVars, poolVars
<1>3. CASE QueueFlagMoves
  <2>1. QueueTypeOK'
    BY <1>1, <1>3 DEF QueueFlagMoves, QueueBooks, QueueTypeOK
  <2> QED
    BY <1>1, <1>2, <1>3, <2>1
       DEF QueueFlagMoves, QueueBooks, NoEntryStranded, IsSettled, EscrowMatchesEntries,
           OwnersKnown, IsOpen, FreshQueue, SlotCounted, SlotTotal
<1>4. CASE InitRedemptionQueue
  BY <1>1, <1>2, <1>4, InitRedemptionQueueKeeps DEF InitRedemptionQueue
<1>5. ASSUME NEW h \in Holders, NEW n \in Amounts, EnqueueRedemption(h, n)
      PROVE  LedgerTypeOK' /\ QueueBooks' /\ TokensConserved'
  BY <1>5, EnqueueKeeps
<1>6. ASSUME NEW i \in Indices, ProcessRedemption(i)
      PROVE  LedgerTypeOK' /\ QueueBooks' /\ TokensConserved'
  BY <1>6, ProcessKeeps
<1>7. ASSUME NEW i \in Indices, CancelRedemption(i)
      PROVE  LedgerTypeOK' /\ QueueBooks' /\ TokensConserved'
  BY <1>7, CancelKeeps
<1>8. ASSUME NEW i \in Indices, CompactRedemptionHead(i)
      PROVE  LedgerTypeOK' /\ QueueBooks' /\ TokensConserved'
  BY <1>1, <1>2, <1>8, CompactKeeps DEF CompactRedemptionHead
<1>9. ASSUME NEW d \in Delays, NEW m \in Depths, NEW s \in CapShares, NEW r \in Rewards,
             UpdateRedemptionQueue(d, m, s, r)
      PROVE  LedgerTypeOK' /\ QueueBooks' /\ TokensConserved'
  BY <1>1, <1>2, <1>9, UpdateKeeps DEF UpdateRedemptionQueue
<1> QED
  BY <1>3, <1>4, <1>5, <1>6, <1>7, <1>8, <1>9 DEF QueueNext

-----------------------------------------------------------------------------
(***************************************************************************)
(* The guarantee.                                                          *)
(***************************************************************************)
\* The tokens of a request move into its escrow, and count for the day.
LEMMA RequestKeeps ==
  ASSUME RedemptionInv, NEW h \in Holders, NEW n \in Amounts, RequestRedemption(h, n),
         UNCHANGED <<queueVars, poolVars>>
  PROVE  LedgerTypeOK' /\ GuaranteeBooks' /\ TokensConserved'
<1> DEFINE r == [status |-> "open", amount |-> n, age |-> 0]
<1>1. /\ guarantee \in Guarantees /\ requests \in [Holders -> Requests]
      /\ guaranteeEscrow \in [Holders -> Nat] /\ balance \in [Holders -> Nat]
      /\ n \in Nat /\ MaxAge \in Nat /\ IsFiniteSet(Holders)
  BY LedgerAssumption
     DEF RedemptionInv, GuaranteeBooks, GuaranteeTypeOK, LedgerTypeOK
<1>2. guaranteeEscrow[h] = 0
  BY <1>1 DEF RequestRedemption, RedemptionInv, GuaranteeBooks, RequestSettledOnce
<1>3. /\ n =< balance[h]
      /\ balance' = [balance EXCEPT ![h] = balance[h] - n]
      /\ guaranteeEscrow' = [guaranteeEscrow EXCEPT ![h] = guaranteeEscrow[h] + n]
      /\ guarantee' = [guarantee EXCEPT !.daily = DailyBefore + n, !.dayAge = DayAgeAfter]
      /\ requests' = [requests EXCEPT ![h] = r]
  BY DEF RequestRedemption
<1>4. r \in Requests /\ r.status = "open" /\ r.amount = n
  BY <1>1 DEF Requests
<1> HIDE DEF r
<1>5. /\ balance[h] \in Nat /\ balance[h] - n \in Nat
      /\ guaranteeEscrow[h] + n = n
  BY <1>1, <1>2, <1>3
<1>6. guaranteeEscrow' = [guaranteeEscrow EXCEPT ![h] = n]
  BY <1>3, <1>5
<1>7. /\ DailyBefore + n \in Nat /\ DayAgeAfter \in 0..MaxAge
  BY <1>1 DEF DailyBefore, DayAgeAfter, Guarantees
<1>8. guarantee' \in Guarantees /\ guarantee'.daily = DailyBefore + n
  BY <1>1, <1>3, <1>7 DEF Guarantees
<1>9. GuaranteeTypeOK'
  <2>1. acceptedInDay \in Nat
    BY DEF RedemptionInv, GuaranteeBooks, GuaranteeTypeOK
  <2> QED
    BY <1>1, <1>3, <1>4, <1>6, <1>8, <2>1
       DEF RequestRedemption, RedemptionInv, GuaranteeBooks, GuaranteeTypeOK
<1>10. RequestSettledOnce'
  BY <1>1, <1>3, <1>4, <1>6 DEF RedemptionInv, GuaranteeBooks, RequestSettledOnce
<1>11. DayCounted'
  BY <1>1, <1>8
     DEF RequestRedemption, RedemptionInv, GuaranteeBooks, DayCounted, DailyBefore, DayOver
<1>12. LedgerTypeOK'
  <2>1. balance' \in [Holders -> Nat]
    BY <1>1, <1>3, <1>5
  <2> QED
    BY <2>1 DEF RequestRedemption, RedemptionInv, LedgerTypeOK
<1>13. TokensConserved'
  <2>1. Total(balance') = Total(balance) + ((balance[h] - n) - balance[h])
    BY <1>1, <1>3, <1>5, TotalExcept
  <2>2. Total(guaranteeEscrow') = Total(guaranteeEscrow) + (n - guaranteeEscrow[h])
    BY <1>1, <1>6, TotalExcept
  <2>3. UNCHANGED <<supply, totalMinted, totalBurned, queueEscrow, pool>>
    BY DEF RequestRedemption, queueVars, poolVars
  <2> QED
    BY <1>1, <1>2, <1>5, <2>1, <2>2, <2>3, HeldNat DEF RedemptionInv, TokensConserved
<1> QED
  BY <1>9, <1>10, <1>11, <1>12, <1>13 DEF GuaranteeBooks

\* What fulfilment and claim have in common: an open request ends and its
\* escrow is emptied.
LEMMA RequestEnds ==
  ASSUME RedemptionInv, NEW h \in Holders, requests[h].status = "open",
         NEW s \in {"fulfilled", "breached"},
         requests' = [requests EXCEPT ![h] = [requests[h] EXCEPT !.status = s]],
         guaranteeEscrow' = [guaranteeEscrow EXCEPT ![h] = guaranteeEscrow[h] - requests[h].amount],
         UNCHANGED <<guarantee, fundSet, acceptedInDay>>, fund' \in Nat
  PROVE  /\ GuaranteeBooks'
         /\ requests[h].amount \in Nat
         /\ Total(guaranteeEscrow') = Total(guaranteeEscrow) - requests[h].amount
<1> DEFINE r == [requests[h] EXCEPT !.status = s]
<1>1. /\ requests \in [Holders -> Requests] /\ guaranteeEscrow \in [Holders -> Nat]
      /\ IsFiniteSet(Holders)
  BY LedgerAssumption DEF RedemptionInv, GuaranteeBooks, GuaranteeTypeOK
<1>2. guaranteeEscrow[h] = requests[h].amount /\ requests[h].amount \in Nat
  BY <1>1 DEF RedemptionInv, GuaranteeBooks, RequestSettledOnce, Requests
<1>3. r \in Requests /\ r.status = s
  BY <1>1 DEF Requests
<1>4. requests' = [requests EXCEPT ![h] = r]
  OBVIOUS
<1> HIDE DEF r
<1>5. guaranteeEscrow' = [guaranteeEscrow EXCEPT ![h] = 0]
  <2>1. guaranteeEscrow[h] - requests[h].amount = 0
    BY <1>2
  <2> QED
    BY <2>1
<1>6. GuaranteeTypeOK'
  BY <1>1, <1>3, <1>4, <1>5 DEF RedemptionInv, GuaranteeBooks, GuaranteeTypeOK
<1>7. RequestSettledOnce'
  BY <1>1, <1>3, <1>4, <1>5 DEF RedemptionInv, GuaranteeBooks, RequestSettledOnce
<1>8. DayCounted'
  BY DEF RedemptionInv, GuaranteeBooks, DayCounted
<1>9. Total(guaranteeEscrow') = Total(guaranteeEscrow) - requests[h].amount
  <2>1. Total([guaranteeEscrow EXCEPT ![h] = 0])
          = Total(guaranteeEscrow) + (0 - guaranteeEscrow[h])
    <3>1. 0 \in Nat
      OBVIOUS
    <3> QED
      BY <1>1, <3>1, TotalExcept
  <2>2. Total(guaranteeEscrow') = Total([guaranteeEscrow EXCEPT ![h] = 0])
    BY <1>5, Zenon
  <2>3. Total(guaranteeEscrow) \in Nat
    BY HeldNat
  <2> QED
    BY <1>2, <2>1, <2>2, <2>3
<1> QED
  BY <1>2, <1>6, <1>7, <1>8, <1>9 DEF GuaranteeBooks

\* A fulfilled request is burned.
LEMMA FulfillKeeps ==
  ASSUME RedemptionInv, NEW h \in Holders, FulfillRedemption(h),
         UNCHANGED <<queueVars, poolVars>>
  PROVE  LedgerTypeOK' /\ GuaranteeBooks' /\ TokensConserved'
<1> DEFINE n == requests[h].amount
<1>1. /\ requests' = [requests EXCEPT ![h] = [requests[h] EXCEPT !.status = "fulfilled"]]
      /\ guaranteeEscrow' = [guaranteeEscrow EXCEPT ![h] = guaranteeEscrow[h] - n]
      /\ requests[h].status = "open" /\ n =< guaranteeEscrow[h] /\ n =< deskVault
      /\ UNCHANGED <<balance, totalMinted, totalCollateral, guarantee, fund, fundSet,
                     acceptedInDay, queueEscrow, pool>>
      /\ supply' = supply - n /\ totalBurned' = totalBurned + n /\ deskVault' = deskVault - n
  BY DEF FulfillRedemption, FulfilledStatus, SupplyAfter, queueVars, poolVars
<1>2. fund \in Nat
  BY DEF RedemptionInv, GuaranteeBooks, GuaranteeTypeOK
<1>3. /\ GuaranteeBooks' /\ n \in Nat
      /\ Total(guaranteeEscrow') = Total(guaranteeEscrow) - n
  BY <1>1, <1>2, RequestEnds
<1>4. /\ supply \in Nat /\ totalBurned \in Nat /\ totalMinted \in Nat /\ deskVault \in Nat
      /\ pool.redeemed \in Nat /\ guaranteeEscrow[h] \in Nat
  BY DEF RedemptionInv, LedgerTypeOK, PoolBooks, PoolTypeOK, Pools, GuaranteeBooks,
         GuaranteeTypeOK
<1>5. guaranteeEscrow[h] =< Total(guaranteeEscrow)
  BY HeldNat
<1> HIDE DEF n
<1>6. n =< supply
  BY <1>1, <1>3, <1>4, <1>5, HeldNat DEF RedemptionInv, TokensConserved
<1>7. LedgerTypeOK'
  BY <1>1, <1>3, <1>4, <1>6 DEF RedemptionInv, LedgerTypeOK
<1>8. TokensConserved'
  BY <1>1, <1>3, <1>4, HeldNat DEF RedemptionInv, TokensConserved
<1> QED
  BY <1>3, <1>7, <1>8

\* The tokens of a late request go back.
LEMMA ClaimKeeps ==
  ASSUME RedemptionInv, NEW h \in Holders, ClaimExpiredRedemption(h),
         UNCHANGED <<queueVars, poolVars>>
  PROVE  LedgerTypeOK' /\ GuaranteeBooks' /\ TokensConserved'
<1> DEFINE n == requests[h].amount
<1>1. /\ requests' = [requests EXCEPT ![h] = [requests[h] EXCEPT !.status = "breached"]]
      /\ guaranteeEscrow' = [guaranteeEscrow EXCEPT ![h] = guaranteeEscrow[h] - n]
      /\ requests[h].status = "open"
      /\ balance' = [balance EXCEPT ![h] = balance[h] + n]
      /\ fund' = fund - Penalty(n)
      /\ UNCHANGED <<supply, totalMinted, totalBurned, totalCollateral, deskVault,
                     guarantee, fundSet, acceptedInDay, queueEscrow, pool>>
  BY DEF ClaimExpiredRedemption, queueVars, poolVars
<1>2. /\ fund \in Nat /\ requests \in [Holders -> Requests] /\ balance \in [Holders -> Nat]
      /\ IsFiniteSet(Holders)
  BY LedgerAssumption DEF RedemptionInv, GuaranteeBooks, GuaranteeTypeOK, LedgerTypeOK
<1>3. fund' \in Nat
  <2>1. n \in Nat /\ PENALTY_BPS \in Nat /\ BPS \in Nat \ {0}
    BY <1>2, GuaranteeAssumption, LedgerAssumption DEF Requests
  <2> HIDE DEF n
  <2>2. n * PENALTY_BPS \in Nat
    BY <2>1, MulNat
  <2>3. (n * PENALTY_BPS) \div BPS \in Nat
    BY <2>1, <2>2, DivNat
  <2> QED
    BY <1>1, <1>2, <2>3 DEF Penalty, Least
<1>4. /\ GuaranteeBooks' /\ n \in Nat
      /\ Total(guaranteeEscrow') = Total(guaranteeEscrow) - n
  BY <1>1, <1>3, RequestEnds
<1> HIDE DEF n
<1>5. balance[h] \in Nat /\ balance[h] + n \in Nat
  BY <1>2, <1>4
<1>6. Total(balance') = Total(balance) + ((balance[h] + n) - balance[h])
  BY <1>1, <1>2, <1>5, TotalExcept
<1>7. LedgerTypeOK'
  <2>1. balance' \in [Holders -> Nat]
    BY <1>1, <1>2, <1>5
  <2> QED
    BY <1>1, <2>1 DEF RedemptionInv, LedgerTypeOK
<1>8. TokensConserved'
  BY <1>1, <1>4, <1>5, <1>6, HeldNat DEF RedemptionInv, TokensConserved
<1> QED
  BY <1>4, <1>7, <1>8

\* A slot passes: requests and the day age.
LEMMA GuaranteeTickKeeps ==
  ASSUME GuaranteeBooks, GuaranteeTick
  PROVE  GuaranteeBooks' /\ guaranteeEscrow' = guaranteeEscrow
<1>1. /\ guarantee \in Guarantees /\ requests \in [Holders -> Requests] /\ MaxAge \in Nat
      /\ guarantee' = [guarantee EXCEPT !.dayAge =
                         IF guarantee.open THEN Older(guarantee.dayAge) ELSE guarantee.dayAge]
      /\ UNCHANGED <<guaranteeEscrow, fund, fundSet, acceptedInDay>>
  BY LedgerAssumption DEF GuaranteeBooks, GuaranteeTypeOK, GuaranteeTick
<1>2. ASSUME NEW h \in Holders
      PROVE  /\ requests'[h] \in Requests /\ requests'[h].status = requests[h].status
             /\ requests'[h].amount = requests[h].amount
  <2>1. requests[h] \in Requests /\ Older(requests[h].age) \in 0..MaxAge
    BY <1>1 DEF Requests, Older
  <2>2. requests'[h] = IF requests[h].status = "open"
                         THEN [requests[h] EXCEPT !.age = Older(requests[h].age)]
                         ELSE requests[h]
    BY DEF GuaranteeTick
  <2> QED
    BY <2>1, <2>2 DEF Requests
<1>3. requests' \in [Holders -> Requests]
  <2>1. requests' = [h \in Holders |-> requests'[h]]
    BY DEF GuaranteeTick
  <2> QED
    BY <1>2, <2>1
<1>4. guarantee' \in Guarantees /\ guarantee'.daily = guarantee.daily
  <2>1. (IF guarantee.open THEN Older(guarantee.dayAge) ELSE guarantee.dayAge) \in 0..MaxAge
    BY <1>1 DEF Guarantees, Older
  <2> QED
    BY <1>1, <2>1 DEF Guarantees
<1> QED
  BY <1>1, <1>2, <1>3, <1>4 DEF GuaranteeBooks, GuaranteeTypeOK, RequestSettledOnce, DayCounted

\* Every step of the guarantee.
LEMMA GuaranteeKeeps ==
  ASSUME RedemptionInv, GuaranteeNext, UNCHANGED <<queueVars, poolVars>>
  PROVE  LedgerTypeOK' /\ GuaranteeBooks' /\ TokensConserved'
<1>1. ASSUME UNCHANGED ledgerVars, UNCHANGED guaranteeEscrow
      PROVE  LedgerTypeOK' /\ TokensConserved'
  BY <1>1 DEF RedemptionInv, LedgerTypeOK, TokensConserved, ledgerVars, queueVars, poolVars
<1>2. CASE FundMoves
  BY <1>1, <1>2
     DEF FundMoves, RedemptionInv, GuaranteeBooks, GuaranteeTypeOK, RequestSettledOnce, DayCounted
<1>3. ASSUME NEW limit \in DailyLimits, RegisterRedemptionPool(limit)
      PROVE  LedgerTypeOK' /\ GuaranteeBooks' /\ TokensConserved'
  <2>1. guarantee' \in Guarantees /\ guarantee'.daily = 0
    BY <1>3, GuaranteeAssumption, LedgerAssumption DEF RegisterRedemptionPool, Guarantees
  <2> QED
    BY <1>1, <1>3, <2>1
       DEF RegisterRedemptionPool, RedemptionInv, GuaranteeBooks, GuaranteeTypeOK,
           RequestSettledOnce, DayCounted
<1>4. ASSUME NEW h \in Holders, NEW n \in Amounts, RequestRedemption(h, n)
      PROVE  LedgerTypeOK' /\ GuaranteeBooks' /\ TokensConserved'
  BY <1>4, RequestKeeps
<1>5. ASSUME NEW h \in Holders, FulfillRedemption(h)
      PROVE  LedgerTypeOK' /\ GuaranteeBooks' /\ TokensConserved'
  BY <1>5, FulfillKeeps
<1>6. ASSUME NEW h \in Holders, ClaimExpiredRedemption(h)
      PROVE  LedgerTypeOK' /\ GuaranteeBooks' /\ TokensConserved'
  BY <1>6, ClaimKeeps
<1> QED
  BY <1>2, <1>3, <1>4, <1>5, <1>6 DEF GuaranteeNext

-----------------------------------------------------------------------------
(***************************************************************************)
(* The pool.                                                               *)
(***************************************************************************)
\* What is known of the pool before a step.
LEMMA PoolTypes ==
  ASSUME RedemptionInv
  PROVE  /\ pool \in Pools /\ poolVault \in Nat /\ drained \in Nat /\ paused \in BOOLEAN
         /\ pool.liquidity \in Nat /\ pool.seeded \in Nat /\ pool.replenished \in Nat
         /\ pool.redeemed \in Nat /\ pool.feeBps \in 0..BPS /\ pool.maxSize \in Nat
         /\ pool.utilization \in 0..BPS
         /\ pool.liquidity =< poolVault
         /\ pool.liquidity + pool.redeemed + drained = pool.seeded + pool.replenished
         /\ pool.maxSize > 0 => pool.liquidity =< pool.maxSize
         /\ BPS \in Nat \ {0}
BY LedgerAssumption DEF RedemptionInv, PoolBooks, PoolTypeOK, Pools, PoolBooksBacked

\* Seeding sets the size with the deposit it is compared with.
LEMMA SeedKeeps ==
  ASSUME RedemptionInv, NEW n \in Amounts, NEW size \in PoolSizes, NEW fee \in PoolFees,
         SeedRedemptionPool(n, size, fee)
  PROVE  PoolBooks' /\ pool'.redeemed = pool.redeemed
<1>1. n \in Nat /\ size \in Nat /\ fee \in 0..BPS
  <2>1. MAX_FEE_BPS \in 0..BPS /\ fee \in Nat /\ size \in Nat /\ n \in Nat /\ fee =< MAX_FEE_BPS
    BY PoolAssumption, LedgerAssumption DEF SeedRedemptionPool
  <2> QED
    BY <2>1, PoolTypes
<1>2. pool' = [pool EXCEPT !.open = TRUE, !.maxSize = size, !.feeBps = fee,
                           !.liquidity = pool.liquidity + n, !.seeded = pool.seeded + n]
  BY DEF SeedRedemptionPool
<1>3. pool.liquidity + n \in Nat /\ pool.seeded + n \in Nat
  BY <1>1, PoolTypes
<1>4. /\ pool' \in Pools
      /\ pool'.liquidity = pool.liquidity + n /\ pool'.seeded = pool.seeded + n
      /\ pool'.maxSize = size /\ pool'.redeemed = pool.redeemed
      /\ pool'.replenished = pool.replenished
  BY <1>1, <1>2, <1>3, PoolTypes DEF Pools
<1>5. /\ poolVault' = poolVault + n /\ drained' = drained /\ paused' = paused
      /\ size > 0 => pool.liquidity + n =< size
  BY DEF SeedRedemptionPool, Fits
<1> QED
  BY <1>1, <1>4, <1>5, PoolTypes DEF PoolBooks, PoolTypeOK, PoolBooksBacked

\* Replenishing respects the size set last.
LEMMA ReplenishKeeps ==
  ASSUME RedemptionInv, NEW n \in Amounts, ReplenishRedemptionPool(n)
  PROVE  PoolBooks' /\ pool'.redeemed = pool.redeemed
<1>1. n \in Nat
  BY LedgerAssumption
<1>2. pool' = [pool EXCEPT !.liquidity = pool.liquidity + n,
                           !.replenished = pool.replenished + n]
  BY DEF ReplenishRedemptionPool
<1>3. pool.liquidity + n \in Nat /\ pool.replenished + n \in Nat
  BY <1>1, PoolTypes
<1>4. /\ pool' \in Pools
      /\ pool'.liquidity = pool.liquidity + n /\ pool'.seeded = pool.seeded
      /\ pool'.maxSize = pool.maxSize /\ pool'.redeemed = pool.redeemed
      /\ pool'.replenished = pool.replenished + n
  BY <1>1, <1>2, <1>3, PoolTypes DEF Pools
<1>5. /\ poolVault' = poolVault + n /\ drained' = drained /\ paused' = paused
      /\ pool.maxSize > 0 => pool.liquidity + n =< pool.maxSize
  BY DEF ReplenishRedemptionPool, Fits
<1> QED
  BY <1>1, <1>4, <1>5, PoolTypes DEF PoolBooks, PoolTypeOK, PoolBooksBacked

\* Draining takes what is on the books and leaves the fees.
LEMMA DrainKeeps ==
  ASSUME RedemptionInv, DrainRedemptionPool
  PROVE  PoolBooks' /\ pool'.redeemed = pool.redeemed
<1>1. pool' = [pool EXCEPT !.liquidity = 0]
  BY DEF DrainRedemptionPool
<1>2. /\ pool' \in Pools
      /\ pool'.liquidity = 0 /\ pool'.seeded = pool.seeded
      /\ pool'.maxSize = pool.maxSize /\ pool'.redeemed = pool.redeemed
      /\ pool'.replenished = pool.replenished
  BY <1>1, PoolTypes DEF Pools
<1>3. /\ poolVault' = poolVault - pool.liquidity /\ drained' = drained + pool.liquidity
      /\ paused' = paused
  BY DEF DrainRedemptionPool
<1> QED
  BY <1>2, <1>3, PoolTypes DEF PoolBooks, PoolTypeOK, PoolBooksBacked

\* An instant redemption takes at most what it takes from the books out of the
\* vault, and burns the holder's tokens.
LEMMA InstantKeeps ==
  ASSUME RedemptionInv, NEW h \in Holders, NEW n \in Amounts, InstantRedemption(h, n),
         UNCHANGED <<queueVars, guaranteeVars>>
  PROVE  LedgerTypeOK' /\ PoolBooks' /\ TokensConserved'
<1> DEFINE in == pool.seeded + pool.replenished
           u == Utilization(pool.redeemed + n, in)
<1>1. /\ n \in Nat /\ balance \in [Holders -> Nat] /\ IsFiniteSet(Holders)
      /\ supply \in Nat /\ totalMinted \in Nat /\ totalBurned \in Nat
  BY LedgerAssumption DEF RedemptionInv, LedgerTypeOK
<1>2. /\ pool' = [pool EXCEPT !.liquidity = pool.liquidity - n, !.redeemed = pool.redeemed + n,
                              !.utilization = u]
      /\ n =< pool.liquidity /\ n =< balance[h]
      /\ balance' = [balance EXCEPT ![h] = balance[h] - n]
      /\ supply' = supply - n
      /\ poolVault' = poolVault - (n - PoolFee(n))
      /\ n - PoolFee(n) =< poolVault
      /\ UNCHANGED <<totalMinted, totalBurned, totalCollateral, deskVault, paused, drained,
                     queueEscrow, guaranteeEscrow>>
  BY PoolTypes, <1>1 DEF InstantRedemption, PoolCovers, queueVars, guaranteeVars
<1>3. PoolFee(n) \in Nat
  <2>1. n * pool.feeBps \in Nat /\ BPS \in Nat \ {0}
    BY <1>1, PoolTypes, MulNat
  <2> QED
    BY <2>1, DivNat DEF PoolFee
<1>4. u \in 0..BPS
  <2>1. CASE in > 0
    <3>1. (pool.redeemed + n) * BPS \in Nat /\ in \in Nat \ {0}
      BY <1>1, <2>1, PoolTypes, MulNat
    <3>2. ((pool.redeemed + n) * BPS) \div in \in Nat
      BY <3>1, DivNat
    <3>3. u = Least(((pool.redeemed + n) * BPS) \div in, BPS)
      BY <2>1 DEF Utilization
    <3> QED
      BY <3>2, <3>3, PoolTypes DEF Least
  <2>2. CASE ~ (in > 0)
    BY <2>2, PoolTypes DEF Utilization
  <2> QED
    BY <2>1, <2>2
<1> HIDE DEF u, in
<1>5. pool.liquidity - n \in Nat /\ pool.redeemed + n \in Nat
  BY <1>1, <1>2, PoolTypes
<1>6. /\ pool' \in Pools
      /\ pool'.liquidity = pool.liquidity - n /\ pool'.seeded = pool.seeded
      /\ pool'.maxSize = pool.maxSize /\ pool'.redeemed = pool.redeemed + n
      /\ pool'.replenished = pool.replenished
  BY <1>1, <1>2, <1>4, <1>5, PoolTypes DEF Pools
<1>7. PoolTypeOK' /\ PoolBooksBacked'
  <2>1. poolVault' \in Nat /\ pool.liquidity - n =< poolVault'
    BY <1>1, <1>2, <1>3, PoolTypes
  <2> QED
    BY <1>1, <1>2, <1>6, <2>1, PoolTypes DEF PoolTypeOK, PoolBooksBacked
<1>8. balance[h] \in Nat /\ balance[h] - n \in Nat
  BY <1>1, <1>2
<1>9. n =< supply
  <2>1. balance[h] =< Total(balance)
    BY HeldNat
  <2> QED
    BY <1>1, <1>2, <1>8, <2>1, HeldNat DEF RedemptionInv, TokensConserved
<1>10. LedgerTypeOK'
  <2>1. balance' \in [Holders -> Nat]
    BY <1>1, <1>2, <1>8
  <2> QED
    BY <1>1, <1>2, <1>9, <2>1 DEF RedemptionInv, LedgerTypeOK
<1>11. TokensConserved'
  <2>1. Total(balance') = Total(balance) + ((balance[h] - n) - balance[h])
    BY <1>1, <1>2, <1>8, TotalExcept
  <2> QED
    BY <1>1, <1>2, <1>6, <1>8, <2>1, HeldNat, PoolTypes DEF RedemptionInv, TokensConserved
<1> QED
  BY <1>7, <1>10, <1>11 DEF PoolBooks

\* Every step of the pool.
LEMMA PoolKeeps ==
  ASSUME RedemptionInv, PoolNext, UNCHANGED <<queueVars, guaranteeVars>>
  PROVE  LedgerTypeOK' /\ PoolBooks' /\ TokensConserved'
<1>1. ASSUME UNCHANGED ledgerVars, pool'.redeemed = pool.redeemed
      PROVE  LedgerTypeOK' /\ TokensConserved'
  BY <1>1 DEF RedemptionInv, LedgerTypeOK, TokensConserved, ledgerVars, queueVars, guaranteeVars
<1>2. CASE PauseMoves
  BY <1>1, <1>2 DEF PauseMoves, RedemptionInv, PoolBooks, PoolTypeOK, PoolBooksBacked
<1>3. ASSUME NEW n \in Amounts, NEW size \in PoolSizes, NEW fee \in PoolFees,
             SeedRedemptionPool(n, size, fee)
      PROVE  LedgerTypeOK' /\ PoolBooks' /\ TokensConserved'
  BY <1>1, <1>3, SeedKeeps DEF SeedRedemptionPool
<1>4. ASSUME NEW n \in Amounts, NEW h \in Holders, InstantRedemption(h, n)
      PROVE  LedgerTypeOK' /\ PoolBooks' /\ TokensConserved'
  BY <1>4, InstantKeeps
<1>5. ASSUME NEW n \in Amounts, ReplenishRedemptionPool(n)
      PROVE  LedgerTypeOK' /\ PoolBooks' /\ TokensConserved'
  BY <1>1, <1>5, ReplenishKeeps DEF ReplenishRedemptionPool
<1>6. CASE DrainRedemptionPool
  BY <1>1, <1>6, DrainKeeps DEF DrainRedemptionPool
<1> QED
  BY <1>2, <1>3, <1>4, <1>5, <1>6 DEF PoolNext

-----------------------------------------------------------------------------
(***************************************************************************)
(* The rails together.                                                     *)
(***************************************************************************)
LEMMA InitHolds ==
  ASSUME Init
  PROVE  RedemptionInv
<1>1. /\ IsFiniteSet(Holders) /\ IsFiniteSet(Indices) /\ InitBalance \in Nat /\ InitVault \in Nat
      /\ Cardinality(Holders) \in Nat /\ Cardinality(Indices) \in Nat /\ MaxAge \in Nat
      /\ BPS \in Nat /\ InitFund \in Nat /\ InitSurplus \in Nat /\ MaxEntries \in Nat
  BY LedgerAssumption, QueueAssumption, GuaranteeAssumption, IndicesFinite, FS_CardinalityType
<1>2. Cardinality(Holders) * InitBalance \in Nat
  BY <1>1, MulNat
<1>3. LedgerTypeOK
  BY <1>1, <1>2 DEF Init, InitLedger, LedgerTypeOK
<1>4. QueueBooks
  <2>1. NoEntry \in Entries /\ NoQueue \in Queues
    BY <1>1, LedgerAssumption DEF NoEntry, NoQueue, Entries, Queues
  <2>2. QueueTypeOK
    BY <1>1, <2>1 DEF Init, InitQueue, QueueTypeOK
  <2>3. NoEntryStranded
    BY <1>1 DEF Init, InitQueue, NoEntryStranded, NoQueue, NoEntry, Indices
  <2> QED
    BY <2>2, <2>3
       DEF Init, InitQueue, QueueBooks, EscrowMatchesEntries, OwnersKnown, IsOpen, FreshQueue,
           SlotCounted, SlotTotal, NoQueue, NoEntry
<1>5. GuaranteeBooks
  <2>1. NoGuarantee \in Guarantees /\ NoRequest \in Requests
    BY <1>1 DEF NoGuarantee, NoRequest, Guarantees, Requests
  <2> QED
    BY <1>1, <2>1
       DEF Init, InitGuarantee, GuaranteeBooks, GuaranteeTypeOK, RequestSettledOnce, DayCounted,
           NoGuarantee, NoRequest
<1>6. PoolBooks
  <2>1. /\ NoPool \in Pools
        /\ NoPool.liquidity = 0 /\ NoPool.redeemed = 0 /\ NoPool.seeded = 0
        /\ NoPool.replenished = 0 /\ NoPool.maxSize = 0
    BY <1>1 DEF NoPool, Pools
  <2>2. pool = NoPool /\ poolVault = 0 /\ drained = 0 /\ paused = FALSE
    BY DEF Init, InitPool
  <2>3. PoolTypeOK
    BY <2>1, <2>2 DEF PoolTypeOK
  <2>4. PoolBooksBacked
    <3>1. 0 =< 0 /\ 0 + 0 + 0 = 0 + 0 /\ ~ (0 > 0)
      OBVIOUS
    <3> QED
      BY <2>1, <2>2, <3>1 DEF PoolBooksBacked
  <2> QED
    BY <2>3, <2>4 DEF PoolBooks
<1>7. TokensConserved
  <2>1. Total(balance) = Cardinality(Holders) * InitBalance
    BY <1>1, TotalConstant DEF Init, InitLedger
  <2>2. Total(guaranteeEscrow) = 0 /\ Total(queueEscrow) = 0
    <3>1. 0 \in Nat
      OBVIOUS
    <3>2. Total([h \in Holders |-> 0]) = Cardinality(Holders) * 0
      BY <1>1, <3>1, TotalConstant
    <3>3. Total([i \in Indices |-> 0]) = Cardinality(Indices) * 0
      BY <1>1, <3>1, TotalConstant
    <3> QED
      BY <1>1, <3>2, <3>3 DEF Init, InitGuarantee, InitQueue
  <2> QED
    BY <1>2, <2>1, <2>2 DEF Init, InitLedger, InitPool, NoPool, TokensConserved
<1> QED
  BY <1>3, <1>4, <1>5, <1>6, <1>7 DEF RedemptionInv

\* A mint raises a balance, the supply and total_minted together.
LEMMA IssueKeeps ==
  ASSUME RedemptionInv, NEW h \in Holders, NEW n \in Amounts, Issue(h, n),
         UNCHANGED <<queueVars, guaranteeVars, poolVars>>
  PROVE  LedgerTypeOK' /\ TokensConserved'
<1>1. /\ n \in Nat /\ IsFiniteSet(Holders) /\ balance \in [Holders -> Nat]
      /\ supply \in Nat /\ totalMinted \in Nat /\ totalBurned \in Nat
  BY LedgerAssumption DEF RedemptionInv, LedgerTypeOK
<1>2. balance[h] \in Nat /\ balance[h] + n \in Nat
  BY <1>1
<1>3. /\ balance' = [balance EXCEPT ![h] = balance[h] + n]
      /\ supply' = supply + n /\ totalMinted' = totalMinted + n /\ totalBurned' = totalBurned
      /\ UNCHANGED <<queueEscrow, guaranteeEscrow, pool>>
  BY DEF Issue, queueVars, guaranteeVars, poolVars
<1>4. Total(balance') = Total(balance) + ((balance[h] + n) - balance[h])
  BY <1>1, <1>2, <1>3, TotalExcept
<1>5. balance' \in [Holders -> Nat]
  BY <1>1, <1>2, <1>3
<1> QED
  BY <1>1, <1>2, <1>3, <1>4, <1>5, HeldNat, PoolTypes
     DEF Issue, RedemptionInv, LedgerTypeOK, TokensConserved

\* A part of the state a step leaves alone keeps its part of the invariant.
LEMMA QueueIdle ==
  ASSUME QueueBooks, UNCHANGED queueVars
  PROVE  QueueBooks'
BY DEF QueueBooks, QueueTypeOK, NoEntryStranded, IsSettled, EscrowMatchesEntries, OwnersKnown,
       IsOpen, FreshQueue, SlotCounted, SlotTotal, queueVars

LEMMA GuaranteeIdle ==
  ASSUME GuaranteeBooks, UNCHANGED guaranteeVars
  PROVE  GuaranteeBooks'
BY DEF GuaranteeBooks, GuaranteeTypeOK, RequestSettledOnce, DayCounted, guaranteeVars

LEMMA PoolIdle ==
  ASSUME PoolBooks, UNCHANGED poolVars
  PROVE  PoolBooks'
BY DEF PoolBooks, PoolTypeOK, PoolBooksBacked, poolVars

\* Every step of the system.
LEMMA NextKeeps ==
  ASSUME RedemptionInv, [Next]_vars
  PROVE  RedemptionInv'
<1>1. LedgerTypeOK /\ QueueBooks /\ GuaranteeBooks /\ PoolBooks /\ TokensConserved
  BY DEF RedemptionInv
<1>2. CASE SlotPasses
  <2>1. QueueTick /\ GuaranteeTick /\ UNCHANGED <<ledgerVars, poolVars>>
    BY <1>2 DEF SlotPasses
  <2>2. QueueBooks' /\ queueEscrow' = queueEscrow
    BY <1>1, <2>1, QueueTickKeeps DEF QueueTick
  <2>3. GuaranteeBooks' /\ guaranteeEscrow' = guaranteeEscrow
    BY <1>1, <2>1, GuaranteeTickKeeps
  <2>4. PoolBooks'
    BY <1>1, <2>1, PoolIdle
  <2> QED
    BY <1>1, <2>1, <2>2, <2>3, <2>4
       DEF RedemptionInv, LedgerTypeOK, TokensConserved, ledgerVars, poolVars
<1>3. CASE Mints
  <2>1. PICK h \in Holders, n \in Amounts : Issue(h, n)
    BY <1>3 DEF Mints
  <2>2. UNCHANGED queueVars /\ UNCHANGED guaranteeVars /\ UNCHANGED poolVars
    BY <1>3 DEF Mints
  <2>3. LedgerTypeOK' /\ TokensConserved'
    BY <2>1, <2>2, IssueKeeps
  <2> QED
    BY <1>1, <2>2, <2>3, QueueIdle, GuaranteeIdle, PoolIdle DEF RedemptionInv
<1>4. CASE QueueStep
  <2>1. QueueNext /\ UNCHANGED guaranteeVars /\ UNCHANGED poolVars
    BY <1>4 DEF QueueStep
  <2> QED
    BY <1>1, <2>1, QueueKeeps, GuaranteeIdle, PoolIdle DEF RedemptionInv
<1>5. CASE GuaranteeStep
  <2>1. GuaranteeNext /\ UNCHANGED queueVars /\ UNCHANGED poolVars
    BY <1>5 DEF GuaranteeStep
  <2> QED
    BY <1>1, <2>1, GuaranteeKeeps, QueueIdle, PoolIdle DEF RedemptionInv
<1>6. CASE PoolStep
  <2>1. PoolNext /\ UNCHANGED queueVars /\ UNCHANGED guaranteeVars
    BY <1>6 DEF PoolStep
  <2> QED
    BY <1>1, <2>1, PoolKeeps, QueueIdle, GuaranteeIdle DEF RedemptionInv
<1>7. CASE UNCHANGED vars
  <2>1. /\ UNCHANGED ledgerVars /\ UNCHANGED queueVars /\ UNCHANGED guaranteeVars
        /\ UNCHANGED poolVars
    BY <1>7 DEF vars
  <2>2. LedgerTypeOK' /\ TokensConserved'
    BY <1>1, <2>1
       DEF LedgerTypeOK, TokensConserved, ledgerVars, queueVars, guaranteeVars, poolVars
  <2> QED
    BY <1>1, <2>1, <2>2, QueueIdle, GuaranteeIdle, PoolIdle DEF RedemptionInv
<1> QED
  BY <1>2, <1>3, <1>4, <1>5, <1>6, <1>7 DEF Next

\* The inductive invariant holds in every reachable state.
THEOREM RedemptionInvariance == Spec => []RedemptionInv
<1>1. Init => RedemptionInv
  BY InitHolds
<1>2. RedemptionInv /\ [Next]_vars => RedemptionInv'
  BY NextKeeps
<1> QED
  BY <1>1, <1>2, PTL DEF Spec

\* Types are right, in particular nothing is ever overdrawn.
THEOREM RedemptionTypes == Spec => []TypeOK
<1>1. RedemptionInv => TypeOK
  BY DEF RedemptionInv, LedgerTypeOK, QueueBooks, GuaranteeBooks, PoolBooks, TypeOK
<1> QED
  BY <1>1, RedemptionInvariance, PTL

\* The head of the queue never passes an open entry (redemption_queue.rs).
THEOREM QueueStrandsNoEntry == Spec => []NoEntryStranded
<1>1. RedemptionInv => NoEntryStranded
  BY DEF RedemptionInv, QueueBooks
<1> QED
  BY <1>1, RedemptionInvariance, PTL

\* No entry and no request is settled twice (redemption_queue.rs,
\* redemption_guarantee.rs).
THEOREM RailsSettleOnce == Spec => []SettledOnce
<1>1. RedemptionInv => SettledOnce
  BY DEF RedemptionInv, LedgerTypeOK, QueueBooks, GuaranteeBooks, PoolBooks, TypeOK, SettledOnce
<1> QED
  BY <1>1, RedemptionInvariance, PTL

\* The pool's vault covers its books, and the books its history
\* (redemption_pool.rs).
THEOREM PoolIsBacked == Spec => []PoolBooksBacked
<1>1. RedemptionInv => PoolBooksBacked
  BY DEF RedemptionInv, PoolBooks
<1> QED
  BY <1>1, RedemptionInvariance, PTL

\* Whatever the rails do, the supply is what holders own and what the escrows
\* hold, and the counters account for it.
THEOREM SupplyIsAccounted == Spec => []TokensConserved
<1>1. RedemptionInv => TokensConserved
  BY DEF RedemptionInv
<1> QED
  BY <1>1, RedemptionInvariance, PTL

-----------------------------------------------------------------------------
(***************************************************************************)
(* What a step may never do.                                               *)
(***************************************************************************)
\* Only processing fulfils an entry.
LEMMA FulfilledByProcessing ==
  ASSUME RedemptionInv, [Next]_vars, NEW i \in Indices, IsOpen(i),
         entries'[i].status = "fulfilled"
  PROVE  ProcessRedemption(i)
<1>1. /\ entries \in [Indices -> Entries] /\ queue \in Queues /\ MaxEntries \in Nat
      /\ entries[i].status = "open" /\ entries' # entries
  BY QueueAssumption DEF RedemptionInv, QueueBooks, QueueTypeOK, IsOpen
<1>2. CASE SlotPasses
  <2>1. entries'[i] = [entries[i] EXCEPT !.age = Older(entries[i].age)]
    BY <1>2 DEF SlotPasses, QueueTick
  <2>2. entries[i] \in Entries
    BY <1>1
  <2> QED
    BY <1>1, <2>1, <2>2 DEF Entries
<1>3. CASE QueueStep
  <2>1. ASSUME NEW h \in Holders, NEW n \in Amounts, EnqueueRedemption(h, n)
        PROVE  FALSE
    <3>1. entries' = [entries EXCEPT
            ![queue.tail] = [status |-> "open", owner |-> h, amount |-> n, age |-> 0]]
      BY <2>1 DEF EnqueueRedemption
    <3>2. entries'[i] = entries[i] \/ entries'[i].status = "open"
      BY <1>1, <3>1
    <3> QED
      BY <1>1, <3>2
  <2>2. ASSUME NEW k \in Indices, ProcessRedemption(k)
        PROVE  ProcessRedemption(i)
    <3>1. entries' = [entries EXCEPT ![k].status = "fulfilled"]
      BY <2>2 DEF ProcessRedemption
    <3>2. i = k
      BY <1>1, <3>1
    <3> QED
      BY <2>2, <3>2
  <2>3. ASSUME NEW k \in Indices, CancelRedemption(k)
        PROVE  FALSE
    <3>1. entries' = [entries EXCEPT ![k] = [entries[k] EXCEPT !.status = "cancelled"]]
      BY <2>3 DEF CancelRedemption, EntryAfterCancel
    <3>2. entries'[i] = entries[i] \/ entries'[i].status = "cancelled"
      BY <1>1, <3>1 DEF Entries
    <3> QED
      BY <1>1, <3>2
  <2> QED
    BY <1>1, <1>3, <2>1, <2>2, <2>3
       DEF QueueStep, QueueNext, QueueFlagMoves, InitRedemptionQueue, CompactRedemptionHead,
           UpdateRedemptionQueue
<1> QED
  BY <1>1, <1>2, <1>3
     DEF Next, Mints, GuaranteeStep, PoolStep, vars, queueVars

\* First in, first out (redemption_queue.rs, process_redemption).
THEOREM QueueIsFirstInFirstOut == Spec => FirstInFirstOut
<1> DEFINE A == \A i \in Indices : IsOpen(i) /\ entries'[i].status = "fulfilled"
                  => \A j \in Indices : j < i => IsSettled(j)
<1>1. RedemptionInv /\ [Next]_vars => [A]_<<queue, entries>>
  <2> SUFFICES ASSUME RedemptionInv, [Next]_vars, NEW i \in Indices, IsOpen(i),
                      entries'[i].status = "fulfilled", NEW j \in Indices, j < i
               PROVE  IsSettled(j)
    OBVIOUS
  <2>1. i = queue.head
    BY FulfilledByProcessing DEF ProcessRedemption, AtHead
  <2> QED
    BY <2>1 DEF RedemptionInv, QueueBooks, NoEntryStranded
<1> QED
  BY <1>1, RedemptionInvariance, PTL DEF Spec, FirstInFirstOut

\* The slot's cap: only processing raises what is fulfilled in the slot, and
\* what it adds up is what it compares.
LEMMA SlotCapStep ==
  ASSUME RedemptionInv, [Next]_vars, redeemedInSlot' > redeemedInSlot
  PROVE  redeemedInSlot' =< SlotCap
<1>1. redeemedInSlot \in Nat /\ redeemedInSlot = SlotTotal
  BY DEF RedemptionInv, QueueBooks, QueueTypeOK, SlotCounted
<1>2. CASE SlotPasses
  BY <1>1, <1>2 DEF SlotPasses, QueueTick
<1>3. CASE QueueStep
  <2>1. ASSUME NEW i \in Indices, ProcessRedemption(i)
        PROVE  redeemedInSlot' =< SlotCap
    BY <1>1, <2>1 DEF ProcessRedemption
  <2>2. CASE UNCHANGED redeemedInSlot
    BY <1>1, <2>2
  <2> QED
    BY <1>3, <2>1, <2>2
       DEF QueueStep, QueueNext, QueueFlagMoves, InitRedemptionQueue, EnqueueRedemption,
           CancelRedemption, CompactRedemptionHead, UpdateRedemptionQueue
<1>4. CASE UNCHANGED redeemedInSlot
  BY <1>1, <1>4
<1> QED
  BY <1>2, <1>3, <1>4 DEF Next, Mints, GuaranteeStep, PoolStep, vars, queueVars

\* The day's limit: only a request raises what was accepted today.
LEMMA DailyLimitStep ==
  ASSUME RedemptionInv, [Next]_vars, acceptedInDay' > acceptedInDay
  PROVE  acceptedInDay' =< guarantee.maxDaily
<1>1. acceptedInDay \in Nat /\ acceptedInDay = guarantee.daily
  BY DEF RedemptionInv, GuaranteeBooks, GuaranteeTypeOK, DayCounted
<1>2. CASE GuaranteeStep
  <2>1. ASSUME NEW h \in Holders, NEW n \in Amounts, RequestRedemption(h, n)
        PROVE  acceptedInDay' =< guarantee.maxDaily
    <3>1. n \in Nat
      BY LedgerAssumption
    <3>2. /\ DailyBefore + n =< guarantee.maxDaily
          /\ acceptedInDay' = IF DayOver THEN n ELSE acceptedInDay + n
      BY <2>1 DEF RequestRedemption
    <3> QED
      BY <1>1, <3>1, <3>2 DEF DailyBefore
  <2>2. ASSUME NEW limit \in DailyLimits, RegisterRedemptionPool(limit)
        PROVE  FALSE
    BY <1>1, <2>2 DEF RegisterRedemptionPool
  <2>3. CASE UNCHANGED acceptedInDay
    BY <1>1, <2>3
  <2> QED
    BY <1>2, <2>1, <2>2, <2>3
       DEF GuaranteeStep, GuaranteeNext, FundMoves, FulfillRedemption, ClaimExpiredRedemption
<1>3. CASE UNCHANGED acceptedInDay
  BY <1>1, <1>3
<1> QED
  BY <1>2, <1>3
     DEF Next, SlotPasses, GuaranteeTick, Mints, QueueStep, PoolStep, vars, guaranteeVars

\* Neither the cap per slot nor the limit per day is exceeded, though both
\* counters are reset lazily (redemption_queue.rs, redemption_guarantee.rs).
THEOREM RailLimits == Spec => RailLimitsHold
<1>1. RedemptionInv /\ [Next]_vars
        => [redeemedInSlot' > redeemedInSlot => redeemedInSlot' =< SlotCap]_<<queueVars, ledgerVars>>
  BY SlotCapStep
<1>2. RedemptionInv /\ [Next]_vars
        => [acceptedInDay' > acceptedInDay => acceptedInDay' =< guarantee.maxDaily]_guaranteeVars
  BY DailyLimitStep
<1> QED
  BY <1>1, <1>2, RedemptionInvariance, PTL
     DEF Spec, RailLimitsHold, SlotCapHolds, DailyLimitHolds

=============================================================================
