--------------------------- MODULE TransferProofs ---------------------------
(***************************************************************************)
(* What the transfer hook guarantees for every set of wallets, records and *)
(* limits, however transfers, signatures, revocations, rotations and the   *)
(* clock interleave.                                                       *)
(***************************************************************************)
EXTENDS TransferHook, TLAPS

-----------------------------------------------------------------------------
(***************************************************************************)
(* The rate limit.                                                         *)
(***************************************************************************)
Since(a) == {t \in 1..MaxSlot : t >= a}
Between(a, b) == {t \in 1..MaxSlot : t >= a /\ t < b}

\* The books of a limit l at slot now, where f is what was moved in each slot.
\* What was moved since the counter began is counted; what was moved in the
\* last window before it began was counted then, and is within the allowance
\* too.  So a window moves at most both.
SoundBooks(f, l, now) ==
  /\ l.start =< now
  /\ \A t \in 1..MaxSlot : f[t] # 0 => t =< now /\ t < l.start + l.window
  /\ SumOn(f, Since(l.start)) =< l.used
  /\ \A s \in 1..MaxSlot : s + l.window > l.start =>
       SumOn(f, Between(s, l.start)) =< l.max
  /\ \A s \in 1..MaxSlot : SumOn(f, Between(s, s + l.window)) =< 2 * l.max

RateBooks == \A w \in Wallets : SoundBooks(sentAt[w], limit[w], slot)

LimitRecord == [open : BOOLEAN, max : Nat, window : Nat, used : Nat, start : 0..MaxSlot]

\* Any set of slots is finite.
LEMMA SlotsFinite ==
  ASSUME NEW S \in SUBSET (1..MaxSlot)
  PROVE  IsFiniteSet(S)
<1>1. 1 \in Int /\ MaxSlot \in Int
  BY LedgerAssumption DEF LedgerAssumption
<1>2. IsFiniteSet(1..MaxSlot)
  BY <1>1, FS_Interval
<1> QED
  BY <1>2, FS_Subset

\* Where nothing was moved the sum is 0.
LEMMA NothingMoved ==
  ASSUME NEW f, NEW S \in SUBSET (1..MaxSlot), \A t \in S : f[t] = 0
  PROVE  SumOn(f, S) = 0
<1>1. IsFiniteSet(S) /\ Cardinality(S) \in Nat
  BY SlotsFinite, FS_CardinalityType
<1>2. SumOn(f, S) = Cardinality(S) * 0
  BY <1>1, 0 \in Int, SumConstant
<1> QED
  BY <1>1, <1>2

\* One more send in slot x adds to the sums over the sets that x is in.
LEMMA OneMoreSend ==
  ASSUME NEW f \in [1..MaxSlot -> Nat], NEW x \in 1..MaxSlot, NEW m \in Nat,
         NEW S \in SUBSET (1..MaxSlot)
  PROVE  /\ SumOn(f, S) \in Nat
         /\ x \in S => SumOn([f EXCEPT ![x] = f[x] + m], S) = SumOn(f, S) + m
         /\ x \notin S => SumOn([f EXCEPT ![x] = f[x] + m], S) = SumOn(f, S)
<1> DEFINE v == f[x] + m
           g == [f EXCEPT ![x] = v]
<1>1. IsFiniteSet(S)
  BY SlotsFinite
<1>2. /\ v \in Nat /\ g \in [1..MaxSlot -> Nat] /\ g[x] = v
      /\ \A t \in 1..MaxSlot : t # x => g[t] = f[t]
  OBVIOUS
<1>3. (\A t \in S : f[t] \in Nat) /\ (\A t \in S : f[t] \in Int /\ g[t] \in Int)
  BY <1>2
<1>4. SumOn(f, S) \in Nat
  BY <1>1, <1>3, SumNat
<1> HIDE DEF g
<1>5. ASSUME x \in S PROVE SumOn(g, S) = SumOn(f, S) + (g[x] - f[x])
  <2>1. \A t \in S : t # x => g[t] = f[t]
    BY <1>2
  <2> QED
    BY <1>1, <1>3, <1>5, <2>1, SumChange
<1>6. ASSUME x \notin S PROVE SumOn(g, S) = SumOn(f, S)
  <2>1. \A t \in S : f[t] = g[t]
    BY <1>2, <1>6
  <2> QED
    BY <1>1, <2>1, SumAgree
<1>7. g[x] - f[x] = m
  BY <1>2
<1> QED
  BY <1>4, <1>5, <1>6, <1>7 DEF g

\* Charging a wallet for n, of which it moves m in this slot (m is 0 when the
\* charge comes from somebody else), keeps its books.
LEMMA ChargeSound ==
  ASSUME NEW now \in 1..MaxSlot, NEW f \in [1..MaxSlot -> Nat],
         NEW l \in LimitRecord, l.used =< l.max, SoundBooks(f, l, now),
         NEW n \in Nat, NEW m \in Nat, m =< n,
         NEW k \in LimitRecord, k.max = l.max, k.window = l.window, k.window > 0,
         k.used =< k.max,
         \/ /\ now >= l.start + l.window
            /\ k.start = now /\ k.used = n
         \/ /\ now < l.start + l.window
            /\ k.start = l.start /\ k.used = l.used + n
  PROVE  SoundBooks([f EXCEPT ![now] = f[now] + m], k, now)
<1> DEFINE g == [f EXCEPT ![now] = f[now] + m]
<1>1. MaxSlot \in Nat
  BY LedgerAssumption DEF LedgerAssumption
<1>2. /\ l.start \in Nat /\ l.window \in Nat /\ l.max \in Nat /\ l.used \in Nat
      /\ k.start \in Nat
  BY <1>1 DEF LimitRecord
<1>3. /\ g \in [1..MaxSlot -> Nat]
      /\ \A t \in 1..MaxSlot : t # now => g[t] = f[t]
  OBVIOUS
<1>4. ASSUME NEW S \in SUBSET (1..MaxSlot)
      PROVE  /\ SumOn(f, S) \in Nat /\ SumOn(g, S) \in Nat
             /\ now \in S => SumOn(g, S) = SumOn(f, S) + m
             /\ now \notin S => SumOn(g, S) = SumOn(f, S)
  <2>1. /\ SumOn(f, S) \in Nat
        /\ now \in S => SumOn(g, S) = SumOn(f, S) + m
        /\ now \notin S => SumOn(g, S) = SumOn(f, S)
    BY OneMoreSend, ZenonT(60)
  <2> HIDE DEF g
  <2> QED
    BY <2>1
<1>5. ASSUME NEW S \in SUBSET (1..MaxSlot), NEW T \in SUBSET S
      PROVE  SumOn(f, T) =< SumOn(f, S) /\ SumOn(g, T) =< SumOn(g, S)
  <2>1. IsFiniteSet(S) /\ (\A x \in S : f[x] \in Nat) /\ (\A x \in S : g[x] \in Nat)
    BY <1>3, SlotsFinite
  <2> HIDE DEF g
  <2> QED
    BY <2>1, SumPart
<1>6. \A a, b : Since(a) \in SUBSET (1..MaxSlot) /\ Between(a, b) \in SUBSET (1..MaxSlot)
  BY DEF Since, Between
<1> HIDE DEF g
<1>7. k.start =< now
      /\ \A t \in 1..MaxSlot : g[t] # 0 => t =< now /\ t < k.start + k.window
  <2>1. \A t \in 1..MaxSlot : f[t] # 0 => t =< now /\ t < l.start + l.window
    BY DEF SoundBooks
  <2> QED
    BY <1>2, <1>3, <2>1 DEF SoundBooks
<1>8. SumOn(g, Since(k.start)) =< k.used
  <2>1. CASE now >= l.start + l.window
    <3>1. \A t \in Since(now) : f[t] = 0
      BY <1>2, <2>1 DEF Since, SoundBooks
    <3>2. SumOn(f, Since(now)) = 0
      BY <1>6, <3>1, NothingMoved
    <3>3. now \in Since(now)
      BY DEF Since
    <3>4. SumOn(g, Since(now)) = SumOn(f, Since(now)) + m
      BY <1>4, <1>6, <3>3
    <3> QED
      BY <1>2, <2>1, <3>2, <3>4
  <2>2. CASE now < l.start + l.window
    <3>1. now \in Since(l.start)
      BY DEF Since, SoundBooks
    <3>2. SumOn(g, Since(l.start)) = SumOn(f, Since(l.start)) + m
      BY <1>4, <1>6, <3>1
    <3>3. SumOn(f, Since(l.start)) =< l.used /\ SumOn(f, Since(l.start)) \in Nat
      BY <1>4, <1>6 DEF SoundBooks
    <3> QED
      BY <1>2, <2>2, <3>2, <3>3
  <2> QED
    BY <1>2, <2>1, <2>2
<1>9. ASSUME NEW s \in 1..MaxSlot, s + k.window > k.start
      PROVE  SumOn(g, Between(s, k.start)) =< k.max
  <2>1. now \notin Between(s, k.start)
    BY <1>2, <1>7 DEF Between
  <2>2. SumOn(g, Between(s, k.start)) = SumOn(f, Between(s, k.start))
    BY <1>4, <1>6, <2>1
  <2>3. CASE now >= l.start + l.window
    <3>1. Between(s, k.start) \in SUBSET Since(l.start)
      BY <1>2, <1>9, <2>3 DEF Between, Since
    <3>2. SumOn(f, Between(s, k.start)) =< SumOn(f, Since(l.start))
      BY <1>5, <1>6, <3>1
    <3>3. SumOn(f, Since(l.start)) =< l.used
      BY DEF SoundBooks
    <3>4. SumOn(f, Since(l.start)) \in Nat /\ SumOn(f, Between(s, k.start)) \in Nat
      BY <1>4, <1>6
    <3> QED
      BY <1>2, <2>2, <3>2, <3>3, <3>4
  <2>4. CASE now < l.start + l.window
    BY <1>2, <1>9, <2>2, <2>4 DEF SoundBooks
  <2> QED
    BY <1>2, <2>3, <2>4
<1>10. ASSUME NEW s \in 1..MaxSlot
       PROVE  SumOn(g, Between(s, s + k.window)) =< 2 * k.max
  <2> DEFINE W == Between(s, s + k.window)
  <2>1. W \in SUBSET (1..MaxSlot)
    BY <1>6
  <2>2. CASE s + k.window > k.start
    <3>1. W \cap Since(k.start) \in SUBSET W
      OBVIOUS
    <3>2. /\ W \cap Since(k.start) \in SUBSET Since(k.start)
          /\ W \ (W \cap Since(k.start)) \in SUBSET Between(s, k.start)
      BY <1>2 DEF Between, Since
    <3>3. IsFiniteSet(W) /\ \A x \in W : g[x] \in Int
      BY <1>3, <2>1, SlotsFinite
    <3> HIDE DEF W
    <3>4. SumOn(g, W) = SumOn(g, W \cap Since(k.start)) + SumOn(g, W \ (W \cap Since(k.start)))
      BY <3>1, <3>3, SumSplit
    <3>5. SumOn(g, W \cap Since(k.start)) =< SumOn(g, Since(k.start))
      BY <1>5, <1>6, <3>2
    <3>6. SumOn(g, W \ (W \cap Since(k.start))) =< SumOn(g, Between(s, k.start))
      BY <1>5, <1>6, <3>2
    <3>7. SumOn(g, Between(s, k.start)) =< k.max
      BY <1>9, <2>2
    <3>8. /\ SumOn(g, W) \in Nat /\ SumOn(g, W \cap Since(k.start)) \in Nat
          /\ SumOn(g, W \ (W \cap Since(k.start))) \in Nat
          /\ SumOn(g, Since(k.start)) \in Nat /\ SumOn(g, Between(s, k.start)) \in Nat
      <4>1. /\ W \cap Since(k.start) \in SUBSET (1..MaxSlot)
            /\ W \ (W \cap Since(k.start)) \in SUBSET (1..MaxSlot)
        BY <2>1
      <4> QED
        BY <1>4, <1>6, <2>1, <4>1
    <3>9. SumOn(g, W) =< 2 * k.max
      BY <1>2, <1>8, <3>4, <3>5, <3>6, <3>7, <3>8, SMTT(60)
    <3> QED
      BY <3>9 DEF W
  <2>3. CASE ~ (s + k.window > k.start)
    <3>1. now \notin W
      BY <1>2, <1>7, <2>3 DEF Between
    <3> HIDE DEF W
    <3>2. SumOn(g, W) = SumOn(f, W)
      BY <1>4, <2>1, <3>1
    <3>3. SumOn(f, W) =< 2 * k.max
      BY DEF SoundBooks, W
    <3>4. SumOn(g, W) =< 2 * k.max
      BY <3>2, <3>3
    <3> QED
      BY <3>4 DEF W
  <2> QED
    BY <2>2, <2>3
<1>11. SoundBooks(g, k, now)
  BY <1>7, <1>8, <1>9, <1>10 DEF SoundBooks
<1> QED
  BY <1>11 DEF g

\* The inductive invariant of the limits.
LimitInv == /\ LimitTypeOK
            /\ \A w \in Wallets : limit[w].open => limit[w].window > 0
            /\ RateBooks

\* A new limit, and one that is removed, has nothing in its books.
LEMMA FreshBooks ==
  ASSUME NEW now \in 1..MaxSlot, NEW l \in LimitRecord, l.start = 0
  PROVE  SoundBooks(NothingSent, l, now)
<1>1. \A t \in 1..MaxSlot : NothingSent[t] = 0
  BY DEF NothingSent
<1>2. ASSUME NEW S \in SUBSET (1..MaxSlot) PROVE SumOn(NothingSent, S) = 0
  BY <1>1, NothingMoved
<1>3. \A a, b : Since(a) \in SUBSET (1..MaxSlot) /\ Between(a, b) \in SUBSET (1..MaxSlot)
  BY DEF Since, Between
<1>4. /\ SumOn(NothingSent, Since(l.start)) = 0
      /\ \A s, b : SumOn(NothingSent, Between(s, b)) = 0
  BY <1>2, <1>3
<1> QED
  BY <1>1, <1>4 DEF SoundBooks, LimitRecord

\* set_wallet_rate_limit and remove_wallet_rate_limit.
LEMMA ResetSafe ==
  ASSUME LimitInv, slot \in 1..MaxSlot, slot' = slot, NEW w \in Wallets,
         NEW l \in LimitRecord, l.start = 0, l.used = 0, l.open => l.window > 0,
         limit' = [limit EXCEPT ![w] = l],
         sentAt' = [sentAt EXCEPT ![w] = NothingSent]
  PROVE  LimitInv'
<1>1. /\ limit \in [Wallets -> LimitRecord]
      /\ sentAt \in [Wallets -> [1..MaxSlot -> Nat]]
      /\ \A v \in Wallets : limit[v].used =< limit[v].max
  BY DEF LimitInv, LimitTypeOK, LimitRecord
<1>2. NothingSent \in [1..MaxSlot -> Nat]
  BY DEF NothingSent
<1>3. /\ limit' \in [Wallets -> LimitRecord]
      /\ sentAt' \in [Wallets -> [1..MaxSlot -> Nat]]
      /\ limit'[w] = l /\ sentAt'[w] = NothingSent
      /\ \A v \in Wallets : v # w => limit'[v] = limit[v] /\ sentAt'[v] = sentAt[v]
  <2> HIDE DEF NothingSent
  <2> QED
    BY <1>1, <1>2
<1>4. l.used =< l.max
  BY DEF LimitRecord
<1>5. LimitTypeOK'
  BY <1>1, <1>3, <1>4 DEF LimitTypeOK, LimitRecord
<1>6. \A v \in Wallets : limit'[v].open => limit'[v].window > 0
  BY <1>3 DEF LimitInv
<1>7. RateBooks'
  <2> SUFFICES ASSUME NEW v \in Wallets PROVE SoundBooks(sentAt'[v], limit'[v], slot')
    BY DEF RateBooks
  <2>1. CASE v = w
    BY <1>3, <2>1, FreshBooks
  <2>2. CASE v # w
    BY <1>3, <2>2 DEF LimitInv, RateBooks
  <2> QED
    BY <2>1, <2>2
<1> QED
  BY <1>5, <1>6, <1>7 DEF LimitInv

\* update_wallet_rate_limit, called by the hook (m = n) or by somebody else
\* (m = 0).
LEMMA ChargeSafe ==
  ASSUME LimitInv, slot \in 1..MaxSlot, slot' = slot, NEW w \in Wallets,
         NEW n \in Nat, NEW m \in Nat, m =< n, Charge(w, n),
         sentAt' = [sentAt EXCEPT ![w] = [sentAt[w] EXCEPT ![slot] = sentAt[w][slot] + m]]
  PROVE  LimitInv'
<1> DEFINE f == sentAt[w]
           l == limit[w]
           g == [f EXCEPT ![slot] = f[slot] + m]
           used == UsedBefore(w) + n
           start == StartAfter(w)
           k == [l EXCEPT !.used = used, !.start = start]
<1>1. /\ limit \in [Wallets -> LimitRecord]
      /\ sentAt \in [Wallets -> [1..MaxSlot -> Nat]]
      /\ l \in LimitRecord /\ f \in [1..MaxSlot -> Nat]
      /\ \A v \in Wallets : limit[v].used =< limit[v].max
  BY DEF LimitInv, LimitTypeOK, LimitRecord
<1>2. limit' = [limit EXCEPT ![w] = k]
  BY DEF Charge
<1>3. /\ l.open /\ l.window > 0 /\ used =< l.max
  BY DEF Charge, LimitInv
<1>4. \/ slot >= l.start + l.window /\ start = slot /\ used = n
      \/ slot < l.start + l.window /\ start = l.start /\ used = l.used + n
  BY <1>1 DEF UsedBefore, StartAfter, Elapsed, LimitRecord
<1>5. used \in Nat /\ start \in 0..MaxSlot
  BY <1>1, <1>4 DEF LimitRecord
<1>6. g \in [1..MaxSlot -> Nat]
  <2>1. f[slot] + m \in Nat
    BY <1>1
  <2> QED
    BY <1>1, <2>1
<1>7. SoundBooks(f, l, slot)
  BY DEF LimitInv, RateBooks
<1> HIDE DEF f, l, used, start
<1>8. /\ k \in LimitRecord /\ k.open = l.open /\ k.max = l.max /\ k.window = l.window
      /\ k.used = used /\ k.start = start
  BY <1>1, <1>5 DEF LimitRecord
<1>9. SoundBooks(g, k, slot)
  <2> HIDE DEF k
  <2>1. l.used =< l.max
    BY <1>1 DEF l
  <2> QED
    BY <1>1, <1>3, <1>4, <1>7, <1>8, <2>1, ChargeSound
<1> HIDE DEF k, g
<1>10. /\ limit' \in [Wallets -> LimitRecord]
       /\ sentAt' \in [Wallets -> [1..MaxSlot -> Nat]]
       /\ limit'[w] = k /\ sentAt'[w] = g
       /\ \A v \in Wallets : v # w => limit'[v] = limit[v] /\ sentAt'[v] = sentAt[v]
  BY <1>1, <1>2, <1>6, <1>8 DEF g, f
<1>11. LimitTypeOK'
  BY <1>1, <1>3, <1>8, <1>10 DEF LimitTypeOK, LimitRecord
<1>12. \A v \in Wallets : limit'[v].open => limit'[v].window > 0
  BY <1>3, <1>8, <1>10 DEF LimitInv
<1>13. RateBooks'
  <2> SUFFICES ASSUME NEW v \in Wallets PROVE SoundBooks(sentAt'[v], limit'[v], slot')
    BY DEF RateBooks
  <2>1. CASE v = w
    BY <1>9, <1>10, <2>1
  <2>2. CASE v # w
    BY <1>10, <2>2 DEF LimitInv, RateBooks
  <2> QED
    BY <2>1, <2>2
<1> QED
  BY <1>11, <1>12, <1>13 DEF LimitInv

\* Every step of the limits' own instructions.
LEMMA LimitStepSafe ==
  ASSUME LimitInv, slot \in 1..MaxSlot, LimitNext
  PROVE  LimitInv' /\ UNCHANGED ledgerVars
<1>1. ASSUME NEW w \in Wallets, NEW m \in LimitMaxima, NEW p \in LimitWindows,
             SetWalletRateLimit(w, m, p)
      PROVE  LimitInv' /\ UNCHANGED ledgerVars
  <2> DEFINE l == [NoLimit EXCEPT !.open = TRUE, !.max = m, !.window = p]
  <2>1. m \in Nat /\ p \in Nat /\ p > 0
    BY <1>1, LimitAssumption DEF LimitAssumption, SetWalletRateLimit
  <2>2. 0 \in 0..MaxSlot
    BY LedgerAssumption DEF LedgerAssumption
  <2>3. l \in LimitRecord /\ l.start = 0 /\ l.used = 0 /\ l.window > 0
    BY <2>1, <2>2 DEF LimitRecord, NoLimit
  <2>4. limit' = [limit EXCEPT ![w] = l]
    BY <1>1 DEF SetWalletRateLimit
  <2>5. /\ sentAt' = [sentAt EXCEPT ![w] = NothingSent] /\ UNCHANGED ledgerVars
    BY <1>1 DEF SetWalletRateLimit
  <2>6. slot' = slot
    BY <2>5 DEF ledgerVars
  <2> HIDE DEF l
  <2> QED
    BY <2>3, <2>4, <2>5, <2>6, ResetSafe
<1>2. ASSUME NEW w \in Wallets, RemoveWalletRateLimit(w)
      PROVE  LimitInv' /\ UNCHANGED ledgerVars
  <2>1. 0 \in 0..MaxSlot
    BY LedgerAssumption DEF LedgerAssumption
  <2>2. NoLimit \in LimitRecord /\ NoLimit.start = 0 /\ NoLimit.used = 0 /\ ~NoLimit.open
    BY <2>1 DEF NoLimit, LimitRecord
  <2>3. /\ limit' = [limit EXCEPT ![w] = NoLimit]
        /\ sentAt' = [sentAt EXCEPT ![w] = NothingSent] /\ UNCHANGED ledgerVars
    BY <1>2 DEF RemoveWalletRateLimit
  <2>4. slot' = slot
    BY <2>3 DEF ledgerVars
  <2> QED
    BY <2>2, <2>3, <2>4, ResetSafe
<1>3. ASSUME NEW w \in Wallets, NEW n \in Amounts, UpdateWalletRateLimit(w, n)
      PROVE  LimitInv' /\ UNCHANGED ledgerVars
  <2>1. n \in Nat /\ 0 \in Nat /\ 0 =< n
    BY LedgerAssumption DEF LedgerAssumption
  <2>2. Charge(w, n) /\ sentAt' = sentAt /\ UNCHANGED ledgerVars
    BY <1>3 DEF UpdateWalletRateLimit
  <2>3. slot' = slot
    BY <2>2 DEF ledgerVars
  <2>4. sentAt' = [sentAt EXCEPT ![w] = [sentAt[w] EXCEPT ![slot] = sentAt[w][slot] + 0]]
    <3>1. sentAt \in [Wallets -> [1..MaxSlot -> Nat]]
      BY DEF LimitInv, LimitTypeOK
    <3>2. sentAt[w] = [sentAt[w] EXCEPT ![slot] = sentAt[w][slot] + 0]
      BY <3>1
    <3> QED
      BY <2>2, <3>1, <3>2
  <2> QED
    BY <2>1, <2>2, <2>3, <2>4, ChargeSafe
<1> QED
  BY <1>1, <1>2, <1>3 DEF LimitNext

\* The hook's check: with the flag off nothing is counted.
LEMMA RateLimitedSafe ==
  ASSUME LimitInv, slot \in 1..MaxSlot, slot' = slot, NEW w \in Wallets, NEW n \in Nat,
         RateLimited(w, n)
  PROVE  LimitInv'
<1>1. CASE FLAG_WALLET_RATE_LIMITS \in flags
  <2>1. Charge(w, n) /\ sentAt' = [sentAt EXCEPT ![w][slot] = @ + n]
    BY <1>1 DEF RateLimited
  <2>2. sentAt' = [sentAt EXCEPT ![w] = [sentAt[w] EXCEPT ![slot] = sentAt[w][slot] + n]]
    BY <2>1
  <2>3. n =< n
    OBVIOUS
  <2> QED
    BY <2>1, <2>2, <2>3, ChargeSafe
<1>2. CASE FLAG_WALLET_RATE_LIMITS \notin flags
  BY <1>2 DEF RateLimited, limitVars, LimitInv, LimitTypeOK, RateBooks
<1> QED
  BY <1>1, <1>2

\* The clock moves on, or nothing that the limits depend on changes.
LEMMA LimitsKept ==
  ASSUME LimitInv, UNCHANGED limitVars, slot \in Nat, slot' \in Nat, slot' >= slot
  PROVE  LimitInv'
<1>1. LimitTypeOK' /\ \A w \in Wallets : limit'[w].open => limit'[w].window > 0
  BY DEF LimitInv, LimitTypeOK, limitVars
<1>2. ASSUME NEW w \in Wallets PROVE SoundBooks(sentAt[w], limit[w], slot')
  <2>1. SoundBooks(sentAt[w], limit[w], slot)
    BY DEF LimitInv, RateBooks
  <2>2. limit[w].start \in 0..MaxSlot
    BY DEF LimitInv, LimitTypeOK
  <2>3. /\ limit[w].start =< slot'
        /\ \A t \in 1..MaxSlot :
             sentAt[w][t] # 0 => t =< slot' /\ t < limit[w].start + limit[w].window
    BY <2>1, <2>2 DEF SoundBooks
  <2> QED
    BY <2>1, <2>3 DEF SoundBooks
<1>3. RateBooks'
  BY <1>2 DEF RateBooks, limitVars
<1> QED
  BY <1>1, <1>3 DEF LimitInv

-----------------------------------------------------------------------------
(***************************************************************************)
(* The records.                                                            *)
(***************************************************************************)
\* A proof of compliance that counts carries the verifier's signature of one
\* lifetime before it expires.
ProofsBacked ==
  \A w \in Wallets : verified[w].open =>
    /\ zk.open
    /\ vouched[w].verifier > 0
    /\ verified[w].expires = vouched[w].verifier + zk.ttl

\* A credential that counts carries the issuer's, and no later revocation.
CredentialsBacked ==
  \A w \in Wallets : credential[w].open =>
    /\ registry.open
    /\ ~credential[w].revoked =>
         /\ w \notin barred
         /\ vouched[w].issuer > 0
         /\ registry.ttl > 0 =>
              credential[w].expires = vouched[w].issuer + registry.ttl

\* A wallet that an oracle's last word sanctioned has a record that says so.
SanctionsRecorded ==
  \A w \in flagged : sanctions[w].open /\ sanctions[w].sanctioned

\* The inductive invariant of the records.
RecordInv == RecordTypeOK /\ ProofsBacked /\ CredentialsBacked /\ SanctionsRecorded

\* zk_compliance.rs: what is open is never opened again, so the lifetime that
\* the records were given stays.
LEMMA ZkSafe ==
  ASSUME RecordInv, slot \in 1..MaxSlot,
         \/ \E ttl \in Lifetimes, v \in Verifiers : InitZkCompliance(ttl, v)
         \/ \E w \in Wallets, k \in Cosigners : SubmitZkProof(w, k)
         \/ \E w \in Wallets : CloseVerificationRecord(w)
  PROVE  RecordInv'
<1> USE DEF RecordInv, RecordTypeOK, credentialVars, sanctionVars, travelVars
<1>1. /\ CredentialsBacked /\ SanctionsRecorded /\ ProofsBacked
      /\ slot \in 0..MaxSlot /\ slot \in Nat /\ slot > 0
  BY LedgerAssumption DEF LedgerAssumption
<1>2. ASSUME NEW ttl \in Lifetimes, NEW v \in Verifiers, InitZkCompliance(ttl, v)
      PROVE  RecordInv'
  <2>1. ttl \in Nat /\ DEFAULT_TTL_SLOTS \in Nat
    BY RecordAssumption DEF RecordAssumption
  <2>2. RecordTypeOK'
    BY <1>2, <2>1 DEF InitZkCompliance
  <2>3. ~zk.open
    BY <1>2 DEF InitZkCompliance
  <2>4. ProofsBacked'
    BY <1>1, <1>2, <2>3 DEF InitZkCompliance, ProofsBacked
  <2>5. CredentialsBacked' /\ SanctionsRecorded'
    BY <1>1, <1>2 DEF InitZkCompliance, CredentialsBacked, SanctionsRecorded
  <2> QED
    BY <2>2, <2>4, <2>5
<1>3. ASSUME NEW w \in Wallets, NEW k \in Cosigners, SubmitZkProof(w, k)
      PROVE  RecordInv'
  <2> DEFINE until == slot + zk.ttl
             record == [open |-> TRUE, expires |-> until]
             voucher == [vouched[w] EXCEPT !.verifier = slot]
  <2>1. until \in Nat
    BY <1>1
  <2>2. verified' = [verified EXCEPT ![w] = record] /\ vouched' = [vouched EXCEPT ![w] = voucher]
    BY <1>3 DEF SubmitZkProof
  <2>3. /\ zk.open /\ UNCHANGED <<zk, credentialVars, sanctionVars, travelVars>>
    BY <1>3 DEF SubmitZkProof
  <2>4. /\ record \in [open : BOOLEAN, expires : Nat] /\ record.expires = until
        /\ voucher \in [verifier : 0..MaxSlot, issuer : 0..MaxSlot]
        /\ voucher.verifier = slot /\ voucher.issuer = vouched[w].issuer
    <3> HIDE DEF until
    <3> QED
      BY <1>1, <2>1
  <2> HIDE DEF record, voucher
  <2>5. RecordTypeOK'
    BY <2>2, <2>3, <2>4
  <2>6. ProofsBacked'
    BY <1>1, <2>2, <2>3, <2>4 DEF ProofsBacked
  <2>7. CredentialsBacked' /\ SanctionsRecorded'
    BY <1>1, <2>2, <2>3, <2>4 DEF CredentialsBacked, SanctionsRecorded
  <2> QED
    BY <2>5, <2>6, <2>7
<1>4. ASSUME NEW w \in Wallets, CloseVerificationRecord(w)
      PROVE  RecordInv'
  <2>1. RecordTypeOK'
    BY <1>4 DEF CloseVerificationRecord, NoVerification
  <2>2. ProofsBacked'
    BY <1>1, <1>4 DEF CloseVerificationRecord, NoVerification, ProofsBacked
  <2>3. CredentialsBacked' /\ SanctionsRecorded'
    BY <1>1, <1>4 DEF CloseVerificationRecord, CredentialsBacked, SanctionsRecorded
  <2> QED
    BY <2>1, <2>2, <2>3
<1> QED
  BY <1>2, <1>3, <1>4

\* zk_credential.rs: the registry's lifetime stays too; a new signature lifts
\* a revocation, closing the record does not.
LEMMA CredentialSafe ==
  ASSUME RecordInv, slot \in 1..MaxSlot,
         \/ \E ttl \in Lifetimes, i \in Issuers, r \in Roots :
              InitCredentialRegistry(i, r, ttl)
         \/ \E k \in Cosigners, r \in Roots : RotateCredentialRoot(k, r)
         \/ \E w \in Wallets, k \in Cosigners, r \in Roots : VerifyZkCredential(w, k, r)
         \/ \E w \in Wallets, k \in Cosigners : RevokeCredential(k, w)
         \/ \E w \in Wallets : CloseCredentialRecord(w)
  PROVE  RecordInv'
<1> USE DEF RecordInv, RecordTypeOK, zkVars, sanctionVars, travelVars
<1>1. /\ CredentialsBacked /\ SanctionsRecorded /\ ProofsBacked
      /\ slot \in 0..MaxSlot /\ slot \in Nat /\ slot > 0
  BY LedgerAssumption DEF LedgerAssumption
<1>2. ASSUME NEW ttl \in Lifetimes, NEW i \in Issuers, NEW r \in Roots,
             InitCredentialRegistry(i, r, ttl)
      PROVE  RecordInv'
  <2>1. ttl \in Nat
    BY RecordAssumption DEF RecordAssumption
  <2>2. RecordTypeOK'
    BY <1>2, <2>1 DEF InitCredentialRegistry
  <2>3. ~registry.open
    BY <1>2 DEF InitCredentialRegistry
  <2>4. CredentialsBacked'
    BY <1>1, <1>2, <2>3 DEF InitCredentialRegistry, CredentialsBacked
  <2>5. ProofsBacked' /\ SanctionsRecorded'
    BY <1>1, <1>2 DEF InitCredentialRegistry, ProofsBacked, SanctionsRecorded
  <2> QED
    BY <2>2, <2>4, <2>5
<1>3. ASSUME NEW k \in Cosigners, NEW r \in Roots, RotateCredentialRoot(k, r)
      PROVE  RecordInv'
  <2>1. RecordTypeOK'
    BY <1>3 DEF RotateCredentialRoot
  <2>2. ProofsBacked' /\ CredentialsBacked' /\ SanctionsRecorded'
    BY <1>1, <1>3 DEF RotateCredentialRoot, ProofsBacked, CredentialsBacked,
       SanctionsRecorded
  <2> QED
    BY <2>1, <2>2
<1>4. ASSUME NEW w \in Wallets, NEW k \in Cosigners, NEW r \in Roots,
             VerifyZkCredential(w, k, r)
      PROVE  RecordInv'
  <2> DEFINE until == IF registry.ttl = 0 THEN 0 ELSE slot + registry.ttl
             record == [open |-> TRUE, revoked |-> FALSE, expires |-> until]
             voucher == [vouched[w] EXCEPT !.issuer = slot]
  <2>1. until \in Nat
    BY <1>1
  <2>2. /\ credential' = [credential EXCEPT ![w] = record]
        /\ vouched' = [vouched EXCEPT ![w] = voucher]
        /\ barred' = barred \ {w}
    BY <1>4 DEF VerifyZkCredential, IssuerSigns
  <2>3. registry.open /\ UNCHANGED <<zkVars, registry, sanctionVars, travelVars>>
    BY <1>4 DEF VerifyZkCredential
  <2>4. /\ record \in [open : BOOLEAN, expires : Nat, revoked : BOOLEAN]
        /\ record.expires = until /\ ~record.revoked
        /\ voucher \in [verifier : 0..MaxSlot, issuer : 0..MaxSlot]
        /\ voucher.issuer = slot /\ voucher.verifier = vouched[w].verifier
    <3> HIDE DEF until
    <3> QED
      BY <1>1, <2>1
  <2> HIDE DEF record, voucher
  <2>5. RecordTypeOK'
    BY <2>2, <2>3, <2>4
  <2>6. CredentialsBacked'
    BY <1>1, <2>2, <2>3, <2>4 DEF CredentialsBacked
  <2>7. ProofsBacked' /\ SanctionsRecorded'
    BY <1>1, <2>2, <2>3, <2>4 DEF ProofsBacked, SanctionsRecorded
  <2> QED
    BY <2>5, <2>6, <2>7
<1>5. ASSUME NEW w \in Wallets, NEW k \in Cosigners, RevokeCredential(k, w)
      PROVE  RecordInv'
  <2> DEFINE record == [credential[w] EXCEPT !.revoked = TRUE]
  <2>1. /\ credential' = [credential EXCEPT ![w] = record]
        /\ barred' = barred \cup {w}
        /\ UNCHANGED <<zkVars, registry, sanctionVars, travelVars, vouched>>
    BY <1>5 DEF RevokeCredential
  <2>2. /\ record \in [open : BOOLEAN, expires : Nat, revoked : BOOLEAN]
        /\ record.revoked
        /\ record.open = credential[w].open
    BY ZenonT(60)
  <2> HIDE DEF record
  <2>3. RecordTypeOK'
    BY <2>1, <2>2
  <2>4. CredentialsBacked'
    BY <1>1, <2>1, <2>2 DEF CredentialsBacked
  <2>5. ProofsBacked' /\ SanctionsRecorded'
    BY <1>1, <2>1 DEF ProofsBacked, SanctionsRecorded
  <2> QED
    BY <2>3, <2>4, <2>5
<1>6. ASSUME NEW w \in Wallets, CloseCredentialRecord(w)
      PROVE  RecordInv'
  <2>1. RecordTypeOK'
    BY <1>6 DEF CloseCredentialRecord, NoCredential
  <2>2. CredentialsBacked'
    BY <1>1, <1>6 DEF CloseCredentialRecord, NoCredential, CredentialsBacked
  <2>3. ProofsBacked' /\ SanctionsRecorded'
    BY <1>1, <1>6 DEF CloseCredentialRecord, ProofsBacked, SanctionsRecorded
  <2> QED
    BY <2>1, <2>2, <2>3
<1> QED
  BY <1>2, <1>3, <1>4, <1>5, <1>6

\* sanctions_oracle.rs and travel_rule.rs.
LEMMA SanctionsSafe ==
  ASSUME RecordInv, slot \in 1..MaxSlot,
         \/ \E o \in Oracles, n \in Stalenesses : SetSanctionsOracle(o, n)
         \/ ClearSanctionsOracle
         \/ \E w \in Wallets, k \in Oracles :
              \/ CloseSanctionsRecord(k, w)
              \/ \E is \in BOOLEAN : UpdateSanctionsRecord(k, w, is)
         \/ \E n \in Thresholds : SetTravelRuleThreshold(n)
         \/ \E k, b \in Wallets, nonce \in Nonces :
              \/ CloseTravelRuleRecord(k, nonce)
              \/ \E n \in Amounts : SubmitTravelRuleRecord(k, nonce, n, b)
  PROVE  RecordInv'
<1> USE DEF RecordInv, RecordTypeOK, zkVars, credentialVars, sanctionVars, travelVars
<1>1. /\ CredentialsBacked /\ SanctionsRecorded /\ ProofsBacked
      /\ slot \in 0..MaxSlot
      /\ Stalenesses \subseteq Nat /\ Thresholds \subseteq Nat /\ Amounts \subseteq Nat
  <2>1. Stalenesses \subseteq Nat /\ Thresholds \subseteq Nat
    BY RecordAssumption DEF RecordAssumption
  <2>2. Amounts \subseteq Nat /\ MaxSlot \in Nat
    BY LedgerAssumption DEF LedgerAssumption
  <2> QED
    BY <2>1, <2>2
<1>2. ASSUME UNCHANGED <<zkVars, credentialVars, vouched>>
      PROVE  ProofsBacked' /\ CredentialsBacked'
  BY <1>1, <1>2 DEF ProofsBacked, CredentialsBacked
<1>3. ASSUME NEW o \in Oracles, NEW n \in Stalenesses, SetSanctionsOracle(o, n)
      PROVE  RecordInv'
  <2>1. RecordTypeOK'
    BY <1>1, <1>3 DEF SetSanctionsOracle
  <2>2. SanctionsRecorded' /\ UNCHANGED <<zkVars, credentialVars, vouched>>
    BY <1>1, <1>3 DEF SetSanctionsOracle, SanctionsRecorded
  <2> QED
    BY <1>2, <2>1, <2>2
<1>4. CASE ClearSanctionsOracle
  <2>1. RecordTypeOK'
    BY <1>1, <1>4 DEF ClearSanctionsOracle, NoScreening
  <2>2. SanctionsRecorded' /\ UNCHANGED <<zkVars, credentialVars, vouched>>
    BY <1>1, <1>4 DEF ClearSanctionsOracle, SanctionsRecorded
  <2> QED
    BY <1>2, <2>1, <2>2
<1>5. ASSUME NEW w \in Wallets, NEW k \in Oracles,
             \/ CloseSanctionsRecord(k, w)
             \/ \E is \in BOOLEAN : UpdateSanctionsRecord(k, w, is)
      PROVE  RecordInv'
  <2>1. RecordTypeOK'
    <3>1. CASE CloseSanctionsRecord(k, w)
      <4>1. NoSanction \in [open : BOOLEAN, sanctioned : BOOLEAN, updated : 0..MaxSlot]
        BY LedgerAssumption DEF NoSanction, LedgerAssumption
      <4> QED
        BY <3>1, <4>1 DEF CloseSanctionsRecord
    <3>2. ASSUME NEW is \in BOOLEAN, UpdateSanctionsRecord(k, w, is)
          PROVE  RecordTypeOK'
      <4> DEFINE record == [open |-> TRUE, sanctioned |-> is, updated |-> slot]
      <4>1. record \in [open : BOOLEAN, sanctioned : BOOLEAN, updated : 0..MaxSlot]
        BY <1>1
      <4>2. sanctions' = [sanctions EXCEPT ![w] = record]
        BY <3>2 DEF UpdateSanctionsRecord
      <4>3. /\ flagged' \subseteq Wallets
            /\ UNCHANGED <<zkVars, credentialVars, screening, travelVars, vouched>>
        BY <3>2 DEF UpdateSanctionsRecord
      <4> HIDE DEF record
      <4> QED
        BY <4>1, <4>2, <4>3
    <3> QED
      BY <1>5, <3>1, <3>2
  <2>2. SanctionsRecorded'
    BY <1>1, <1>5 DEF CloseSanctionsRecord, UpdateSanctionsRecord, SanctionsRecorded
  <2>3. UNCHANGED <<zkVars, credentialVars, vouched>>
    BY <1>5 DEF CloseSanctionsRecord, UpdateSanctionsRecord
  <2> QED
    BY <1>2, <2>1, <2>2, <2>3
<1>6. ASSUME NEW n \in Thresholds, SetTravelRuleThreshold(n)
      PROVE  RecordInv'
  <2>1. RecordTypeOK'
    BY <1>1, <1>6 DEF SetTravelRuleThreshold
  <2>2. SanctionsRecorded' /\ UNCHANGED <<zkVars, credentialVars, vouched>>
    BY <1>1, <1>6 DEF SetTravelRuleThreshold, SanctionsRecorded
  <2> QED
    BY <1>2, <2>1, <2>2
<1>7. ASSUME NEW k \in Wallets, NEW b \in Wallets, NEW nonce \in Nonces,
             \/ CloseTravelRuleRecord(k, nonce)
             \/ \E n \in Amounts : SubmitTravelRuleRecord(k, nonce, n, b)
      PROVE  RecordInv'
  <2>1. RecordTypeOK'
    <3>1. CASE CloseTravelRuleRecord(k, nonce)
      BY <3>1 DEF CloseTravelRuleRecord, NoTravel
    <3>2. ASSUME NEW n \in Amounts, SubmitTravelRuleRecord(k, nonce, n, b)
          PROVE  RecordTypeOK'
      <4> DEFINE record == [open |-> TRUE, amount |-> n, beneficiary |-> b,
                            originator |-> k]
      <4>1. record \in [open : BOOLEAN, amount : Nat, beneficiary : Wallets \cup {NoKey},
                        originator : Wallets \cup {NoKey}]
        BY <1>1
      <4>2. /\ travel' = [travel EXCEPT ![nonce] = record]
            /\ UNCHANGED <<zkVars, credentialVars, sanctionVars, threshold, vouched>>
        BY <3>2 DEF SubmitTravelRuleRecord
      <4> HIDE DEF record
      <4> QED
        BY <4>1, <4>2
    <3> QED
      BY <1>7, <3>1, <3>2
  <2>2. SanctionsRecorded' /\ UNCHANGED <<zkVars, credentialVars, vouched>>
    BY <1>1, <1>7 DEF CloseTravelRuleRecord, SubmitTravelRuleRecord, SanctionsRecorded
  <2> QED
    BY <1>2, <2>1, <2>2
<1> QED
  BY <1>3, <1>4, <1>5, <1>6, <1>7

\* Every step of the records' instructions.
LEMMA RecordStepSafe ==
  ASSUME RecordInv, slot \in 1..MaxSlot, RecordNext
  PROVE  RecordInv'
  BY ZkSafe, CredentialSafe, SanctionsSafe DEF RecordNext

-----------------------------------------------------------------------------
(***************************************************************************)
(* The ledger.                                                             *)
(***************************************************************************)
LedgerInv == LedgerTypeOK /\ IsFiniteSet(blacklist.listed)

\* No step of the hook's records or of the ledger's instructions moves tokens;
\* the blacklist grows only while there is room.
LEMMA LedgerStepSafe ==
  ASSUME LedgerInv, LedgerNext
  PROVE  LedgerInv' /\ UNCHANGED <<slot, balance>>
<1> USE DEF LedgerInv, LedgerTypeOK
<1>1. ASSUME NEW f \in TransferFlags, SetFlag(f) \/ ClearFlag(f)
      PROVE  LedgerInv' /\ UNCHANGED <<slot, balance>>
  BY <1>1 DEF SetFlag, ClearFlag
<1>2. ASSUME NEW n \in SpendLimits, SetSpendLimit(n)
      PROVE  LedgerInv' /\ UNCHANGED <<slot, balance>>
  BY <1>2, LedgerAssumption DEF SetSpendLimit, LedgerAssumption
<1>3. CASE ClearSpendLimit
  BY <1>3 DEF ClearSpendLimit
<1>4. ASSUME NEW k \in Officers, ComplianceMoves(k)
      PROVE  LedgerInv' /\ UNCHANGED <<slot, balance>>
  BY <1>4 DEF ComplianceMoves
<1>5. ASSUME NEW k \in Officers, InitializeHook(k)
      PROVE  LedgerInv' /\ UNCHANGED <<slot, balance>>
  <2> DEFINE b == [NoBlacklist EXCEPT !.open = TRUE, !.authority = k]
  <2>1. blacklist' = b /\ UNCHANGED <<slot, rules, flags, maxTransfer, compliance,
                                     balance, frozen>>
    BY <1>5 DEF InitializeHook
  <2>2. /\ b \in [open : BOOLEAN, authority : Officers \cup {NoKey}, listed : SUBSET Wallets]
        /\ b.listed = {}
    BY DEF NoBlacklist
  <2>3. IsFiniteSet({}) /\ Cardinality({}) =< BLACKLIST_CAP
    BY FS_EmptySet, LedgerAssumption DEF LedgerAssumption
  <2> HIDE DEF b
  <2>4. LedgerTypeOK' /\ IsFiniteSet(blacklist'.listed)
    BY <2>1, <2>2, <2>3
  <2> QED
    BY <2>1, <2>4
<1>6. ASSUME NEW k \in Officers, NEW w \in Wallets,
             FreezeAccount(k, w) \/ ThawAccount(k, w)
      PROVE  LedgerInv' /\ UNCHANGED <<slot, balance>>
  BY <1>6 DEF FreezeAccount, ThawAccount
<1>7. ASSUME NEW k \in Officers, NEW w \in Wallets,
             BlacklistAdd(k, w) \/ BlacklistAddAndFreeze(k, w)
      PROVE  LedgerInv' /\ UNCHANGED <<slot, balance>>
  <2> DEFINE longer == ListedWith(w)
  <2>1. /\ blacklist' = [blacklist EXCEPT !.listed = longer]
        /\ Cardinality(longer) =< BLACKLIST_CAP
        /\ UNCHANGED <<slot, rules, flags, maxTransfer, compliance, balance>>
        /\ frozen' \subseteq Wallets
    BY <1>7 DEF BlacklistAdd, BlacklistAddAndFreeze, CanList
  <2>2. IsFiniteSet(longer) /\ longer \subseteq Wallets
    BY FS_AddElement DEF ListedWith
  <2> HIDE DEF longer
  <2>3. LedgerTypeOK' /\ IsFiniteSet(blacklist'.listed)
    BY <2>1, <2>2
  <2> QED
    BY <2>1, <2>3
<1>8. ASSUME NEW k \in Officers, NEW w \in Wallets, BlacklistRemove(k, w)
      PROVE  LedgerInv' /\ UNCHANGED <<slot, balance>>
  <2> DEFINE shorter == blacklist.listed \ {w}
  <2>1. /\ blacklist' = [blacklist EXCEPT !.listed = shorter]
        /\ UNCHANGED <<slot, rules, flags, maxTransfer, compliance, balance, frozen>>
    BY <1>8 DEF BlacklistRemove
  <2>2. /\ IsFiniteSet(shorter) /\ shorter \subseteq Wallets
        /\ Cardinality(shorter) =< Cardinality(blacklist.listed)
    BY FS_Subset
  <2>3. Cardinality(shorter) \in Nat /\ Cardinality(blacklist.listed) \in Nat
    BY <2>2, FS_CardinalityType
  <2>4. Cardinality(shorter) =< BLACKLIST_CAP
    BY <2>2, <2>3, LedgerAssumption DEF LedgerAssumption
  <2> HIDE DEF shorter
  <2>5. LedgerTypeOK' /\ IsFiniteSet(blacklist'.listed)
    BY <2>1, <2>2, <2>4
  <2> QED
    BY <2>1, <2>5
<1> QED
  BY <1>1, <1>2, <1>3, <1>4, <1>5, <1>6, <1>7, <1>8 DEF LedgerNext

\* The instructions that switch a flag for their records keep the ledger.
LEMMA RecordsKeepLedger ==
  ASSUME LedgerInv, RecordNext
  PROVE  LedgerInv' /\ UNCHANGED <<slot, balance>>
<1>1. ASSUME NEW f, Enable(f)
      PROVE  LedgerInv' /\ UNCHANGED <<slot, balance>>
  BY <1>1 DEF Enable, LedgerInv, LedgerTypeOK
<1>2. CASE UNCHANGED ledgerVars
  BY <1>2 DEF ledgerVars, LedgerInv, LedgerTypeOK
<1>3. CASE ClearSanctionsOracle
  BY <1>3 DEF ClearSanctionsOracle, LedgerInv, LedgerTypeOK
<1>4. \/ \E f : Enable(f)
      \/ UNCHANGED ledgerVars
      \/ ClearSanctionsOracle
  BY DEF RecordNext, InitZkCompliance, InitCredentialRegistry, RotateCredentialRoot,
     SetSanctionsOracle, SetTravelRuleThreshold, CloseVerificationRecord,
     CloseCredentialRecord, SubmitZkProof, RevokeCredential, VerifyZkCredential,
     CloseSanctionsRecord, UpdateSanctionsRecord, CloseTravelRuleRecord,
     SubmitTravelRuleRecord
<1> QED
  BY <1>1, <1>2, <1>3, <1>4

-----------------------------------------------------------------------------
(***************************************************************************)
(* Transfers, and the theorems.                                            *)
(***************************************************************************)
\* The inductive invariant of the transfer hook.
TransferInv == LedgerInv /\ LimitInv /\ RecordInv

\* What the action properties say of a step.
StepVouched ==
  \A w \in Wallets : Sends(w) =>
    /\ FLAG_ZK_CREDENTIALS \in flags =>
         /\ w \notin barred
         /\ vouched[w].issuer > 0
         /\ registry.ttl > 0 => slot - vouched[w].issuer =< registry.ttl
    /\ FLAG_ZK_COMPLIANCE \in flags =>
         /\ vouched[w].verifier > 0
         /\ slot - vouched[w].verifier < zk.ttl
StepScreened ==
  \A w \in flagged :
    FLAG_SANCTIONS_ORACLE \in flags /\ screening.oracle # NoKey => ~Sends(w)

TransferSafe == TransferInv' /\ StepVouched /\ StepScreened

\* A step that moves no tokens lets nobody send.
LEMMA NobodySends ==
  ASSUME TransferInv, UNCHANGED balance
  PROVE  StepVouched /\ StepScreened
<1>1. \A w \in Wallets : balance[w] \in Nat
  BY DEF TransferInv, LedgerInv, LedgerTypeOK
<1>2. \A w \in Wallets : ~Sends(w)
  BY <1>1 DEF Sends
<1>3. flagged \subseteq Wallets
  BY DEF TransferInv, RecordInv, RecordTypeOK
<1> QED
  BY <1>2, <1>3 DEF StepVouched, StepScreened

\* What a wallet's records must say for the hook to let it send.
LEMMA SenderSound ==
  ASSUME TransferInv, NEW w \in Wallets, ZkOk(w), SanctionsOk(w), CredentialOk(w)
  PROVE  /\ FLAG_ZK_CREDENTIALS \in flags =>
              /\ w \notin barred
              /\ vouched[w].issuer > 0
              /\ registry.ttl > 0 => slot - vouched[w].issuer =< registry.ttl
         /\ FLAG_ZK_COMPLIANCE \in flags =>
              /\ vouched[w].verifier > 0
              /\ slot - vouched[w].verifier < zk.ttl
         /\ FLAG_SANCTIONS_ORACLE \in flags /\ screening.oracle # NoKey => w \notin flagged
<1>1. /\ ProofsBacked /\ CredentialsBacked /\ SanctionsRecorded
      /\ slot \in Nat /\ zk.ttl \in Nat /\ registry.ttl \in Nat
      /\ vouched[w].issuer \in Nat /\ vouched[w].verifier \in Nat
      /\ credential[w].expires \in Nat /\ verified[w].expires \in Nat
  BY DEF TransferInv, LedgerInv, LedgerTypeOK, RecordInv, RecordTypeOK
<1>2. ASSUME FLAG_ZK_CREDENTIALS \in flags
      PROVE  /\ w \notin barred
             /\ vouched[w].issuer > 0
             /\ registry.ttl > 0 => slot - vouched[w].issuer =< registry.ttl
  BY <1>1, <1>2 DEF CredentialOk, CredentialsBacked
<1>3. ASSUME FLAG_ZK_COMPLIANCE \in flags
      PROVE  /\ vouched[w].verifier > 0
             /\ slot - vouched[w].verifier < zk.ttl
  BY <1>1, <1>3 DEF ZkOk, ProofsBacked
<1>4. ASSUME FLAG_SANCTIONS_ORACLE \in flags, screening.oracle # NoKey
      PROVE  w \notin flagged
  BY <1>1, <1>4 DEF SanctionsOk, SanctionsRecorded
<1> QED
  BY <1>2, <1>3, <1>4

\* A transfer passed the hook, so its sender's records are in order.
LEMMA TransferStepSafe ==
  ASSUME TransferInv, NEW w \in Wallets, NEW v \in Wallets, NEW n \in Amounts,
         NEW signer, Transfer(w, v, n, signer)
  PROVE  TransferSafe
<1>1. /\ balance \in [Wallets -> Nat] /\ slot \in 1..MaxSlot
      /\ w # v /\ n =< balance[w] /\ slot' = slot
      /\ balance' = [balance EXCEPT ![w] = @ - n, ![v] = @ + n]
      /\ UNCHANGED <<rules, flags, maxTransfer, compliance, frozen, blacklist, recordVars>>
  BY DEF Transfer, TransferInv, LedgerInv, LedgerTypeOK
<1>2. n \in Nat
  BY LedgerAssumption DEF LedgerAssumption
<1>3. /\ balance' \in [Wallets -> Nat]
      /\ \A u \in Wallets : u # w => balance'[u] >= balance[u]
  <2>1. balance[w] - n \in Nat /\ balance[v] + n \in Nat
    BY <1>1, <1>2
  <2>2. balance' = [u \in Wallets |-> IF u = w THEN balance[w] - n
                                      ELSE IF u = v THEN balance[v] + n ELSE balance[u]]
    BY <1>1
  <2> QED
    BY <1>1, <1>2, <2>1, <2>2
<1>4. LedgerInv'
  BY <1>1, <1>3 DEF TransferInv, LedgerInv, LedgerTypeOK
<1>5. LimitInv'
  BY <1>1, <1>2, RateLimitedSafe DEF Transfer, TransferInv
<1>6. RecordInv'
  BY <1>1 DEF TransferInv, RecordInv, RecordTypeOK, ProofsBacked, CredentialsBacked,
              SanctionsRecorded, recordVars
<1>7. \A u \in Wallets : Sends(u) => u = w
  <2>1. \A u \in Wallets : balance[u] \in Nat /\ balance'[u] \in Nat
    BY <1>1, <1>3
  <2> QED
    BY <1>3, <2>1 DEF Sends
<1>8. ZkOk(w) /\ SanctionsOk(w) /\ CredentialOk(w)
  BY DEF Transfer
<1>9. flagged \subseteq Wallets
  BY DEF TransferInv, RecordInv, RecordTypeOK
<1>10. StepVouched /\ StepScreened
  BY <1>7, <1>8, <1>9, SenderSound DEF StepVouched, StepScreened
<1> QED
  BY <1>4, <1>5, <1>6, <1>10 DEF TransferSafe, TransferInv

\* At the start nothing is listed, limited or recorded.
LEMMA TransferInit == Init => TransferInv
<1> SUFFICES ASSUME Init PROVE TransferInv
  OBVIOUS
<1> USE DEF Init
<1>0. MaxSlot \in Nat \ {0} /\ BLACKLIST_CAP \in Nat /\ InitBalance \in Nat
  BY LedgerAssumption DEF LedgerAssumption
<1>1. LedgerInv
  <2>1. IsFiniteSet({}) /\ Cardinality({}) = 0
    BY FS_EmptySet
  <2>2. slot \in 1..MaxSlot
    BY <1>0 DEF InitLedger
  <2> QED
    BY <1>0, <2>1, <2>2 DEF InitLedger, NoBlacklist, LedgerInv, LedgerTypeOK
<1>2. LimitInv
  <2>1. slot \in 1..MaxSlot /\ NoLimit \in LimitRecord /\ NoLimit.start = 0
    BY <1>0 DEF InitLedger, NoLimit, LimitRecord
  <2>2. NothingSent \in [1..MaxSlot -> Nat]
    BY DEF NothingSent
  <2>3. LimitTypeOK
    <3>1. NoLimit.used =< NoLimit.max
      BY DEF NoLimit
    <3> QED
      BY <2>1, <2>2, <3>1 DEF InitLimits, LimitTypeOK, LimitRecord
  <2>4. \A w \in Wallets : limit[w] = NoLimit /\ sentAt[w] = NothingSent
    BY DEF InitLimits
  <2>5. RateBooks
    BY <2>1, <2>4, FreshBooks DEF RateBooks
  <2>6. \A w \in Wallets : ~limit[w].open
    BY <2>4 DEF NoLimit
  <2> QED
    BY <2>3, <2>5, <2>6 DEF LimitInv
<1>3. RecordInv
  <2>1. 0 \in 0..MaxSlot
    BY <1>0
  <2>2. RecordTypeOK
    BY <2>1 DEF InitRecords, NoZk, NoVerification, NoRegistry, NoCredential, NoScreening,
                NoSanction, NoTravel, RecordTypeOK
  <2> QED
    BY <2>2 DEF InitRecords, NoVerification, NoCredential, RecordInv, ProofsBacked,
                CredentialsBacked, SanctionsRecorded
<1> QED
  BY <1>1, <1>2, <1>3 DEF TransferInv

\* Every step, and a stuttering step, is safe.
LEMMA TransferNextSafe == TransferInv /\ [Next]_vars => TransferSafe
<1> SUFFICES ASSUME TransferInv, [Next]_vars PROVE TransferSafe
  OBVIOUS
<1>0. slot \in 1..MaxSlot /\ slot \in Nat /\ slot >= slot
  BY LedgerAssumption DEF LedgerAssumption, TransferInv, LedgerInv, LedgerTypeOK
<1>1. ASSUME UNCHANGED recordVars PROVE RecordInv'
  BY <1>1 DEF TransferInv, RecordInv, RecordTypeOK, ProofsBacked, CredentialsBacked,
              SanctionsRecorded, recordVars
<1>2. CASE LedgerStep
  <2>1. LedgerInv' /\ UNCHANGED <<slot, balance>>
    BY <1>2, LedgerStepSafe DEF LedgerStep, TransferInv
  <2>2. LimitInv' /\ RecordInv'
    BY <1>0, <1>1, <1>2, <2>1, LimitsKept DEF LedgerStep, TransferInv
  <2> QED
    BY <2>1, <2>2, NobodySends DEF TransferSafe, TransferInv
<1>3. CASE LimitStep
  <2>1. LimitInv' /\ UNCHANGED ledgerVars
    BY <1>0, <1>3, LimitStepSafe DEF LimitStep, TransferInv
  <2>2. LedgerInv' /\ UNCHANGED balance
    BY <2>1 DEF ledgerVars, TransferInv, LedgerInv, LedgerTypeOK
  <2>3. RecordInv'
    BY <1>1, <1>3 DEF LimitStep
  <2> QED
    BY <2>1, <2>2, <2>3, NobodySends DEF TransferSafe, TransferInv
<1>4. CASE RecordStep
  <2>1. LedgerInv' /\ UNCHANGED <<slot, balance>>
    BY <1>4, RecordsKeepLedger DEF RecordStep, TransferInv
  <2>2. LimitInv'
    BY <1>0, <1>4, <2>1, LimitsKept DEF RecordStep, TransferInv
  <2>3. RecordInv'
    BY <1>0, <1>4, RecordStepSafe DEF RecordStep, TransferInv
  <2> QED
    BY <2>1, <2>2, <2>3, NobodySends DEF TransferSafe, TransferInv
<1>5. CASE ClockStep
  <2>1. /\ slot' \in 1..MaxSlot /\ slot' \in Nat /\ slot' >= slot
        /\ UNCHANGED <<rules, flags, maxTransfer, compliance, balance, frozen, blacklist,
                       limitVars, recordVars>>
    BY <1>0, <1>5, LedgerAssumption DEF ClockStep, SlotPasses, LedgerAssumption
  <2>2. LedgerInv'
    BY <2>1 DEF TransferInv, LedgerInv, LedgerTypeOK
  <2>3. LimitInv' /\ RecordInv'
    BY <1>0, <1>1, <2>1, LimitsKept DEF TransferInv
  <2> QED
    BY <2>1, <2>2, <2>3, NobodySends DEF TransferSafe, TransferInv
<1>6. CASE UNCHANGED vars
  <2>1. UNCHANGED <<ledgerVars, limitVars, recordVars>>
    BY <1>6 DEF vars
  <2>2. LedgerInv' /\ UNCHANGED <<slot, balance>>
    BY <2>1 DEF ledgerVars, TransferInv, LedgerInv, LedgerTypeOK
  <2>3. LimitInv' /\ RecordInv'
    BY <1>0, <1>1, <2>1, <2>2, LimitsKept DEF TransferInv
  <2> QED
    BY <2>2, <2>3, NobodySends DEF TransferSafe, TransferInv
<1> QED
  BY <1>2, <1>3, <1>4, <1>5, <1>6, TransferStepSafe DEF Next

\* Every reachable state satisfies the inductive invariant.
THEOREM TransferInvariance == Spec => []TransferInv
<1>1. TransferInv /\ [Next]_vars => TransferInv'
  BY TransferNextSafe DEF TransferSafe
<1> QED
  BY TransferInit, <1>1, PTL DEF Spec

\* However long the clock runs and whoever charges the counter, no wallet
\* moves more than two allowances in any window, and the blacklist keeps to
\* the room of its account (wallet_rate_limit.rs, transfer-hook/src/lib.rs).
THEOREM AllowancesAlwaysHold == Spec => []AllowancesHold
<1>1. TransferInv => AllowancesHold
  <2> SUFFICES ASSUME TransferInv PROVE AllowancesHold
    OBVIOUS
  <2>1. RateLimitHolds
    BY DEF TransferInv, LimitInv, RateBooks, SoundBooks, Between, RateLimitHolds, SentFrom
  <2> QED
    BY <2>1 DEF TransferInv, LedgerInv, LimitInv, RecordInv, TypeOK, AllowancesHold
<1> QED
  BY <1>1, TransferInvariance, PTL

\* Whoever sends was vouched for recently enough and not revoked since,
\* whatever was closed, renewed or rotated in between (zk_credential.rs,
\* zk_compliance.rs).
THEOREM SendersAreVouchedFor == Spec => SendersVouchedFor
<1>1. TransferInv /\ [Next]_vars =>
        [ \A w \in Wallets : Sends(w) =>
            /\ FLAG_ZK_CREDENTIALS \in flags =>
                 /\ w \notin barred
                 /\ vouched[w].issuer > 0
                 /\ registry.ttl > 0 => slot - vouched[w].issuer =< registry.ttl
            /\ FLAG_ZK_COMPLIANCE \in flags =>
                 /\ vouched[w].verifier > 0
                 /\ slot - vouched[w].verifier < zk.ttl ]_vars
  BY TransferNextSafe DEF TransferSafe, StepVouched
<1> QED
  BY <1>1, TransferInvariance, PTL DEF Spec, SendersVouchedFor

\* A sanctioned wallet sends nothing, however stale the oracle's word and
\* whoever is the oracle now (sanctions_oracle.rs).
THEOREM SanctionsStayInForce == Spec => SanctionsOutliveStaleness
<1>1. TransferInv /\ [Next]_vars =>
        [ \A w \in flagged :
            FLAG_SANCTIONS_ORACLE \in flags /\ screening.oracle # NoKey => ~Sends(w) ]_vars
  BY TransferNextSafe DEF TransferSafe, StepScreened
<1> QED
  BY <1>1, TransferInvariance, PTL DEF Spec, SanctionsOutliveStaleness

=============================================================================
