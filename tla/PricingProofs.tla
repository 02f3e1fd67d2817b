--------------------------- MODULE PricingProofs ---------------------------
(***************************************************************************)
(* Proofs about Pricing: that the count of the price sources is exact, and *)
(* that no minority of the sources moves the price, for any number of      *)
(* sources, any prices and any order of the instructions.                  *)
(***************************************************************************)
EXTENDS Pricing, FiniteSetTheorems, WellFoundedInduction, TLAPS

-----------------------------------------------------------------------------
(***************************************************************************)
(* The median.                                                             *)
(***************************************************************************)
LEMMA LeastNatural ==
  ASSUME NEW T \in SUBSET Nat, T # {}
  PROVE  \E m \in T : \A k \in T : m =< k
<1>1. PICK m \in T : \A k \in T : ~ (<<k, m>> \in OpToRel(<, Nat))
  BY NatLessThanWellFounded, WFMin
<1>2. ASSUME NEW k \in T PROVE m =< k
  <2>1. <<k, m>> \in OpToRel(<, Nat) <=> <<k, m>> \in Nat \X Nat /\ k < m
    BY Zenon DEF OpToRel
  <2>2. k \in Nat /\ m \in Nat
    OBVIOUS
  <2>3. ~ (k < m)
    BY <1>1, <2>1, <2>2, Zenon
  <2> QED
    BY <2>2, <2>3
<1> QED
  BY <1>2

\* Among prices that are natural numbers there is a k-th smallest.
LEMMA Ranked ==
  ASSUME NEW slots, IsFiniteSet(slots), NEW shown,
         \A i \in slots : PriceIn(i, shown) \in Nat,
         NEW k \in 1..Cardinality(slots)
  PROVE  \E i \in slots :
           /\ Cardinality({j \in slots : PriceIn(j, shown) < PriceIn(i, shown)}) < k
           /\ Cardinality({j \in slots : PriceIn(j, shown) =< PriceIn(i, shown)}) >= k
<1> DEFINE Below(q) == {i \in slots : PriceIn(i, shown) < q}
           AtMost(q) == {i \in slots : PriceIn(i, shown) =< q}
           Above(q) == {i \in slots : PriceIn(i, shown) > q}
<1>1. \A S \in SUBSET slots : IsFiniteSet(S) /\ Cardinality(S) \in Nat
  BY FS_Subset, FS_CardinalityType
<1>2. Cardinality(slots) \in Nat
  BY FS_CardinalityType
\* No price is above some number.
<1>3. \E q \in Nat : AtMost(q) = slots
  <2> DEFINE T == {Cardinality(Above(q)) : q \in Nat}
  <2>1. \A q \in Nat : Cardinality(Above(q)) \in Nat
    BY <1>1
  <2>2. T \in SUBSET Nat /\ Cardinality(Above(0)) \in T
    BY <2>1
  <2>3. PICK m \in T : \A x \in T : m =< x
    <3> HIDE DEF T
    <3> QED
      BY <2>2, LeastNatural
  <2>4. PICK q \in Nat : m = Cardinality(Above(q))
    OBVIOUS
  <2>5. ASSUME NEW j \in Above(q) PROVE FALSE
    <3> DEFINE r == PriceIn(j, shown)
    <3>1. r \in Nat /\ r > q
      OBVIOUS
    <3>2. Above(r) \in SUBSET (Above(q) \ {j})
      BY <3>1
    <3>3. IsFiniteSet(Above(q)) /\ Cardinality(Above(q)) \in Nat
      BY <1>1
    <3> HIDE DEF r, Above
    <3>4. /\ IsFiniteSet(Above(q) \ {j})
          /\ Cardinality(Above(q) \ {j}) = Cardinality(Above(q)) - 1
      BY <3>3, <2>5, FS_RemoveElement
    <3>5. Cardinality(Above(r)) =< Cardinality(Above(q) \ {j})
      BY <3>2, <3>4, FS_Subset
    <3>6. Cardinality(Above(r)) \in T
      BY <3>1
    <3>7. Cardinality(Above(q)) =< Cardinality(Above(r)) /\ Cardinality(Above(r)) \in Nat
      BY <2>1, <2>3, <2>4, <3>1, <3>6
    <3> QED
      BY <3>3, <3>4, <3>5, <3>7
  <2>6. \A i \in slots : ~ (PriceIn(i, shown) > q)
    BY <2>5
  <2>7. \A i \in slots : PriceIn(i, shown) =< q
    BY <2>6
  <2> QED
    BY <2>7
<1>4. PICK m \in Nat : /\ Cardinality(AtMost(m)) >= k
                       /\ \A q \in Nat : Cardinality(AtMost(q)) >= k => m =< q
  <2> DEFINE T == {q \in Nat : Cardinality(AtMost(q)) >= k}
  <2>1. PICK q \in Nat : AtMost(q) = slots
    BY <1>3
  <2> HIDE DEF AtMost
  <2>2. Cardinality(AtMost(q)) >= k
    BY <2>1, <1>2
  <2>3. T \in SUBSET Nat /\ T # {}
    BY <2>2
  <2>4. PICK m \in T : \A x \in T : m =< x
    <3> HIDE DEF T
    <3> QED
      BY <2>3, LeastNatural
  <2> QED
    BY <2>4
<1>5. Cardinality(Below(m)) < k
  <2>1. CASE m = 0
    <3>1. Below(m) = {}
      BY <2>1
    <3> QED
      BY <3>1, FS_EmptySet
  <2>2. CASE m # 0
    <3>1. m - 1 \in Nat /\ ~ (m =< m - 1)
      BY <2>2
    <3>2. Below(m) = AtMost(m - 1)
      BY <3>1
    <3>3. Cardinality(AtMost(m - 1)) \in Nat
      BY <1>1
    <3>4. ~ (Cardinality(AtMost(m - 1)) >= k)
      BY <3>1, <1>4
    <3> QED
      BY <3>2, <3>3, <3>4
  <2> QED
    BY <2>1, <2>2
<1>6. \E i \in slots : PriceIn(i, shown) = m
  <2> SUFFICES ASSUME \A i \in slots : PriceIn(i, shown) # m PROVE FALSE
    OBVIOUS
  <2>1. Below(m) = AtMost(m)
    OBVIOUS
  <2>2. Cardinality(Below(m)) \in Nat
    BY <1>1
  <2> QED
    BY <1>4, <1>5, <2>1, <2>2
<1> QED
  BY <1>4, <1>5, <1>6

\* What the position k of the sorted prices holds.
LEMMA SortedAtRank ==
  ASSUME NEW slots, IsFiniteSet(slots), NEW shown,
         \A i \in slots : PriceIn(i, shown) \in Nat,
         NEW k \in 1..Cardinality(slots)
  PROVE  LET p == SortedAt(k, slots, shown) IN
         /\ p \in Nat
         /\ Cardinality({j \in slots : PriceIn(j, shown) < p}) < k
         /\ Cardinality({j \in slots : PriceIn(j, shown) =< p}) >= k
<1> DEFINE Fits(p) == /\ Cardinality({j \in slots : PriceIn(j, shown) < p}) < k
                      /\ Cardinality({j \in slots : PriceIn(j, shown) =< p}) >= k
           Prices == {PriceIn(i, shown) : i \in slots}
<1>1. \E p \in Prices : Fits(p)
  <2>1. PICK i \in slots : Fits(PriceIn(i, shown))
    BY Ranked
  <2> QED
    BY <2>1
<1>2. SortedAt(k, slots, shown) = CHOOSE p \in Prices : Fits(p)
  BY DEF SortedAt
<1>3. Prices \in SUBSET Nat
  OBVIOUS
<1>4. SortedAt(k, slots, shown) \in Prices /\ Fits(SortedAt(k, slots, shown))
  <2> HIDE DEF Prices, Fits
  <2> QED
    BY <1>1, <1>2
<1> QED
  BY <1>3, <1>4

LEMMA MedianNat ==
  ASSUME NEW slots, IsFiniteSet(slots), slots # {}, NEW shown,
         \A i \in slots : PriceIn(i, shown) \in Nat
  PROVE  Median(slots, shown) \in Nat
<1> DEFINE n == Cardinality(slots)
<1>1. n \in Nat /\ n # 0
  BY FS_CardinalityType, FS_EmptySet
<1> HIDE DEF n
<1>2. n \div 2 + 1 \in 1..n
  BY <1>1
<1>3. n % 2 # 1 => n \div 2 \in 1..n
  BY <1>1
<1>4. \A k \in 1..n : SortedAt(k, slots, shown) \in Nat
  BY SortedAtRank DEF n
<1> DEFINE hi == SortedAt(n \div 2 + 1, slots, shown)
           lo == SortedAt(n \div 2, slots, shown)
<1>5. hi \in Nat /\ (n % 2 # 1 => lo \in Nat)
  BY <1>2, <1>3, <1>4
<1>6. Median(slots, shown)
        = IF n % 2 = 1 THEN hi
          ELSE lo \div 2 + hi \div 2 + (IF lo % 2 = 1 /\ hi % 2 = 1 THEN 1 ELSE 0)
  BY DEF Median, n
<1> HIDE DEF hi, lo
<1> QED
  BY <1>5, <1>6

\* What more than half of the slots show is in the middle of the sorted prices.
LEMMA MajorityInTheMiddle ==
  ASSUME NEW slots, IsFiniteSet(slots), NEW shown,
         \A i \in slots : PriceIn(i, shown) \in Nat,
         NEW p \in Nat,
         2 * Cardinality({i \in slots : PriceIn(i, shown) = p}) > Cardinality(slots),
         NEW k \in 1..Cardinality(slots),
         Cardinality(slots) =< 2 * k, 2 * k =< Cardinality(slots) + 2
  PROVE  SortedAt(k, slots, shown) = p
<1> DEFINE v == SortedAt(k, slots, shown)
           n == Cardinality(slots)
           Less == {i \in slots : PriceIn(i, shown) < v}
           Upto == {i \in slots : PriceIn(i, shown) =< v}
           Same == {i \in slots : PriceIn(i, shown) = p}
<1>1. v \in Nat /\ Cardinality(Less) < k /\ Cardinality(Upto) >= k
  BY SortedAtRank
<1> HIDE DEF v
<1>2. \A S \in SUBSET slots : IsFiniteSet(S) /\ Cardinality(S) \in Nat /\ Cardinality(S) =< n
  BY FS_Subset, FS_CardinalityType
<1>3. /\ IsFiniteSet(Less) /\ IsFiniteSet(Upto) /\ IsFiniteSet(Same)
      /\ Cardinality(Less) \in Nat /\ Cardinality(Upto) \in Nat /\ Cardinality(Same) \in Nat
      /\ n \in Nat
  BY <1>2
<1>4. ~ (v < p)
  <2> SUFFICES ASSUME v < p PROVE FALSE
    OBVIOUS
  <2>1. Upto \cap Same = {} /\ Upto \cup Same \in SUBSET slots
    <3>1. ASSUME NEW i \in slots, PriceIn(i, shown) =< v, PriceIn(i, shown) = p PROVE FALSE
      BY <1>1, <3>1
    <3> QED
      BY <3>1
  <2>2. Cardinality(Upto \cup Same) =< n
    BY <1>2, <2>1
  <2> HIDE DEF Upto, Same
  <2>3. Cardinality(Upto \cup Same) = Cardinality(Upto) + Cardinality(Same)
    <3>1. Cardinality(Upto \cup Same)
            = Cardinality(Upto) + Cardinality(Same) - Cardinality(Upto \cap Same)
      BY <1>3, FS_Union
    <3>2. Cardinality(Upto \cap Same) = 0
      BY <2>1, FS_EmptySet
    <3> QED
      BY <1>3, <3>1, <3>2
  <2>4. 2 * Cardinality(Same) > n
    BY DEF Same
  <2> HIDE DEF n
  <2>5. k \in Nat /\ n =< 2 * k
    BY DEF n
  <2> QED
    BY <1>1, <1>3, <2>2, <2>3, <2>4, <2>5
<1>5. ~ (p < v)
  <2> SUFFICES ASSUME p < v PROVE FALSE
    OBVIOUS
  <2>1. Same \in SUBSET Less
    OBVIOUS
  <2>2. Cardinality(Same) =< Cardinality(Less)
    <3> HIDE DEF Same, Less
    <3> QED
      BY <1>3, <2>1, FS_Subset
  <2>3. 2 * Cardinality(Same) > n
    OBVIOUS
  <2> HIDE DEF n, Same, Less
  <2>4. k \in Nat /\ 2 * k =< n + 2
    BY DEF n
  <2> QED
    BY <1>1, <1>3, <2>2, <2>3, <2>4
<1> QED
  BY <1>1, <1>4, <1>5 DEF v

\* So it is the median, whether their number is odd or even.
LEMMA MajorityIsMedian ==
  ASSUME NEW slots, IsFiniteSet(slots), NEW shown,
         \A i \in slots : PriceIn(i, shown) \in Nat,
         NEW p \in Nat,
         2 * Cardinality({i \in slots : PriceIn(i, shown) = p}) > Cardinality(slots)
  PROVE  Median(slots, shown) = p
<1> DEFINE n == Cardinality(slots)
           Same == {i \in slots : PriceIn(i, shown) = p}
<1>1. n \in Nat /\ Cardinality(Same) \in Nat /\ Cardinality(Same) =< n
  BY FS_Subset, FS_CardinalityType
<1>2. n # 0 /\ 2 * Cardinality(Same) > n
  <2>1. 2 * Cardinality(Same) > n
    OBVIOUS
  <2> HIDE DEF n, Same
  <2> QED
    BY <1>1, <2>1
<1> HIDE DEF Same
<1>3. ASSUME NEW k \in 1..n, n =< 2 * k, 2 * k =< n + 2
      PROVE  SortedAt(k, slots, shown) = p
  BY <1>2, <1>3, MajorityInTheMiddle DEF Same
<1> HIDE DEF n
<1>4. SortedAt(n \div 2 + 1, slots, shown) = p
  <2>1. n \div 2 + 1 \in 1..n /\ n =< 2 * (n \div 2 + 1) /\ 2 * (n \div 2 + 1) =< n + 2
    BY <1>1, <1>2
  <2> QED
    BY <1>3, <2>1
<1>5. n % 2 # 1 => SortedAt(n \div 2, slots, shown) = p
  <2> SUFFICES ASSUME n % 2 # 1 PROVE SortedAt(n \div 2, slots, shown) = p
    OBVIOUS
  <2>1. n \div 2 \in 1..n /\ n =< 2 * (n \div 2) /\ 2 * (n \div 2) =< n + 2
    BY <1>1, <1>2
  <2> QED
    BY <1>3, <2>1
<1> DEFINE hi == SortedAt(n \div 2 + 1, slots, shown)
           lo == SortedAt(n \div 2, slots, shown)
<1>6. Median(slots, shown)
        = IF n % 2 = 1 THEN hi
          ELSE lo \div 2 + hi \div 2 + (IF lo % 2 = 1 /\ hi % 2 = 1 THEN 1 ELSE 0)
  BY DEF Median, n
<1>7. hi = p /\ (n % 2 # 1 => lo = p)
  BY <1>4, <1>5
<1> HIDE DEF hi, lo
<1>8. p \div 2 + p \div 2 + (IF p % 2 = 1 /\ p % 2 = 1 THEN 1 ELSE 0) = p
  OBVIOUS
<1> QED
  BY <1>6, <1>7, <1>8

-----------------------------------------------------------------------------
(***************************************************************************)
(* The sources.                                                            *)
(***************************************************************************)
SourceRecords == [type : 0..2, feed : Feeds \cup {NoFeed}]
ConsensusRecords ==
  [open : BOOLEAN, min : Nat, outlier : Nat, maxAge : Nat, count : 0..MAX_SOURCES,
   sources : [Slots -> SourceRecords], price : Nat, age : Nat, twap : Nat, twapAge : Nat]
CustomRecords == [open : BOOLEAN, price : Nat, age : Nat]
CrankRecords == [agreed : Nat, sourced : BOOLEAN, age : Nat]
ShownByFeeds == [OutsideFeeds -> [price : FeedPrices, age : FeedAges]]

\* The type invariant, account by account.
LEMMA ConsensusTypes ==
  ConsensusTypeOK <=> /\ consensus \in ConsensusRecords
                      /\ custom \in CustomRecords
                      /\ crank \in CrankRecords
BY DEF ConsensusTypeOK, ConsensusRecords, SourceRecords, CustomRecords, CrankRecords

LEMMA SlotsFinite == IsFiniteSet(Slots) /\ Cardinality(Slots) = MAX_SOURCES
<1>1. 1 \in Int /\ MAX_SOURCES \in Int /\ MAX_SOURCES >= 1
  BY ConsensusAssumption DEF ConsensusAssumption
<1>2. IsFiniteSet(1..MAX_SOURCES)
      /\ Cardinality(1..MAX_SOURCES) = IF 1 > MAX_SOURCES THEN 0 ELSE MAX_SOURCES - 1 + 1
  BY <1>1, FS_Interval
<1> QED
  BY <1>1, <1>2 DEF Slots

\* A slot that is filled shows a number, whatever kind of feed it names.
LEMMA ReadingNat ==
  ASSUME ConsensusTypeOK, NEW shown \in ShownByFeeds, NEW i \in Slots,
         consensus.sources[i].feed # NoFeed
  PROVE  PriceIn(i, shown) \in Nat
<1> DEFINE source == consensus.sources[i]
<1>1. source \in SourceRecords /\ custom.price \in Nat
  BY ConsensusTypes DEF ConsensusRecords, CustomRecords
<1>2. source.feed \in Feeds
  BY <1>1 DEF SourceRecords
<1>3. CASE source.type = ORACLE_SWITCHBOARD
  BY <1>3 DEF PriceIn, Reading
<1>4. CASE source.type # ORACLE_SWITCHBOARD /\ source.feed = CustomFeed
  BY <1>1, <1>4 DEF PriceIn, Reading
<1>5. CASE source.type # ORACLE_SWITCHBOARD /\ source.feed # CustomFeed
  <2>1. Reading(i, shown) = shown[source.feed]
    BY <1>5 DEF Reading
  <2>2. source.feed \in OutsideFeeds
    BY <1>2, <1>5 DEF Feeds
  <2>3. shown[source.feed].price \in FeedPrices
    BY <2>2 DEF ShownByFeeds
  <2> QED
    BY <2>1, <2>3, ConsensusAssumption DEF PriceIn, ConsensusAssumption
<1> QED
  BY <1>3, <1>4, <1>5

\* The slots whose prices are compared, and those that pass.
LEMMA ComparedSlots ==
  ASSUME ConsensusTypeOK, NEW shown \in ShownByFeeds
  PROVE  /\ IsFiniteSet(FreshSlots(shown)) /\ IsFiniteSet(AcceptedSlots(shown))
         /\ AcceptedSlots(shown) \in SUBSET FreshSlots(shown)
         /\ \A i \in FreshSlots(shown) : PriceIn(i, shown) \in Nat
<1>1. FreshSlots(shown) \in SUBSET Slots
  BY DEF FreshSlots
<1>2. AcceptedSlots(shown) \in SUBSET FreshSlots(shown)
  BY DEF AcceptedSlots
<1>3. IsFiniteSet(FreshSlots(shown))
  BY <1>1, SlotsFinite, FS_Subset
<1>4. IsFiniteSet(AcceptedSlots(shown))
  BY <1>2, <1>3, FS_Subset
<1>5. \A i \in FreshSlots(shown) : i \in Slots /\ consensus.sources[i].feed # NoFeed
  BY DEF FreshSlots
<1> QED
  BY <1>2, <1>3, <1>4, <1>5, ReadingNat

LEMMA AgreedNat ==
  ASSUME NEW shown
  PROVE  Agreed(shown) \in Nat
BY ConsensusAssumption DEF Agreed, ConsensusAssumption

\* Neither the two medians nor the outliers between them move the price that
\* more than half of the fresh slots show.
LEMMA MajorityAccepted ==
  ASSUME ConsensusTypeOK, NEW shown \in ShownByFeeds, Agreed(shown) > 0
  PROVE  Median(AcceptedSlots(shown), shown) = Agreed(shown)
<1> DEFINE p == Agreed(shown)
           fresh == FreshSlots(shown)
           accepted == AcceptedSlots(shown)
           showing == {i \in fresh : PriceIn(i, shown) = p}
<1>1. p \in Nat /\ 2 * Cardinality(showing) > Cardinality(fresh)
  <2> DEFINE winners == {q \in FeedPrices :
               2 * Cardinality({i \in fresh : PriceIn(i, shown) = q}) > Cardinality(fresh)}
  <2>1. p = IF winners = {} THEN 0 ELSE CHOOSE q \in winners : TRUE
    BY DEF Agreed
  <2>2. p \in winners
    <3> HIDE DEF winners, p
    <3>1. p # 0
      BY DEF p
    <3> QED
      BY <2>1, <3>1
  <2> QED
    BY <2>2, AgreedNat
<1>2. /\ IsFiniteSet(fresh) /\ IsFiniteSet(accepted) /\ accepted \in SUBSET fresh
      /\ \A i \in fresh : PriceIn(i, shown) \in Nat
  BY ComparedSlots
<1>3. Median(fresh, shown) = p
  <2> HIDE DEF p, fresh
  <2> QED
    BY <1>1, <1>2, MajorityIsMedian
<1>4. showing \in SUBSET accepted
  <2> DEFINE divisor == IF p = 0 THEN 1 ELSE p
  <2>1. divisor \in Nat \ {0} /\ ORACLE_BPS \in Nat /\ consensus.outlier \in Nat
    BY <1>1, ConsensusAssumption, ConsensusTypes DEF ConsensusAssumption, ConsensusRecords
  <2>2. (Distance(p, p) * ORACLE_BPS) \div divisor =< consensus.outlier
    <3>1. Distance(p, p) * ORACLE_BPS = 0
      BY <1>1, <2>1 DEF Distance
    <3> HIDE DEF divisor, p
    <3>2. 0 \div divisor = 0
      BY <2>1
    <3> QED
      BY <2>1, <3>1, <3>2
  <2>3. accepted = {i \in fresh : (Distance(PriceIn(i, shown), p) * ORACLE_BPS) \div divisor
                                    =< consensus.outlier}
    BY <1>3 DEF AcceptedSlots
  <2> HIDE DEF accepted, fresh, p, divisor
  <2> QED
    BY <2>2, <2>3
<1>5. {i \in accepted : PriceIn(i, shown) = p} = showing
  BY <1>2, <1>4
<1> HIDE DEF p, fresh, accepted, showing
<1>6. /\ Cardinality(accepted) =< Cardinality(fresh)
      /\ Cardinality(accepted) \in Nat /\ Cardinality(fresh) \in Nat
  BY <1>2, FS_Subset, FS_CardinalityType
<1>7. IsFiniteSet(showing) /\ Cardinality(showing) \in Nat
  <2>1. showing \in SUBSET fresh
    BY DEF showing
  <2> QED
    BY <1>2, <2>1, FS_Subset, FS_CardinalityType
<1>8. 2 * Cardinality({i \in accepted : PriceIn(i, shown) = p}) > Cardinality(accepted)
  BY <1>1, <1>5, <1>6, <1>7
<1>9. \A i \in accepted : PriceIn(i, shown) \in Nat
  BY <1>2
<1>10. Median(accepted, shown) = p
  BY <1>1, <1>2, <1>8, <1>9, MajorityIsMedian
<1> QED
  BY <1>10 DEF p, accepted

-----------------------------------------------------------------------------
(***************************************************************************)
(* The consensus account.                                                  *)
(***************************************************************************)
\* A price is the median of at least one source, since an open account asks
\* for at least one; a majority was noted only once the account was open.
ConsensusInv ==
  /\ ConsensusTypeOK
  /\ SourceCountExact
  /\ MajorityPriceWins
  /\ consensus.open => consensus.min > 0
  /\ ~consensus.open => crank.agreed = 0

Filled == {i \in Slots : consensus.sources[i].feed # NoFeed}

\* Nothing but the prices, the ages and the crank's history changes.
LEMMA PricedKeeps ==
  ASSUME ConsensusInv,
         NEW p \in Nat, NEW a \in Nat, NEW t \in Nat, NEW b \in Nat,
         consensus' = [consensus EXCEPT !.price = p, !.age = a, !.twap = t, !.twapAge = b],
         custom' \in CustomRecords, crank' \in CrankRecords,
         crank'.sourced /\ crank'.agreed > 0 => p = crank'.agreed,
         consensus.open \/ crank'.agreed = crank.agreed
  PROVE  ConsensusInv'
<1>1. consensus \in ConsensusRecords
  BY ConsensusTypes DEF ConsensusInv
<1>2. /\ consensus' \in ConsensusRecords /\ consensus'.price = p
      /\ consensus'.count = consensus.count /\ consensus'.sources = consensus.sources
      /\ consensus'.min = consensus.min /\ consensus'.open = consensus.open
  BY <1>1 DEF ConsensusRecords
<1>3. ConsensusTypeOK'
  BY <1>2 DEF ConsensusTypeOK, ConsensusRecords, SourceRecords, CustomRecords, CrankRecords
<1>4. SourceCountExact'
  BY <1>2 DEF ConsensusInv, SourceCountExact
<1>5. MajorityPriceWins'
  BY <1>2 DEF MajorityPriceWins
<1> QED
  BY <1>2, <1>3, <1>4, <1>5 DEF ConsensusInv

\* set_oracle_source and remove_oracle_source: the count follows the slot.
LEMMA SourceKeeps ==
  ASSUME ConsensusInv, NEW i \in Slots, NEW source \in SourceRecords,
         consensus.open,
         consensus' = [consensus EXCEPT !.sources[i] = source,
                                        !.count = CountAfterSet(i, source.feed)],
         UNCHANGED <<custom, crank>>
  PROVE  ConsensusInv'
<1> DEFINE was == Filled
           now == IF source.feed = NoFeed THEN was \ {i} ELSE was \cup {i}
           n == CountAfterSet(i, source.feed)
           srcs == [consensus.sources EXCEPT ![i] = source]
<1>1. consensus \in ConsensusRecords /\ custom \in CustomRecords /\ crank \in CrankRecords
  BY ConsensusTypes DEF ConsensusInv
<1>2. srcs \in [Slots -> SourceRecords] /\ \A j \in Slots :
        srcs[j] = IF j = i THEN source ELSE consensus.sources[j]
  BY <1>1 DEF ConsensusRecords
<1>3. was \in SUBSET Slots /\ now \in SUBSET Slots /\ IsFiniteSet(was)
      /\ consensus.count = Cardinality(was) /\ Cardinality(was) \in Nat
  <2>1. was \in SUBSET Slots /\ now \in SUBSET Slots
    BY DEF Filled
  <2>2. consensus.count = Cardinality(was)
    BY DEF ConsensusInv, SourceCountExact, Filled
  <2> QED
    BY <2>1, <2>2, SlotsFinite, FS_Subset, FS_CardinalityType
<1>4. n = Cardinality(now)
  <2>1. i \in was <=> consensus.sources[i].feed # NoFeed
    BY DEF Filled
  <2>2. /\ Cardinality(was \cup {i}) = IF i \in was THEN Cardinality(was) ELSE Cardinality(was) + 1
        /\ Cardinality(was \ {i}) = IF i \in was THEN Cardinality(was) - 1 ELSE Cardinality(was)
    BY <1>3, FS_AddElement, FS_RemoveElement
  <2>3. n = IF source.feed # NoFeed
              THEN IF i \in was THEN consensus.count ELSE consensus.count + 1
              ELSE IF i \in was THEN consensus.count - 1 ELSE consensus.count
    BY <2>1 DEF CountAfterSet
  <2> HIDE DEF n, was
  <2> QED
    BY <1>3, <2>2, <2>3
<1>5. n \in 0..MAX_SOURCES
  <2>1. Cardinality(now) =< MAX_SOURCES /\ Cardinality(now) \in Nat
    BY <1>3, SlotsFinite, FS_Subset, FS_CardinalityType
  <2>2. MAX_SOURCES \in Nat
    BY ConsensusAssumption DEF ConsensusAssumption
  <2> QED
    BY <1>4, <2>1, <2>2
<1>6. {j \in Slots : srcs[j].feed # NoFeed} = now
  BY <1>2 DEF Filled
<1> HIDE DEF srcs, n, now
<1>7. /\ consensus' \in ConsensusRecords /\ consensus'.price = consensus.price
      /\ consensus'.count = n /\ consensus'.sources = srcs
      /\ consensus'.min = consensus.min /\ consensus'.open = consensus.open
  BY <1>1, <1>2, <1>5 DEF ConsensusRecords, srcs, n
<1>8. ConsensusTypeOK'
  BY <1>1, <1>7 DEF ConsensusTypeOK, ConsensusRecords, SourceRecords, CustomRecords, CrankRecords
<1>9. SourceCountExact'
  BY <1>4, <1>6, <1>7 DEF SourceCountExact
<1>10. MajorityPriceWins'
  BY <1>7 DEF ConsensusInv, MajorityPriceWins
<1> QED
  BY <1>7, <1>8, <1>9, <1>10 DEF ConsensusInv

LEMMA OlderNat ==
  ASSUME NEW a \in Nat, NEW b \in Nat
  PROVE  Older(a, b) \in Nat
BY DEF Older

LEMMA TwapAfterNat ==
  ASSUME ConsensusTypeOK, NEW p \in Nat
  PROVE  TwapAfter(p) \in Nat
<1> DEFINE w == TWAP_WEIGHT - 1
           t == consensus.twap
<1>1. w \in Nat /\ TWAP_WEIGHT \in Nat \ {0} /\ t \in Nat
  BY ConsensusAssumption, ConsensusTypes DEF ConsensusAssumption, ConsensusRecords
<1> HIDE DEF w, t
<1>2. t * w \in Nat
  BY <1>1
<1>3. (t * w + p) \div TWAP_WEIGHT \in Nat
  BY <1>1, <1>2
<1> QED
  BY <1>3 DEF TwapAfter, w, t

\* init_oracle_consensus: no source yet, none counted.
LEMMA InitOracleConsensusKeeps ==
  ASSUME ConsensusInv, NEW q \in ConsensusParams, InitOracleConsensus(q)
  PROVE  ConsensusInv'
<1>1. q \in [min : Nat, outlier : Nat, maxAge : Nat] /\ MAX_SOURCES \in Nat
  BY ConsensusAssumption DEF ConsensusAssumption
<1>2. NoConsensus \in ConsensusRecords
  BY <1>1 DEF NoConsensus, NoSource, ORACLE_PYTH, ConsensusRecords, SourceRecords
<1>3. /\ ~consensus.open /\ q.min > 0
      /\ consensus' = [NoConsensus EXCEPT !.open = TRUE, !.min = q.min,
                                          !.outlier = q.outlier, !.maxAge = q.maxAge]
      /\ custom' = custom /\ crank' = crank
  BY <1>1 DEF InitOracleConsensus
<1>4. /\ consensus' \in ConsensusRecords /\ consensus'.open /\ consensus'.min = q.min
      /\ consensus'.count = NoConsensus.count /\ consensus'.sources = NoConsensus.sources
  BY <1>1, <1>2, <1>3 DEF ConsensusRecords
<1>5. ConsensusTypeOK'
  <2>1. custom \in CustomRecords /\ crank \in CrankRecords
    BY ConsensusTypes DEF ConsensusInv
  <2> QED
    BY <1>3, <1>4, <2>1
       DEF ConsensusTypeOK, ConsensusRecords, SourceRecords, CustomRecords, CrankRecords
<1>6. SourceCountExact'
  <2>1. {i \in Slots : consensus'.sources[i].feed # NoFeed} = {} /\ consensus'.count = 0
    BY <1>4 DEF NoConsensus, NoSource
  <2> QED
    BY <2>1, FS_EmptySet DEF SourceCountExact
<1>7. MajorityPriceWins'
  BY <1>3 DEF ConsensusInv, MajorityPriceWins
<1> QED
  BY <1>3, <1>4, <1>5, <1>6, <1>7 DEF ConsensusInv

\* The authority's own feed.
LEMMA CustomKeeps ==
  ASSUME ConsensusInv, InitCustomPriceFeed \/ \E q \in FeedPrices : UpdateCustomPrice(q)
  PROVE  ConsensusInv'
<1>1. custom \in CustomRecords
  BY ConsensusTypes DEF ConsensusInv
<1>2. custom' \in CustomRecords /\ consensus' = consensus /\ crank' = crank
  <2>1. CASE InitCustomPriceFeed
    BY <2>1 DEF InitCustomPriceFeed, NoCustom, CustomRecords
  <2>2. ASSUME NEW q \in FeedPrices, UpdateCustomPrice(q)
        PROVE  custom' \in CustomRecords /\ consensus' = consensus /\ crank' = crank
    <3>1. q \in Nat
      BY ConsensusAssumption DEF ConsensusAssumption
    <3> QED
      BY <1>1, <2>2, <3>1 DEF UpdateCustomPrice, CustomRecords
  <2> QED
    BY <2>1, <2>2
<1>3. ConsensusTypeOK'
  BY <1>2 DEF ConsensusInv, ConsensusTypeOK, CustomRecords
<1> QED
  BY <1>2, <1>3 DEF ConsensusInv, SourceCountExact, MajorityPriceWins

\* update_oracle_consensus, by its three exits.
LEMMA CrankKeeps ==
  ASSUME ConsensusInv, NEW shown \in ShownByFeeds, UpdateOracleConsensus(shown)
  PROVE  ConsensusInv'
<1>1. /\ consensus \in ConsensusRecords /\ custom \in CustomRecords /\ crank \in CrankRecords
      /\ ConsensusTypeOK
  BY ConsensusTypes DEF ConsensusInv
<1>2. /\ consensus.price \in Nat /\ consensus.age \in Nat /\ consensus.twap \in Nat
      /\ consensus.min \in Nat /\ 0 \in Nat
  BY <1>1 DEF ConsensusRecords
<1>3. CASE UpdateWithoutSources(shown)
  <2> DEFINE t == TwapAfter(consensus.twap)
             after == [consensus EXCEPT !.price = consensus.price, !.age = consensus.age,
                                        !.twap = t, !.twapAge = 0]
  <2>1. t \in Nat
    BY <1>1, <1>2, TwapAfterNat
  <2>2. consensus' = [consensus EXCEPT !.twap = t, !.twapAge = 0]
        /\ custom' = custom /\ crank' = crank
    BY <1>3 DEF UpdateWithoutSources
  <2> HIDE DEF t
  <2>3. consensus' = after
    BY <1>1, <2>2 DEF ConsensusRecords
  <2>4. crank'.sourced /\ crank'.agreed > 0 => consensus.price = crank'.agreed
    BY <2>2 DEF ConsensusInv, MajorityPriceWins
  <2>5. /\ custom' \in CustomRecords /\ crank' \in CrankRecords
        /\ crank'.agreed = crank.agreed
    BY <1>1, <2>2
  <2> QED
    BY <1>2, <2>1, <2>3, <2>4, <2>5, PricedKeeps
<1>4. CASE UpdateFromSources(shown)
  <2> DEFINE p == Median(AcceptedSlots(shown), shown)
  <2>1. p \in Nat
    <3>1. consensus.min > 0 /\ Cardinality(AcceptedSlots(shown)) >= consensus.min
      BY <1>4 DEF ConsensusInv, UpdateFromSources, CrankAllowed
    <3>2. AcceptedSlots(shown) # {}
      BY <1>2, <3>1, FS_EmptySet
    <3> QED
      BY <1>1, <3>2, ComparedSlots, MedianNat
  <2>2. TwapAfter(p) \in Nat
    BY <1>1, <2>1, TwapAfterNat
  <2>3. /\ consensus' = [consensus EXCEPT !.price = p, !.age = 0,
                                          !.twap = TwapAfter(p), !.twapAge = 0]
        /\ custom' = custom /\ consensus.open
        /\ crank' = [agreed |-> Agreed(shown), sourced |-> TRUE, age |-> 0]
    BY <1>4 DEF UpdateFromSources, SetConsensus, CrankAllowed
  <2>4. crank' \in CrankRecords /\ crank'.agreed = Agreed(shown)
    BY <2>3, AgreedNat DEF CrankRecords
  <2>5. crank'.sourced /\ crank'.agreed > 0 => p = crank'.agreed
    BY <1>1, <2>4, MajorityAccepted
  <2> HIDE DEF p
  <2> QED
    BY <1>1, <1>2, <2>1, <2>2, <2>3, <2>4, <2>5, PricedKeeps
<1>5. CASE UpdateFromTwap(shown)
  <2> DEFINE p == consensus.twap
  <2>1. p \in Nat /\ TwapAfter(p) \in Nat
    BY <1>1, <1>2, TwapAfterNat
  <2>2. /\ consensus' = [consensus EXCEPT !.price = p, !.age = 0,
                                          !.twap = TwapAfter(p), !.twapAge = 0]
        /\ custom' = custom /\ consensus.open
        /\ crank' = [crank EXCEPT !.agreed = Agreed(shown), !.sourced = FALSE]
    BY <1>5 DEF UpdateFromTwap, SetConsensus, CrankAllowed
  <2>3. crank' \in CrankRecords /\ ~crank'.sourced
    BY <1>1, <2>2, AgreedNat DEF CrankRecords
  <2> HIDE DEF p
  <2> QED
    BY <1>1, <1>2, <2>1, <2>2, <2>3, PricedKeeps
<1> QED
  BY <1>3, <1>4, <1>5 DEF UpdateOracleConsensus

LEMMA SlotKeeps ==
  ASSUME ConsensusInv, SlotPasses
  PROVE  ConsensusInv'
<1>1. /\ consensus \in ConsensusRecords /\ custom \in CustomRecords /\ crank \in CrankRecords
      /\ consensus.open
  BY ConsensusTypes DEF ConsensusInv, SlotPasses
<1>2. /\ consensus.price \in Nat /\ consensus.age \in Nat /\ consensus.twap \in Nat
      /\ consensus.twapAge \in Nat /\ consensus.maxAge \in Nat /\ TWAP_MAX_AGE \in Nat
      /\ custom.age \in Nat /\ crank.age \in Nat
  BY <1>1, ConsensusAssumption
     DEF ConsensusRecords, CustomRecords, CrankRecords, ConsensusAssumption
<1> DEFINE a == Older(consensus.age, consensus.maxAge)
           b == Older(consensus.twapAge, TWAP_MAX_AGE)
           c == Older(custom.age, consensus.maxAge)
           d == Older(crank.age, TWAP_MAX_AGE + consensus.maxAge)
           after == [consensus EXCEPT !.price = consensus.price, !.age = a,
                                      !.twap = consensus.twap, !.twapAge = b]
<1>3. a \in Nat /\ b \in Nat /\ c \in Nat /\ d \in Nat
  <2>1. TWAP_MAX_AGE + consensus.maxAge \in Nat
    BY <1>2
  <2> QED
    BY <1>2, <2>1, OlderNat
<1>4. /\ consensus' = [consensus EXCEPT !.age = a, !.twapAge = b]
      /\ custom' = [custom EXCEPT !.age = c] /\ crank' = [crank EXCEPT !.age = d]
  BY DEF SlotPasses
<1> HIDE DEF a, b, c, d
<1>5. consensus' = after
  BY <1>1, <1>4 DEF ConsensusRecords
<1>6. /\ custom' \in CustomRecords /\ crank' \in CrankRecords
      /\ crank'.agreed = crank.agreed /\ crank'.sourced = crank.sourced
  BY <1>1, <1>3, <1>4 DEF CustomRecords, CrankRecords
<1>7. crank'.sourced /\ crank'.agreed > 0 => consensus.price = crank'.agreed
  BY <1>6 DEF ConsensusInv, MajorityPriceWins
<1> QED
  BY <1>1, <1>2, <1>3, <1>5, <1>6, <1>7, PricedKeeps

LEMMA ConsensusKeeps ==
  ASSUME ConsensusInv, ConsensusNext
  PROVE  ConsensusInv'
<1>1. ASSUME NEW q \in ConsensusParams, InitOracleConsensus(q) PROVE ConsensusInv'
  BY <1>1, InitOracleConsensusKeeps
<1>2. ASSUME NEW i \in Slots, NEW source \in SourceChoices, SetOracleSource(i, source)
      PROVE  ConsensusInv'
  <2>1. source \in SourceRecords
    BY ConsensusAssumption DEF ConsensusAssumption, SourceRecords
  <2> QED
    BY <1>2, <2>1, SourceKeeps DEF SetOracleSource
<1>3. ASSUME NEW i \in Slots, RemoveOracleSource(i) PROVE ConsensusInv'
  <2>1. NoSource \in SourceRecords /\ NoSource.feed = NoFeed
    BY DEF NoSource, SourceRecords, ORACLE_PYTH
  <2>2. consensus' = [consensus EXCEPT !.sources[i] = NoSource,
                                       !.count = CountAfterSet(i, NoSource.feed)]
    BY <1>3, <2>1 DEF RemoveOracleSource
  <2> QED
    BY <1>3, <2>1, <2>2, SourceKeeps DEF RemoveOracleSource
<1>4. ASSUME InitCustomPriceFeed \/ \E q \in FeedPrices : UpdateCustomPrice(q)
      PROVE  ConsensusInv'
  BY <1>4, CustomKeeps
<1>5. ASSUME NEW shown \in ShownByFeeds, UpdateOracleConsensus(shown) PROVE ConsensusInv'
  BY <1>5, CrankKeeps
<1>6. ASSUME SlotPasses PROVE ConsensusInv'
  BY <1>6, SlotKeeps
<1> QED
  BY <1>1, <1>2, <1>3, <1>4, <1>5, <1>6 DEF ConsensusNext, ShownByFeeds

-----------------------------------------------------------------------------
(***************************************************************************)
(* The controller: its types.                                              *)
(***************************************************************************)
PidRecords ==
  [open : BOOLEAN, kp : Int, ki : Int, kd : Int, target : Nat, min : Nat,
   max : Nat, lastError : Int, integral : Int, since : Nat, bounded : BOOLEAN]

LEMMA PidTypes == PidTypeOK <=> stabilityFeeBps \in Nat /\ pid \in PidRecords
BY DEF PidTypeOK, PidRecords

LEMMA MulInt ==
  ASSUME NEW a \in Int, NEW b \in Int
  PROVE  a * b \in Int
OBVIOUS

LEMMA ClampIn ==
  ASSUME NEW x \in Int, NEW lo \in Int, NEW hi \in Int
  PROVE  Clamp(x, lo, hi) \in Int /\ (lo \in Nat /\ hi \in Nat => Clamp(x, lo, hi) \in Nat)
BY DEF Clamp

LEMMA TruncatedInt ==
  ASSUME NEW x \in Int, NEW d \in Nat \ {0}
  PROVE  Truncated(x, d) \in Int
BY DEF Truncated

LEMMA PidKeeps ==
  ASSUME PidTypeOK, PidNext
  PROVE  PidTypeOK'
<1>1. stabilityFeeBps \in Nat /\ pid \in PidRecords
  BY PidTypes
<1>2. ASSUME NEW g \in Gains, NEW b \in BoundChoices, InitPidConfig(g, b)
      PROVE  PidTypeOK'
  <2>1. /\ g \in [kp : Int, ki : Int, kd : Int, target : Nat, min : Nat, max : Nat]
        /\ b \in BOOLEAN
    BY PidAssumption DEF PidAssumption
  <2>2. NoPid \in PidRecords
    BY DEF NoPid, PidRecords
  <2>3. pid' \in PidRecords
    BY <1>2, <2>1, <2>2 DEF InitPidConfig, PidRecords
  <2> QED
    BY <1>1, <1>2, <2>3 DEF InitPidConfig, PidTypeOK, PidRecords
<1>3. ASSUME NEW p \in ReportedPrices, UpdateStabilityFeePid(p)
      PROVE  PidTypeOK'
  <2> DEFINE e == pid.target - p
             i == IntegralAfter(e)
             d == DeltaBps(e)
             fee == Clamp(stabilityFeeBps + d, pid.min, pid.max)
  <2>1. /\ e \in Int /\ PID_SCALE \in Nat \ {0} /\ INTEGRAL_MAX \in Int /\ -INTEGRAL_MAX \in Int
        /\ pid.kp \in Int /\ pid.ki \in Int /\ pid.kd \in Int /\ pid.integral \in Int
        /\ pid.lastError \in Int /\ pid.min \in Nat /\ pid.max \in Nat
    BY <1>1, PidAssumption DEF PidRecords, PidAssumption
  <2>2. pid' = [pid EXCEPT !.lastError = e, !.integral = i, !.since = 0]
        /\ stabilityFeeBps' = fee
    BY <1>3 DEF UpdateStabilityFeePid
  <2> HIDE DEF e
  <2>3. i \in Int
    <3>1. pid.integral + e \in Int
      BY <2>1
    <3> QED
      BY <2>1, <3>1, ClampIn DEF IntegralAfter
  <2> HIDE DEF i
  <2>4. d \in Int
    <3>1. e - pid.lastError \in Int
      BY <2>1
    <3>2. /\ pid.kp * e \in Int /\ pid.ki * i \in Int
          /\ pid.kd * (e - pid.lastError) \in Int
      BY <2>1, <2>3, <3>1, MulInt
    <3>3. pid.kp * e + pid.ki * i + pid.kd * (e - pid.lastError) \in Int
      BY <3>2
    <3> QED
      BY <2>1, <3>3, TruncatedInt DEF DeltaBps, i
  <2> HIDE DEF d
  <2>5. fee \in Nat
    <3>1. stabilityFeeBps + d \in Int /\ pid.min \in Int /\ pid.max \in Int
      BY <1>1, <2>1, <2>4
    <3> QED
      BY <2>1, <3>1, ClampIn
  <2> HIDE DEF fee
  <2>6. pid' \in PidRecords
    BY <1>1, <2>1, <2>2, <2>3 DEF PidRecords
  <2> QED
    BY <2>2, <2>5, <2>6 DEF PidTypeOK, PidRecords
<1>4. ASSUME PidSlotPasses PROVE PidTypeOK'
  <2>1. pid' \in PidRecords
    BY <1>1, <1>4 DEF PidSlotPasses, PidRecords
  <2> QED
    BY <1>1, <1>4, <2>1 DEF PidSlotPasses, PidTypeOK, PidRecords
<1> QED
  BY <1>2, <1>3, <1>4 DEF PidNext

-----------------------------------------------------------------------------
(***************************************************************************)
(* The theorems.                                                           *)
(***************************************************************************)
PricingInv == ConsensusInv /\ PidTypeOK

LEMMA PricingInit == Init => PricingInv
<1> SUFFICES ASSUME Init PROVE PricingInv
  OBVIOUS
<1>1. consensus = NoConsensus /\ custom = NoCustom /\ crank = NoCrank
  BY DEF Init, InitConsensus
<1>2. MAX_SOURCES \in Nat
  BY ConsensusAssumption DEF ConsensusAssumption
<1>3. NoConsensus \in ConsensusRecords
  BY <1>2 DEF NoConsensus, NoSource, ORACLE_PYTH, ConsensusRecords, SourceRecords
<1>4. NoCustom \in CustomRecords /\ NoCrank \in CrankRecords
  BY DEF NoCustom, NoCrank, CustomRecords, CrankRecords
<1>5. ConsensusTypeOK
  BY <1>1, <1>3, <1>4, ConsensusTypes
<1>6. SourceCountExact
  <2>1. {i \in Slots : consensus.sources[i].feed # NoFeed} = {} /\ consensus.count = 0
    BY <1>1 DEF NoConsensus, NoSource
  <2> QED
    BY <2>1, FS_EmptySet DEF SourceCountExact
<1>7. ~consensus.open /\ crank.agreed = 0
  BY <1>1 DEF NoConsensus, NoCrank
<1>8. MajorityPriceWins
  BY <1>7 DEF MajorityPriceWins
<1>9. PidTypeOK
  BY DEF Init, InitPid, NoPid, PidTypeOK
<1> QED
  BY <1>5, <1>6, <1>7, <1>8, <1>9 DEF PricingInv, ConsensusInv

LEMMA PricingNext == PricingInv /\ [Next]_vars => PricingInv'
<1> SUFFICES ASSUME PricingInv, [Next]_vars PROVE PricingInv'
  OBVIOUS
<1>1. CASE ConsensusStep
  <2>1. ConsensusInv'
    BY <1>1, ConsensusKeeps DEF ConsensusStep, PricingInv
  <2>2. PidTypeOK'
    BY <1>1 DEF ConsensusStep, PricingInv, pidVars, PidTypeOK
  <2> QED
    BY <2>1, <2>2 DEF PricingInv
<1>2. ASSUME UNCHANGED consensusVars PROVE ConsensusInv'
  BY <1>2 DEF PricingInv, consensusVars, ConsensusInv, ConsensusTypeOK, SourceCountExact,
              MajorityPriceWins
<1>3. CASE Controlling(PidNext)
  <2>1. PidNext /\ UNCHANGED consensusVars
    BY <1>3 DEF Controlling
  <2> QED
    BY <1>2, <2>1, PidKeeps DEF PricingInv
<1>4. CASE UNCHANGED vars
  <2>1. UNCHANGED consensusVars /\ UNCHANGED pidVars
    BY <1>4 DEF vars
  <2>2. PidTypeOK'
    BY <2>1 DEF PricingInv, pidVars, PidTypeOK
  <2> QED
    BY <1>2, <2>1, <2>2 DEF PricingInv
<1> QED
  BY <1>1, <1>3, <1>4 DEF Next

\* The inductive invariant of the price consensus, with the types of both
\* loops (multi_oracle.rs, oracle_config.rs, pid_fee.rs).
THEOREM PricingInvariance == Spec => []PricingInv
BY PricingInit, PricingNext, PTL DEF Spec

\* source_count counts the filled slots whichever instruction filled,
\* overwrote or emptied them, so the crank's guard on it asks for what it says
\* (multi_oracle.rs: set_oracle_source, remove_oracle_source).
THEOREM SourcesAreCounted == Spec => []SourcesSound
<1>1. PricingInv => SourcesSound
  BY DEF PricingInv, ConsensusInv, SourcesSound, TypeOK
<1> QED
  BY <1>1, PricingInvariance, PTL

\* With any number of sources and any prices, what more than half of the fresh
\* sources show is the consensus (multi_oracle.rs: update_oracle_consensus).
THEOREM MajorityDecides == Spec => []MajorityPriceWins
<1>1. PricingInv => MajorityPriceWins
  BY DEF PricingInv, ConsensusInv
<1> QED
  BY <1>1, PricingInvariance, PTL

=============================================================================
