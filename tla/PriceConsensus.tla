--------------------------- MODULE PriceConsensus ---------------------------
(***************************************************************************)
(* The price of the collateral from several feeds: multi_oracle.rs, the    *)
(* authority's own feed (init_custom_price_feed and update_custom_price in *)
(* oracle_config.rs) and get_effective_oracle_price in oracle/mod.rs.      *)
(*                                                                         *)
(* What the outside feeds show is an input of the crank: a price that was  *)
(* published some slots ago, 0 when the feed cannot be read or shows no    *)
(* positive price.  Slots are kept as ages, which stop growing one past    *)
(* the largest that they are compared with.                                *)
(***************************************************************************)
EXTENDS Integers, FiniteSets

CONSTANTS
  OutsideFeeds,     \* price accounts of others
  CustomFeed,       \* the CustomPriceFeed account of this mint
  NoFeed,           \* Pubkey::default()
  FeedPrices, FeedAges,   \* what a feed may show
  ConsensusParams,  \* [min, outlier, maxAge]: parameters given at initialization
  MAX_SOURCES,      \* 8 in the code
  MAX_OUTLIER_BPS,  \* 5_000 in the code
  ORACLE_BPS,       \* 10_000 in the code
  TWAP_WEIGHT,      \* 8 in the code: the average moves by 1/8
  TWAP_MAX_AGE,     \* 1_000 slots in the code
  SourceChoices     \* [type, feed]: what set_oracle_source is given

Feeds == OutsideFeeds \cup {CustomFeed}
Slots == 1..MAX_SOURCES

ORACLE_PYTH == 0
ORACLE_SWITCHBOARD == 1
ORACLE_CUSTOM == 2

ASSUME ConsensusAssumption ==
  /\ NoFeed \notin Feeds
  /\ FeedPrices \subseteq Nat /\ FeedAges \subseteq Nat
  /\ ConsensusParams \subseteq [min : Nat, outlier : Nat, maxAge : Nat]
  /\ MAX_SOURCES \in Nat \ {0}
  /\ ORACLE_BPS \in Nat \ {0} /\ MAX_OUTLIER_BPS \in 1..ORACLE_BPS
  /\ TWAP_WEIGHT \in Nat \ {0} /\ TWAP_MAX_AGE \in Nat \ {0}
  /\ SourceChoices \subseteq [type : 0..2, feed : Feeds \cup {NoFeed}]

VARIABLES
  consensus,   \* the OracleConsensus account
  custom,      \* the CustomPriceFeed account
  crank        \* history of the last crank that set a price, and its source's age

consensusVars == <<consensus, custom, crank>>

NoSource == [type |-> ORACLE_PYTH, feed |-> NoFeed]
NoConsensus == [open |-> FALSE, min |-> 0, outlier |-> 0, maxAge |-> 0, count |-> 0,
                sources |-> [i \in Slots |-> NoSource],
                price |-> 0, age |-> 0, twap |-> 0, twapAge |-> 0]
NoCustom == [open |-> FALSE, price |-> 0, age |-> 0]
NoCrank == [agreed |-> 0, sourced |-> TRUE, age |-> 0]

InitConsensus ==
  /\ consensus = NoConsensus
  /\ custom = NoCustom
  /\ crank = NoCrank

-----------------------------------------------------------------------------
(***************************************************************************)
(* Administration.                                                         *)
(***************************************************************************)
InitOracleConsensus(p) ==
  /\ ~consensus.open
  /\ p.min \in 1..MAX_SOURCES
  /\ p.outlier \in 1..MAX_OUTLIER_BPS
  /\ p.maxAge > 0
  /\ consensus' = [NoConsensus EXCEPT !.open = TRUE, !.min = p.min,
                                      !.outlier = p.outlier, !.maxAge = p.maxAge]
  /\ UNCHANGED <<custom, crank>>

\* Mutant: a slot that is overwritten with no feed still counts.
CountAfterSetOnlyUp(i, feed) ==
  IF consensus.sources[i].feed = NoFeed /\ feed # NoFeed
    THEN consensus.count + 1 ELSE consensus.count

CountAfterSet(i, feed) ==
  CASE consensus.sources[i].feed = NoFeed /\ feed # NoFeed -> consensus.count + 1
    [] consensus.sources[i].feed # NoFeed /\ feed = NoFeed -> consensus.count - 1
    [] OTHER -> consensus.count

SetOracleSource(i, source) ==
  /\ consensus.open
  /\ consensus' = [consensus EXCEPT !.sources[i] = source,
                                    !.count = CountAfterSet(i, source.feed)]
  /\ UNCHANGED <<custom, crank>>

RemoveOracleSource(i) ==
  /\ consensus.open
  /\ consensus' = [consensus EXCEPT !.sources[i] = NoSource,
                                    !.count = CountAfterSet(i, NoFeed)]
  /\ UNCHANGED <<custom, crank>>

\* init_custom_price_feed: its authority is fixed from then on.
InitCustomPriceFeed ==
  /\ ~custom.open
  /\ custom' = [NoCustom EXCEPT !.open = TRUE]
  /\ UNCHANGED <<consensus, crank>>

\* update_custom_price: signed by the authority and by the feed's own, which
\* are one key until the authority is handed over; after that the feed ages.
UpdateCustomPrice(p) ==
  /\ custom.open
  /\ p > 0
  /\ custom' = [custom EXCEPT !.price = p, !.age = 0]
  /\ UNCHANGED <<consensus, crank>>

-----------------------------------------------------------------------------
(***************************************************************************)
(* The crank.                                                              *)
(***************************************************************************)
\* read_source_price.  Switchboard is a stub that always fails; the custom
\* feed is read without asking who its authority is, and only as what it is.
Reading(i, shown) ==
  LET source == consensus.sources[i] IN
  CASE source.type = ORACLE_SWITCHBOARD -> [price |-> 0, age |-> 0]
    [] source.type # ORACLE_SWITCHBOARD /\ source.feed = CustomFeed ->
         [price |-> IF source.type = ORACLE_CUSTOM THEN custom.price ELSE 0,
          age |-> custom.age]
    [] OTHER -> shown[source.feed]

PriceIn(i, shown) == Reading(i, shown).price

\* The slots whose feed shows a price young enough.
FreshSlots(shown) ==
  {i \in Slots : /\ consensus.sources[i].feed # NoFeed
                 /\ PriceIn(i, shown) > 0
                 /\ Reading(i, shown).age =< consensus.maxAge}

\* sort_slice: the k-th smallest of the prices in the given slots.
SortedAt(k, slots, shown) ==
  CHOOSE p \in {PriceIn(i, shown) : i \in slots} :
    /\ Cardinality({i \in slots : PriceIn(i, shown) < p}) < k
    /\ Cardinality({i \in slots : PriceIn(i, shown) =< p}) >= k

\* Mutant: the price in the middle slot, not the middle price.
MedianUnsorted(slots, shown) ==
  LET before(i) == {j \in slots : j < i}
  IN  PriceIn(CHOOSE i \in slots : Cardinality(before(i)) = Cardinality(slots) \div 2, shown)

\* median_of; lo & hi & 1 is 1 when both are odd.
Median(slots, shown) ==
  LET n == Cardinality(slots)
      hi == SortedAt(n \div 2 + 1, slots, shown)
      lo == SortedAt(n \div 2, slots, shown)
  IN  IF n % 2 = 1 THEN hi
      ELSE lo \div 2 + hi \div 2 + (IF lo % 2 = 1 /\ hi % 2 = 1 THEN 1 ELSE 0)

Distance(p, q) == IF p >= q THEN p - q ELSE q - p

\* The fresh slots that are no outliers.
AcceptedSlots(shown) ==
  LET fresh == FreshSlots(shown)
      median == Median(fresh, shown)
      divisor == IF median = 0 THEN 1 ELSE median
  IN  {i \in fresh : (Distance(PriceIn(i, shown), median) * ORACLE_BPS) \div divisor
                       =< consensus.outlier}

\* update_twap: an exponential average.
TwapAfter(p) ==
  IF consensus.twap = 0 THEN p
  ELSE (consensus.twap * (TWAP_WEIGHT - 1) + p) \div TWAP_WEIGHT

TwapUsable == consensus.twap > 0 /\ consensus.twapAge =< TWAP_MAX_AGE

CrankAllowed == consensus.open /\ consensus.count > 0

\* The price a strict majority of the fresh slots shows, 0 for none.
Agreed(shown) ==
  LET fresh == FreshSlots(shown)
      showing(p) == {i \in fresh : PriceIn(i, shown) = p}
      winners == {p \in FeedPrices : 2 * Cardinality(showing(p)) > Cardinality(fresh)}
  IN  IF winners = {} THEN 0 ELSE CHOOSE p \in winners : TRUE

SetConsensus(p) ==
  /\ p > 0
  /\ consensus' = [consensus EXCEPT !.price = p, !.age = 0,
                                    !.twap = TwapAfter(p), !.twapAge = 0]
  /\ UNCHANGED custom

\* No fresh source: the average is stored again as if it were new; the
\* consensus stays as it was.
UpdateWithoutSources(shown) ==
  /\ CrankAllowed
  /\ FreshSlots(shown) = {}
  /\ TwapUsable
  /\ consensus' = [consensus EXCEPT !.twap = TwapAfter(consensus.twap), !.twapAge = 0]
  /\ UNCHANGED <<custom, crank>>

\* Enough sources agree: the median of the accepted prices.
UpdateFromSources(shown) ==
  /\ CrankAllowed
  /\ FreshSlots(shown) # {}
  /\ Cardinality(AcceptedSlots(shown)) >= consensus.min
  /\ SetConsensus(Median(AcceptedSlots(shown), shown))
  /\ crank' = [agreed |-> Agreed(shown), sourced |-> TRUE, age |-> 0]

\* Too few: the average becomes the consensus.
UpdateFromTwap(shown) ==
  /\ CrankAllowed
  /\ FreshSlots(shown) # {}
  /\ Cardinality(AcceptedSlots(shown)) < consensus.min
  /\ TwapUsable
  /\ SetConsensus(consensus.twap)
  /\ crank' = [crank EXCEPT !.agreed = Agreed(shown), !.sourced = FALSE]

UpdateOracleConsensus(shown) ==
  \/ UpdateWithoutSources(shown)
  \/ UpdateFromSources(shown)
  \/ UpdateFromTwap(shown)

\* get_effective_oracle_price: a price is served while it is young enough.
Served == consensus.price > 0 /\ consensus.age =< consensus.maxAge

-----------------------------------------------------------------------------
\* A slot passes.
Older(age, bound) == IF age =< bound THEN age + 1 ELSE age
SlotPasses ==
  /\ consensus.open
  /\ consensus' = [consensus EXCEPT !.age = Older(@, consensus.maxAge),
                                    !.twapAge = Older(@, TWAP_MAX_AGE)]
  /\ custom' = [custom EXCEPT !.age = Older(@, consensus.maxAge)]
  /\ crank' = [crank EXCEPT !.age = Older(@, TWAP_MAX_AGE + consensus.maxAge)]

ConsensusNext ==
  \/ \E p \in ConsensusParams : InitOracleConsensus(p)
  \/ \E i \in Slots, source \in SourceChoices : SetOracleSource(i, source)
  \/ \E i \in Slots : RemoveOracleSource(i)
  \/ InitCustomPriceFeed
  \/ \E p \in FeedPrices : UpdateCustomPrice(p)
  \/ \E shown \in [OutsideFeeds -> [price : FeedPrices, age : FeedAges]] :
       UpdateOracleConsensus(shown)
  \/ SlotPasses

-----------------------------------------------------------------------------
ConsensusTypeOK ==
  /\ consensus \in
       [open : BOOLEAN, min : Nat, outlier : Nat, maxAge : Nat, count : 0..MAX_SOURCES,
        sources : [Slots -> [type : 0..2, feed : Feeds \cup {NoFeed}]],
        price : Nat, age : Nat, twap : Nat, twapAge : Nat]
  /\ custom \in [open : BOOLEAN, price : Nat, age : Nat]
  /\ crank \in [agreed : Nat, sourced : BOOLEAN, age : Nat]

\* Whatever the other sources show, a price that a strict majority of the fresh
\* ones shows is the consensus, unless the average had to stand in: neither the
\* two medians nor the outliers left out between them let a minority move it.
MajorityPriceWins ==
  crank.sourced /\ crank.agreed > 0 => consensus.price = crank.agreed

\* source_count counts the filled slots, whichever of the two instructions
\* filled, overwrote or emptied them: the crank relies on it (config_is_set).
SourceCountExact ==
  consensus.count = Cardinality({i \in Slots : consensus.sources[i].feed # NoFeed})

\* multi_oracle.rs: "Reject TWAP older than 1000 slots (~7 minutes)".  A price
\* served to the CDP instructions would then rest on sources not much older;
\* but each crank stores the average anew, as if it were new.
TwapFallbackBounded == Served => crank.age =< TWAP_MAX_AGE + consensus.maxAge

=============================================================================
