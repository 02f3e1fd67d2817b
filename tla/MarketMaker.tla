---------------------------- MODULE MarketMaker ----------------------------
(***************************************************************************)
(* Market makers: market_maker.rs.  A registered market maker mints and    *)
(* burns at the peg, within limits per slot, while the oracle's price is   *)
(* near the peg.  The price is read in the same step, so it is an input.   *)
(***************************************************************************)
EXTENDS Issuance

CONSTANTS
  Makers,        \* keys that may be registered
  MakerLimits,   \* values of the two limits per slot
  Spreads,       \* values of spread_bps
  PegPrices,     \* prices the oracle may report, in micro-USD
  PEG_PRICE,     \* 1_000_000 in the code
  SPREAD_UNIT,   \* micro-USD per basis point: 100 in the code
  MAX_MAKERS     \* what the account has room for: 8 in the code

ASSUME MakerAssumption ==
  /\ Makers \subseteq Keys
  /\ MakerLimits \subseteq Nat /\ Spreads \subseteq Nat /\ PegPrices \subseteq Nat
  /\ PEG_PRICE \in Nat /\ SPREAD_UNIT \in Nat /\ MAX_MAKERS \in Nat

VARIABLES
  mm,          \* the MarketMakerConfig account
  mmIn         \* history: minted and burnt by market makers in this slot

makerVars == <<mm, mmIn>>

NoMakers == [open |-> FALSE, makers |-> {}, mintLimit |-> 0, burnLimit |-> 0,
             spread |-> 0, lastMintSlot |-> 0, minted |-> 0,
             lastBurnSlot |-> 0, burned |-> 0]
NothingYet == [minted |-> 0, burned |-> 0]

InitMakers == mm = NoMakers /\ mmIn = NothingYet

-----------------------------------------------------------------------------
InitMarketMakerConfig(k, mintLimit, burnLimit, spread) ==
  /\ AuthoritySigns(k)
  /\ FLAG_MARKET_MAKER_HOOKS \in flags
  /\ ~mm.open
  /\ mm' = [NoMakers EXCEPT !.open = TRUE, !.mintLimit = mintLimit,
                            !.burnLimit = burnLimit, !.spread = spread]
  /\ UNCHANGED <<clockVars, configVars, issuanceVars, mmIn>>

\* register_market_maker.  The code compares the list with 10, but the account
\* has room for MAX_MAKERS: saving a longer list fails.  Nobody is ever removed.
RegisterMarketMaker(k, maker) ==
  /\ mm.open
  /\ FLAG_MARKET_MAKER_HOOKS \in flags
  /\ AuthoritySigns(k)
  /\ maker \notin mm.makers
  /\ Cardinality(mm.makers) < MAX_MAKERS
  /\ mm' = [mm EXCEPT !.makers = @ \cup {maker}]
  /\ UNCHANGED <<clockVars, configVars, issuanceVars, mmIn>>

\* check_oracle_spread: no feed, no check.
WithinSpread(price) ==
  \/ settings.oracleFeed = NoKey
  \/ /\ price - PEG_PRICE =< mm.spread * SPREAD_UNIT
     /\ PEG_PRICE - price =< mm.spread * SPREAD_UNIT

\* Governance names another feed, or none.
FeedMoves(feed) ==
  /\ settings' = [settings EXCEPT !.oracleFeed = feed]
  /\ UNCHANGED <<clockVars, roleVars, flags, paused, opVars, issuanceVars, makerVars>>

\* What both handlers ask before they look at the limit.
MakerAllowed(maker, price) ==
  /\ mm.open
  /\ Open
  /\ FLAG_MARKET_MAKER_HOOKS \in flags
  /\ maker \in mm.makers
  /\ WithinSpread(price)

\* Mutant: every call starts from nothing.
MintedBeforeZero == 0

\* The counters restart with the first call of a slot, each on its own.
MintedBefore == IF slot # mm.lastMintSlot THEN 0 ELSE mm.minted
BurnedBefore == IF slot # mm.lastBurnSlot THEN 0 ELSE mm.burned

MmMint(maker, n, price) ==
  /\ n > 0
  /\ MakerAllowed(maker, price)
  /\ MintedBefore + n =< mm.mintLimit
  /\ SupplyAllows(n)
  /\ MintTo(maker, n)
  /\ TotalMintedFits(n)
  /\ totalMinted' = TotalMintedAfter(n)
  /\ mm' = [mm EXCEPT !.lastMintSlot = slot, !.minted = MintedBefore + n]
  /\ mmIn' = [mmIn EXCEPT !.minted = @ + n]
  /\ UNCHANGED <<clockVars, configVars, maxSupply, totalBurned, totalCollateral,
                 accountVars, vault, mintedIn>>

MmBurn(maker, n, price) ==
  /\ n > 0
  /\ MakerAllowed(maker, price)
  /\ BurnedBefore + n =< mm.burnLimit
  /\ Burn(maker, n)
  /\ totalBurned + n =< U64_MAX
  /\ totalBurned' = totalBurned + n
  /\ mm' = [mm EXCEPT !.lastBurnSlot = slot, !.burned = BurnedBefore + n]
  /\ mmIn' = [mmIn EXCEPT !.burned = @ + n]
  /\ UNCHANGED <<clockVars, configVars, maxSupply, totalMinted, totalCollateral,
                 accountVars, vault, mintedIn>>

\* get_mm_capacity: what is left of the mint limit in this slot.
MintCapacity == IF mm.mintLimit >= MintedBefore THEN mm.mintLimit - MintedBefore ELSE 0

MakerNext ==
  \/ \E k \in Keys :
       \/ \E l \in MakerLimits, b \in MakerLimits, s \in Spreads :
            InitMarketMakerConfig(k, l, b, s)
       \/ \E maker \in Makers : RegisterMarketMaker(k, maker)
  \/ \E feed \in Makers \cup {NoKey} : FeedMoves(feed)
  \/ \E maker \in Makers, n \in Amounts, p \in PegPrices :
       MmMint(maker, n, p) \/ MmBurn(maker, n, p)

-----------------------------------------------------------------------------
MakerTypeOK ==
  /\ mm \in [open : BOOLEAN, makers : SUBSET Makers, mintLimit : Nat,
             burnLimit : Nat, spread : Nat, lastMintSlot : Nat, minted : Nat,
             lastBurnSlot : Nat, burned : Nat]
  /\ mmIn \in [minted : Nat, burned : Nat]

\* All market makers together stay within the two limits in every slot, and
\* the capacity get_mm_capacity reports is exactly what is left: the lazily
\* restarted counters lose and invent nothing (mm_mint, mm_burn).
MakersWithinLimits ==
  mm.open => /\ mmIn.minted + MintCapacity = mm.mintLimit
             /\ mmIn.burned =< mm.burnLimit

=============================================================================
