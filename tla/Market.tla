------------------------------- MODULE Market -------------------------------
(***************************************************************************)
(* One stablecoin with every route by which tokens appear and disappear    *)
(* under its supply cap: minters, the bridge, market makers and the two    *)
(* ways to redeem.  routes says which of the optional ones an issuer uses. *)
(***************************************************************************)
EXTENDS Bridge, MarketMaker, PsmCurve

CONSTANT Issuers     \* [preset, routes]: the presets and optional routes considered

ASSUME IssuerAssumption ==
  Issuers \subseteq [preset : InitPresets, routes : SUBSET {"bridge", "makers", "curve"}]

VARIABLE routes      \* the optional routes of this issuer; never changes

marketVars == <<vars, bridgeVars, makerVars, curve, routes>>

MarketInit ==
  /\ Init
  /\ InitBridge
  /\ InitMakers
  /\ InitCurve
  /\ \E i \in Issuers : preset = i.preset /\ routes = i.routes

\* Everything Issuance does; a new slot ends what market makers did in the old.
IssuanceStep ==
  /\ Next
  /\ mmIn' = IF slot' = slot THEN mmIn ELSE NothingYet
  /\ UNCHANGED <<bridgeVars, mm, curve, routes>>

BridgeStep ==
  /\ "bridge" \in routes
  /\ BridgeNext
  /\ UNCHANGED <<makerVars, curve, routes>>

MakerStep ==
  /\ "makers" \in routes
  /\ MakerNext
  /\ UNCHANGED <<bridgeVars, curve, routes>>

CurveStep ==
  /\ "curve" \in routes
  /\ CurveNext
  /\ UNCHANGED <<bridgeVars, makerVars, routes>>

MarketNext == IssuanceStep \/ BridgeStep \/ MakerStep \/ CurveStep

MarketSpec == MarketInit /\ [][MarketNext]_marketVars

-----------------------------------------------------------------------------
\* Type invariant of all routes; every u64 stays within its width.
MarketTypeOK == TypeOK /\ BridgeTypeOK /\ MakerTypeOK /\ CurveTypeOK

=============================================================================
