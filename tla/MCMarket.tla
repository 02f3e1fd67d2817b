------------------------------ MODULE MCMarket ------------------------------
(***************************************************************************)
(* Market for TLC: the sets the configurations name.                       *)
(***************************************************************************)
EXTENDS Market

CONSTANTS a, b, none

mcNone == {}
mcA == {a}
mcB == {b}
mcAB == {a, b}

mcNoFlags == {{}}
mcGate == {{}, {FLAG_BRIDGE_ENABLED, FLAG_SANCTIONS_ORACLE, FLAG_MARKET_MAKER_HOOKS},
           {FLAG_CIRCUIT_BREAKER, FLAG_POR_HALT_ON_BREACH, FLAG_PSM_DYNAMIC_FEES}}
mcCurves == {[base |-> 0, k |-> 4, max |-> 1], [base |-> 1, k |-> 0, max |-> 1]}
mcPlain == [preset |-> 1, routes |-> {}]
mcIssuers == {[preset |-> 1, routes |-> {"bridge"}], [preset |-> 1, routes |-> {"makers"}],
              [preset |-> 3, routes |-> {"curve"}], mcPlain}

\* Bounds: an issuer without optional routes goes through epochs, limits,
\* interface versions and attestations; one with a route stays in an epoch,
\* without them.
OneThingAtATime ==
  IF routes = {}
    THEN flags \cap {FLAG_CIRCUIT_BREAKER, FLAG_BRIDGE_ENABLED} = {} /\ ~paused
    ELSE /\ epoch = 1 /\ slot =< 2
         /\ ~interface.open /\ ~por.open
         /\ \A m \in Minters : minters[m].maxMintPerEpoch = 0

=============================================================================
