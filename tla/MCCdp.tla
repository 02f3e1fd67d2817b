------------------------------- MODULE MCCdp -------------------------------
(***************************************************************************)
(* Cdp for TLC: the sets the configurations name.                          *)
(***************************************************************************)
EXTENDS Cdp

CONSTANTS a, b, x, y, none

mcAB == {a, b}
mcA == {a}
mcXY == {x, y}
mcX == {x}
mcHoldings ==
  [u \in Users |-> [c \in Collaterals |-> IF u # a THEN 0 ELSE IF c = x THEN 3 ELSE 1]]
\* The two prices agree, or the Pyth feed falls behind.
mcQuotes ==
  {[price |-> p, pyth |-> p] : p \in {2, 3, 4}} \cup {[price |-> 4, pyth |-> 1]}
mcParams ==
  {[whitelisted |-> TRUE, ltv |-> 5, threshold |-> 10, bonus |-> 2, cap |-> 3]}
mcGates == {{}, {"paused", "breaker"}}
mcParts == {{"positions"}, {"insurance"}}

=============================================================================
