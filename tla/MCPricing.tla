----------------------------- MODULE MCPricing -----------------------------
(***************************************************************************)
(* Pricing for TLC: the sets the configurations name.                      *)
(***************************************************************************)
EXTENDS Pricing

CONSTANTS x, z, none

mcX == {x}
mcSources ==
  {[type |-> ORACLE_PYTH, feed |-> x], [type |-> ORACLE_SWITCHBOARD, feed |-> x],
   [type |-> ORACLE_CUSTOM, feed |-> z], NoSource}
mcConsensus == {[min |-> 2, outlier |-> 5, maxAge |-> 1]}
mcGains == {[kp |-> 1, ki |-> 1, kd |-> 1, target |-> 20, min |-> 1, max |-> 3],
            [kp |-> 4, ki |-> 0, kd |-> 1, target |-> 20, min |-> 0, max |-> 2]}

=============================================================================
