-------------------------------- MODULE Cdp --------------------------------
(***************************************************************************)
(* A preset-3 stablecoin: positions, and the insurance vault that looks at *)
(* the supply they create.  parts says which of the two this issuer uses;  *)
(* an issuer with an insurance vault has minters too.                      *)
(***************************************************************************)
EXTENDS CdpPositions, InsuranceVault

CONSTANT PartSets   \* sets of parts an issuer may use

ASSUME PartAssumption == PartSets \subseteq SUBSET {"positions", "insurance"}

VARIABLE parts      \* the parts this issuer uses; never changes

vars == <<cdpVars, insuranceVars, parts>>

Init ==
  /\ parts \in PartSets
  /\ InitCdp
  /\ InitInsurance

NetSupply == Max({totalMinted - totalBurned, 0})

PositionStep ==
  /\ "positions" \in parts
  /\ CdpNext
  /\ UNCHANGED <<insuranceVars, parts>>

InsuranceStep ==
  /\ "insurance" \in parts
  /\ InsuranceNext(NetSupply)
  /\ UNCHANGED <<cdpVars, parts>>

MinterStep ==
  /\ "insurance" \in parts
  /\ \E u \in Users, n \in Amounts : Issue(u, n)
  /\ UNCHANGED <<insuranceVars, parts>>

Next == PositionStep \/ InsuranceStep \/ MinterStep

Spec == Init /\ [][Next]_vars

-----------------------------------------------------------------------------
\* Type invariant of the whole.
TypeOK == CdpTypeOK /\ InsuranceTypeOK

\* No counter, debt or deposit falls below zero, those that only some callers
\* move included (total_deposited), and every borrowed token is still owed
\* (cdp_borrow_stable.rs, cdp_repay_stable.rs, both liquidations).
DebtSound == TypeOK /\ EveryTokenIsOwed

=============================================================================
