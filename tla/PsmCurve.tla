------------------------------ MODULE PsmCurve ------------------------------
(***************************************************************************)
(* Redemption at a fee that follows a curve: psm_amm_slippage.rs and       *)
(* PsmCurveConfig::compute_fee.                                            *)
(***************************************************************************)
EXTENDS Issuance, FiniteSetsExt

CONSTANTS
  Curves,            \* [base, k, max]: the parameters the authority may give
  PSM_MAX_FEE_BPS,   \* 1_000 in the code
  RATIO_SCALE        \* 1_000_000 in the code

ASSUME PsmAssumption ==
  /\ Curves \subseteq [base : Nat, k : Nat, max : Nat]
  /\ PSM_MAX_FEE_BPS \in 0..BPS
  /\ RATIO_SCALE \in Nat \ {0}

VARIABLE curve       \* the PsmCurveConfig account

NoCurve == [open |-> FALSE, base |-> 0, k |-> 0, max |-> 0]

InitCurve == curve = NoCurve

\* validate_curve_params.
ValidCurve(c) == c.base =< c.max /\ c.max =< PSM_MAX_FEE_BPS

OpenCurve(c) == [open |-> TRUE, base |-> c.base, k |-> c.k, max |-> c.max]

\* init_psm_curve_config turns the feature on as well.
InitPsmCurveConfig(key, c) ==
  /\ AuthoritySigns(key)
  /\ preset = 3
  /\ ~curve.open
  /\ ValidCurve(c)
  /\ curve' = OpenCurve(c)
  /\ flags' = flags \cup {FLAG_PSM_DYNAMIC_FEES}
  /\ UNCHANGED <<clockVars, roleVars, paused, opVars, settings, issuanceVars>>

UpdatePsmCurveConfig(key, c) ==
  /\ AuthoritySigns(key)
  /\ curve.open
  /\ ValidCurve(c)
  /\ curve' = OpenCurve(c)
  /\ UNCHANGED <<clockVars, configVars, issuanceVars>>

-----------------------------------------------------------------------------
\* compute_fee: the squared distance of the vault from half the recorded
\* collateral, clamped.
ComputeFee ==
  LET ideal == totalCollateral \div 2
      imbalance == IF vault > ideal THEN vault - ideal ELSE ideal - vault
      ratio == (imbalance * RATIO_SCALE) \div totalCollateral
      delta == Min({(curve.k * ratio * ratio) \div (RATIO_SCALE * RATIO_SCALE),
                    curve.max})
  IN  IF totalCollateral = 0 THEN curve.base ELSE Min({curve.base + delta, curve.max})

\* What is paid for n, in a swap and in a quote (get_psm_quote).
SwapOut(n) == n - (n * ComputeFee) \div BPS

RecordAfterSwap(n) == totalCollateral - SwapOut(n)

\* psm_dynamic_swap: the circuit breaker is not looked at.
PsmDynamicSwap(h, n) ==
  /\ preset = 3
  /\ ~paused
  /\ FLAG_PSM_DYNAMIC_FEES \in flags
  /\ curve.open
  /\ n > 0
  /\ vault >= n
  /\ SwapOut(n) > 0
  /\ Burn(h, n)
  /\ vault' = vault - SwapOut(n)
  /\ totalBurned + n =< U64_MAX
  /\ totalBurned' = totalBurned + n
  /\ totalCollateral >= SwapOut(n)
  /\ totalCollateral' = RecordAfterSwap(n)
  /\ UNCHANGED <<clockVars, configVars, maxSupply, totalMinted, accountVars,
                 mintedIn, curve>>

CurveNext ==
  \/ \E key \in Keys, c \in Curves :
       InitPsmCurveConfig(key, c) \/ UpdatePsmCurveConfig(key, c)
  \/ \E h \in Keys, n \in Amounts : PsmDynamicSwap(h, n)

CurveTypeOK == curve \in [open : BOOLEAN, base : Nat, k : Nat, max : Nat]

=============================================================================
