------------------------------- MODULE PidFee -------------------------------
(***************************************************************************)
(* The controller of the stability fee: pid_fee.rs.  The price is the      *)
(* caller's word, whoever calls; with an oracle configured it must be      *)
(* within a tenth of the target, and is not compared with the oracle.      *)
(*                                                                         *)
(* Slots are kept as the slots since the last update, up to the cooldown.  *)
(***************************************************************************)
EXTENDS Integers

CONSTANTS
  Gains,           \* [kp, ki, kd, target, min, max]: what init_pid_config is given
  ReportedPrices,  \* prices a caller may report
  PID_SCALE,       \* 1_000_000 in the code
  INTEGRAL_MAX,    \* 1_000_000_000 in the code
  COOLDOWN,        \* 10 slots in the code
  BoundChoices     \* whether an oracle is configured, which bounds the report

ASSUME PidAssumption ==
  /\ Gains \subseteq [kp : Int, ki : Int, kd : Int, target : Nat, min : Nat, max : Nat]
  /\ ReportedPrices \subseteq Nat
  /\ PID_SCALE \in Nat \ {0} /\ INTEGRAL_MAX \in Nat /\ COOLDOWN \in Nat
  /\ BoundChoices \subseteq BOOLEAN

VARIABLES
  pid,               \* the PidConfig account
  stabilityFeeBps    \* config.stability_fee_bps

pidVars == <<pid, stabilityFeeBps>>

NoPid == [open |-> FALSE, kp |-> 0, ki |-> 0, kd |-> 0, target |-> 0, min |-> 0,
          max |-> 0, lastError |-> 0, integral |-> 0, since |-> 0, bounded |-> FALSE]

InitPid == pid = NoPid /\ stabilityFeeBps = 0

InitPidConfig(g, bounded) ==
  /\ ~pid.open
  /\ g.min =< g.max
  /\ pid' = [NoPid EXCEPT !.open = TRUE, !.kp = g.kp, !.ki = g.ki, !.kd = g.kd,
                          !.target = g.target, !.min = g.min, !.max = g.max,
                          !.bounded = bounded]
  /\ UNCHANGED stabilityFeeBps

Clamp(x, lo, hi) == IF x < lo THEN lo ELSE IF x > hi THEN hi ELSE x

\* Division of the code rounds toward zero.
Truncated(x, d) == IF x >= 0 THEN x \div d ELSE -((-x) \div d)

\* Mutant: the integral forgets.
IntegralAfterLast(e) == Clamp(e, -INTEGRAL_MAX, INTEGRAL_MAX)

IntegralAfter(e) == Clamp(pid.integral + e, -INTEGRAL_MAX, INTEGRAL_MAX)

DeltaBps(e) ==
  Truncated(pid.kp * e + pid.ki * IntegralAfter(e) + pid.kd * (e - pid.lastError), PID_SCALE)

\* The sanity bound on the report.
ReportAllowed(p) ==
  pid.bounded => p \in (pid.target - pid.target \div 10)..(pid.target + pid.target \div 10)

UpdateStabilityFeePid(p) ==
  LET e == pid.target - p IN
  /\ pid.open
  /\ pid.since >= COOLDOWN
  /\ ReportAllowed(p)
  /\ stabilityFeeBps' = Clamp(stabilityFeeBps + DeltaBps(e), pid.min, pid.max)
  /\ pid' = [pid EXCEPT !.lastError = e, !.integral = IntegralAfter(e), !.since = 0]

PidSlotPasses ==
  /\ pid.open
  /\ pid.since < COOLDOWN
  /\ pid' = [pid EXCEPT !.since = @ + 1]
  /\ UNCHANGED stabilityFeeBps

PidNext ==
  \/ \E g \in Gains, b \in BoundChoices : InitPidConfig(g, b)
  \/ \E p \in ReportedPrices : UpdateStabilityFeePid(p)
  \/ PidSlotPasses

-----------------------------------------------------------------------------
PidTypeOK ==
  /\ stabilityFeeBps \in Nat
  /\ pid \in [open : BOOLEAN, kp : Int, ki : Int, kd : Int, target : Nat, min : Nat,
              max : Nat, lastError : Int, integral : Int, since : Nat, bounded : BOOLEAN]

\* While every report stays below the target the fee climbs to its ceiling and
\* stays there, and above the target it falls to its floor, however far the
\* integral was wound up the other way before (the anti-windup clamp) and
\* though single steps round to nothing.
FeeFollowsPeg ==
  /\ <>[](pid.open /\ pid.lastError > 0) => <>[](stabilityFeeBps = pid.max)
  /\ <>[](pid.open /\ pid.lastError < 0) => <>[](stabilityFeeBps = pid.min)

=============================================================================
