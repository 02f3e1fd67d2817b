------------------------ MODULE CircuitBreakerKeeper ------------------------
(***************************************************************************)
(* circuit_breaker_keeper.rs: anyone may pause the mint when the oracle    *)
(* price leaves the band around the peg, and anyone may try to unpause it  *)
(* when the price is back.  The oracle is outside the program: peg says    *)
(* whether the price it reports is inside the band.  The keeper's reward   *)
(* moves lamports only and is left out.                                    *)
(***************************************************************************)
EXTENDS StablecoinConfig

CONSTANTS
  MIN_COOLDOWN,     \* 10 slots in the code
  Cooldowns,        \* min_cooldown_slots values the authority may choose
  RecoverySlots     \* sustained_recovery_slots values it may choose

ASSUME KeeperAssumption ==
  /\ MIN_COOLDOWN \in Nat \ {0}
  /\ Cooldowns \subseteq Nat
  /\ RecoverySlots \subseteq Nat

VARIABLES
  keeper,      \* KeeperConfig parameters; NoKeeper before init_keeper_config
  lastTrigger, \* last_trigger_slot
  lastWithin,  \* last_within_threshold_slot
  peg          \* the oracle's price: "within" or "outside" the band

keeperVars == <<keeper, lastTrigger, lastWithin, peg>>

NoKeeper == [open |-> FALSE, cooldown |-> 0, recovery |-> 0]

InitKeeper ==
  /\ keeper = NoKeeper
  /\ lastTrigger = 0
  /\ lastWithin = 0
  /\ peg = "within"

keeperUnchanged == <<slot, roleVars, flags, opVars, settings>>

\* init_keeper_config: once, by the authority.
InitKeeperConfig(k, cooldown, recovery) ==
  /\ AuthoritySigns(k)
  /\ ~keeper.open
  /\ cooldown >= MIN_COOLDOWN
  /\ recovery > 0
  /\ keeper' = [open |-> TRUE, cooldown |-> cooldown, recovery |-> recovery]
  /\ lastTrigger' = 0
  /\ lastWithin' = 0
  /\ UNCHANGED <<keeperUnchanged, paused, peg>>

\* Mutant: the breaker fires once and never again.
CooldownOverOnce == lastTrigger = 0

\* The rate limit: a first trigger is free, later ones wait.
CooldownOver == lastTrigger > 0 => slot >= lastTrigger + keeper.cooldown

\* crank_circuit_breaker.
CrankCircuitBreaker ==
  /\ keeper.open
  /\ FLAG_CIRCUIT_BREAKER \in flags
  /\ CooldownOver
  /\ ~paused
  /\ peg = "outside"
  /\ paused' = TRUE
  /\ lastTrigger' = slot
  /\ lastWithin' = 0
  /\ UNCHANGED <<keeperUnchanged, keeper, peg>>

(***************************************************************************)
(* crank_unpause.  The handler writes last_within_threshold_slot before it *)
(* checks the recovery window; when the check fails the transaction is     *)
(* rolled back, and with it that write.                                    *)
(***************************************************************************)
RecoveryStart == IF lastWithin = 0 THEN slot ELSE lastWithin

RecoveryMet == slot - RecoveryStart >= keeper.recovery

CrankUnpause ==
  /\ keeper.open
  /\ paused
  /\ IF peg = "within" /\ RecoveryMet
       THEN /\ paused' = FALSE
            /\ lastWithin' = 0
            /\ UNCHANGED <<keeperUnchanged, keeper, lastTrigger, peg>>
       ELSE UNCHANGED <<configVars, slot, keeperVars>>

\* The oracle's price leaves or re-enters the band, as long as a recovery
\* window still fits under the bounded clock.
PegMoves ==
  /\ keeper.open
  /\ slot + keeper.recovery =< MaxSlot
  /\ peg' = IF peg = "within" THEN "outside" ELSE "within"
  /\ UNCHANGED <<slot, configVars, keeper, lastTrigger, lastWithin>>

KeeperNext ==
  \/ \E k \in Keys, c \in Cooldowns, r \in RecoverySlots : InitKeeperConfig(k, c, r)
  \/ CrankCircuitBreaker
  \/ CrankUnpause
  \/ PegMoves

=============================================================================
