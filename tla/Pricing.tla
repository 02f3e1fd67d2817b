------------------------------ MODULE Pricing ------------------------------
(***************************************************************************)
(* The two feedback loops of a preset-3 stablecoin that keepers turn: the  *)
(* price consensus and the controller of the stability fee.  They share no *)
(* state; loop says which one is looked at.                                *)
(***************************************************************************)
EXTENDS PriceConsensus, PidFee

CONSTANT Loops   \* subset of {"consensus", "controller"}

VARIABLE loop    \* never changes

vars == <<consensusVars, pidVars, loop>>

Init ==
  /\ loop \in Loops
  /\ InitConsensus
  /\ InitPid

ConsensusStep ==
  /\ loop = "consensus"
  /\ ConsensusNext
  /\ UNCHANGED <<pidVars, loop>>

Controlling(A) ==
  /\ loop = "controller"
  /\ A
  /\ UNCHANGED <<consensusVars, loop>>

Next == ConsensusStep \/ Controlling(PidNext)

Spec == Init /\ [][Next]_vars

\* The clock runs, and some keeper of the controller calls again and again.
LiveSpec ==
  /\ Spec
  /\ WF_vars(Controlling(PidSlotPasses))
  /\ WF_vars(Controlling(\E p \in ReportedPrices : UpdateStabilityFeePid(p)))

-----------------------------------------------------------------------------
\* Type invariant of both loops.
TypeOK == ConsensusTypeOK /\ PidTypeOK

\* The consensus account counts its sources rightly, whatever order they were
\* set, replaced, emptied and removed in (multi_oracle.rs).
SourcesSound == TypeOK /\ SourceCountExact

=============================================================================
