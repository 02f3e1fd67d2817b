------------------------------ MODULE Guardian ------------------------------
(***************************************************************************)
(* guardian.rs: a council of guardians pauses the mint by votes, and a     *)
(* pause of theirs is lifted by all of them, or by the authority once the  *)
(* override delay has passed.                                              *)
(***************************************************************************)
EXTENDS StablecoinConfig, Sequences, SequencesExt

CONSTANTS
  Councils,           \* the guardian lists the authority may register
  OVERRIDE_DELAY,     \* GUARDIAN_PAUSE_AUTHORITY_OVERRIDE_DELAY, 86_400 s
  MaxPauseProposals   \* bound on next_proposal_id

ASSUME GuardianAssumption ==
  /\ Councils \subseteq SUBSET Keys
  /\ \A g \in Councils : IsFiniteSet(g)   \* a Vec of public keys
  /\ OVERRIDE_DELAY \in Nat
  /\ MaxPauseProposals \in Nat

VARIABLES
  council,         \* GuardianConfig: guardians and threshold
  guardianPause,   \* GuardianConfig: guardian_pause_active and _unlocks_at
  liftVotes,       \* GuardianConfig: pending_lift_votes
  pauseProposals,  \* PauseProposal accounts; the index is the proposal id
  liftersSince     \* history: guardians that asked to lift since the last
                   \* guardian pause

guardianVars == <<council, guardianPause, liftVotes, pauseProposals, liftersSince>>

NoCouncil == [guardians |-> {}, threshold |-> 0]
NoGuardianPause == [active |-> FALSE, unlocksAt |-> 0]

MAX_GUARDIANS == 7

InitGuardian ==
  /\ council = NoCouncil
  /\ guardianPause = NoGuardianPause
  /\ liftVotes = <<>>
  /\ pauseProposals = <<>>
  /\ liftersSince = {}

guardianUnchanged == <<slot, roleVars, flags, opVars, settings>>

\* init_guardian_config: once, by the authority.
InitGuardianConfig(k, guardians, threshold) ==
  /\ AuthoritySigns(k)
  /\ council = NoCouncil
  /\ guardians # {} /\ Cardinality(guardians) =< MAX_GUARDIANS
  /\ threshold >= 1 /\ threshold =< Cardinality(guardians)
  /\ council' = [guardians |-> guardians, threshold |-> threshold]
  /\ UNCHANGED <<guardianUnchanged, paused, guardianPause, liftVotes,
                 pauseProposals, liftersSince>>

\* Mutant: a guardian may vote twice.
NotVotedUnchecked(k, votes) == TRUE

\* A voter that is not in the list of votes yet.
NotVoted(k, votes) == ~Contains(votes, k)

\* The vote list reaches the threshold of the council.
ThresholdReached(votes) == Len(votes) >= council.threshold

\* Mutant: lift votes cast before the pause are kept.
LiftVotesAfterPauseKept == liftVotes

\* What a passed proposal does: pause, lock out the authority for the
\* override delay, forget earlier lift votes.
LiftVotesAfterPause == <<>>

ExecutePause ==
  /\ paused' = TRUE
  /\ guardianPause' = [active |-> TRUE, unlocksAt |-> slot + OVERRIDE_DELAY]
  /\ liftVotes' = LiftVotesAfterPause
  /\ liftersSince' = {}

\* guardian_propose_pause: the proposer's vote is the first.
GuardianProposePause(k) ==
  /\ k \in council.guardians
  /\ Len(pauseProposals) < MaxPauseProposals
  /\ pauseProposals' = Append(pauseProposals,
       [votes |-> <<k>>, executed |-> council.threshold = 1])
  /\ IF council.threshold = 1
       THEN ExecutePause
       ELSE UNCHANGED <<paused, guardianPause, liftVotes, liftersSince>>
  /\ UNCHANGED <<guardianUnchanged, council>>

\* guardian_vote_pause.
GuardianVotePause(k, id) ==
  LET votes == Append(pauseProposals[id].votes, k) IN
  /\ ~pauseProposals[id].executed
  /\ k \in council.guardians
  /\ NotVoted(k, pauseProposals[id].votes)
  /\ pauseProposals' = [pauseProposals EXCEPT
       ![id] = [votes |-> votes, executed |-> ThresholdReached(votes)]]
  /\ IF ThresholdReached(votes)
       THEN ExecutePause
       ELSE UNCHANGED <<paused, guardianPause, liftVotes, liftersSince>>
  /\ UNCHANGED <<guardianUnchanged, council>>

\* What every completed lift does.
Lift ==
  /\ paused' = FALSE
  /\ guardianPause' = NoGuardianPause
  /\ liftVotes' = <<>>

\* All guardians have voted to lift.
FullQuorum(votes) == Len(votes) >= Cardinality(council.guardians)

\* guardian_lift_pause called by a guardian, the authority included if it is
\* one: a vote, even when nothing is paused.
GuardianLiftVote(k) ==
  LET votes == Append(liftVotes, k) IN
  /\ k \in council.guardians
  /\ NotVoted(k, liftVotes)
  /\ IF FullQuorum(votes)
       THEN Lift
       ELSE /\ liftVotes' = votes
            /\ UNCHANGED <<paused, guardianPause>>
  /\ liftersSince' = liftersSince \cup {k}
  /\ UNCHANGED <<guardianUnchanged, council, pauseProposals>>

\* The authority's override window is open.
OverrideAllowed == guardianPause.active => slot >= guardianPause.unlocksAt

\* guardian_lift_pause called by an authority that is not a guardian.
AuthorityLiftPause(k) ==
  /\ council # NoCouncil
  /\ k \notin council.guardians
  /\ AuthoritySigns(k)
  /\ OverrideAllowed
  /\ Lift
  /\ UNCHANGED <<guardianUnchanged, council, pauseProposals, liftersSince>>

GuardianNext ==
  \E k \in Keys :
    \/ \E g \in Councils : \E t \in 1..Cardinality(g) : InitGuardianConfig(k, g, t)
    \/ GuardianProposePause(k)
    \/ \E id \in DOMAIN pauseProposals : GuardianVotePause(k, id)
    \/ GuardianLiftVote(k)
    \/ AuthorityLiftPause(k)

=============================================================================
