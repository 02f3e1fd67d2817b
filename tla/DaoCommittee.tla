---------------------------- MODULE DaoCommittee ----------------------------
(***************************************************************************)
(* dao_committee.rs: a committee whose proposals pause, unpause and switch *)
(* feature flags once a quorum of members has voted.  The proposal's       *)
(* cancelled field is left out: no instruction sets it.                    *)
(***************************************************************************)
EXTENDS StablecoinConfig, Sequences, SequencesExt

CONSTANTS
  Committees,       \* the member lists the authority may register
  DaoActions,       \* the actions members propose
  DaoMasks,         \* the flag masks they name
  MaxDaoProposals   \* bound on next_proposal_id

ProposalActions == {"Pause", "Unpause", "SetFeatureFlag", "ClearFeatureFlag",
                    "UpdateMinter", "RevokeMinter", "DrawInsurance"}

ASSUME DaoAssumption ==
  /\ Committees \subseteq SUBSET Keys
  /\ DaoActions \subseteq ProposalActions
  /\ DaoMasks \subseteq SUBSET Flags
  /\ MaxDaoProposals \in Nat

VARIABLES
  committee,  \* DaoCommitteeConfig: members and quorum
  proposals   \* ProposalPda accounts; the index is the proposal id

daoVars == <<committee, proposals>>

NoCommittee == [members |-> {}, quorum |-> 0]
MAX_MEMBERS == 10

InitDao == committee = NoCommittee /\ proposals = <<>>

daoUnchanged == <<slot, roleVars, opVars, settings>>

\* init_dao_committee: once, by the authority; switches the flag on.
InitDaoCommittee(k, members, quorum) ==
  /\ AuthoritySigns(k)
  /\ committee = NoCommittee
  /\ members # {} /\ Cardinality(members) =< MAX_MEMBERS
  /\ quorum >= 1 /\ quorum =< Cardinality(members)
  /\ committee' = [members |-> members, quorum |-> quorum]
  /\ flags' = flags \cup {FLAG_DAO_COMMITTEE}
  /\ UNCHANGED <<daoUnchanged, paused, proposals>>

\* propose_action: the authority or a member; under the Squads flag the
\* proposer must also be the multisig.
ProposeAction(k, action, bits) ==
  /\ committee # NoCommittee
  /\ FLAG_DAO_COMMITTEE \in flags
  /\ IsAuthority(k) \/ k \in committee.members
  /\ SquadsEnforced(k)
  /\ Len(proposals) < MaxDaoProposals
  /\ proposals' = Append(proposals,
       [action |-> action, bits |-> bits, votes |-> <<>>,
        quorum |-> committee.quorum, executed |-> FALSE])
  /\ UNCHANGED <<daoUnchanged, flags, paused, committee>>

\* Mutant: a member may vote twice.
MemberNotVotedUnchecked(k, votes) == TRUE

MemberNotVoted(k, votes) == ~Contains(votes, k)

\* vote_action.
VoteAction(k, id) ==
  /\ k \in committee.members
  /\ ~proposals[id].executed
  /\ MemberNotVoted(k, proposals[id].votes)
  /\ proposals' = [proposals EXCEPT ![id].votes = Append(@, k)]
  /\ UNCHANGED <<daoUnchanged, flags, paused, committee>>

\* The proposal has not run yet and has its quorum.
Executable(p) == ~p.executed /\ Len(p.votes) >= p.quorum

\* execute_action: anyone.  Minter and insurance actions change nothing here.
ExecuteAction(id) ==
  LET p == proposals[id] IN
  /\ Executable(p)
  /\ p.action = "ClearFeatureFlag" => ClearMaskAllowed(p.bits)
  /\ proposals' = [proposals EXCEPT ![id].executed = TRUE]
  /\ paused' = CASE p.action = "Pause"   -> TRUE
                 [] p.action = "Unpause" -> FALSE
                 [] OTHER                -> paused
  /\ flags' = CASE p.action = "SetFeatureFlag"   -> flags \cup p.bits
                [] p.action = "ClearFeatureFlag" -> flags \ p.bits
                [] OTHER                         -> flags
  /\ UNCHANGED <<daoUnchanged, committee>>

DaoNext ==
  \/ \E k \in Keys :
       \/ \E m \in Committees : \E q \in 1..Cardinality(m) : InitDaoCommittee(k, m, q)
       \/ \E a \in DaoActions : \E bits \in DaoMasks : ProposeAction(k, a, bits)
       \/ \E id \in DOMAIN proposals : VoteAction(k, id)
  \/ \E id \in DOMAIN proposals : ExecuteAction(id)

=============================================================================
