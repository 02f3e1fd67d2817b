--------------------------- MODULE InsuranceVault ---------------------------
(***************************************************************************)
(* insurance_vault.rs: the first-loss vault an issuer seeds.  While a DAO  *)
(* committee is installed (daoOn), drawing needs an executed proposal with *)
(* action DrawInsurance that names the signer and an amount, its mandate;  *)
(* several draws may share a mandate.  netSupply is the config's           *)
(* total_minted - total_burned, read by the caller of these operators.     *)
(***************************************************************************)
EXTENDS Integers, Sums

CONSTANTS
  Signers,           \* keys that may ask for a draw
  InsuranceAuthority,\* config.authority
  Mandates,          \* ids of DrawInsurance proposals
  InsuranceAmounts,  \* amounts of collateral
  SeedShares,        \* values given for min_seed_bps
  DrawShares,        \* values given for max_draw_per_event_bps
  INSURANCE_BPS,     \* 10_000 in the code
  MaxSeeded          \* bound on the collateral put into the vault

ASSUME InsuranceAssumption ==
  /\ InsuranceAuthority \in Signers /\ IsFiniteSet(Mandates)
  /\ InsuranceAmounts \subseteq Nat /\ SeedShares \subseteq Nat /\ DrawShares \subseteq Nat
  /\ INSURANCE_BPS \in Nat \ {0} /\ MaxSeeded \in Nat

VARIABLES
  insurance,  \* the InsuranceVault account
  daoOn,      \* FLAG_DAO_COMMITTEE
  mandate,    \* the ProposalPda of each mandate
  daoDrawn    \* history: drawn while daoOn

insuranceVars == <<insurance, daoOn, mandate, daoDrawn>>

NoInsurance ==
  [open |-> FALSE, minSeed |-> 0, maxDraw |-> 0, balance |-> 0, drawn |-> 0, seeded |-> FALSE]
NoMandate == [executed |-> FALSE, target |-> InsuranceAuthority, amount |-> 0, consumed |-> 0]

InitInsurance ==
  /\ insurance = NoInsurance
  /\ daoOn = FALSE
  /\ mandate = [i \in Mandates |-> NoMandate]
  /\ daoDrawn = 0

RequiredSeedAmount(minSeed, netSupply) == (netSupply * minSeed) \div INSURANCE_BPS

\* init_insurance_vault: with no minimum the vault counts as seeded at once.
InitInsuranceVault(minSeed, maxDraw) ==
  /\ minSeed =< INSURANCE_BPS
  /\ ~insurance.open
  /\ insurance' = [NoInsurance EXCEPT !.open = TRUE, !.minSeed = minSeed,
                                      !.maxDraw = maxDraw, !.seeded = (minSeed = 0)]
  /\ UNCHANGED <<daoOn, mandate, daoDrawn>>

WithBalance(n, netSupply) ==
  [insurance EXCEPT !.balance = n,
                    !.seeded = n >= RequiredSeedAmount(insurance.minSeed, netSupply)]

\* seed_insurance_vault and replenish_insurance_vault: anyone.
SeedInsuranceVault(n, netSupply) ==
  /\ n > 0
  /\ insurance.open
  /\ insurance.balance + insurance.drawn + n =< MaxSeeded
  /\ insurance' = WithBalance(insurance.balance + n, netSupply)
  /\ UNCHANGED <<daoOn, mandate, daoDrawn>>

\* Mutant: a mandate can be used again and again.
ConsumedAfterNone(i, n) == mandate[i].consumed

ConsumedAfter(i, n) == mandate[i].consumed + n

MaxDraw(netSupply) ==
  IF insurance.maxDraw = 0 THEN insurance.balance
  ELSE Min({(netSupply * insurance.maxDraw) \div INSURANCE_BPS, insurance.balance})

Mandated(s, i, n) ==
  /\ mandate[i].executed
  /\ mandate[i].target = s
  /\ mandate[i].consumed + n =< mandate[i].amount

\* What draw_insurance does once it is authorised.
Draw(n, netSupply) ==
  /\ n > 0
  /\ insurance.open
  /\ insurance.balance > 0
  /\ n =< MaxDraw(netSupply)
  /\ insurance' = [WithBalance(insurance.balance - n, netSupply) EXCEPT !.drawn = @ + n]
  /\ UNCHANGED daoOn

DrawByAuthority(n, netSupply) ==
  /\ ~daoOn
  /\ Draw(n, netSupply)
  /\ UNCHANGED <<mandate, daoDrawn>>

DrawByMandate(s, i, n, netSupply) ==
  /\ daoOn
  /\ Mandated(s, i, n)
  /\ Draw(n, netSupply)
  /\ mandate' = [mandate EXCEPT ![i].consumed = ConsumedAfter(i, n)]
  /\ daoDrawn' = daoDrawn + n

\* The committee is installed (once), and executes a proposal (module
\* DaoCommittee).
CommitteeInstalled ==
  /\ ~daoOn
  /\ daoOn' = TRUE
  /\ UNCHANGED <<insurance, mandate, daoDrawn>>

MandateExecuted(i, s, n) ==
  /\ daoOn
  /\ ~mandate[i].executed
  /\ mandate' = [mandate EXCEPT ![i] =
       [executed |-> TRUE, target |-> s, amount |-> n, consumed |-> 0]]
  /\ UNCHANGED <<insurance, daoOn, daoDrawn>>

InsuranceNext(netSupply) ==
  \/ \E m \in SeedShares, d \in DrawShares : InitInsuranceVault(m, d)
  \/ CommitteeInstalled
  \/ \E n \in InsuranceAmounts :
       \/ SeedInsuranceVault(n, netSupply)
       \/ DrawByAuthority(n, netSupply)
       \/ \E s \in Signers, i \in Mandates : \/ MandateExecuted(i, s, n)
                                             \/ DrawByMandate(s, i, n, netSupply)

-----------------------------------------------------------------------------
InsuranceRecords ==
  [open : BOOLEAN, minSeed : 0..INSURANCE_BPS, maxDraw : DrawShares \cup {0},
   balance : 0..MaxSeeded, drawn : 0..MaxSeeded, seeded : BOOLEAN]
MandateRecords ==
  [executed : BOOLEAN, target : Signers, amount : InsuranceAmounts \cup {0}, consumed : Nat]

InsuranceTypeOK ==
  /\ insurance \in InsuranceRecords
  /\ daoOn \in BOOLEAN
  /\ mandate \in [Mandates -> MandateRecords]
  /\ daoDrawn \in Nat

\* Once a committee decides, what leaves the vault never exceeds what its
\* executed proposals approved, in however many draws and across mandates
\* (BUG-AUDIT3-005: the replay of a proposal).
DrawsWithinMandates ==
  daoDrawn =< Total([i \in Mandates |-> mandate[i].amount])

=============================================================================
