------------------------------- MODULE Escrow -------------------------------
(***************************************************************************)
(* What an escrow promises, whatever contract governs it: a deposit is     *)
(* held whole until the escrow closes, and it closes once, the deposit     *)
(* split between the one it was meant for and the one who made it.         *)
(* Payment channels and probabilistic vaults implement it (Escrows).       *)
(***************************************************************************)
EXTENDS Integers

CONSTANTS
  Ids,     \* the escrows
  Amounts  \* what may be deposited

VARIABLES
  phase,     \* "none", "held" or "closed"
  deposit,   \* what was deposited
  held,      \* what the escrow account holds
  paid,      \* what went to the beneficiary
  returned   \* what went back to the depositor

vars == <<phase, deposit, held, paid, returned>>

Init ==
  /\ phase = [i \in Ids |-> "none"]
  /\ deposit = [i \in Ids |-> 0]
  /\ held = [i \in Ids |-> 0]
  /\ paid = [i \in Ids |-> 0]
  /\ returned = [i \in Ids |-> 0]

Open(i) ==
  /\ phase[i] = "none"
  /\ \E n \in Amounts \ {0} : /\ deposit' = [deposit EXCEPT ![i] = n]
                              /\ held' = [held EXCEPT ![i] = n]
  /\ phase' = [phase EXCEPT ![i] = "held"]
  /\ UNCHANGED <<paid, returned>>

Close(i) ==
  /\ phase[i] = "held"
  /\ \E x \in 0..deposit[i] : /\ paid' = [paid EXCEPT ![i] = x]
                              /\ returned' = [returned EXCEPT ![i] = deposit[i] - x]
  /\ held' = [held EXCEPT ![i] = 0]
  /\ phase' = [phase EXCEPT ![i] = "closed"]
  /\ UNCHANGED deposit

Next == \E i \in Ids : Open(i) \/ Close(i)

Spec == Init /\ [][Next]_vars

=============================================================================
