---------------------------- MODULE TreasuryEscrow ----------------------------
(***************************************************************************)
(* What the deployment pipeline promises the treasury: every deployment    *)
(* may take Cost lamports out of it once, can only give lamports back      *)
(* afterwards, and is a success only while at least the rent of a program  *)
(* is still locked for it.  Deployment implements this specification.      *)
(***************************************************************************)
EXTENDS Integers

CONSTANTS Deployments, Cost, Rent, InitialTreasury

VARIABLES
  pool,      \* lamports of the treasury
  out,       \* lamports that each deployment holds, in whatever account
  drawn,     \* lamports that each deployment ever took
  outcome    \* what the user is told of each deployment

escrowVars == <<pool, out, drawn, outcome>>

Outcome == {"none", "open", "success", "failed"}

Open(d) ==
  /\ outcome[d] = "none"
  /\ outcome' = [outcome EXCEPT ![d] = "open"]
  /\ UNCHANGED <<pool, out, drawn>>

\* The transfer may land after the deployment was already declared failed.
Draw(d) ==
  /\ outcome[d] \in {"open", "failed"}
  /\ drawn[d] = 0
  /\ pool >= Cost
  /\ pool' = pool - Cost
  /\ out' = [out EXCEPT ![d] = @ + Cost]
  /\ drawn' = [drawn EXCEPT ![d] = Cost]
  /\ UNCHANGED outcome

\* What does not arrive is the fee of the transfer.
Return(d) ==
  /\ outcome[d] # "success"
  /\ \E back \in 0 .. out[d] : \E fee \in 0 .. out[d] - back :
       /\ pool' = pool + back
       /\ out' = [out EXCEPT ![d] = @ - back - fee]
  /\ UNCHANGED <<drawn, outcome>>

\* A run that was told to be a success but then fails sweeps what is left.
ReturnRest(d) ==
  /\ outcome[d] = "success"
  /\ \E back \in 0 .. out[d] : \E fee \in 0 .. out[d] - back :
       /\ out[d] - back - fee >= Rent
       /\ pool' = pool + back
       /\ out' = [out EXCEPT ![d] = @ - back - fee]
  /\ UNCHANGED <<drawn, outcome>>

Succeed(d) ==
  /\ outcome[d] = "open" /\ out[d] >= Rent
  /\ outcome' = [outcome EXCEPT ![d] = "success"]
  /\ UNCHANGED <<pool, out, drawn>>

Fail(d) ==
  /\ outcome[d] \in {"open", "success"}
  /\ outcome' = [outcome EXCEPT ![d] = "failed"]
  /\ UNCHANGED <<pool, out, drawn>>

EscrowInit ==
  /\ pool = InitialTreasury
  /\ out = [d \in Deployments |-> 0]
  /\ drawn = [d \in Deployments |-> 0]
  /\ outcome = [d \in Deployments |-> "none"]

EscrowNext == \E d \in Deployments :
  Open(d) \/ Draw(d) \/ Return(d) \/ ReturnRest(d) \/ Succeed(d) \/ Fail(d)

EscrowSpec == EscrowInit /\ [][EscrowNext]_escrowVars
=============================================================================
