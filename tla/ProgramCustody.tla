---------------------------- MODULE ProgramCustody ----------------------------
(***************************************************************************)
(* What closing a program promises: lamports that are in the custody of a  *)
(* deployment go to the treasury and nowhere else, the rent stays locked   *)
(* while the program lives, and a row says closed only of a program that   *)
(* is gone.  CloseProgram implements this specification.                   *)
(***************************************************************************)
EXTENDS Integers

CONSTANTS Deployments, Rent, InitialAdmin

VARIABLES
  live,    \* is the deployment's program on chain?
  held,    \* lamports in the deployment's program and wallet
  purse,   \* lamports of the admin wallet
  pool,    \* lamports the treasury received
  row      \* what the deployments table says

custodyVars == <<live, held, purse, pool, row>>

\* The admin lends lamports for fees.
Lend(d) ==
  /\ \E x \in 0 .. purse : \E fee \in 0 .. purse - x :
       /\ held' = [held EXCEPT ![d] = @ + x]
       /\ purse' = purse - x - fee
  /\ UNCHANGED <<live, pool, row>>

Reclaim(d) ==
  /\ live[d]
  /\ live' = [live EXCEPT ![d] = FALSE]
  /\ \E fee \in 0 .. held[d] : held' = [held EXCEPT ![d] = @ - fee]
  /\ UNCHANGED <<purse, pool, row>>

Return(d) ==
  /\ \E back \in 0 .. held[d] : \E fee \in 0 .. held[d] - back :
       /\ live[d] => held[d] - back - fee >= Rent
       /\ held' = [held EXCEPT ![d] = @ - back - fee]
       /\ pool' = pool + back
  /\ UNCHANGED <<live, purse, row>>

DeclareClosed(d) ==
  /\ ~live[d]
  /\ row' = [row EXCEPT ![d] = "closed"]
  /\ UNCHANGED <<live, held, purse, pool>>

DeclareFailed(d) ==
  /\ row' = [row EXCEPT ![d] = "failed"]
  /\ UNCHANGED <<live, held, purse, pool>>

CustodyInit ==
  /\ live \in [Deployments -> BOOLEAN]
  /\ \A d \in Deployments : held[d] >= IF live[d] THEN Rent ELSE 0
  /\ purse = InitialAdmin /\ pool = 0
  /\ row \in [Deployments -> {"success", "failed"}]
  /\ \A d \in Deployments : row[d] = "success" => live[d]

CustodyNext == \E d \in Deployments :
  Lend(d) \/ Reclaim(d) \/ Return(d) \/ DeclareClosed(d) \/ DeclareFailed(d)

CustodySpec == CustodyInit /\ [][CustodyNext]_custodyVars
=============================================================================
