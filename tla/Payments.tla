-------------------------------- MODULE Payments --------------------------------
(***************************************************************************)
(* TransactionService.verifyMultipleTransfers: does a confirmed            *)
(* transaction, given as the sequence of its transfers, pay what is        *)
(* expected of a payer?                                                    *)
(***************************************************************************)
EXTENDS Integers, Sequences, FiniteSets, SequencesExt

CONSTANT Tolerance   \* 0.001 SOL

ASSUME ToleranceAssumption == Tolerance \in Nat

Near(found, expected) == expected - found <= Tolerance /\ found - expected <= Tolerance

\* The transfers between two accounts, by their places in the transaction.
Between(transfers, from, to) ==
  {i \in DOMAIN transfers : transfers[i].from = from /\ transfers[i].to = to}

\* transfers.find: the first of them.
IsFirst(transfers, i, from, to) ==
  /\ i \in Between(transfers, from, to)
  /\ \A j \in Between(transfers, from, to) : i <= j

\* Faulty variant: the sender of a transfer is not compared.
PaidByAnyone(transfers, from, to, amount) ==
  \E i \in DOMAIN transfers : transfers[i].to = to /\ Near(transfers[i].amount, amount)

\* The first transfer to a pool must be of about the expected amount.  What
\* the code does with the sum of several transfers is for a first one that
\* does not exist, and then the sum is 0.
Paid(transfers, from, to, amount) ==
  \E i \in DOMAIN transfers :
     IsFirst(transfers, i, from, to) /\ Near(transfers[i].amount, amount)

TotalFrom(transfers, from) ==
  FoldSeq(LAMBDA t, sum : sum + (IF t.from = from THEN t.amount ELSE 0), 0, transfers)

\* The recipients that anything is expected for.
Due(expected) == {to \in DOMAIN expected : expected[to] > 0}

\* A transaction with too few transfers is refused unless its total is right;
\* if it is, the search that follows decides all the same.
TotalMatches(transfers, from, total) == Near(TotalFrom(transfers, from), total)

VerifyMultipleTransfers(transfers, from, expected) ==
  /\ Len(transfers) < Cardinality(Due(expected)) =>
       TotalMatches(transfers, from, SumFunction([to \in Due(expected) |-> expected[to]]))
  /\ \A to \in Due(expected) : Paid(transfers, from, to, expected[to])
=============================================================================
