------------------------------ MODULE RewardPool ------------------------------
(***************************************************************************)
(* The reward pool.  Fees that an admin credits (creditFeeToPool) become   *)
(* rewards of the backers, which the program shares out by                 *)
(* reward_per_share; the excess, which nobody may claim, the admin may     *)
(* withdraw (adminWithdrawRewardPool).  Requests overlap at every await,   *)
(* and pc[c] names the call that request c awaits.                         *)
(*                                                                         *)
(* The on-chain program is external: its accumulator is what the IDL, the  *)
(* tables and calculateClaimableRewards say of it.  Backers stake, unstake *)
(* and claim without the backend.                                          *)
(***************************************************************************)
EXTENDS Integers, FiniteSets, Functions, FiniteSetsExt

CONSTANTS
  Backers,     \* backers
  Calls,       \* bound: requests of the admin
  Fees,        \* values of feeReward
  Stakes,      \* values a deposit can have
  Amounts,     \* values the admin asks to withdraw
  Precision,   \* the scale of reward_per_share
  Reserve,     \* rent of the reward pool account, which the struct does not track
  MaxMoves,    \* bound: stakes and unstakes of a backer
  MaxMishaps   \* bound: mishaps of all requests together

ASSUME RewardAssumption ==
  /\ IsFiniteSet(Backers) /\ Backers # {}
  /\ Fees \subseteq Nat /\ Stakes \subseteq Nat /\ Amounts \subseteq Nat
  /\ Precision \in Nat \ {0} /\ Reserve \in Nat
  /\ MaxMoves \in Nat /\ MaxMishaps \in Nat

VARIABLES
  account,     \* the BackerDeposit account of each backer
  moves,       \* how often a backer changed its deposit
  deposited,   \* total_deposited of the treasury struct
  perShare,    \* its reward_per_share
  tracked,     \* its reward_pool_balance
  lamports,    \* of the reward pool account
  pool,        \* the row of the pool table
  pc,          \* the call each request awaits
  job,         \* what each request is, and its local variables
  late,        \* instructions reported as errors that may still land
  goal,        \* ghost: see CreditFeeToPool and AdminWithdraw
  disturbed,   \* ghost: withdrawals whose reads do not fit together
  raced,       \* ghost: one of them was paid out
  overlapped,  \* ghost: two syncs were in flight at once
  mishaps      \* ghost: what went wrong in each request

backerVars == <<account, moves, deposited>>
rewardVars == <<perShare, tracked, lamports>>
callVars   == <<pc, job, late, mishaps>>
vars == <<backerVars, rewardVars, pool, callVars, goal, disturbed, raced, overlapped>>

SyncCalls   == {"stateReading", "poolWriting"}
BoardCalls  == {"pooling", "balancing", "listing"}
PayoutCalls == {"tracking", "checking", "withdrawing"}
Active == {"crediting"} \cup SyncCalls \cup BoardCalls \cup PayoutCalls
Label  == {"idle", "ok", "error", "dead"} \cup Active
Mishap == {"credit", "read", "struct", "row", "balance", "list", "check",
           "withdraw", "crash"}

Account == [deposit : Nat, debt : Nat, pending : Nat]
\* What getPoolState returns, as far as it is used and stored.
State   == [perShare : Nat, tracked : Nat]
Job     == [kind    : {"none", "credit", "sync", "withdraw"},
            arg     : Nat,     \* feeReward, or the amount to withdraw
            state   : State,   \* poolState
            balance : Nat]     \* rewardPoolBalance of the leaderboard

Zero  == [perShare |-> 0, tracked |-> 0]
NoJob == [kind |-> "none", arg |-> 0, state |-> Zero, balance |-> 0]

OnChain == [perShare |-> perShare, tracked |-> tracked]

\* What the program credits a backer with, and getLeaderboard computes.
Claimable(a, share) ==
  a.pending + IF a.deposit * share >= a.debt
                THEN (a.deposit * share - a.debt) \div Precision ELSE 0

TotalClaimable(share) == SumFunction([w \in Backers |-> Claimable(account[w], share)])
Owed == TotalClaimable(perShare)

-----------------------------------------------------------------------------
(* Control *)

At(S) == {c \in Calls : pc[c] \in S}

Go(c, l, j) == pc' = [pc EXCEPT ![c] = l] /\ job' = [job EXCEPT ![c] = j]

Proceed(c, l) == Go(c, l, job[c]) /\ UNCHANGED mishaps

Bearable == SumFunction([c \in Calls |-> Cardinality(mishaps[c])]) < MaxMishaps

Suffer(c, what, l, j) ==
  /\ Go(c, l, j)
  /\ Bearable
  /\ mishaps' = [mishaps EXCEPT ![c] = @ \cup {what}]

Fail(c, what) == Suffer(c, what, "error", job[c])

Disturb(S) == disturbed' = disturbed \cup S

-----------------------------------------------------------------------------
(* The program *)

\* The deposit of a backer changes, and what it had earned is settled.
ChangeDeposit(w) ==
  /\ moves < MaxMoves
  /\ \E a \in Stakes \ {account[w].deposit} :
       account' = [account EXCEPT ![w] = [deposit |-> a, debt |-> a * perShare,
                                          pending |-> Claimable(account[w], perShare)]]
  /\ deposited' = deposited - account[w].deposit + account'[w].deposit
  /\ moves' = moves + 1
  /\ UNCHANGED <<rewardVars, pool, callVars, goal, disturbed, raced, overlapped>>

\* A claim between the two reads of a leaderboard is in one of them only.
Claim(w) ==
  LET n == Claimable(account[w], perShare) IN
  /\ 0 < n /\ n <= tracked /\ n <= lamports
  /\ account' = [account EXCEPT ![w].debt = account[w].deposit * perShare, ![w].pending = 0]
  /\ tracked' = tracked - n /\ lamports' = lamports - n
  /\ Disturb(At({"listing"}))
  /\ UNCHANGED <<moves, deposited, perShare, pool, callVars, goal, raced, overlapped>>

\* credit_fee_to_pool: without deposits the division by zero is refused.  A
\* leaderboard that has read reward_per_share does not know of the fee.
Credit(c) ==
  /\ deposited > 0
  /\ perShare' = perShare + (job[c].arg * Precision) \div deposited
  /\ tracked' = tracked + job[c].arg /\ lamports' = lamports + job[c].arg
  /\ Disturb(At({"balancing", "listing"}))

\* Faulty variant: only the account is checked, not the tracked balance.
PayableFromAccount(c) == job[c].arg <= lamports

\* admin_withdraw_reward_pool.  Whoever has read the balance before does not
\* know that it is gone.
Payable(c) == job[c].arg <= tracked /\ job[c].arg <= lamports

Pay(c) ==
  /\ Payable(c)
  /\ tracked' = tracked - job[c].arg /\ lamports' = lamports - job[c].arg
  /\ raced' = (raced \/ c \in disturbed)
  /\ Disturb((At({"listing"} \cup PayoutCalls) \cup late) \ {c})
  /\ UNCHANGED perShare

-----------------------------------------------------------------------------
(* PoolService.creditFeeToPool and syncPoolStateFromChain *)

\* POST /pool/credit-fee.
CreditFee(c) ==
  /\ pc[c] = "idle"
  /\ \E n \in Fees : Go(c, "crediting", [NoJob EXCEPT !.kind = "credit", !.arg = n])
  /\ UNCHANGED <<backerVars, rewardVars, pool, late, mishaps, goal, disturbed, raced, overlapped>>

\* POST /pool/sync.
SyncPoolState(c) ==
  /\ pc[c] = "idle"
  /\ Go(c, "stateReading", [NoJob EXCEPT !.kind = "sync"])
  /\ overlapped' = (overlapped \/ At(SyncCalls) # {})
  /\ UNCHANGED <<backerVars, rewardVars, pool, late, mishaps, goal, disturbed, raced>>

\* Faulty variant: the state is written as it was before the fee.
CreditFeeToPoolReadsFirst(c) ==
  /\ pc[c] = "crediting"
  /\ Credit(c)
  /\ Go(c, "poolWriting", [job[c] EXCEPT !.state = OnChain])
  /\ goal' = [goal EXCEPT ![c] = perShare']
  /\ overlapped' = (overlapped \/ At(SyncCalls) # {})
  /\ UNCHANGED <<backerVars, pool, late, raced, mishaps>>

\* goal is the reward_per_share that the credit brought about.
CreditFeeToPool(c) ==
  /\ pc[c] = "crediting"
  /\ \/ /\ Credit(c)
        /\ Proceed(c, "stateReading")
        /\ goal' = [goal EXCEPT ![c] = perShare']
        /\ overlapped' = (overlapped \/ At(SyncCalls) # {})
        /\ UNCHANGED late
     \/ /\ deposited = 0
        /\ Proceed(c, "error")
        /\ UNCHANGED <<rewardVars, late, goal, disturbed, overlapped>>
     \/ /\ Fail(c, "credit")
        /\ late' = late \cup {c} /\ UNCHANGED <<rewardVars, goal, disturbed, overlapped>>
  /\ UNCHANGED <<backerVars, pool, raced>>

\* A treasury struct that cannot be fetched is caught and counts as zeros; if
\* the account or its rent cannot be read, that is an error.
GetPoolState(c) ==
  /\ pc[c] = "stateReading"
  /\ \/ Go(c, "poolWriting", [job[c] EXCEPT !.state = OnChain]) /\ UNCHANGED mishaps
     \/ Suffer(c, "struct", "poolWriting", [job[c] EXCEPT !.state = Zero])
     \/ Fail(c, "read")
  /\ UNCHANGED <<backerVars, rewardVars, pool, late, goal, disturbed, raced, overlapped>>

\* Faulty variant: two columns are mixed up.
SyncPoolStateMixed(c) ==
  /\ pc[c] = "poolWriting"
  /\ pool' = [perShare |-> job[c].state.tracked, tracked |-> job[c].state.perShare]
  /\ Proceed(c, "ok")
  /\ UNCHANGED <<backerVars, rewardVars, late, goal, disturbed, raced, overlapped>>

\* The snapshot that follows may fail unnoticed.
SyncPoolStateFromChain(c) ==
  LET Written == pool' = job[c].state IN
  /\ pc[c] = "poolWriting"
  /\ \/ Written /\ Proceed(c, "ok")
     \/ Fail(c, "row") /\ (Written \/ UNCHANGED pool)
  /\ UNCHANGED <<backerVars, rewardVars, late, goal, disturbed, raced, overlapped>>

-----------------------------------------------------------------------------
(* PoolController.adminWithdrawRewardPool: the leaderboard *)

\* goal is what the program tracks, and nobody may claim, to begin with.
AdminWithdraw(c) ==
  /\ pc[c] = "idle"
  /\ \E n \in Amounts :
       Go(c, "pooling", [NoJob EXCEPT !.kind = "withdraw", !.arg = n])
  /\ goal' = [goal EXCEPT ![c] = tracked - Owed]
  /\ UNCHANGED <<backerVars, rewardVars, pool, late, mishaps, disturbed, raced, overlapped>>

\* Faulty variant: what backers may claim is not subtracted.
GuardIgnoresClaims(c, balance, claimable) ==
  IF job[c].arg <= balance THEN "tracking" ELSE "error"

\* calculateExcessRewards, and the guard of the controller.
Guard(c, balance, claimable) ==
  IF job[c].arg <= balance - claimable \/ job[c].arg = 0 THEN "tracking" ELSE "error"

\* An error makes the leaderboard empty and the pool of rewards 0.
ReadPoolState(c) ==
  /\ pc[c] = "pooling"
  /\ \/ /\ Go(c, "balancing", [job[c] EXCEPT !.state = OnChain])
        /\ UNCHANGED <<mishaps, disturbed>>
     \/ Suffer(c, "struct", "balancing", [job[c] EXCEPT !.state = Zero]) /\ Disturb({c})
     \/ Suffer(c, "read", Guard(c, 0, 0), job[c]) /\ UNCHANGED disturbed
  /\ UNCHANGED <<backerVars, rewardVars, pool, late, goal, raced, overlapped>>

\* Faulty variant: the balance is stored in a variable of the try block.
ReadBalanceShadowed(c) ==
  /\ pc[c] = "balancing"
  /\ Proceed(c, "listing")
  /\ UNCHANGED <<backerVars, rewardVars, pool, late, goal, disturbed, raced, overlapped>>

\* A balance that cannot be read counts as 0.
ReadBalance(c) ==
  /\ pc[c] = "balancing"
  /\ \/ Go(c, "listing", [job[c] EXCEPT !.balance = lamports]) /\ UNCHANGED mishaps
     \/ Suffer(c, "balance", "listing", [job[c] EXCEPT !.balance = 0])
  /\ UNCHANGED <<backerVars, rewardVars, pool, late, goal, disturbed, raced, overlapped>>

\* When the accounts of backers cannot be fetched the leaderboard is empty,
\* and next to the balance it looks as if nobody could claim anything.
GetLeaderboard(c) ==
  LET j == job[c] IN
  /\ pc[c] = "listing"
  /\ \/ /\ Proceed(c, Guard(c, j.balance, TotalClaimable(j.state.perShare)))
        /\ UNCHANGED disturbed
     \/ Suffer(c, "list", Guard(c, j.balance, 0), j) /\ Disturb({c})
  /\ UNCHANGED <<backerVars, rewardVars, pool, late, goal, raced, overlapped>>

-----------------------------------------------------------------------------
(* ProgramService.adminWithdrawRewardPool *)

ReadTracked(c) ==
  /\ pc[c] = "tracking"
  /\ \/ Go(c, "checking", [job[c] EXCEPT !.state = OnChain]) /\ UNCHANGED mishaps
     \/ Fail(c, "check")
  /\ UNCHANGED <<backerVars, rewardVars, pool, late, goal, disturbed, raced, overlapped>>

CheckBalances(c) ==
  /\ pc[c] = "checking"
  /\ \/ Proceed(c, IF job[c].arg <= job[c].state.tracked /\ job[c].arg <= lamports
                     THEN "withdrawing" ELSE "error")
     \/ Fail(c, "check")
  /\ UNCHANGED <<backerVars, rewardVars, pool, late, goal, disturbed, raced, overlapped>>

AdminWithdrawRewardPool(c) ==
  /\ pc[c] = "withdrawing"
  /\ \/ Pay(c) /\ Proceed(c, "ok") /\ UNCHANGED late
     \/ /\ ~Payable(c) /\ Proceed(c, "error")
        /\ UNCHANGED <<rewardVars, late, disturbed, raced>>
     \/ /\ Fail(c, "withdraw")
        /\ late' = late \cup {c} /\ UNCHANGED <<rewardVars, disturbed, raced>>
  /\ UNCHANGED <<backerVars, pool, goal, overlapped>>

\* An instruction whose confirmation failed lands after all.
LateLanding(c) ==
  /\ c \in late
  /\ \/ job[c].kind = "credit" /\ Credit(c) /\ UNCHANGED raced
     \/ job[c].kind = "withdraw" /\ Pay(c)
  /\ late' = late \ {c}
  /\ UNCHANGED <<backerVars, pool, pc, job, goal, mishaps, overlapped>>

-----------------------------------------------------------------------------

Crash ==
  /\ At(Active) # {}
  /\ Bearable
  /\ pc' = [c \in Calls |-> IF c \in At(Active) THEN "dead" ELSE pc[c]]
  /\ mishaps' = [c \in Calls |-> IF c \in At(Active) THEN mishaps[c] \cup {"crash"}
                                                      ELSE mishaps[c]]
  /\ late' = late \cup At({"crediting", "withdrawing"})
  /\ UNCHANGED <<backerVars, rewardVars, pool, job, goal, disturbed, raced, overlapped>>

Init ==
  /\ account = [w \in Backers |-> [deposit |-> 0, debt |-> 0, pending |-> 0]]
  /\ moves = 0
  /\ deposited = 0 /\ perShare = 0 /\ tracked = 0 /\ lamports = Reserve
  /\ pool = Zero
  /\ pc = [c \in Calls |-> "idle"] /\ job = [c \in Calls |-> NoJob] /\ late = {}
  /\ goal = [c \in Calls |-> 0]
  /\ disturbed = {} /\ raced = FALSE /\ overlapped = FALSE
  /\ mishaps = [c \in Calls |-> {}]

Request(c) == CreditFee(c) \/ SyncPoolState(c) \/ AdminWithdraw(c)

Step(c) == \/ CreditFeeToPool(c) \/ GetPoolState(c) \/ SyncPoolStateFromChain(c)
           \/ ReadPoolState(c) \/ ReadBalance(c) \/ GetLeaderboard(c)
           \/ ReadTracked(c) \/ CheckBalances(c) \/ AdminWithdrawRewardPool(c)

Next ==
  \/ \E c \in Calls : Request(c) \/ Step(c) \/ LateLanding(c)
  \/ \E w \in Backers : ChangeDeposit(w) \/ Claim(w)
  \/ Crash

Spec == Init /\ [][Next]_vars

-----------------------------------------------------------------------------
(* Properties *)

TypeOK ==
  /\ account \in [Backers -> Account] /\ moves \in Nat
  /\ deposited \in Int /\ DOMAIN goal = Calls
  /\ perShare \in Nat /\ tracked \in Nat /\ lamports \in Nat
  /\ pool \in State
  /\ pc \in [Calls -> Label] /\ job \in [Calls -> Job]
  /\ late \subseteq Calls /\ disturbed \subseteq Calls
  /\ raced \in BOOLEAN /\ overlapped \in BOOLEAN
  /\ mishaps \in [Calls -> SUBSET Mishap]

\* What flooring hides: each backer may have earned a fraction more than it
\* can claim, which a later credit makes whole.
Dust == Cardinality(Backers) - 1

\* Backers can be paid: up to rounding, the account holds what they may claim,
\* however stakes, claims, credits and withdrawals interleave.  Only a
\* withdrawal that read the shares, the balance and the claims at times that do
\* not fit together, or could not read them, takes more than the excess.
ClaimsCovered == ~raced => Owed <= lamports + Dust

\* Call c is the only one that ever asked for a withdrawal.
Lonely(c) == job[c].kind = "withdraw" /\ \A d \in Calls \ {c} : job[d].kind # "withdraw"

\* It is refused only what was not free to begin with.
Granted(c) ==
  Lonely(c) /\ pc[c] = "error" /\ mishaps[c] = {} /\ c \notin disturbed
    => job[c].arg > goal[c] - Dust

\* The only withdrawal that is asked for is refused only if something went
\* wrong, if its reads did not fit together, or if it asks for more than was
\* free to begin with.
ExcessIsGranted == \A c \in Calls : Granted(c)

\* No two syncs overlapped, and the struct was fetched every time.
Orderly == ~overlapped /\ \A c \in Calls : "struct" \notin mishaps[c]

\* The pool table never goes back to an older reward_per_share, unless two
\* syncs overlapped or a struct could not be fetched.
TableFollowsChain == [][Orderly => pool'.perShare >= pool.perShare]_vars

\* A credit that is answered with success is in the pool table.
CreditIsRecorded ==
  Orderly => \A c \in Calls :
               job[c].kind = "credit" /\ pc[c] = "ok" => pool.perShare >= goal[c]

-----------------------------------------------------------------------------
(* The inductive invariant *)

\* The one sync in flight holds a state between the table and the chain.
SyncInv ==
  /\ \A c \in At(SyncCalls), d \in At(SyncCalls) : c = d
  /\ pool.perShare <= perShare
  /\ \A c \in At({"poolWriting"}) :
       pool.perShare <= job[c].state.perShare /\ job[c].state.perShare <= perShare

\* What a credit brought about has come as far as its request.
CreditInv(c) ==
  /\ pc[c] \in SyncCalls \cup {"ok"} => goal[c] \in Nat
  /\ pc[c] = "stateReading" => goal[c] <= perShare
  /\ pc[c] = "poolWriting" => goal[c] <= job[c].state.perShare
  /\ pc[c] = "ok" => goal[c] <= pool.perShare

\* A sync that overlaps with nothing and reads the struct carries the state of
\* the chain to the table without going back.
TableInv ==
  /\ TypeOK
  /\ \A c \in Calls : pc[c] \in BoardCalls \cup PayoutCalls => job[c].kind = "withdraw"
  /\ Orderly => /\ SyncInv
                /\ \A c \in Calls : job[c].kind = "credit" => CreditInv(c)

\* What a backer has earned before it is floored, in units of 1 / Precision.
Earned(a) == a.pending * Precision + a.deposit * perShare - a.debt
TotalEarned == SumFunction([w \in Backers |-> Earned(account[w])])

\* The fractions that flooring hides, of all backers together.
Slack == Cardinality(Backers) * (Precision - 1)

\* What a balance has over what was earned, up to these fractions.
Room(balance) == Precision * balance + Slack - TotalEarned

\* A credit earns the backers at most what it brings, a claim costs the pool at
\* most what was earned.
AccountsInv ==
  /\ deposited = SumFunction([w \in Backers |-> account[w].deposit])
  /\ lamports = tracked + Reserve
  /\ \A w \in Backers : account[w].debt <= account[w].deposit * perShare
  /\ ~raced => Room(lamports) >= 0

\* Unless it was disturbed a withdrawal carries values that still hold, and what
\* has passed the guard may be paid without touching what was earned.
PayoutInv(c) ==
  job[c].kind = "withdraw" /\ c \notin disturbed =>
    /\ pc[c] \in {"balancing", "listing"} => job[c].state.perShare = perShare
    /\ pc[c] = "listing" =>
         job[c].balance = lamports \/ (job[c].balance = 0 /\ mishaps[c] # {})
    /\ ~raced /\ (pc[c] \in PayoutCalls \/ c \in late) =>
         Precision * job[c].arg <= Room(lamports)

\* What was free when the only withdrawal was asked for is free until it is paid.
FreeInv(c) ==
  Lonely(c) /\ mishaps[c] = {} =>
    /\ pc[c] \in BoardCalls \cup PayoutCalls => Precision * goal[c] <= Room(tracked)
    /\ pc[c] = "checking" => Precision * goal[c] <= Precision * job[c].state.tracked + Slack

CallInv(c) ==
  /\ goal[c] \in Int
  /\ pc[c] = "idle" => job[c].kind = "none"
  /\ pc[c] \in {"crediting"} \cup SyncCalls => job[c].kind # "withdraw"
  /\ c \in late => pc[c] \in {"error", "dead"} /\ mishaps[c] # {}
  /\ PayoutInv(c) /\ FreeInv(c) /\ Granted(c)

BooksInv == AccountsInv /\ \A c \in Calls : CallInv(c)

IInv == TableInv /\ BooksInv

-----------------------------------------------------------------------------
(* What the comment on the controller says, and the code does not ensure *)

\* "Only excess rewards (surplus) can be withdrawn, not backers' claimable
\* rewards."
OnlyExcessWithdrawn == Owed <= lamports
=============================================================================
