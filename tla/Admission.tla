------------------------------- MODULE Admission -------------------------------
(***************************************************************************)
(* How a deployment is admitted: the quote (calculateCosts), the payment   *)
(* of the user, its verification (executeDeploy), the deploy_request on    *)
(* chain with the checks before it (createDeployRequest), and, when the    *)
(* run has ended, the statistics of its user (updateUserStats).            *)
(*                                                                         *)
(* Requests overlap at every await: pc[c] names the call c awaits.  The    *)
(* run itself, the subject of Deployment, is here two steps: it is funded, *)
(* and it ends.  The chain and its program are external.                   *)
(***************************************************************************)
EXTENDS Fees, Payments, Functions, FiniteSetsExt

CONSTANTS
  Calls,        \* bound: requests
  Users,        \* user wallets
  Programs,     \* devnet programs, and so program hashes
  Sigs,         \* payment signatures
  Simulated,    \* those that begin with SIMULATED_
  None,         \* no user, no program, no signature
  Sizes,        \* sizes a program may have; upgrades only make it larger
  AccountSize,  \* data length of a program account, without its program
  Forms,        \* what users may put into a payment: see Transfers
  Bodies,       \* the amounts that requests may name: see Named
  MaxTries,     \* maxRetries of fetchTransactionWithRetry
  TxFee,        \* what a transaction costs the admin
  FeeEstimate,  \* estimatedFee
  RequestRent,  \* rent of a deploy_request account
  StatsRent,    \* rent of a user_stats account
  MinAirdrop,   \* an airdrop asks for so many lamports at least,
  AirdropMargin,\*   or for what is missing and so many more
  InitialAdmin, \* lamports of the admin wallet
  MaxMishaps    \* bound: mishaps of all requests together

ASSUME AdmissionAssumption ==
  /\ IsFiniteSet(Calls)
  /\ Simulated \subseteq Sigs /\ None \notin Users \cup Programs \cup Sigs \cup Pools
  /\ Sizes \subseteq Nat /\ AccountSize \in Nat
  /\ Forms \subseteq Seq([own : BOOLEAN, pool : Pools, delta : Int])
  /\ Bodies \subseteq [Amounts -> [quoted : BOOLEAN, delta : Int]]
  /\ MaxTries \in Nat \ {0} /\ TxFee \in Nat /\ FeeEstimate \in Nat /\ TxFee <= FeeEstimate
  /\ RequestRent \in Nat /\ StatsRent \in Nat /\ MinAirdrop \in Nat /\ AirdropMargin \in Nat
  /\ InitialAdmin \in Nat /\ MaxMishaps \in Nat

VARIABLES
  pc,          \* the call each request awaits
  job,         \* what each request is, and its local variables
  row,         \* status of its row of the deployments table
  listed,      \* users with a row in user_stats
  stats,       \* the counters of that row
  size,        \* size of each program
  payment,     \* the transaction of each signature
  request,     \* the deploy_request account of each program hash
  known,       \* users with a user_stats account on chain
  admin,       \* lamports of the admin wallet
  tally,       \* ghost: the increments ever written for each user
  overlapped,  \* ghost: users two of whose updates overlapped
  grown,       \* ghost: requests whose program was upgraded after its dump
  outspent,    \* ghost: requests whose reading of the admin's balance is old
  warned,      \* ghost: requests that found a deploy_request which cannot be
               \*   reset, and which has not been released since
  mishaps      \* ghost: what went wrong in each request

callVars  == <<pc, job, mishaps>>
chainVars == <<request, known, admin, outspent>>
statsVars == <<listed, stats, tally, overlapped>>
vars == <<callVars, row, statsVars, size, payment, chainVars, grown, warned>>

QuoteCalls   == {"verifying", "dumping", "rating"}
RequestCalls == {"treasury", "existence", "guarding", "balance", "airdropping", "sending"}
StatsCalls   == {"statsReading", "statsInserting", "statsWriting"}
Active == QuoteCalls \cup {"fetching", "inserting"} \cup RequestCalls
            \cup {"recording", "failing", "running", "deploying", "marking", "markingLast"}
            \cup StatsCalls
Accepted == {"recording", "running", "deploying", "marking", "markingLast"} \cup StatsCalls
Ended  == {"unquoted", "unpaid", "refused", "done", "dead"}
Label  == {"idle", "quoted"} \cup Active \cup Ended
Mishap == {"dump",    \* the size of the program was not read
           "call",    \* another call failed, or was carried out and its answer lost
           "crash"}

Transfer == [from : Users \cup {None}, to : Pools, amount : Int]
Payment  == [status : {"none", "sent", "confirmed", "failed"}, transfers : Seq(Transfer)]
Request  == [status : {"none", "pending", "funded", "active", "expired", "failed"},
             developer : Users \cup {None}]
Stats    == [total : Nat, ok : Nat, failed : Nat, fees : Nat]
Job      == [user    : Users \cup {None},
             program : Programs \cup {None},
             size    : Nat,             \* programSize
             rent    : Nat,             \* rentCost of the quote; the answer has it,
                                        \*   the server forgets it
             fees    : [Amounts -> Int],\* the amounts that the request names
             sig     : Sigs \cup {None},
             tries   : Nat,             \* i of fetchTransactionWithRetry
             exist   : BOOLEAN,         \* accountsExist
             short   : Nat,             \* shortfall
             stats   : Stats,           \* what updateUserStats read
             ok      : BOOLEAN]         \* it counts a success

NoStats   == [total |-> 0, ok |-> 0, failed |-> 0, fees |-> 0]
NoFees    == [a \in Amounts |-> 0]
NoJob     == [user |-> None, program |-> None, size |-> 0, rent |-> 0, fees |-> NoFees,
              sig |-> None, tries |-> 0, exist |-> FALSE, short |-> 0, stats |-> NoStats, ok |-> FALSE]
NoRequest == [status |-> "none", developer |-> None]

-----------------------------------------------------------------------------
(* Control *)

At(S) == {c \in Calls : pc[c] \in S}
On(p) == {c \in Calls : job[c].program = p}

Go(c, l, j) == pc' = [pc EXCEPT ![c] = l] /\ job' = [job EXCEPT ![c] = j]

Proceed(c, l, j) == Go(c, l, j) /\ UNCHANGED mishaps

Bearable == SumFunction([c \in Calls |-> Cardinality(mishaps[c])]) < MaxMishaps

Suffer(c, what, l, j) ==
  /\ Go(c, l, j)
  /\ Bearable
  /\ mishaps' = [mishaps EXCEPT ![c] = @ \cup {what}]

SetRow(c, s) == row' = [row EXCEPT ![c] = s]

-----------------------------------------------------------------------------
(* calculateCosts *)

\* POST /deployment/calculate-cost.
CalculateCosts(c) ==
  /\ pc[c] = "idle"
  /\ \E u \in Users, p \in Programs :
       Proceed(c, "verifying", [job[c] EXCEPT !.user = u, !.program = p])
  /\ UNCHANGED <<row, statsVars, size, payment, chainVars, grown, warned>>

\* The account must exist and be executable, within 30 seconds.
VerifyProgram(c) ==
  /\ pc[c] = "verifying"
  /\ Proceed(c, "dumping", job[c]) \/ Suffer(c, "call", "unquoted", job[c])
  /\ UNCHANGED <<row, statsVars, size, payment, chainVars, grown, warned>>

\* A dump that fails is replaced by the length of the program account.
DumpProgram(c) ==
  /\ pc[c] = "dumping"
  /\ \/ Proceed(c, "rating", [job[c] EXCEPT !.size = size[job[c].program]])
     \/ Suffer(c, "dump", "rating", [job[c] EXCEPT !.size = AccountSize])
  /\ UNCHANGED <<row, statsVars, size, payment, chainVars, grown, warned>>

\* Faulty variant: the reserve is not added.
QuoteBare(c, rent) == [job[c] EXCEPT !.rent = rent, !.size = 0]

Quote(c, rent) == [job[c] EXCEPT !.rent = rent + RentBuffer, !.size = 0]

\* The cluster is asked for the rent; the answer is replaced by an estimate.
RateAccount(c) ==
  LET bytes == CalculateBufferAccountSize(job[c].size) IN
  /\ pc[c] = "rating"
  /\ \/ Proceed(c, "quoted", Quote(c, ClusterRent(bytes)))
     \/ \E r \in Estimates(bytes) : Suffer(c, "call", "quoted", Quote(c, r))
  /\ UNCHANGED <<row, statsVars, size, payment, chainVars, grown, warned>>

\* The authority of a program deploys a larger one.
Upgrade(p) ==
  /\ \E n \in Sizes : size[p] < n /\ size' = [size EXCEPT ![p] = n]
  /\ grown' = grown \cup (On(p) \ At({"verifying", "dumping"}))
  /\ UNCHANGED <<callVars, row, statsVars, payment, chainVars, warned>>

-----------------------------------------------------------------------------
(* Payment *)

\* A form of payment names, for each transfer, whether the user sends it, the
\* pool it goes to, and how far it is from the share of that pool in the quote.
Transfers(c, form) ==
  [i \in DOMAIN form |->
    LET n == PoolShare(Breakdown(job[c].rent))[form[i].pool] + form[i].delta IN
    [from   |-> IF form[i].own THEN job[c].user ELSE None,
     to     |-> form[i].pool,
     amount |-> IF n < 0 THEN 0 ELSE n]]

\* The wallet of the user signs a payment, right or wrong, and sends it.
Pay(c, s) ==
  /\ pc[c] = "quoted" /\ payment[s].status = "none" /\ s \notin Simulated
  /\ \E form \in Forms :
       payment' = [payment EXCEPT ![s] = [status |-> "sent", transfers |-> Transfers(c, form)]]
  /\ UNCHANGED <<callVars, row, statsVars, size, chainVars, grown, warned>>

\* It is confirmed, late or early, or it fails.
Land(s) ==
  /\ payment[s].status = "sent"
  /\ \E r \in {"confirmed", "failed"} : payment' = [payment EXCEPT ![s].status = r]
  /\ UNCHANGED <<callVars, row, statsVars, size, chainVars, grown, warned>>

\* A body names each amount as it was quoted, or any other: nothing ties a
\* request to a quote.
Named(c, body) ==
  [a \in Amounts |-> body[a].delta + (IF body[a].quoted THEN Breakdown(job[c].rent)[a] ELSE 0)]

\* POST /deployment/execute with amounts and a signature, of this payment or
\* of another one.
ExecuteDeploy(c) ==
  /\ pc[c] = "quoted"
  /\ \E s \in Sigs, body \in Bodies :
       Proceed(c, IF s \in Simulated THEN "inserting" ELSE "fetching",
               [job[c] EXCEPT !.sig = s, !.fees = Named(c, body)])
  /\ UNCHANGED <<row, statsVars, size, payment, chainVars, grown, warned>>

Share(c) == PoolShare(job[c].fees)

Verified(c) ==
  /\ payment[job[c].sig].status = "confirmed"
  /\ VerifyMultipleTransfers(payment[job[c].sig].transfers, job[c].user, Share(c))

\* Faulty variant: one attempt less.
RetryOneLess(c) ==
  LET next == [job[c] EXCEPT !.tries = @ + 1]
      l    == IF next.tries < MaxTries - 1 THEN "fetching" ELSE "unpaid"
  IN \/ payment[job[c].sig].status \in {"none", "sent"} /\ Proceed(c, l, next)
     \/ Suffer(c, "call", l, next)

\* fetchTransactionWithRetry, its last attempt included: neither an unknown
\* transaction nor a failing RPC ends it early.
Retry(c) ==
  LET next == [job[c] EXCEPT !.tries = @ + 1]
      l    == IF next.tries < MaxTries THEN "fetching" ELSE "unpaid"
  IN \/ payment[job[c].sig].status \in {"none", "sent"} /\ Proceed(c, l, next)
     \/ Suffer(c, "call", l, next)

VerifyPayment(c) ==
  /\ pc[c] = "fetching"
  /\ \/ /\ payment[job[c].sig].status \in {"confirmed", "failed"}
        /\ IF Verified(c) THEN Proceed(c, "inserting", [job[c] EXCEPT !.tries = 0])
                          ELSE Proceed(c, "unpaid", job[c])
     \/ Retry(c)
  /\ UNCHANGED <<row, statsVars, size, payment, chainVars, grown, warned>>

\* What createDeployRequest tests first.  The platform fee is not among it.
Positive(c) == \A a \in {"service", "monthly", "months", "cost"} : job[c].fees[a] > 0

\* createDeployment: a lost reply leaves a row that nobody works on.
CreateDeployment(c) ==
  /\ pc[c] = "inserting"
  /\ \/ /\ SetRow(c, "pending")
        /\ \/ Proceed(c, IF Positive(c) THEN "treasury" ELSE "failing", job[c])
           \/ Suffer(c, "call", "refused", job[c])
     \/ UNCHANGED row /\ Suffer(c, "call", "refused", job[c])
  /\ UNCHANGED <<statsVars, size, payment, chainVars, grown, warned>>

-----------------------------------------------------------------------------
(* createDeployRequest *)

\* A treasury of another admin or of an old layout is an error; that it could
\* not be fetched is not.
FetchTreasury(c) ==
  /\ pc[c] = "treasury"
  /\ \/ Proceed(c, "existence", job[c])
     \/ \E l \in {"existence", "failing"} : Suffer(c, "call", l, job[c])
  /\ UNCHANGED <<row, statsVars, size, payment, chainVars, grown, warned>>

RequestOf(c) == request[job[c].program]
Mine(c)      == RequestOf(c).developer = job[c].user

\* Both accounts stay once they exist, so one reading stands for the two.
CheckExistence(c) ==
  /\ pc[c] = "existence"
  /\ \/ LET found == RequestOf(c).status # "none"
        IN  Proceed(c, IF found THEN "guarding" ELSE "balance",
                    [job[c] EXCEPT !.exist = found /\ job[c].user \in known])
     \/ Suffer(c, "call", "failing", job[c])
  /\ UNCHANGED <<row, statsVars, size, payment, chainVars, grown, warned>>

\* Faulty variant: a request that is not funded yet is taken for one that is.
CanResetIfEnded(r) == r.status \in {"failed", "expired"}

\* canReset: the request is not funded, or its run has failed, or its
\* subscription has expired.
CanReset(r) == r.status \in {"pending", "failed", "expired"}

\* What the program itself lets another developer take over.
Released(r) == r.status \in {"none", "pending", "failed", "expired"}

\* The request of another developer that cannot be reset raises an error,
\* which the catch of the fetch takes for its own: the call goes on.
GuardRequest(c) ==
  /\ pc[c] = "guarding"
  /\ \/ /\ Proceed(c, "balance", job[c])
        /\ warned' = IF Mine(c) \/ CanReset(RequestOf(c)) THEN warned ELSE warned \cup {c}
     \/ Suffer(c, "call", "balance", job[c]) /\ UNCHANGED warned
  /\ UNCHANGED <<row, statsVars, size, payment, chainVars, grown>>

\* Faulty variant: rent is required only if neither account exists.
RequiredIfNone(c) ==
  FeeEstimate + (IF job[c].exist \/ RequestOf(c).status # "none" THEN 0 ELSE RequestRent + StatsRent)

\* requiredBalance
Required(c) == FeeEstimate + (IF job[c].exist THEN 0 ELSE RequestRent + StatsRent)

CheckBalance(c) ==
  /\ pc[c] = "balance"
  /\ \/ admin >= Required(c) /\ Proceed(c, "sending", job[c])
     \/ admin < Required(c) /\ Proceed(c, "airdropping", [job[c] EXCEPT !.short = Required(c) - admin])
     \/ Suffer(c, "call", "failing", job[c])
  /\ outspent' = outspent \ {c}
  /\ UNCHANGED <<row, statsVars, size, payment, request, known, admin, grown, warned>>

\* On mainnet, or when the faucet refuses, the request fails.
RequestAirdrop(c) ==
  LET n == job[c].short + AirdropMargin
      topped == [job[c] EXCEPT !.short = 0]
  IN
  /\ pc[c] = "airdropping"
  /\ \/ /\ admin' = admin + (IF n < MinAirdrop THEN MinAirdrop ELSE n)
        /\ Proceed(c, "sending", topped) \/ Suffer(c, "call", "failing", topped)
     \/ Proceed(c, "failing", topped) /\ UNCHANGED admin
  /\ UNCHANGED <<row, statsVars, size, payment, request, known, outspent, grown, warned>>

\* What the transaction costs: rent for the accounts it creates.
Needed(c) == TxFee + (IF RequestOf(c).status = "none" THEN RequestRent ELSE 0)
                   + (IF job[c].user \in known THEN 0 ELSE StatsRent)

\* create_deploy_request on chain.
AcceptRequest(c) ==
  /\ Mine(c) \/ Released(RequestOf(c))
  /\ admin >= Needed(c)
  /\ \E s \in {"pending"} \cup (IF Mine(c) THEN {RequestOf(c).status} \cap {"funded"} ELSE {}) :
       /\ request' = [request EXCEPT ![job[c].program] = [status |-> s, developer |-> job[c].user]]
       /\ warned' = IF s = "pending" THEN warned \ (On(job[c].program) \ {c}) ELSE warned
  /\ known' = known \cup {job[c].user}
  /\ admin' = admin - Needed(c)
  /\ outspent' = outspent \cup (At({"airdropping", "sending"}) \ {c})

CreateDeployRequest(c) ==
  /\ pc[c] = "sending"
  /\ \/ AcceptRequest(c) /\ (Proceed(c, "recording", job[c]) \/ Suffer(c, "call", "failing", job[c]))
     \/ /\ RequestOf(c).status # "none" \/ admin < Needed(c)
        /\ Proceed(c, "failing", job[c]) /\ UNCHANGED <<chainVars, warned>>
     \/ Suffer(c, "call", "failing", job[c]) /\ UNCHANGED <<chainVars, warned>>
  /\ UNCHANGED <<row, statsVars, size, payment, grown>>

\* updateDeployment(on_chain_deploy_tx); then the answer is sent.
RecordRequest(c) ==
  /\ pc[c] = "recording"
  /\ Proceed(c, "running", job[c]) \/ Suffer(c, "call", "failing", job[c])
  /\ UNCHANGED <<row, statsVars, size, payment, chainVars, grown, warned>>

FailRequest(c) ==
  /\ pc[c] = "failing"
  /\ \/ SetRow(c, "failed") /\ Proceed(c, "refused", job[c])
     \/ row' \in {row, [row EXCEPT ![c] = "failed"]} /\ Suffer(c, "call", "refused", job[c])
  /\ UNCHANGED <<statsVars, size, payment, chainVars, grown, warned>>

-----------------------------------------------------------------------------
(* The run, and updateUserStats *)

\* Once a request is released no warning about it stands.
SetRequest(p, s) ==
  /\ request' = [request EXCEPT ![p].status = s]
  /\ warned' = IF Released(request'[p]) THEN warned \ On(p) ELSE warned

\* fund_temporary_wallet, for the request of this developer.
FundRun(c) ==
  /\ pc[c] = "running"
  /\ \/ /\ Mine(c) /\ RequestOf(c).status = "pending"
        /\ request' = [request EXCEPT ![job[c].program].status = "funded"]
        /\ Proceed(c, "deploying", job[c])
     \/ Proceed(c, "statsReading", job[c]) /\ UNCHANGED request
  /\ UNCHANGED <<row, statsVars, size, payment, known, admin, outspent, grown, warned>>

\* The run is confirmed on chain, as a success or as a failure.
Confirm(c, s) ==
  IF Mine(c) /\ RequestOf(c).status = "funded"
    THEN SetRequest(job[c].program, s) ELSE UNCHANGED <<request, warned>>

\* The cost that was named is what the run is given: it must pay for the
\* account that the program needs by now.
EndRun(c) ==
  /\ pc[c] = "deploying"
  /\ \/ /\ job[c].fees["cost"] >= ClusterRent(CalculateBufferAccountSize(size[job[c].program]))
        /\ Confirm(c, "active") /\ Proceed(c, "marking", job[c])
     \/ Confirm(c, "failed") /\ Proceed(c, "statsReading", job[c])
  /\ UNCHANGED <<row, statsVars, size, payment, known, admin, outspent, grown>>

ExpireSubscription(p) ==
  /\ request[p].status = "active"
  /\ SetRequest(p, "expired")
  /\ UNCHANGED <<callVars, row, statsVars, size, payment, known, admin, outspent, grown>>

\* The row is marked first and counted then; a run that could not mark it, or
\* count it, has failed, and is counted as that.
MarkSuccess(c) ==
  /\ pc[c] = "marking"
  /\ \/ SetRow(c, "success") /\ (\/ Proceed(c, "statsReading", [job[c] EXCEPT !.ok = TRUE])
                                 \/ Suffer(c, "call", "statsReading", job[c]))
     \/ UNCHANGED row /\ Suffer(c, "call", "statsReading", job[c])
  /\ UNCHANGED <<statsVars, size, payment, chainVars, grown, warned>>

AfterCount(c) == IF job[c].ok THEN "done" ELSE "markingLast"

\* The locals end with the call; and what happens when createUserStats throws.
CountAgain(c)  == IF job[c].ok THEN "statsReading" ELSE "markingLast"
Forget(c)      == [job[c] EXCEPT !.stats = NoStats]
Uncounted(c)   == [job[c] EXCEPT !.stats = NoStats, !.ok = FALSE]

Updating(u) == {c \in Calls : job[c].user = u /\ pc[c] \in {"statsInserting", "statsWriting"}}

\* getUserStats: a read that fails ends the update without a word.
ReadStats(c) ==
  LET u == job[c].user IN
  /\ pc[c] = "statsReading"
  /\ \/ Proceed(c, IF u \in listed THEN "statsWriting" ELSE "statsInserting",
                [job[c] EXCEPT !.stats = stats[u]])
     \/ Suffer(c, "call", AfterCount(c), job[c])
  /\ overlapped' = IF Updating(u) = {} THEN overlapped ELSE overlapped \cup {u}
  /\ UNCHANGED <<row, listed, stats, tally, size, payment, chainVars, grown, warned>>

\* createUserStats, for whoever has no row yet; wallets are unique.
CreateUserStats(c) ==
  LET u == job[c].user IN
  /\ pc[c] = "statsInserting"
  /\ \/ /\ u \notin listed /\ listed' = listed \cup {u}
        /\ Proceed(c, "statsWriting", job[c]) \/ Suffer(c, "call", CountAgain(c), Uncounted(c))
     \/ u \in listed /\ Proceed(c, CountAgain(c), Uncounted(c)) /\ UNCHANGED listed
     \/ Suffer(c, "call", CountAgain(c), Uncounted(c)) /\ UNCHANGED listed
  /\ UNCHANGED <<row, stats, tally, overlapped, size, payment, chainVars, grown, warned>>

Counted(s, c) ==
  [total  |-> s.total + 1,
   ok     |-> s.ok + (IF job[c].ok THEN 1 ELSE 0),
   failed |-> s.failed + (IF job[c].ok THEN 0 ELSE 1),
   fees   |-> s.fees + (IF job[c].ok THEN job[c].fees["service"] ELSE 0)]

\* Faulty variant: what was read is not what the increments are added to.
WriteUserStatsFresh(c) ==
  LET u == job[c].user IN
  /\ stats' = [stats EXCEPT ![u] = Counted(NoStats, c)]
  /\ tally' = [tally EXCEPT ![u] = Counted(tally[u], c)]

\* The counters as they were read, with the increments.
WriteUserStats(c) ==
  LET u == job[c].user IN
  /\ stats' = [stats EXCEPT ![u] = Counted(job[c].stats, c)]
  /\ tally' = [tally EXCEPT ![u] = Counted(tally[u], c)]

\* The update by wallet; that it fails is only logged.
UpdateUserStats(c) ==
  /\ pc[c] = "statsWriting"
  /\ \/ WriteUserStats(c) /\ Proceed(c, AfterCount(c), Forget(c))
     \/ WriteUserStats(c) /\ Suffer(c, "call", AfterCount(c), Forget(c))
     \/ UNCHANGED <<stats, tally>> /\ Suffer(c, "call", AfterCount(c), Forget(c))
  /\ UNCHANGED <<row, listed, overlapped, size, payment, chainVars, grown, warned>>

\* The row is marked failed as the last step.
MarkFailed(c) ==
  /\ pc[c] = "markingLast"
  /\ \/ SetRow(c, "failed") /\ Proceed(c, "done", job[c])
     \/ row' \in {row, [row EXCEPT ![c] = "failed"]} /\ Suffer(c, "call", "done", job[c])
  /\ UNCHANGED <<statsVars, size, payment, chainVars, grown, warned>>

\* The process dies with every request it is working on.
Crash ==
  /\ Bearable
  /\ At(Active) # {}
  /\ pc' = [c \in Calls |-> IF pc[c] \in Active THEN "dead" ELSE pc[c]]
  /\ mishaps' = [c \in Calls |-> IF pc[c] \in Active THEN mishaps[c] \cup {"crash"} ELSE mishaps[c]]
  /\ UNCHANGED <<job, row, statsVars, size, payment, chainVars, grown, warned>>

-----------------------------------------------------------------------------
(* Specification *)

Init ==
  /\ pc = [c \in Calls |-> "idle"] /\ job = [c \in Calls |-> NoJob]
  /\ row = [c \in Calls |-> "none"]
  /\ listed = {} /\ stats = [u \in Users |-> NoStats] /\ tally = stats /\ overlapped = {}
  /\ size \in [Programs -> Sizes]
  /\ payment = [s \in Sigs |-> [status |-> "none", transfers |-> <<>>]]
  /\ request = [p \in Programs |-> NoRequest] /\ known = {} /\ admin = InitialAdmin
  /\ outspent = {} /\ grown = {} /\ warned = {}
  /\ mishaps = [c \in Calls |-> {}]

QuoteStep(c)   == VerifyProgram(c) \/ DumpProgram(c) \/ RateAccount(c)
PaymentStep(c) == VerifyPayment(c) \/ CreateDeployment(c)
RequestStep(c) == \/ FetchTreasury(c) \/ CheckExistence(c) \/ GuardRequest(c)
                  \/ CheckBalance(c) \/ RequestAirdrop(c) \/ CreateDeployRequest(c)
                  \/ RecordRequest(c) \/ FailRequest(c)
RunStep(c)     == FundRun(c) \/ EndRun(c) \/ MarkSuccess(c) \/ MarkFailed(c)
StatsStep(c)   == ReadStats(c) \/ CreateUserStats(c) \/ UpdateUserStats(c)

Step(c) == QuoteStep(c) \/ PaymentStep(c) \/ RequestStep(c) \/ RunStep(c) \/ StatsStep(c)

UserStep(c) == CalculateCosts(c) \/ ExecuteDeploy(c) \/ \E s \in Sigs : Pay(c, s)

Next ==
  \/ \E c \in Calls : Step(c) \/ UserStep(c)
  \/ \E s \in Sigs : Land(s)
  \/ \E p \in Programs : Upgrade(p) \/ ExpireSubscription(p)
  \/ Crash

Spec == Init /\ [][Next]_vars

-----------------------------------------------------------------------------
(* Properties *)

\* Types of the variables.
TypeOK ==
  /\ pc \in [Calls -> Label]
  /\ job \in [Calls -> Job]
  /\ row \in [Calls -> {"none", "pending", "success", "failed"}]
  /\ listed \subseteq Users /\ overlapped \subseteq Users
  /\ stats \in [Users -> Stats] /\ tally \in [Users -> Stats]
  /\ size \in [Programs -> Sizes]
  /\ payment \in [Sigs -> Payment]
  /\ request \in [Programs -> Request]
  /\ known \subseteq Users /\ admin \in Nat
  /\ outspent \subseteq Calls /\ grown \subseteq Calls /\ warned \subseteq Calls
  /\ mishaps \in [Calls -> SUBSET Mishap]

\* What a payment must hold for a pool, up to the tolerance.
Covered(c, pool) ==
  \E i \in DOMAIN payment[job[c].sig].transfers :
    LET t == payment[job[c].sig].transfers[i]
    IN t.from = job[c].user /\ t.to = pool /\ Share(c)[pool] - t.amount <= Tolerance

Settled(c) ==
  /\ payment[job[c].sig].status = "confirmed"
  /\ \A pool \in Due(Share(c)) : Covered(c, pool)

\* A row stands for a payment of what its request names: its transaction is
\* confirmed and holds, for each pool that is due something, a transfer of this
\* user that is not short of it by more than the tolerance; only a simulated
\* signature is spared.  And a request that the chain has accepted is one that
\* owes the reward pool something.
AdmittedIsPaid ==
  \A c \in Calls :
    /\ row[c] # "none" /\ job[c].sig \notin Simulated => Settled(c)
    /\ pc[c] \in Accepted => "reward" \in Due(Share(c))

Exact(c, s) ==
  /\ payment[s].status = "confirmed"
  /\ \A pool \in Due(Share(c)) :
       \E i \in DOMAIN payment[s].transfers :
         /\ Between(payment[s].transfers, job[c].user, pool) = {i}
         /\ payment[s].transfers[i].amount = Share(c)[pool]

\* An honest payment is not turned away: a request whose transaction holds
\* one transfer of the exact share for each pool that is due one, in whatever
\* order and among whatever others, is refused only if it was not found in any
\* of the tries.
HonestPaymentAccepted ==
  \A c \in Calls : pc[c] = "unpaid" /\ Exact(c, job[c].sig) => job[c].tries = MaxTries

\* A quote pays for the account the program needs, whether the cluster was
\* asked for the rent or not, unless the program could not be dumped or has
\* been upgraded since.
QuoteCoversRent ==
  \A c \in Calls :
    job[c].rent > 0 /\ "dump" \notin mishaps[c] /\ c \notin grown =>
      job[c].rent >= ClusterRent(CalculateBufferAccountSize(size[job[c].program]))

\* A balance that was found sufficient, or topped up, is sufficient when the
\* request is sent, unless another request was accepted in between.
BalanceSuffices ==
  \A c \in Calls : pc[c] = "sending" /\ c \notin outspent => admin >= Needed(c)

AtMost(s, t) == \A f \in {"total", "ok", "failed", "fees"} : s[f] <= t[f]

\* The statistics of a user add up and never exceed what was counted; they
\* are short of it only if two updates of this user overlapped.
StatsExplained ==
  \A u \in Users :
    /\ stats[u].total = stats[u].ok + stats[u].failed
    /\ AtMost(stats[u], tally[u])
    /\ u \notin overlapped => stats[u] = tally[u]

\* Although the error that is raised for the deploy_request of another
\* developer does not stop the call that raised it, the call goes nowhere: it
\* is turned down on chain, unless the request was released in between.
WarnedIsRefused == \A c \in warned : pc[c] \notin Accepted

-----------------------------------------------------------------------------
(* The inductive invariant *)

Unquoted == {"idle", "verifying", "dumping", "rating"}
Unpaid   == Unquoted \cup {"quoted", "fetching", "unquoted", "unpaid"}
Tested   == RequestCalls \cup Accepted
AfterGuard == {"balance", "airdropping", "sending", "failing", "refused", "dead"}

\* Who asks for what does not change once the request is made.
CallerInv(c) == pc[c] # "idle" => job[c].user \in Users /\ job[c].program \in Programs

\* The quote of a call was rated for the size that was dumped.
QuoteInv(c) ==
  /\ pc[c] \in Unquoted => job[c].rent = 0
  /\ pc[c] \notin Unquoted \cup {"unquoted", "dead"} => job[c].rent > 0
  /\ pc[c] = "rating" /\ "dump" \notin mishaps[c] /\ c \notin grown =>
       job[c].size = size[job[c].program]

\* What was verified stays so, and what was refused was not exact; beyond the
\* first test of createDeployRequest the amounts are positive.
PaymentInv(c) ==
  /\ pc[c] \in Unpaid => row[c] = "none"
  /\ pc[c] \notin Unpaid \cup {"inserting", "refused", "dead"} => row[c] # "none"
  /\ pc[c] \in {"fetching", "unpaid", "inserting"} \/ row[c] # "none" => job[c].sig \in Sigs
  /\ pc[c] = "inserting" /\ job[c].sig \notin Simulated => Settled(c)
  /\ pc[c] \in Tested => Positive(c)
  /\ pc[c] \in Unquoted \cup {"quoted"} => job[c].tries = 0
  /\ pc[c] = "fetching" => job[c].tries < MaxTries
  /\ pc[c] = "unpaid" /\ job[c].tries # MaxTries =>
       payment[job[c].sig].status \in {"confirmed", "failed"} /\ ~Exact(c, job[c].sig)

\* accountsExist stays true, and what was required is there until it is spent.
BalanceInv(c) ==
  /\ pc[c] = "guarding" => RequestOf(c).status # "none"
  /\ pc[c] \in {"guarding", "balance", "airdropping", "sending"} /\ job[c].exist =>
       RequestOf(c).status # "none" /\ job[c].user \in known
  /\ pc[c] = "airdropping" /\ c \notin outspent => admin + job[c].short >= Required(c)
  /\ pc[c] = "sending" /\ c \notin outspent => admin >= Required(c)

\* A warning stands as long as the request is another developer's and held.
WarningInv(c) == c \in warned => pc[c] \in AfterGuard /\ ~Mine(c) /\ ~Released(RequestOf(c))

\* What an update has read is no more than was counted, and up to date unless
\* two updates overlapped.
UpdateInv(c) ==
  c \in Updating(job[c].user) =>
    LET u == job[c].user IN
    /\ job[c].stats.total = job[c].stats.ok + job[c].stats.failed
    /\ AtMost(job[c].stats, tally[u])
    /\ u \notin overlapped => job[c].stats = stats[u] /\ Updating(u) = {c}

IInv ==
  /\ TypeOK
  /\ \A c \in Calls : /\ CallerInv(c) /\ QuoteInv(c) /\ PaymentInv(c)
                      /\ BalanceInv(c) /\ WarningInv(c) /\ UpdateInv(c)
  /\ AdmittedIsPaid /\ QuoteCoversRent /\ BalanceSuffices /\ StatsExplained
=============================================================================
