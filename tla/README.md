# A formal model of the D2D backend

The repository is a NestJS backend that takes a payment in SOL, copies a Solana
program from devnet, deploys it with lamports borrowed from a pooled treasury,
and later closes it and returns the rent. Backers fill the treasury and earn
rewards and points. This directory holds TLA+ modules of the parts in which
steps interleave, fail or arrive late, the TLC configurations that check them,
and proofs of their most important properties for every value of the constants.

Paths below are relative to the repository (`src/` is its NestJS source).

## 1. Inventory

### Components, their state and their operations

| Component | State | Operations | Talks to |
|---|---|---|---|
| Deployment pipeline, `deployment/deployment.service.ts` | a row of `deployments`; two wallet files per run and one dump `temp/<program id>.so` per program; local variables of the detached run | `calculateCosts`, `executeDeploy` (answers once the row exists), `processDeployment` (detached), the CLI with one retry, buffer recovery, sweep | Supabase, Solana CLI, on-chain client |
| On-chain client, `program/program.service.ts` | none of its own; reads and moves `treasury_pool`, `deploy_request` | `createDeployRequest`, `fundTemporaryWallet`, `confirmDeploymentSuccess/Failure`, `syncLiquidBalance`, `creditFeeToPool`, `adminWithdrawRewardPool`, initialisation | the program |
| Close program, `close-program/close-program.service.ts` | the same rows and wallet files, `temp/close-<ms>.json` key files, the admin wallet | `closeProgram`, `closeProgramCli`, `sweepTemporaryWallet` | Supabase, CLI, RPC |
| Points, `points/` | `backer_points`, `point_history` | five-minute timer `syncAllBackerPoints`, `handleStake`, `handleUnstake`, `updatePoints`, GET and POST of `/points/:wallet` | Supabase |
| Pool event listener, `pool/pool-events.service.ts` | `backers`, a log subscription | `handleProgramLogs`, `manualSyncAllBackers` | the program's logs, Points |
| Pool service and controller, `pool/` | the `pool` row; sums over on-chain accounts | `getPoolState`, `syncPoolStateFromChain`, `getLeaderboard`, `calculateExcessRewards`, `creditFeeToPool`, `syncLiquidBalance`, `adminWithdrawRewardPool` | on-chain client |
| Cost calculation, `calculateCosts`, `utils/rent-calculator.ts` | the dump file of the program | verify, dump, ask for the rent or estimate it, add the reserve and three fees | CLI, RPC |
| Admission, `executeDeploy` and `createDeployRequest` | a row, the `deploy_request` and `user_stats` accounts, the admin wallet | quote, payment, verification, row, checks, airdrop, request | RPC, the program |
| Payment verification, `transaction/` | none | `verifyMultipleTransfers` with its fetch attempts | RPC |
| User statistics, `supabase/` | `user_stats` | `getUserStats`, `createUserStats`, `updateUserStats`: read, insert, write | Supabase |
| Start-up and treasury scripts, `onModuleInit`, `scripts/reset-`, `close-treasury-pool.ts`, `stake-to-treasury.ts` | the treasury pool account | create, reset, close, stake | the program |
| Buffer deployment, `deployment/utils/bpf-loader-deployment.ts` | a buffer account | create, write chunks, finalise over web3.js; called by nothing | RPC |
| Glue: config, crypto, wallet, guards, filters, interceptors | – | stateless | – |
| Other scripts, migrations, generated IDL types | – | run by hand, or data | – |

### What is hard

Nothing in this backend locks anything. All of it runs in one Node process, so
code between two `await`s is atomic and everything else interleaves: two runs
that deploy the same program, a close next to the last steps of the run that
deployed the program, the points timer next to a stake event. Every awaited call
can fail, and a failed write may have taken effect; a Solana transaction whose
confirmation timed out may land minutes later, after the code has decided that
it did not. Nothing is resumed after a restart, although a spawned CLI goes on.
`PROJECT.json` lists each such hazard at its line with the properties that watch
it, or the reason why none does yet.

### What makes each component correct

- *Pipeline*: the treasury pays once per deployment whatever is retried; a run
  puts at most one program on chain; whoever owns a live program can still be
  reached (its key is on disk); a row that says success has a program, a wallet
  and a file that can close it; what is not locked goes back; every run ends.
- *Close*: a row says closed only of a program that is gone; a call that answers ok
  was at work when that program was closed; secret keys do not stay on disk; money leaves a deployment only for
  the treasury; every call is answered.
- *Points and events*: no moment is paid twice, totals do not shrink, both tables
  come to hold what the last log line said, the history explains the total.
- *Pool*: what backers may claim stays in the account; an admin may withdraw the
  rest, and gets it; the pool table follows the chain.
- *Admission*: no row without a confirmed payment of the shares its request names; an exact payment
  is not turned away; a quote pays for the account it was made for; a request
  is sent with the lamports it needs; nobody takes over a request that somebody
  else holds. *Statistics*: counters add up and lose nothing without a reason.
- *Treasury account*: deposits are wiped by nothing but a close; a stake lands twice
  only for a reason; a husk comes back only by a stake.

## 2. Modules

```
TreasuryEscrow  <-- implemented by --  Deployment  --  DeploymentInvariant
                                          |               |-- DeploymentProofs
                                    MCDeployment          `-- DeploymentRefinement
ProgramCustody  <-- implemented by --  CloseProgram  --  CloseProgramProofs
                                          `-- MCCloseProgram
Points  --  PointsProofs  --------.
   `-- MCPoints                     |-- SumTheorems
RewardPool  --  RewardPoolProofs  --'
   `-- MCRewardPool
Fees, Payments  <-- extended by --  Admission  --  AdmissionProofs
                                       `-- MCAdmission
TreasuryLifecycle  --  TreasuryLifecycleProofs
   `-- MCTreasuryLifecycle
```

All six systems follow the same conventions.

- An action is one awaited call together with the code up to the next `await`;
  `pc` names the call that a run, request or task awaits.
- Every call may go wrong. A failing write is allowed to have taken effect and
  not to have; a transaction reported as failed may land later. Each such event is
  recorded in the ghost `mishaps`, so that properties can say what may happen
  when nothing, or only a particular thing, went wrong. An error that the state of
  the database, the disk or the chain explains is *not* a mishap: it is a refusal,
  with its own guard.
- A crash stops everything that runs in the backend; it leaves rows, files, the
  chain, transactions in flight and the spawned CLI.
- Faulty variants of operators (`...NoSweep`, `...Forever`, `...Backwards`) stand
  in front of the operator they vary. They are used by nothing in the
  specifications; swapping one in shows that a property notices the bug.

### Deployment (`deployment.service.ts`, `program.service.ts`, `supabase.service.ts`)

One record per deployment from the HTTP request to the end of the detached run,
for several at once. `status` and `deployer` are columns of the row; `metaFile`
and `keypairFile` the two files of the temporary wallet; `dumps` the programs
whose `temp/<id>.so` exists, shared by every run and cost estimate of a program;
`hasWallet` and `recovered` the locals the catch block looks at; `treasury` and
`liquid` the lamports of the treasury account and what its struct says of them;
`request` the `deploy_request` of each program hash (the hash is SHA-256 of the
program id, so deployments of one program share it); `wallet`, `buffer` and
`program` where the borrowed lamports are. Actions follow the code in order:
`ExecuteDeploy`, `CreateDeployRequest`, `RecordRequest`, `LoadDeployment`,
`PersistWallet`, the status writes, `DumpProgram`, the treasury checks and the two
funding attempts, the CLI with recovery and retry, sweep, confirmation, the
success row, statistics, and each step of the catch block. `syncInFlight` and
`fundInFlight` are transactions whose error was reported and which may land yet.

`TreasuryEscrow` is what the pipeline promises the treasury: each deployment is
an account that draws once, returns lamports, ends as success only over a locked
rent, and never takes a second time. `Deployment` implements it, with the sum
of wallet, buffer and program as the account.

### CloseProgram (`close-program.service.ts`, end of `processDeployment`)

Several calls at once, for rows in any state that Deployment leaves. It starts
from exactly what the theorem `SuccessHolds` of Deployment says of a success row:
a live program and a wallet file. `tail` is what the run that deployed the program
still does (statistics, or after their failure sweep and failed row), `keyFile`
the key files named by `Date.now()`, so two calls of one millisecond share a name;
`transfer` is a local that is read before an `await` and used after it. A CLI that runs when another one closes the program may have signed the same
transaction (same wallet, program and blockhash), which lands once and is
confirmed to both; `senders` are the calls of which that is so, and each of them
may report the close. `ProgramCustody` is the promise: lamports leave a deployment only for the
treasury, rent only with the program that locked it, a row says closed only when
the program is gone.

### Points (`points.service.ts`, `pool-events.service.ts`, `points.controller.ts`)

Each event handler, timer tick, request and manual sync is a task. A backer's row
has the total in hundredths (the columns are `NUMERIC(20,2)`), the deposit `held`
(`current_` and `last_deposited_amount` are always written together and alike), the
time of the last calculation, and a ghost `paid`, the time the total pays for.
`listed` is `backers.deposited_amount`. Gains are doubled so that the average of
two deposits stays an integer. The chain gives each backer a sequence of
deposits; its log lines are delivered in order to handlers that then overlap, or
are lost; lines of failed transactions are handled, too (`HandleVoidEvent`). A line
carries the amount that was moved (`Moved`), which the handlers take for the new
deposit; the ghost `told` is what a backer's last line, or the last manual sync,
said. `overlapped` is a ghost: the backers two tasks were ever in flight for.

### RewardPool (`pool.service.ts`, `pool.controller.ts`, `program.service.ts`)

Each request of the admin is a call: credit a fee, sync the pool table, or
withdraw. `account` is the `BackerDeposit` of each backer, `deposited`,
`perShare` and `tracked` are `total_deposited`, `reward_per_share` and
`reward_pool_balance` of the treasury struct,
`lamports` the reward pool account (with its rent `Reserve`), `pool` the row of the
pool table. What the chain does with a credit, a claim and a deposit is taken from
the formula in `calculateClaimableRewards` and the comment of migration 002. The
withdrawal is six awaited calls: the state, the balance and the accounts of the
leaderboard (`ReadPoolState`, `ReadBalance`, `GetLeaderboard`), the two reads
before the instruction (`ReadTracked`, `CheckBalances`), and the instruction. A
failure of the first three is not an error but an empty leaderboard, a zero
balance, or both. `disturbed` is a ghost: the withdrawals whose reads no longer
fit together because a fee, a claim or another withdrawal came between; `raced` says
that one of these was paid. `late` are instructions that may land after their error.

### Admission, with Fees and Payments (`calculateCosts`, `executeDeploy`, `createDeployRequest`, `updateUserStats`)

`Fees` is the arithmetic of a quote at its real scale: sizes in bytes, rent in
lamports, shares rounded up. `Payments` is `verifyMultipleTransfers` over the
transfers of a transaction. `Admission` is the path of a request through them,
for several at once. `job` is the request and its locals (`size`, `rent`, `sig`,
`tries`, `exist`, `short`, and the counters it has read), `row` the status of its row,
`payment` the transaction of each signature with its transfers, `request` the
`deploy_request` of each program, `known` the users with a `user_stats` account, `admin`
the admin wallet, `listed` and `stats` the rows of the table `user_stats`. The user
chooses what to pay (`Forms`) and which signature to name, and may name another
request's. The request names the five amounts of a quote, or any others (`Bodies`,
`Named`), and is verified and sent with what it names (`fees`): nothing ties it to
a quote. `createDeployRequest` refuses amounts that are not positive (`Positive`),
after the row is there. Programs are upgraded between the quote and the deployment, payments
land late or fail, the balance is read one call before it is spent. The run, which
is the subject of Deployment, is two steps here, so that what becomes of the
request and of the statistics is complete. Ghosts: `tally` counts every increment
that was ever written; `overlapped`, `grown`, `outspent` and `warned` are the users,
quotes, balances and requests for which something came in between.

### TreasuryLifecycle (`program.service.ts`, `scripts/`)

Start-ups of the backend, runs of the reset, close and stake scripts and stakes
through the service, each a call of one or more round trips, on one account. The
account is absent, a pool, or a husk (what a close may leave: rent-exempt, of the same size,
without a pool), in the old or the new layout. A call may fail or die between any
two round trips (`Lose`) and may be made again (`RunAgain`). `stake_sol` takes the account
unchecked, "to handle old layout migration" (IDL, `d2d_program_sol.ts:2066`), and
`stake-to-treasury.ts:54` says it will "init if needed"; so a stake into anything that is
not a readable pool may be refused, land and leave the account as it is, or make
a pool of the new layout (`Deposit`). Ghosts: `raced` are the resets under
which another call created a pool after they had looked, `wipes` how deposits were
wiped, `landed` how often each stake landed, `unread` the stakes of the service that
landed in an account it cannot read back.

## 3. Runs

| Run | Instance and bounds | Shows |
|---|---|---|
| `deployment_shared` | two deployments of one program by one developer, a cost estimate on the same program, 1 mishap per deployment, 1 crash; 0.84M states | one funding, one program, request, files and success row consistent; what a run leaves in its wallet when another one deletes its dump (`SweptAtEnd`); `ImplementsEscrow`; `EveryRunEnds` under fairness |
| `deployment_apart` | two programs and developers, 2 mishaps each, 1 crash; 5.0M states | how runs may end and what they leave: `FullInv` (types included), `StuckOnlyByFinalWrite`, `CleanRunSucceeds`, `StrandedOnlyByLateMishap`, `SuccessIsFinal` |
| `close_safe` | two calls, two deployments, two users, colliding key file names, CLIs that sign the same transaction, 1 mishap per call, 1 crash; 1.4M states | `FullInv` (types included), the safety properties and `ImplementsCustody` |
| `close_live` | two calls for one deployment, 2 mishaps each; 1.5M states | `EveryCallEnds` under fairness |
| `points_safe` | three tasks of any kind, one backer, two changes of its deposit, two clock ticks, one kind of mishap (void lines included); 5.8M states | no moment paid twice, totals grow, tables follow the news, history explains the total |
| `points_chain` | two tasks, no mishap, violated | a stake and a full unstake leave both tables at the amount that was moved |
| `points_hold_time` | two tasks, no mishap, violated | a stake is credited for the time before it |
| `points_rounding` | real scale: a unit is 0.01 SOL and 5 minutes, violated | small deposits earn nothing, ever |
| `reward_safe` | three requests of any kind, two backers, two stakes or unstakes and any claims, 1 mishap; 4.1M states | claims stay covered, what is free is granted, the table follows the chain |
| `reward_excess` | the same without mishaps, violated | an admin withdraws what backers may claim |
| `admission_safe` | two requests of two users for one program of two sizes, one payable and one simulated signature, requests that name a service fee larger than quoted by the tolerance or nothing at all, payments of that to the lamport or of the quote, two tries, an admin wallet that covers one request, 1 mishap; 3.1M states | `IInv`, paid rows, honest payments, quotes that cover the rent, statistics, the swallowed error |
| `treasury_safe` | one start-up, two resets, one close, a stake of each kind, each repeatable, an account of either layout, 1 mishap; 4.5M states | `IInv` with `DepositsSurvive` and the books of stakes; `HuskStays` |

**Bounds.** `MaxMishaps`, `MaxCrashes`, `MaxTime`, `MaxChanges`, `MaxMoves` and the sizes of
`Deployments`, `Calls`, `Tasks`, `Stamps` are bounds of the runs, not of the
code. Two deployments (two calls) are enough for every interaction the code has,
since deployments only meet in pairs: over one dump file, one deploy request, one
key file name, or one treasury. Three tasks let a tick, an event and a request
meet at one backer, and let one of them insert the row the others find. Backers
share nothing but the loop that visits them, so one backer is checked, and the
proofs cover any number. With the deposits 0 and 2 every log line names 2; that the second
update of an event writes the right one of several amounts rests on the proof. In RewardPool one credit and two withdrawals, or a credit
and two syncs, meet, and `Precision` 2 makes rewards round. In Admission two requests meet over the admin wallet, the request
of their program, and, when one user makes both, its statistics; `Users` has two
members and each request picks its user, so both cases are in. Two forms of payment and two bodies are
checked (exact, short by just the tolerance, for nothing, of another user); the proofs
hold for every set of `Forms` and `Bodies`. Fees, rents and the
tolerance have their real values, so every comparison and rounding is the code's.
In TreasuryLifecycle a second reset is the one that overtakes the first. The lamport constants (`Cost` 4, `Rent` 2, `SweepFee` 1;
`Rent` 6, `TxFee` 1, `MinBalance` 4 for closing) keep the order of the real ones
of Deployment and CloseProgram and make each comparison of the code go both ways. `CHECK_DEADLOCK FALSE` is
stated everywhere because the systems really stop: every run, call and task of an
instance ends.

**Fairness.** `FairSpec` of Deployment and of CloseProgram adds weak fairness of
each run's (call's) own steps: an awaited promise of `fetch`, Supabase or web3.js
settles, and `runSolanaCli` kills a CLI that exceeds its timeout and rejects.
Nothing is assumed of crashes, late transactions or arriving requests. The other
modules state no liveness property: their calls are straight lines that end when the
awaited promises settle, and the only loops are bounded (`MaxTries`) or left to
people who try again.

## 4. Where the code and its documents disagree

- `points.service.ts:372` closes the period before a stake only if the stored
  deposit is above 0. A row made by a GET, or left by a full unstake, is then
  averaged with the new deposit over all the time since, although the table
  comment says points are "based on SOL deposit and hold time" (`points_hold_time`).
- `points.service.ts:189` stores the total in two decimals at every five-minute
  sync. Deposits between 0.01 and 0.06 SOL, which the code accepts, earn less than
  0.005 points each time, and so nothing for ever (`points_rounding`).
- `pool-events.service.ts:110` and `:135` take the amount of a log line for the backer's new
  deposit, although the IDL's events carry it beside a total (`d2d_program_sol.ts:3556-3597`,
  `:3321-3342`). After a second stake, or a withdrawal, both tables are wrong with
  nothing lost, although migration 003 (line 103) calls the column
  "Current SOL deposited (in lamports)" (`points_chain`).
- `pool.controller.ts:204` computes the excess from three reads that are awaited
  one after the other. A fee credited in between is in the balance and in nobody's
  claims, and is paid out, although the comment says "Only excess rewards (surplus)
  can be withdrawn, not backers' claimable rewards" (`reward_excess`).

The following were met while modelling. The first two are covered by a property
that holds, because what they get wrong is caught elsewhere; the others have no
run, since nothing in the repository states the contrary as a checkable claim.

- `program.service.ts:829` raises an error for the request of another developer that
  cannot be reset, inside the `try` whose `catch` (`:836`) takes it for a failed fetch and
  goes on. The call is then refused on chain (`WarnedIsRefused`).
- `close-treasury-pool.ts:138` names `reset-treasury-pool.ts` as the next step, but that
  script declines an account of 200 bytes or more. Where a close leaves one, no
  run of it and no start-up brings the pool back; a stake may (`HuskStays`).
- `transaction.service.ts`: a transaction with too few transfers passes the first test when its
  total is right, but each transfer is then looked up, and what is done for a
  transfer that is not found (`:337`) only ever sees a sum of 0. One
  combined payment is never accepted; the total never decides alone.
- The tolerance of 0.001 SOL is larger than the platform fee of any program whose
  rent is below one SOL: such a fee may be paid with a transfer of nothing.
- `deployment.service.ts:338` stores the payment signature without looking for an
  earlier row that has it. Any number of deployments may name one payment.
- `program.service.ts:221` and `:457` report `liquidBalance || totalDeposited` as what is available,
  so a treasury that is lent out entirely is reported as full. Start-up only logs it.
- `program.service.ts:449` reads the pool back after a stake has landed and reports the stake as
  failed when that read fails; a repeated stake then lands twice. If the account has the
  old layout, which the IDL says `stakeSol` handles, this happens every time.
- `close-program.service.ts:304` adds the program balance, which the CLI returned
  to the wallet, to the lamports swept out of that wallet: the answer counts the rent
  twice, while the DTO calls it "Total lamports recovered and returned to treasury
  pool". The sum is answered and stored nowhere, so it is not modelled.
- `close-program.service.ts:462` takes a CLI run that reports the close for its own. Two
  calls whose CLIs sign the same transaction are both answered ok, each with the
  lamports it believes to have recovered.
- `deployment.service.ts:297` computes what is to be paid from the amounts of the request.
  A row may be admitted for the least amounts that pass; the platform fee may be 0,
  amounts that are not positive are refused by `program.service.ts:677`, after the row exists.

## 5. What is proved

Every invariant and every action property of a passing run is a theorem; so are
both refinements. TLAPS checks them for every number of deployments, calls, tasks
and backers and every value of the constants. The modules name what they assume,
and TLC evaluates it in every run:

- bounds and amounts are naturals, `None` is not a member, the kinds of calls on
  the treasury are disjoint; `Cost`, `Rent`, `Precision`, `Cent` and `MaxTries` are positive;
- `Tasks`, `Backers` and the calls of Admission are finite, and there is a backer, since sums
  are taken over them;
- `TxFee` is at most `FeeEstimate` (5000 against 10000 lamports), and in CloseProgram at most
  `MinBalance` and `Keep` (5000 against 10^7 and 10^6). Without the last one
  `CleanCloseReturnsAll` is false: a sweep that keeps less than its own fee is rejected;
- the reserve of a quote is no less than `EstimateGap`. It is an environment variable
  (`DEPLOYMENT_RENT_BUFFER_LAMPORTS`); the default of 6000000 satisfies it, and
  `QuoteCoversRent` says nothing of a smaller one.

Each proof is an inductive invariant, checked by TLC as well, and one lemma per action.

**Deployment** (`DeploymentProofs`, `DeploymentRefinement`). The properties are not
inductive: that the treasury pays once, for instance, depends on where a run
may stand when a late transaction lands. `IInv` ties each label of a run to
its books (`MoneyInv`: nothing is drawn before the funding calls, a late funding
call is of a run that drew nothing), to the CLI (`CliInv`: one buffer is consumed
for the one program), to its files (`DiskInv`: a keypair file follows its metadata
file, and lamports leave the wallet only through it), to the sweep (`WalletInv`)
and to its row (`StatusInv`). Proved: `TypeOK`, `IInv`, `FundedOnce`,
`OneProgramPerRun`, `ActiveRequestIsLive`, `AuthorityOnDisk`, `SuccessIsBacked`,
`SweptAtEnd`, `StuckOnlyByFinalWrite`, `SuccessIsFinal`, and that every step is a
step of `TreasuryEscrow` or invisible in it.

That a run which shares its program with nobody succeeds is about what such a run
finds at each call. `ApartInv` says it: the lamports, the two files, the
dump, and the deploy request with its key are there from the call that brings
them to the last one that needs them, unless a mishap or another run of the
program took them; so a funded run gets to its catch block only over a mishap, and
leaves a program behind only over a late one. Steps of runs on other programs
touch the treasury and nothing of this (`AsideKeeps`); `Replies` collects what
the reply to a call may do. `IInv` and `ApartInv` are inductive
together (`FullInv`). Proved: `FullInv`,
`CleanRunSucceeds`, `StrandedOnlyByLateMishap`.

**CloseProgram** (`CloseProgramProofs`). `IInv` says what each label of a call
implies (`CallInv`), above all that a call past its CLI is one of `senders`: its CLI
ran when the program was closed (`CloseFacts`). Several calls may be, so nothing
is claimed of a single success. Proved: `TypeOK`, `IInv`, `ClosedIsGone`, `OkIsBackedAndRecorded`,
`KeyFilesRemoved`, `UnrecordedOnlyByMishap`, and the refinement of
`ProgramCustody`.

The balances are read one call before they are used. `SeenInv` says why that does
no harm: while the program lives and its run is not sweeping, others only add to the wallet, so what
was enough when it was weighed is enough when the CLI starts (`TopUpInv`); a key
file is the call's own or shares its name with another's (`KeyInv`); a call alone on
its deployment sweeps what it saw (`SweepInv`); and an error has an excuse that does
not go away (`ErrorInv`): rows do not become closable again, programs do not come
back, the admin wallet only pays. Steps of other calls are `Gentle` in this
sense (`FrameSees`, `AsideSees`). With `IInv` it makes `FullInv`. Proved: `FullInv`, `RefusalIsExplained`,
`CleanCloseReturnsAll`.

**Points** (`PointsProofs`). A backer that no two tasks ever shared has at most
one task, and what this task has drafted was computed from the row as it still
is (`WorkInv`, `RowInv`). A step of a task changes at most the row of its own
backer (`RowStep`) and its own label (`Moves`); if it is alone there the others do
not notice, and if not, nothing is claimed of that backer (`UpdateInv`).

`TablesInv` follows a deposit from its log line into the tables. A task at a backer
owes it a goal, the deposit of the line it handles or of the list it walks, and each label says
how much of that is already written (`Duty`); a backer without a task is settled at
what it was last told, lost and void lines or not (`Calm`). Every step still owes the same or leaves its
backer settled (`Fulfils`). `HistoryInv` holds of overlapping tasks too: what
the total has over the history is still to be logged by some task, so it is
bounded by a sum over the tasks (`Explained`); a step moves an amount between
the total, a task and the history (`Accounts`). Proved: `TypeOK`, `IInv`,
`NoMomentPaidTwice`, `PointsOnlyGrow`, `TablesFollowNews`, `HistoryExplainsTotal`.

**RewardPool** (`RewardPoolProofs`). The table never going back depends on the state
a sync carries from its read to its write. `IInv` says that, as long as syncs do not
overlap, the one in flight carries a state between the table and the chain
(`SyncInv`), and that what a credit brought about has come as far as its request
(`CreditInv`). Most steps are quiet (`QuietKeepsInv`): each call stands still or
goes where nothing is claimed of it.

`BooksInv` is about the claims. `Room(x)` is what `x` lamports have left once everything
backers have earned is set aside, scaled by `Precision` so that nothing is
rounded, and up to the fractions that flooring may hide (`Slack`). Stakes, unstakes, claims and credits leave no less room; a payment takes what its guard
has seen, and disturbs every other withdrawal that relies on it. So room stays
nonnegative until a payment is made from reads that do not fit together
(`AccountsInv`), an undisturbed withdrawal carries values that still hold
(`PayoutInv`), and what was free when the only withdrawal was asked for stays free (`FreeInv`).
Only at the end are the floors of the claims summed, which turns `Slack` into `Dust`. Proved:
`TypeOK`, `IInv`, `CreditIsRecorded`, `TableFollowsChain`, `ClaimsCovered`, `ExcessIsGranted`.

**Sums** (`SumTheorems`). Both components sum over a finite set with `SumFunction`, a
recursive fold. That the fold exists and may take the elements in any order is proved by
well-founded induction over subsets, with the property to be proved given as a
set of subsets (`SetInduction`), which keeps it first-order. From it: a sum grows by what
one argument grows by (`SumChangeAt`), is linear and monotone, and counts a constant.

**Admission, Fees, Payments** (`AdmissionProofs`). About the arithmetic, for every size and rent:
the estimate with the reserve covers what the cluster asks, which is where
`EstimateGap` comes from (`EstimateCoversRent`), fees are positive and add up
(`SharesPositive`). About verification, for every transaction: what is verified covers each
share that is due up to the tolerance (`VerifiedCovers`), what is exact is verified (`ExactIsVerified`).
About the system: `IInv` has a part per concern, each over few variables: the quote
(`QuoteInv`), the payment (`PaymentInv`: what was refused was not exact, what waits for its
row is settled, what is requested on chain names positive amounts), the balance (`BalanceInv`: what was required is there unless
another request was accepted since), the warning (`WarningInv`: it stands as long as
the request is held by somebody else), the update (`UpdateInv`: what it has read is
current unless two updates overlapped). A lemma per part says that a step which leaves
its variables alone keeps it (`...Move`, `...Stay`), so that each action is left with the part it
is about. Proved: `TypeOK`, `IInv`, `AdmittedIsPaid`, `HonestPaymentAccepted`, `QuoteCoversRent`,
`BalanceSuffices`, `StatsExplained`, `WarnedIsRefused`.

**TreasuryLifecycle** (`TreasuryLifecycleProofs`). A step concerns one call, and what `ResetInv` and
`StakeInv` say of another call's view of the account only stops holding when that call is
marked as raced, the account is closed, or the stake is known to have gone into an account
of another layout (`Excused`). Proved: `TypeOK`, `IInv`, `DepositsSurvive`,
`DoubleStakeExplained`, and the action property `HuskStays`.

**Only model-checked.** The liveness properties `EveryRunEnds` and `EveryCallEnds`:
liveness under fairness, and `ENABLED`, are out of the prover's reach. The four violated
properties of section 4 are refuted by TLC on their instances.

## 6. Abstractions

Amounts are small naturals; ids, keys and hashes are model values; log texts, HTTP
formats and logging are left out. The on-chain program, the Solana CLI, RPC nodes,
Supabase and the clock are external: modelled from how the backend calls them,
and as nondeterministic as its checks leave them. A program hash that is not 32
bytes, and an insert that is stored but answered with an error, are choices in
`ExecuteDeploy` of Deployment. The timer, the log lines and the requests of
Points are each handled once (`Tasks`); what a log line says is the amount moved.
In RewardPool amounts are naturals, although neither `pool.controller.ts:204` nor
`adminWithdrawRewardPool` rejects a negative one: what the instruction does with it is not
in the repository. The platform's part of a fee, the total of
claims and the snapshots are left out; rewards are floored as the program does,
and `ClaimsCovered` allows for the fractions that flooring hides (`Dust`).

In Admission the program, the cluster and the wallets of users are external. The
amounts of a request are integers; fractions, which `IsNumber` admits, are left out.
The code computes fees in floating
point; the model uses exact integers, with the one estimate that may differ by a
lamport given both values. The treasury's admin is this backend, or the check of
it fails (a mishap of the call). The on-chain program lets another developer take over a
request that is not funded, failed or expired, which is what `canReset` takes it to do.
In TreasuryLifecycle the sizes of the two struct layouts are `old` (below 200 bytes) and
`new`, a close leaves nothing or a husk, since the code does not say which, and creating
an account that exists fails as in use. How much of the pool is liquid is the
subject of Deployment.

## 7. Not modelled

- `bpf-loader-deployment.ts` (apart from the account size and the program data address) and
  `authority-transfer.ts`: nothing calls them, the pipeline deploys with the CLI.
- `callDeployProgram`, `requestDeploymentFunds`, `verifyTransaction`, `transactionExists`,
  `waitForConfirmation`: no caller.
- Queries that change nothing (`getUserStakeInfo`, `calculateMaxUnstake`, `getUtilizationHistory`, the
  getters of Supabase and of the on-chain client) and stateless glue.
- The generated IDL types, which are data, and the `check-`, `debug-` and `test-` scripts, which print.
  `backfill_reward_per_share.ts` rewrites one row from a chain at rest.

## 8. Plan

All components that change state are modelled and every safety property of a
passing run is proved. What may still be added:

1. Abstract specifications of Points (an account that earns at most for the time
   that has passed) and of RewardPool (a fund that pays claims before excess), with
   the refinements proved like those of Deployment and CloseProgram.
2. A refinement of TreasuryEscrow's entry by Admission: an account that draws belongs to a
   row that was paid for.
