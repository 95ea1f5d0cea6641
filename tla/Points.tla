-------------------------------- MODULE Points --------------------------------
(***************************************************************************)
(* The points of backers: PointsService (periodic sync, stake and unstake  *)
(* events, the HTTP reads and syncs) and PoolEventsService, which feeds it *)
(* from the program's logs.  Everything that updates points is a task of   *)
(* one Node process, and tasks overlap at every await; pc[t] names the     *)
(* call t awaits.                                                          *)
(*                                                                         *)
(* current_deposited_amount and last_deposited_amount are always written   *)
(* together and alike, so the row has one field, held.  Points are average *)
(* deposit times elapsed time; gains are kept doubled, so that the average *)
(* of two deposits is a sum, and are rounded to hundredths of a point when *)
(* they are stored, as the columns are NUMERIC(20,2).  The program and its *)
(* logs are external: its events carry the amount that was deposited or    *)
(* withdrawn, beside a total; the handlers take the amount for the new     *)
(* deposit.  Lines of failed transactions are handled like the others.     *)
(***************************************************************************)
EXTENDS Integers, Sequences, SequencesExt, FiniteSets, Functions

CONSTANTS
  Wallets,     \* backers
  Tasks,       \* bound: events, timer ticks and requests that are ever handled
  Amounts,     \* values a deposit can have
  MinDeposit,  \* MIN_DEPOSIT_FOR_POINTS
  Cent,        \* twice the deposit times time that earns a hundredth of a point
  None,        \* no kind of task, no backer
  MaxTime,     \* bound: the clock
  MaxChanges,  \* bound: deposits and withdrawals of a backer
  MaxMishaps   \* bound: kinds of mishap per backer

ASSUME PointsAssumption ==
  /\ None \notin Wallets /\ IsFiniteSet(Tasks)
  /\ Amounts \subseteq Nat /\ MinDeposit \in Nat /\ Cent \in Nat \ {0}
  /\ MaxTime \in Nat /\ MaxChanges \in Nat /\ MaxMishaps \in Nat

VARIABLES
  now,         \* the clock
  changes,     \* the values that depositedAmount of each backer was set to on chain
  heard,       \* how many of their log lines were delivered, or lost
  told,        \* ghost: the deposit a log line or the last manual sync gave for each backer
  listed,      \* backers.deposited_amount; above 0 exactly if is_active is set
  rows,        \* backers that have a row in backer_points
  row,         \* that row
  history,     \* the points_earned in point_history, summed per backer
  pc,          \* the call each task awaits
  job,         \* what each task is, and its local variables
  holders,     \* ghost: backers that had a deposit on chain for some time
  overlapped,  \* ghost: backers of which two tasks were ever in flight at once
  mishaps      \* ghost: what went wrong for each backer

chainVars == <<now, changes, heard, told, holders>>
tableVars == <<listed, rows, row, history>>
taskVars  == <<pc, job>>
vars == <<chainVars, tableVars, taskVars, overlapped, mishaps>>

Kind   == {"event", "tick", "post", "get", "manual"}
Active == {"reading", "creating", "calculating", "recreating", "rereading",
           "writing", "logging", "listing"}
Label  == {"idle", "done"} \cup Active
Mishap == {"read", "create", "write", "history", "list", "lost",
           "void", "crash"}

\* paid is a ghost: the time that total pays for.
Row == [total : Nat, held : Nat, since : Nat, paid : Nat]

\* What createBackerPoints inserts at time t.
NewRow(t) == [total |-> 0, held |-> 0, since |-> t, paid |-> 0]

Job == [kind   : Kind \cup {None},
        at     : Wallets \cup {None},  \* the backer it is working for
        left   : SUBSET Wallets,       \* the backers it has still to visit
        aim    : [Wallets -> Nat],     \* the deposits it was started with
        before : BOOLEAN,              \* is it paying for the time before an event?
        amount : Nat,                  \* the argument of updatePoints
        gain   : Nat, span : Nat,      \* pointsEarned, and the time it pays for
        draft  : Row]                  \* the row it is inserting or writing

NoJob == [kind |-> None, at |-> None, left |-> {}, aim |-> [w \in Wallets |-> 0],
          before |-> FALSE, amount |-> 0, gain |-> 0, span |-> 0, draft |-> NewRow(0)]

\* A gain in hundredths of a point.
Hundredths(x) == (2 * x + Cent) \div (2 * Cent)

\* depositedAmount of a backer, now.
Deposit(w) == IF changes[w] = <<>> THEN 0 ELSE Last(changes[w])
Deposits   == [w \in Wallets |-> Deposit(w)]
News(w)    == heard[w] < Len(changes[w])

\* The amount in the next log line: by how much the deposit changed.
Moved(w) ==
  LET to   == changes[w][heard[w] + 1]
      from == IF heard[w] = 0 THEN 0 ELSE changes[w][heard[w]]
  IN  IF to >= from THEN to - from ELSE from - to

Busy(t, w) == pc[t] \in Active /\ w \in {job[t].at} \cup job[t].left
Idle(w)    == \A t \in Tasks : ~Busy(t, w)

-----------------------------------------------------------------------------
(* Control *)

Do(t, l, j) == pc' = [pc EXCEPT ![t] = l] /\ job' = [job EXCEPT ![t] = j]
Proceed(t, l) == Do(t, l, job[t])

GoesWrong(t, what) ==
  LET w == job[t].at IN
  /\ Cardinality(mishaps[w] \cup {what}) <= MaxMishaps
  /\ mishaps' = [mishaps EXCEPT ![w] = @ \cup {what}]

\* Task t updates the points of w with a deposit; left to visit is S.
Visiting(j, w, S, a) ==
  [NoJob EXCEPT !.kind = j.kind, !.at = w, !.left = S, !.aim = j.aim, !.amount = a]

\* The loop of a task goes on with one of the backers in S, in an order that
\* is the database's, or ends.
Visit(t, j, S) ==
  \/ S = {} /\ Do(t, "done", NoJob)
  \/ \E w \in S : Do(t, "calculating", Visiting(j, w, S \ {w}, j.aim[w]))

\* An error drops what was left to do for this backer and nothing else.
NextWallet(t)  == Visit(t, job[t], job[t].left)
Throw(t, what) == GoesWrong(t, what) /\ NextWallet(t)

\* Faulty variant: a manual sync leaves the backers table as it is.
UpdatedUnlisted(t) ==
  LET j == job[t] IN
  \/ j.before /\ Do(t, "calculating", Visiting(j, j.at, j.left, j.aim[j.at]))
  \/ ~j.before /\ j.kind = "event" /\ Do(t, "listing", Visiting(j, j.at, j.left, 0))
  \/ ~j.before /\ j.kind # "event" /\ NextWallet(t)

\* updatePoints returned: handleStake and handleUnstake call it again with the
\* new deposit; then the listeners update the backers table.
Updated(t) ==
  LET j == job[t] IN
  \/ j.before /\ Do(t, "calculating", Visiting(j, j.at, j.left, j.aim[j.at]))
  \/ /\ ~j.before /\ j.kind \in {"event", "manual"}
     /\ Do(t, "listing", Visiting(j, j.at, j.left, 0))
  \/ ~j.before /\ j.kind \notin {"event", "manual"} /\ NextWallet(t)

-----------------------------------------------------------------------------
(* The chain *)

Advance ==
  /\ now < MaxTime
  /\ now' = now + 1
  /\ holders' = holders \cup {w \in Wallets : Deposit(w) > 0}
  /\ UNCHANGED <<changes, heard, told, tableVars, taskVars, overlapped, mishaps>>

ChangeDeposit(w) ==
  /\ Len(changes[w]) < MaxChanges
  /\ \E a \in Amounts \ {Deposit(w)} : changes' = [changes EXCEPT ![w] = Append(@, a)]
  /\ UNCHANGED <<now, heard, told, holders, tableVars, taskVars, overlapped, mishaps>>

\* The subscription does not replay what it missed.
LoseNews(w) ==
  /\ News(w)
  /\ Cardinality(mishaps[w] \cup {"lost"}) <= MaxMishaps
  /\ heard' = [heard EXCEPT ![w] = @ + 1]
  /\ mishaps' = [mishaps EXCEPT ![w] = @ \cup {"lost"}]
  /\ UNCHANGED <<now, changes, told, holders, tableVars, taskVars, overlapped>>

-----------------------------------------------------------------------------
(* Tasks start *)

\* A task begins to work for the backers in S.
Meets(t, S) ==
  /\ pc[t] = "idle"
  /\ overlapped' = overlapped \cup {w \in S : ~Idle(w)}
  /\ UNCHANGED tableVars

\* Event handlers and requests for one backer begin by reading its row.
StartFor(t, k, w, a) ==
  /\ Meets(t, {w})
  /\ Do(t, "reading", [NoJob EXCEPT !.kind = k, !.at = w, !.aim = [@ EXCEPT ![w] = a]])

StartLoop(t, k, S, amounts) ==
  /\ Meets(t, S)
  /\ Visit(t, [NoJob EXCEPT !.kind = k, !.aim = amounts], S)
  /\ UNCHANGED mishaps

\* handleDepositEvent and handleWithdrawEvent of a line with amount a, as the
\* newDepositAmount.
TakeLine(t, w, a) ==
  /\ StartFor(t, "event", w, a)
  /\ told' = [told EXCEPT ![w] = a]

HandleEvent(t, w) ==
  /\ News(w)
  /\ TakeLine(t, w, Moved(w))
  /\ heard' = [heard EXCEPT ![w] = @ + 1]
  /\ UNCHANGED <<now, changes, holders, mishaps>>

\* logs.err is not looked at: lines of a transaction that failed count, too.
HandleVoidEvent(t, w) ==
  /\ \E a \in Amounts \ {0} : TakeLine(t, w, a)
  /\ Cardinality(mishaps[w] \cup {"void"}) <= MaxMishaps
  /\ mishaps' = [mishaps EXCEPT ![w] = @ \cup {"void"}]
  /\ UNCHANGED <<now, changes, heard, holders>>

\* POST /points/:wallet/sync and GET /points/:wallet.
Request(t, w) ==
  /\ \E k \in {"post", "get"} : StartFor(t, k, w, 0)
  /\ UNCHANGED <<chainVars, mishaps>>

\* syncAllBackerPoints selects the active backers and their deposits.
SyncAllBackerPoints(t) ==
  /\ StartLoop(t, "tick", {w \in Wallets : listed[w] > 0}, listed)
  /\ UNCHANGED chainVars

\* manualSyncAllBackers fetches all deposit accounts, also some of backers
\* that have withdrawn everything.
ManualSyncAllBackers(t) ==
  \E S \in SUBSET Wallets :
    /\ \A w \in Wallets \ S : Deposit(w) = 0
    /\ StartLoop(t, "manual", S, Deposits)
    /\ told' = [w \in Wallets |-> IF w \in S THEN Deposit(w) ELSE told[w]]
    /\ UNCHANGED <<now, changes, heard, holders>>

-----------------------------------------------------------------------------
(* The first read: handleStake, handleUnstake and getPoints *)

\* held is 0 for a new row, and for null, which getOrCreateBackerPoints
\* returns on an error: an event then only applies the new deposit, a sync
\* takes the deposit to be 0.
Found(t, held) ==
  LET j == job[t] IN
  \/ /\ j.kind = "event" /\ held > 0
     /\ Do(t, "calculating", [Visiting(j, j.at, {}, held) EXCEPT !.before = TRUE])
  \/ /\ ~(j.kind = "event" /\ held > 0)
     /\ Do(t, "calculating",
           Visiting(j, j.at, {}, IF j.kind = "event" THEN j.aim[j.at] ELSE held))

Missing(t, l) ==
  /\ job[t].at \notin rows
  /\ Do(t, l, [job[t] EXCEPT !.draft = NewRow(now)])

Read(t) ==
  LET w == job[t].at IN
  /\ pc[t] = "reading"
  /\ \/ w \in rows /\ Found(t, row[w].held) /\ UNCHANGED mishaps
     \/ Missing(t, "creating") /\ UNCHANGED mishaps
     \/ GoesWrong(t, "read") /\ Found(t, 0)
  /\ UNCHANGED <<chainVars, tableVars, overlapped>>

Insert(t) ==
  LET w == job[t].at IN
  /\ w \notin rows
  /\ rows' = rows \cup {w}
  /\ row' = [row EXCEPT ![w] = job[t].draft]

\* wallet_address is unique: a second insert is refused, and that is thrown.
CreateBackerPoints(t) ==
  /\ pc[t] = "creating"
  /\ \/ Insert(t) /\ Found(t, 0) /\ UNCHANGED mishaps
     \/ job[t].at \in rows /\ NextWallet(t) /\ UNCHANGED <<rows, row, mishaps>>
     \/ Throw(t, "create") /\ (Insert(t) \/ UNCHANGED <<rows, row>>)
  /\ UNCHANGED <<chainVars, listed, history, overlapped>>

-----------------------------------------------------------------------------
(* updatePoints *)

\* Faulty variant: the two times are subtracted the wrong way round.
CalculatedBackwards(t, r) ==
  Do(t, "rereading", [job[t] EXCEPT !.gain = (r.held + job[t].amount) * (r.since - now)])

\* calculatePoints: twice the average of the last and the current deposit
\* times the elapsed time, nothing below the minimum; for a GET this is all,
\* and calculatePointsRealTime stores nothing.
Calculated(t, r) ==
  LET j == job[t] IN
  \/ j.kind = "get" /\ NextWallet(t)
  \/ /\ j.kind # "get"
     /\ IF j.amount < MinDeposit THEN Proceed(t, "rereading")
        ELSE Do(t, "rereading", [j EXCEPT !.gain = (r.held + j.amount) * (now - r.since),
                                          !.span = now - r.since])

CalculatePoints(t) ==
  LET w == job[t].at IN
  /\ pc[t] = "calculating"
  /\ \/ w \in rows /\ Calculated(t, row[w]) /\ UNCHANGED mishaps
     \/ Missing(t, "recreating") /\ UNCHANGED mishaps
     \/ Throw(t, "read")
  /\ UNCHANGED <<chainVars, tableVars, overlapped>>

CreateToCalculate(t) ==
  /\ pc[t] = "recreating"
  /\ \/ Insert(t) /\ Calculated(t, job[t].draft) /\ UNCHANGED mishaps
     \/ job[t].at \in rows /\ NextWallet(t) /\ UNCHANGED <<rows, row, mishaps>>
     \/ Throw(t, "create") /\ (Insert(t) \/ UNCHANGED <<rows, row>>)
  /\ UNCHANGED <<chainVars, listed, history, overlapped>>

\* Faulty variants: the time of the last calculation is left as it was; the
\* total is not added to.
DraftKeepsTime(j, r) == [total |-> r.total + Hundredths(j.gain), held |-> j.amount,
                         since |-> r.since, paid |-> r.paid + j.span]
DraftOverwrites(j, r) == [total |-> Hundredths(j.gain), held |-> j.amount,
                          since |-> now, paid |-> j.span]

\* The row that updatePoints writes.
Draft(j, r) == [total |-> r.total + Hundredths(j.gain), held |-> j.amount,
                since |-> now, paid |-> r.paid + j.span]

\* The row is read a second time, for the total alone.
ReadAgain(t) ==
  LET j == job[t] IN
  /\ pc[t] = "rereading"
  /\ \/ /\ j.at \in rows
        /\ Do(t, "writing", [j EXCEPT !.draft = Draft(j, row[j.at])])
        /\ UNCHANGED mishaps
     \/ Throw(t, "read")
  /\ UNCHANGED <<chainVars, tableVars, overlapped>>

\* Faulty variant: no history is recorded.
WritePointsUnlogged(t) ==
  /\ pc[t] = "writing"
  /\ row' = [row EXCEPT ![job[t].at] = job[t].draft]
  /\ Updated(t)
  /\ UNCHANGED <<chainVars, listed, rows, history, overlapped, mishaps>>

WritePoints(t) ==
  LET j == job[t]
      Written == row' = [row EXCEPT ![j.at] = j.draft]
  IN
  /\ pc[t] = "writing"
  /\ \/ /\ Written
        /\ IF j.gain > 0 THEN Do(t, "logging", [j EXCEPT !.draft = NewRow(0)]) ELSE Updated(t)
        /\ UNCHANGED mishaps
     \/ Throw(t, "write") /\ (Written \/ UNCHANGED row)
  /\ UNCHANGED <<chainVars, listed, rows, history, overlapped>>

\* An error is only logged.
RecordPointHistory(t) ==
  LET j == job[t]
      Recorded == history' = [history EXCEPT ![j.at] = @ + Hundredths(j.gain)]
  IN
  /\ pc[t] = "logging"
  /\ Updated(t)
  /\ \/ Recorded /\ UNCHANGED mishaps
     \/ GoesWrong(t, "history") /\ (Recorded \/ UNCHANGED history)
  /\ UNCHANGED <<chainVars, listed, rows, row, overlapped>>

\* updateBackerInDatabase, whose errors are logged, too.
UpdateBacker(t) ==
  LET j == job[t]
      Written == listed' = [listed EXCEPT ![j.at] = j.aim[j.at]]
  IN
  /\ pc[t] = "listing"
  /\ NextWallet(t)
  /\ \/ Written /\ UNCHANGED mishaps
     \/ GoesWrong(t, "list") /\ (Written \/ UNCHANGED listed)
  /\ UNCHANGED <<chainVars, rows, row, history, overlapped>>

-----------------------------------------------------------------------------
\* A crash ends all tasks, and the log lines of that time are never seen.
Crash ==
  /\ \E w \in Wallets : News(w) \/ ~Idle(w)
  /\ pc' = [t \in Tasks |-> IF pc[t] = "idle" THEN "idle" ELSE "done"]
  /\ job' = [t \in Tasks |-> NoJob]
  /\ heard' = [w \in Wallets |-> Len(changes[w])]
  /\ mishaps' = [w \in Wallets |-> IF Idle(w) /\ ~News(w) THEN mishaps[w]
                                    ELSE mishaps[w] \cup {"crash"}]
  /\ \A w \in Wallets : Cardinality(mishaps'[w]) <= MaxMishaps
  /\ UNCHANGED <<now, changes, told, holders, tableVars, overlapped>>

Init ==
  /\ now = 0
  /\ changes = [w \in Wallets |-> <<>>] /\ heard = [w \in Wallets |-> 0]
  /\ told = [w \in Wallets |-> 0] /\ holders = {}
  /\ listed = [w \in Wallets |-> 0]
  /\ rows = {} /\ row = [w \in Wallets |-> NewRow(0)]
  /\ history = [w \in Wallets |-> 0]
  /\ pc = [t \in Tasks |-> "idle"] /\ job = [t \in Tasks |-> NoJob]
  /\ overlapped = {}
  /\ mishaps = [w \in Wallets |-> {}]

Begin(t) == \/ \E w \in Wallets : HandleEvent(t, w) \/ HandleVoidEvent(t, w) \/ Request(t, w)
            \/ SyncAllBackerPoints(t) \/ ManualSyncAllBackers(t)

Step(t) == \/ Read(t) \/ CreateBackerPoints(t)
           \/ CalculatePoints(t) \/ CreateToCalculate(t)
           \/ ReadAgain(t) \/ WritePoints(t)
           \/ RecordPointHistory(t) \/ UpdateBacker(t)

Next ==
  \/ \E t \in Tasks : Begin(t) \/ Step(t)
  \/ \E w \in Wallets : ChangeDeposit(w) \/ LoseNews(w)
  \/ Advance \/ Crash

Spec == Init /\ [][Next]_vars

-----------------------------------------------------------------------------
(* Properties *)

TypeOK ==
  /\ now \in Nat
  /\ changes \in [Wallets -> Seq(Nat)] /\ heard \in [Wallets -> Nat]
  /\ told \in [Wallets -> Nat]
  /\ holders \subseteq Wallets /\ listed \in [Wallets -> Nat]
  /\ rows \subseteq Wallets /\ row \in [Wallets -> Row]
  /\ history \in [Wallets -> Nat]
  /\ pc \in [Tasks -> Label] /\ job \in [Tasks -> Job]
  /\ overlapped \subseteq Wallets
  /\ mishaps \in [Wallets -> SUBSET Mishap]

\* As long as no two updates of a backer overlap, its total pays for no moment
\* twice, whichever mixture of timer, events and requests did the updates, and
\* whatever failed or crashed in between.
NoMomentPaidTwice ==
  \A w \in Wallets : w \notin overlapped => row[w].paid <= row[w].since

\* "Total accumulated points (increases over time)": the total of a backer
\* drops only by a write based on a total read before an overlapping update.
PointsOnlyGrow ==
  [][\A w \in Wallets : row'[w].total < row[w].total => w \in overlapped']_vars

\* Nothing went wrong for w but log lines.
Calm(w) == mishaps[w] \subseteq {"void", "lost"}

\* Once the tasks of a backer are over, both tables hold the deposit that the
\* last log line or manual sync gave: the timer, which works from deposits it
\* selected earlier, the requests and an event's own first update, all of which
\* write old deposits, take nothing back.  Only overlapping tasks, failing calls
\* and crashes make them differ; lost and void lines do not.
TablesFollowNews ==
  \A w \in Wallets :
    Idle(w) /\ w \notin overlapped /\ Calm(w)
    => listed[w] = told[w] /\ row[w].held = told[w]

\* The audit trail explains the total, also when updates overlap: points that
\* no history row mentions come from a write whose history was lost.
HistoryExplainsTotal ==
  \A w \in Wallets :
    Idle(w) /\ mishaps[w] \cap {"write", "history", "crash"} = {}
      => row[w].total <= history[w]

-----------------------------------------------------------------------------
(* The inductive invariant *)

\* A backer that no two tasks ever shared has at most one task, whose draft and
\* span were computed from the row as it still is.
WorkInv(t) ==
  LET j == job[t]
      w == j.at
  IN
  /\ pc[t] \notin Active => j = NoJob
  /\ pc[t] \in Active => w \in Wallets /\ w \notin j.left
  /\ j.draft.since <= now
  /\ pc[t] \in {"creating", "recreating"} => j.draft = NewRow(j.draft.since)
  /\ pc[t] \in {"calculating", "recreating"} => j.span = 0
  /\ pc[t] = "writing" => w \in rows
  /\ w \in Wallets \ overlapped =>
       /\ pc[t] = "rereading" => row[w].paid + j.span <= now
       /\ pc[t] = "writing" => /\ j.draft.paid <= j.draft.since
                               /\ j.draft.total >= row[w].total

RowInv(w) ==
  /\ row[w].since <= now
  /\ w \notin rows => row[w] = NewRow(0)
  /\ w \notin overlapped =>
       \A t, u \in Tasks : Busy(t, w) /\ Busy(u, w) => t = u

\* Both tables hold what was told last.
Settled(w) == row[w].held = told[w] /\ listed[w] = told[w]

\* Task t writes its own deposits to both tables, or repeats what is listed.
Lists(t) == job[t].kind \in {"event", "manual"}
Goal(t, w) == IF Lists(t) THEN job[t].aim[w] ELSE listed[w]

\* Task t carries the deposit of w on, from the job to the row to the list.
Duty(t, w) ==
  LET j == job[t] IN
  /\ Goal(t, w) = told[w]
  /\ w \in j.left => /\ pc[t] \notin {"reading", "creating"}
                     /\ row[w].held = listed[w] /\ j.aim[w] = Goal(t, w)
  /\ w = j.at =>
       /\ pc[t] \in {"reading", "creating"} => j.kind # "manual"
       /\ pc[t] \in {"creating", "recreating"} => w \notin rows
       /\ ~Lists(t) => Settled(w) /\ ~j.before /\ pc[t] # "listing"
       /\ pc[t] = "listing" => row[w].held = Goal(t, w)
       /\ ~j.before =>
            /\ pc[t] \in {"calculating", "recreating", "rereading"} => j.amount = Goal(t, w)
            /\ pc[t] = "writing" => j.draft.held = Goal(t, w)
            /\ pc[t] = "logging" => row[w].held = Goal(t, w)

TablesInv(w) ==
  w \notin overlapped /\ Calm(w) =>
    /\ Idle(w) => Settled(w)
    /\ \A t \in Tasks : Busy(t, w) => Duty(t, w)

\* What is in the total of w, but not yet in the history.
Unlogged(t, w) ==
  IF pc[t] = "logging" /\ job[t].at = w THEN Hundredths(job[t].gain) ELSE 0
Explained(w) == history[w] + SumFunction([t \in Tasks |-> Unlogged(t, w)])

HistoryInv(w) ==
  mishaps[w] \cap {"write", "history", "crash"} = {} =>
    /\ row[w].total <= Explained(w)
    /\ \A t \in Tasks : pc[t] = "writing" /\ job[t].at = w =>
         job[t].draft.total <= Explained(w) + Hundredths(job[t].gain)

\* Nobody shares the row of a backer.
UpdateInv ==
  /\ TypeOK
  /\ \A t \in Tasks : WorkInv(t)
  /\ \A w \in Wallets : RowInv(w)
  /\ NoMomentPaidTwice

IInv == UpdateInv /\ \A w \in Wallets : TablesInv(w) /\ HistoryInv(w)

-----------------------------------------------------------------------------
(* What the comments of the tables say, and the code does not do *)

\* "Current SOL deposited (in lamports)": a backer whose log lines were all
\* handled one after the other, without any mishap, has its deposit on chain in
\* both tables.
TablesFollowChain ==
  \A w \in Wallets :
    /\ Idle(w) /\ ~News(w) /\ w \notin overlapped /\ mishaps[w] = {}
    => listed[w] = Deposit(w) /\ row[w].held = Deposit(w)

\* "Tracks points for each backer based on SOL deposit and hold time": a backer
\* that has held no deposit for any time has no points.
PointsNeedHoldTime ==
  \A w \in Wallets : w \notin overlapped /\ row[w].total > 0 => w \in holders

\* "increases over time based on deposit amount": the total of a backer that
\* made one deposit and kept it is at least what half that deposit earns in the
\* time that the total pays for, to the nearest hundredth.
PointsKeepUp ==
  \A w \in Wallets :
    w \notin overlapped /\ Len(changes[w]) = 1 /\ Deposit(w) >= MinDeposit
      => row[w].total >= Hundredths(Deposit(w) * row[w].paid)
=============================================================================
