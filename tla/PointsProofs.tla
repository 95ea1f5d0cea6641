----------------------------- MODULE PointsProofs -----------------------------
(***************************************************************************)
(* Points, for any number of backers and tasks: it keeps its types; it     *)
(* pays no moment twice, lowers no total and lets both tables follow the   *)
(* chain, as long as no two tasks share a backer; and, shared or not, the  *)
(* history explains every total.                                           *)
(*                                                                         *)
(* A step of a task moves it to another label (Do) and changes at most the *)
(* row of the backer it works for (RowStep).  If nobody else is at that    *)
(* backer the other tasks do not notice, and if somebody is, the backer is *)
(* in overlapped and UpdateInv claims nothing of it.                       *)
(*                                                                         *)
(* For the tables, a step turns to the next label of the same job or to    *)
(* the next backer (Turns), touches no other backer (Elsewhere), and       *)
(* either still owes its backer the same deposit or leaves it settled      *)
(* (Fulfils).  For the history, what the step adds to the total is added   *)
(* to the history or is still to be logged by the task (Accounts).         *)
(***************************************************************************)
EXTENDS Points, SumTheorems, TLAPS

\* What a step does to the row of w, and to no other.
RowStep(w) ==
  /\ rows \subseteq rows' /\ rows' \subseteq Wallets
  /\ row' \in [Wallets -> Row]
  /\ \A v \in Wallets \ {w} : row'[v] = row[v] /\ (v \in rows' <=> v \in rows)
  /\ row'[w].since <= now
  /\ w \notin rows' => row'[w] = NewRow(0)
  /\ w \notin overlapped => /\ row'[w].paid <= row'[w].since
                           /\ row'[w].total >= row[w].total

\* Labels at which the draft and the span of a task are not claimed anything of.
Plain == {"done", "reading", "calculating", "listing"}

\* The backers that task t works for or has still to visit.
Mine(t) == {job[t].at} \cup job[t].left

\* Task t goes to a plain label, working for backers in B.
Lands(t, B, l, k) ==
  /\ Do(t, l, k) /\ k \in Job /\ l \in Plain
  /\ k.draft = NewRow(0)
  /\ l = "calculating" => k.span = 0
  /\ l = "done" => k = NoJob
  /\ l # "done" => k.at \in Wallets /\ k.at \notin k.left /\ {k.at} \cup k.left \subseteq B

\* Task t goes where WorkInv wants it, working for backers in B.
Moves(t, B) ==
  /\ \E l \in Label, k \in Job : Do(t, l, k)
  /\ WorkInv(t)'
  /\ \A w \in Wallets : Busy(t, w)' => w \in B

\* What every step of task t comes to.
Stepped(t) ==
  /\ pc[t] \in Active /\ Moves(t, Mine(t)) /\ RowStep(job[t].at)
  /\ UNCHANGED <<chainVars, overlapped>>
  /\ listed' \in [Wallets -> Nat] /\ history' \in [Wallets -> Nat]
  /\ mishaps' \in [Wallets -> SUBSET Mishap]

\* All of UpdateInv but the types of what only some steps change.
Core == /\ \A t \in Tasks : WorkInv(t)
        /\ \A w \in Wallets : RowInv(w)
        /\ NoMomentPaidTwice

-----------------------------------------------------------------------------
(* Types of the helpers *)

\* Rounding to hundredths gives a natural number.
LEMMA HundredthsType == ASSUME NEW x \in Nat PROVE Hundredths(x) \in Nat
BY PointsAssumption DEF Hundredths

\* A fresh row, an empty job and the start of an update are well-typed.
LEMMA NewRowType == ASSUME NEW t \in Nat PROVE NewRow(t) \in Row
BY DEF NewRow, Row

LEMMA NoJobType == NoJob \in Job
BY NewRowType DEF NoJob, Job, Kind

LEMMA VisitingType ==
  ASSUME NEW j \in Job, NEW w \in Wallets, NEW S \in SUBSET Wallets, NEW a \in Nat
  PROVE  /\ Visiting(j, w, S, a) \in Job
         /\ Visiting(j, w, S, a).at = w
         /\ Visiting(j, w, S, a).left = S
         /\ Visiting(j, w, S, a).draft = NewRow(0)
         /\ Visiting(j, w, S, a).span = 0
BY NewRowType DEF Visiting, NoJob, Job

-----------------------------------------------------------------------------
(* Where the control operators of Points lead *)

\* A loop goes on with a backer it had still to visit, or ends.
LEMMA VisitLands ==
  ASSUME NEW t \in Tasks, NEW j \in Job, NEW S \in SUBSET Wallets,
         Visit(t, j, S)
  PROVE  \E l, k : Lands(t, S, l, k)
<1>1. CASE S = {} /\ Do(t, "done", NoJob)
  <2>1. Lands(t, S, "done", NoJob)
    BY <1>1, NoJobType DEF Lands, Plain, NoJob
  <2> QED BY <2>1
<1>2. CASE \E w \in S : Do(t, "calculating", Visiting(j, w, S \ {w}, j.aim[w]))
  <2>1. PICK w \in S : Do(t, "calculating", Visiting(j, w, S \ {w}, j.aim[w]))
    BY <1>2
  <2>2. w \in Wallets /\ j.aim[w] \in Nat /\ S \ {w} \in SUBSET Wallets
    BY DEF Job
  <2> DEFINE k == Visiting(j, w, S \ {w}, j.aim[w])
  <2>3. k \in Job /\ k.at = w /\ k.left = S \ {w} /\ k.draft = NewRow(0) /\ k.span = 0
    BY <2>2, VisitingType
  <2> HIDE DEF k
  <2>4. Do(t, "calculating", k)
    BY <2>1 DEF k
  <2>5. Lands(t, S, "calculating", k)
    BY <2>2, <2>3, <2>4 DEF Lands, Plain, Mine
  <2> QED BY <2>5
<1> QED BY <1>1, <1>2 DEF Visit

LEMMA NextWalletLands ==
  ASSUME TypeOK, NEW t \in Tasks, NextWallet(t)
  PROVE  \E l, k : Lands(t, Mine(t), l, k)
<1>1. job[t] \in Job /\ job[t].left \in SUBSET Wallets
  BY DEF TypeOK, Job
<1> QED BY <1>1, VisitLands DEF NextWallet, Lands, Mine

\* After an update the task repeats it, lists the backer or goes on.
LEMMA UpdatedLands ==
  ASSUME TypeOK, NEW t \in Tasks, WorkInv(t), pc[t] \in Active, Updated(t)
  PROVE  \E l, k : Lands(t, Mine(t), l, k)
<1> DEFINE j == job[t]
<1>1. j \in Job /\ j.at \in Wallets /\ j.left \in SUBSET Wallets /\ j.at \notin j.left
  BY DEF TypeOK, Job, WorkInv
<1>2. j.aim[j.at] \in Nat
  BY <1>1 DEF Job
<1>3. CASE Do(t, "calculating", Visiting(j, j.at, j.left, j.aim[j.at]))
  <2> DEFINE k == Visiting(j, j.at, j.left, j.aim[j.at])
  <2>1. k \in Job /\ k.at = j.at /\ k.left = j.left /\ k.draft = NewRow(0) /\ k.span = 0
    BY <1>1, <1>2, VisitingType
  <2>2. Do(t, "calculating", k)
    BY <1>3
  <2> HIDE DEF k
  <2>3. Lands(t, Mine(t), "calculating", k)
    BY <1>1, <2>1, <2>2 DEF Lands, Plain, Mine
  <2> QED BY <2>3
<1>4. CASE Do(t, "listing", Visiting(j, j.at, j.left, 0))
  <2> DEFINE k == Visiting(j, j.at, j.left, 0)
  <2>1. k \in Job /\ k.at = j.at /\ k.left = j.left /\ k.draft = NewRow(0) /\ k.span = 0
    BY <1>1, VisitingType
  <2>2. Do(t, "listing", k)
    BY <1>4
  <2> HIDE DEF k
  <2>3. Lands(t, Mine(t), "listing", k)
    BY <1>1, <2>1, <2>2 DEF Lands, Plain, Mine
  <2> QED BY <2>3
<1>5. CASE NextWallet(t)
  BY <1>5, NextWalletLands
<1> QED BY <1>3, <1>4, <1>5 DEF Updated

\* The first read leads to the calculation.
LEMMA FoundLands ==
  ASSUME TypeOK, NEW t \in Tasks, WorkInv(t), pc[t] \in Active,
         NEW held \in Nat, Found(t, held)
  PROVE  \E l, k : Lands(t, Mine(t), l, k)
<1> DEFINE j == job[t]
<1>1. j \in Job /\ j.at \in Wallets
  BY DEF TypeOK, WorkInv
<1>2. CASE Do(t, "calculating", [Visiting(j, j.at, {}, held) EXCEPT !.before = TRUE])
  <2> DEFINE v == Visiting(j, j.at, {}, held)
             k == [v EXCEPT !.before = TRUE]
  <2>1. v \in Job /\ v.at = j.at /\ v.left = {} /\ v.draft = NewRow(0) /\ v.span = 0
    BY <1>1, VisitingType
  <2>2. Do(t, "calculating", k)
    BY <1>2
  <2> HIDE DEF v
  <2>3. k \in Job /\ k.at = j.at /\ k.left = {} /\ k.draft = NewRow(0) /\ k.span = 0
    BY <2>1 DEF Job
  <2> HIDE DEF k
  <2>4. Lands(t, Mine(t), "calculating", k)
    BY <1>1, <2>2, <2>3 DEF Lands, Plain, Mine
  <2> QED BY <2>4
<1>3. CASE Do(t, "calculating",
              Visiting(j, j.at, {}, IF j.kind = "event" THEN j.aim[j.at] ELSE held))
  <2> DEFINE a == IF j.kind = "event" THEN j.aim[j.at] ELSE held
             k == Visiting(j, j.at, {}, a)
  <2>1. a \in Nat
    BY <1>1 DEF Job
  <2>2. Do(t, "calculating", k)
    BY <1>3
  <2> HIDE DEF a
  <2>3. k \in Job /\ k.at = j.at /\ k.left = {} /\ k.draft = NewRow(0) /\ k.span = 0
    BY <1>1, <2>1, VisitingType
  <2> HIDE DEF k
  <2>4. Lands(t, Mine(t), "calculating", k)
    BY <1>1, <2>2, <2>3 DEF Lands, Plain, Mine
  <2> QED BY <2>4
<1> QED BY <1>2, <1>3 DEF Found

-----------------------------------------------------------------------------
(* What moves a task, and what that means for all of them *)

\* A plain label claims nothing that the next job does not show.
LEMMA LandsMoves ==
  ASSUME TypeOK, now' = now, NEW t \in Tasks, NEW B \in SUBSET Wallets,
         \E l, k : Lands(t, B, l, k)
  PROVE  Moves(t, B)
<1>1. PICK l, k : Lands(t, B, l, k)
  OBVIOUS
<1>2. pc'[t] = l /\ job'[t] = k /\ l \in Label /\ k \in Job
  BY <1>1 DEF Lands, Do, TypeOK, Plain, Label, Active
<1>3. k.draft.since = 0 /\ 0 <= now'
  BY <1>1 DEF Lands, NewRow, TypeOK
<1>4. WorkInv(t)'
  BY <1>1, <1>2, <1>3 DEF Lands, WorkInv, Plain, Active
<1>5. ASSUME NEW w \in Wallets, Busy(t, w)' PROVE w \in B
  BY <1>1, <1>2, <1>5 DEF Lands, Plain, Active, Busy
<1> QED BY <1>1, <1>2, <1>4, <1>5 DEF Moves, Lands

\* A step of a task leaves the other tasks, and the other backers, as they are.
LEMMA StepKeepsCore ==
  ASSUME UpdateInv, NEW t \in Tasks, pc[t] \in Active, Moves(t, Mine(t)),
         RowStep(job[t].at), now' = now, overlapped' = overlapped
  PROVE  Core'
<1> DEFINE a == job[t].at
<1>1. TypeOK /\ WorkInv(t) /\ a \in Wallets /\ Busy(t, a)
  BY DEF UpdateInv, WorkInv, Busy
<1>2. ASSUME NEW u \in Tasks \ {t} PROVE pc'[u] = pc[u] /\ job'[u] = job[u]
  BY <1>1 DEF Moves, Do, TypeOK
<1>3. WorkInv(t)'
  BY DEF Moves
<1>4. ASSUME NEW u \in Tasks \ {t} PROVE WorkInv(u)'
  <2>1. WorkInv(u) /\ rows \subseteq rows'
    BY DEF UpdateInv, RowStep
  <2>2. CASE job[u].at = a /\ pc[u] \in {"rereading", "writing"}
    <3>1. Busy(u, a) /\ u # t
      BY <2>2 DEF Busy, Active
    <3>2. a \in overlapped
      BY <1>1, <3>1 DEF UpdateInv, RowInv
    <3> QED BY <1>2, <2>1, <2>2, <3>2 DEF WorkInv
  <2>3. CASE job[u].at = a /\ pc[u] \notin {"rereading", "writing"}
    BY <1>2, <2>1, <2>3 DEF WorkInv
  <2>4. CASE job[u].at # a
    <3>1. job[u].at \in Wallets => row'[job[u].at] = row[job[u].at]
      BY <2>4 DEF RowStep
    <3> QED BY <1>2, <2>1, <3>1 DEF WorkInv
  <2> QED BY <2>2, <2>3, <2>4
<1>5. ASSUME NEW w \in Wallets PROVE RowInv(w)'
  <2>1. RowInv(w)
    BY DEF UpdateInv
  <2>2. row'[w].since <= now' /\ (w \notin rows' => row'[w] = NewRow(0))
    <3>1. CASE w = a
      BY <3>1 DEF RowStep
    <3>2. CASE w # a
      BY <2>1, <3>2 DEF RowStep, RowInv
    <3> QED BY <3>1, <3>2
  <2>3. ASSUME NEW u \in Tasks, Busy(u, w)' PROVE Busy(u, w)
    <3>1. CASE u = t
      BY <1>1, <2>3, <3>1 DEF Moves, Busy, Mine
    <3>2. CASE u # t
      BY <1>2, <2>3, <3>2 DEF Busy
    <3> QED BY <3>1, <3>2
  <2> QED BY <2>1, <2>2, <2>3 DEF RowInv
<1>6. NoMomentPaidTwice'
  <2> SUFFICES ASSUME NEW w \in Wallets, w \notin overlapped
               PROVE  row'[w].paid <= row'[w].since
    BY DEF NoMomentPaidTwice
  <2>1. CASE w = a
    BY <2>1 DEF RowStep
  <2>2. CASE w # a
    BY <2>2 DEF RowStep, UpdateInv, NoMomentPaidTwice
  <2> QED BY <2>1, <2>2
<1> QED BY <1>3, <1>4, <1>5, <1>6 DEF Core

\* A task that begins is alone at its backers, or they are marked as shared.
LEMMA BeginKeepsCore ==
  ASSUME UpdateInv, NEW t \in Tasks, NEW S \in SUBSET Wallets, Meets(t, S), Moves(t, S),
         now' = now
  PROVE  Core'
<1>1. TypeOK /\ pc[t] = "idle" /\ row' = row /\ rows' = rows
  BY DEF UpdateInv, Meets, tableVars
<1>2. ASSUME NEW u \in Tasks \ {t} PROVE pc'[u] = pc[u] /\ job'[u] = job[u]
  BY <1>1 DEF Moves, Do, TypeOK
<1>3. overlapped' = overlapped \cup {w \in S : ~Idle(w)}
  BY DEF Meets
<1>4. ASSUME NEW u \in Tasks PROVE WorkInv(u)'
  <2>1. CASE u = t
    BY <2>1 DEF Moves
  <2>2. CASE u # t
    BY <1>1, <1>2, <1>3, <2>2 DEF UpdateInv, WorkInv
  <2> QED BY <2>1, <2>2
<1>5. ASSUME NEW w \in Wallets PROVE RowInv(w)'
  <2>1. RowInv(w)
    BY DEF UpdateInv
  <2>2. ASSUME w \notin overlapped', NEW u \in Tasks, NEW v \in Tasks,
               Busy(u, w)', Busy(v, w)'
        PROVE  u = v
    <3>1. ASSUME NEW x \in Tasks \ {t}, Busy(x, w)' PROVE Busy(x, w) /\ ~Idle(w)
      BY <1>2, <3>1 DEF Busy, Idle
    <3>2. ASSUME Busy(t, w)', NEW x \in Tasks \ {t}, Busy(x, w)' PROVE FALSE
      BY <1>3, <2>2, <3>1, <3>2 DEF Moves
    <3>3. u # t /\ v # t => u = v
      BY <1>3, <2>1, <2>2, <3>1 DEF RowInv
    <3> QED BY <2>2, <3>2, <3>3
  <2> QED BY <1>1, <2>1, <2>2 DEF RowInv
<1>6. NoMomentPaidTwice'
  BY <1>1, <1>3 DEF UpdateInv, NoMomentPaidTwice
<1> QED BY <1>4, <1>5, <1>6 DEF Core

\* A step that touches no row, and an insert, are row steps.
LEMMA RowsKept ==
  ASSUME UpdateInv, NEW w \in Wallets, rows' = rows, row' = row
  PROVE  RowStep(w)
BY DEF UpdateInv, TypeOK, RowInv, RowStep, NoMomentPaidTwice, Row

LEMMA InsertRowStep ==
  ASSUME UpdateInv, NEW t \in Tasks, pc[t] \in {"creating", "recreating"}, Insert(t)
  PROVE  /\ RowStep(job[t].at)
         /\ row'[job[t].at] = job[t].draft
         /\ job[t].at \in rows'
<1> DEFINE a == job[t].at
           d == job[t].draft
<1>1. a \in Wallets /\ d = NewRow(d.since) /\ d.since <= now /\ d \in Row
  BY DEF UpdateInv, WorkInv, TypeOK, Job, Active
<1>2. row[a] = NewRow(0)
  BY <1>1 DEF UpdateInv, RowInv, Insert
<1>3. rows' = rows \cup {a} /\ row' = [row EXCEPT ![a] = d]
  BY DEF Insert
<1>4. rows' \subseteq Wallets /\ row' \in [Wallets -> Row] /\ row'[a] = d
  BY <1>1, <1>3 DEF UpdateInv, TypeOK
<1>5. d.paid = 0 /\ d.total = 0 /\ d.since \in Nat /\ row[a].total = 0
  BY <1>1, <1>2 DEF NewRow, Row
<1>6. \A v \in Wallets \ {a} : row'[v] = row[v] /\ (v \in rows' <=> v \in rows)
  BY <1>1, <1>3 DEF UpdateInv, TypeOK
<1> QED BY <1>1, <1>3, <1>4, <1>5, <1>6 DEF RowStep

LEMMA SteppedKeeps ==
  ASSUME UpdateInv, NEW t \in Tasks, Stepped(t)
  PROVE  UpdateInv'
<1>1. Core'
  BY StepKeepsCore DEF Stepped, chainVars
<1>2. TypeOK'
  BY DEF Stepped, UpdateInv, TypeOK, chainVars, RowStep, Moves, Do
<1> QED BY <1>1, <1>2 DEF Core, UpdateInv

-----------------------------------------------------------------------------
(* The steps of a task, one by one *)

LEMMA GoesWrongType ==
  ASSUME TypeOK, NEW t \in Tasks, NEW what \in Mishap, GoesWrong(t, what)
  PROVE  mishaps' \in [Wallets -> SUBSET Mishap]
BY DEF GoesWrong, TypeOK

LEMMA ThrowMoves ==
  ASSUME UpdateInv, NEW t \in Tasks, pc[t] \in Active, now' = now, NextWallet(t)
  PROVE  Moves(t, Mine(t))
<1>1. TypeOK /\ WorkInv(t) /\ Mine(t) \in SUBSET Wallets
  BY DEF UpdateInv, WorkInv, TypeOK, Job, Mine
<1> QED BY <1>1, NextWalletLands, LandsMoves

LEMMA UpdatedMoves ==
  ASSUME UpdateInv, NEW t \in Tasks, pc[t] \in Active, now' = now, Updated(t)
  PROVE  Moves(t, Mine(t))
<1>1. TypeOK /\ WorkInv(t) /\ Mine(t) \in SUBSET Wallets
  BY DEF UpdateInv, WorkInv, TypeOK, Job, Mine
<1> QED BY <1>1, UpdatedLands, LandsMoves

LEMMA FoundMoves ==
  ASSUME UpdateInv, NEW t \in Tasks, pc[t] \in Active, now' = now,
         NEW held \in Nat, Found(t, held)
  PROVE  Moves(t, Mine(t))
<1>1. TypeOK /\ WorkInv(t) /\ Mine(t) \in SUBSET Wallets
  BY DEF UpdateInv, WorkInv, TypeOK, Job, Mine
<1> QED BY <1>1, FoundLands, LandsMoves

\* A task that goes on with the same backers: WorkInv of its next job is left.
LEMMA SameBackers ==
  ASSUME UpdateInv, NEW t \in Tasks, pc[t] \in Active, now' = now,
         NEW l \in Active, NEW k \in Job, Do(t, l, k),
         k.at = job[t].at, k.left = job[t].left, k.draft.since <= now,
         l \in {"creating", "recreating"} => k.draft = NewRow(k.draft.since),
         l \in {"calculating", "recreating"} => k.span = 0,
         l = "writing" => k.at \in rows',
         k.at \in Wallets \ overlapped' =>
           /\ l = "rereading" => row'[k.at].paid + k.span <= now
           /\ l = "writing" => /\ k.draft.paid <= k.draft.since
                               /\ k.draft.total >= row'[k.at].total
  PROVE  Moves(t, Mine(t))
<1>1. pc'[t] = l /\ job'[t] = k
  BY DEF Do, UpdateInv, TypeOK
<1>2. WorkInv(t)'
  BY <1>1 DEF WorkInv, UpdateInv
<1>3. \A w \in Wallets : Busy(t, w)' => w \in Mine(t)
  BY <1>1 DEF Busy, Mine
<1>4. l \in Label
  BY DEF Label
<1> QED BY <1>2, <1>3, <1>4 DEF Moves

LEMMA MissingMoves ==
  ASSUME UpdateInv, NEW t \in Tasks, pc[t] \in Active, now' = now,
         NEW l \in {"creating", "recreating"}, Missing(t, l),
         l = "recreating" => pc[t] = "calculating"
  PROVE  Moves(t, Mine(t))
<1> DEFINE k == [job[t] EXCEPT !.draft = NewRow(now)]
<1>1. job[t] \in Job /\ now \in Nat /\ NewRow(now) \in Row
  BY NewRowType DEF UpdateInv, TypeOK
<1>2. k \in Job /\ k.at = job[t].at /\ k.left = job[t].left /\ k.span = job[t].span
      /\ k.draft = NewRow(now)
  BY <1>1 DEF Job
<1>3. Do(t, l, k)
  BY DEF Missing
<1>4. l = "recreating" => job[t].span = 0
  BY DEF UpdateInv, WorkInv
<1>5. NewRow(now).since = now
  BY DEF NewRow
<1> HIDE DEF k
<1> QED BY <1>1, <1>2, <1>3, <1>4, <1>5, SameBackers DEF Active

\* The span of an update ends now, and begins where what is paid for ends.
LEMMA CalculatedMoves ==
  ASSUME UpdateInv, NEW t \in Tasks, pc[t] \in {"calculating", "recreating"},
         now' = now, overlapped' = overlapped,
         NEW r \in Row, r = row'[job[t].at], r.since <= now,
         job[t].at \notin overlapped => r.paid <= r.since,
         Calculated(t, r)
  PROVE  Moves(t, Mine(t))
<1> DEFINE j == job[t]
<1>1. j \in Job /\ now \in Nat /\ pc[t] \in Active /\ j.span = 0
      /\ r.since \in Nat /\ r.paid \in Nat /\ r.held \in Nat /\ j.amount \in Nat
      /\ j.draft.since <= now /\ j.draft.since \in Nat
  BY DEF UpdateInv, TypeOK, WorkInv, Active, Row, Job
<1>2. CASE NextWallet(t)
  BY <1>1, <1>2, ThrowMoves
<1>3. CASE Proceed(t, "rereading")
  <2>1. Do(t, "rereading", j)
    BY <1>3 DEF Proceed
  <2>2. j.at \in Wallets \ overlapped => row'[j.at].paid + j.span <= now
    BY <1>1
  <2> QED BY <1>1, <2>1, <2>2, SameBackers DEF Active
<1>4. CASE Do(t, "rereading", [j EXCEPT !.gain = (r.held + j.amount) * (now - r.since),
                                        !.span = now - r.since])
  <2> DEFINE g == (r.held + j.amount) * (now - r.since)
             s == now - r.since
             k == [j EXCEPT !.gain = g, !.span = s]
  <2>1. s \in Nat /\ r.held + j.amount \in Nat
    BY <1>1
  <2>2. \A x, y \in Nat : x * y \in Nat
    OBVIOUS
  <2>3. g \in Nat
    BY <2>1, <2>2
  <2>4. j.at \in Wallets \ overlapped => row'[j.at].paid + s <= now
    BY <1>1
  <2>5. Do(t, "rereading", k)
    BY <1>4
  <2> HIDE DEF g, s
  <2>6. k \in Job /\ k.at = j.at /\ k.left = j.left /\ k.span = s /\ k.draft = j.draft
    BY <1>1, <2>1, <2>3 DEF Job
  <2> HIDE DEF k
  <2> QED BY <1>1, <2>4, <2>5, <2>6, SameBackers DEF Active
<1> QED BY <1>2, <1>3, <1>4 DEF Calculated

LEMMA ReadStepped ==
  ASSUME UpdateInv, NEW t \in Tasks, Read(t)
  PROVE  Stepped(t)
<1>1. TypeOK /\ pc[t] \in Active /\ job[t].at \in Wallets /\ now' = now
  BY DEF UpdateInv, WorkInv, Read, Active, chainVars
<1>2. RowStep(job[t].at)
  BY <1>1, RowsKept DEF Read, tableVars
<1>3. Moves(t, Mine(t))
  <2>1. row[job[t].at].held \in Nat
    BY <1>1 DEF TypeOK, Row
  <2> QED BY <1>1, <2>1, FoundMoves, MissingMoves DEF Read
<1>4. mishaps' \in [Wallets -> SUBSET Mishap]
  BY <1>1, GoesWrongType DEF Read, Mishap, TypeOK
<1> QED BY <1>1, <1>2, <1>3, <1>4 DEF Stepped, Read, TypeOK, tableVars

LEMMA CreateStepped ==
  ASSUME UpdateInv, NEW t \in Tasks, CreateBackerPoints(t)
  PROVE  Stepped(t)
<1>1. TypeOK /\ pc[t] = "creating" /\ job[t].at \in Wallets /\ now' = now
  BY DEF UpdateInv, WorkInv, CreateBackerPoints, Active, chainVars
<1>2. RowStep(job[t].at)
  BY <1>1, RowsKept, InsertRowStep DEF CreateBackerPoints
<1>3. Moves(t, Mine(t))
  BY <1>1, FoundMoves, ThrowMoves DEF CreateBackerPoints, Throw, Active
<1>4. mishaps' \in [Wallets -> SUBSET Mishap]
  BY <1>1, GoesWrongType DEF CreateBackerPoints, Throw, Mishap, TypeOK
<1> QED BY <1>1, <1>2, <1>3, <1>4 DEF Stepped, CreateBackerPoints, TypeOK, Active

LEMMA CalculateStepped ==
  ASSUME UpdateInv, NEW t \in Tasks, CalculatePoints(t)
  PROVE  Stepped(t)
<1> DEFINE a == job[t].at
<1>1. TypeOK /\ pc[t] = "calculating" /\ a \in Wallets /\ now' = now /\ overlapped' = overlapped
      /\ rows' = rows /\ row' = row
  BY DEF UpdateInv, WorkInv, CalculatePoints, Active, chainVars, tableVars
<1>2. RowStep(a)
  BY <1>1, RowsKept
<1>3. row[a] \in Row /\ row[a].since <= now /\ (a \notin overlapped => row[a].paid <= row[a].since)
  BY <1>1 DEF UpdateInv, TypeOK, RowInv, NoMomentPaidTwice
<1>4. Moves(t, Mine(t))
  <2>1. CASE Calculated(t, row[a])
    BY <1>1, <1>3, <2>1, CalculatedMoves
  <2>2. CASE Missing(t, "recreating")
    BY <1>1, <2>2, MissingMoves DEF Active
  <2>3. CASE Throw(t, "read")
    BY <1>1, <2>3, ThrowMoves DEF Throw, Active
  <2> QED BY <2>1, <2>2, <2>3 DEF CalculatePoints
<1>5. mishaps' \in [Wallets -> SUBSET Mishap]
  BY <1>1, GoesWrongType DEF CalculatePoints, Throw, Mishap, TypeOK
<1> QED BY <1>1, <1>2, <1>4, <1>5 DEF Stepped, CalculatePoints, TypeOK, Active, tableVars

LEMMA CreateToCalculateStepped ==
  ASSUME UpdateInv, NEW t \in Tasks, CreateToCalculate(t)
  PROVE  Stepped(t)
<1> DEFINE a == job[t].at
           d == job[t].draft
<1>1. TypeOK /\ pc[t] = "recreating" /\ a \in Wallets /\ now' = now /\ overlapped' = overlapped
  BY DEF UpdateInv, WorkInv, CreateToCalculate, Active, chainVars
<1>2. RowStep(a)
  BY <1>1, RowsKept, InsertRowStep DEF CreateToCalculate
<1>3. Moves(t, Mine(t))
  <2>1. CASE Insert(t) /\ Calculated(t, d)
    <3>1. d \in Row /\ d = row'[a] /\ d.since <= now /\ d = NewRow(d.since)
      BY <1>1, <2>1, InsertRowStep DEF UpdateInv, WorkInv, TypeOK, Job
    <3>2. d.paid <= d.since
      BY <3>1 DEF NewRow, Row
    <3> QED BY <1>1, <2>1, <3>1, <3>2, CalculatedMoves
  <2>2. CASE NextWallet(t)
    BY <1>1, <2>2, ThrowMoves DEF Active
  <2> QED BY <2>1, <2>2 DEF CreateToCalculate, Throw
<1>4. mishaps' \in [Wallets -> SUBSET Mishap]
  BY <1>1, GoesWrongType DEF CreateToCalculate, Throw, Mishap, TypeOK
<1> QED BY <1>1, <1>2, <1>3, <1>4 DEF Stepped, CreateToCalculate, TypeOK, Active

\* What is drafted is based on the row as it is.
LEMMA ReadAgainStepped ==
  ASSUME UpdateInv, NEW t \in Tasks, ReadAgain(t)
  PROVE  Stepped(t)
<1> DEFINE j == job[t]
           r == row[j.at]
           d == Draft(j, r)
           k == [j EXCEPT !.draft = d]
<1>1. TypeOK /\ pc[t] = "rereading" /\ j.at \in Wallets /\ now' = now /\ overlapped' = overlapped
      /\ rows' = rows /\ row' = row
  BY DEF UpdateInv, WorkInv, ReadAgain, Active, chainVars, tableVars
<1>2. RowStep(j.at)
  BY <1>1, RowsKept
<1>3. Moves(t, Mine(t))
  <2>1. CASE j.at \in rows /\ Do(t, "writing", k)
    <3>1. j \in Job /\ r \in Row /\ now \in Nat /\ Hundredths(j.gain) \in Nat
      BY <1>1, HundredthsType DEF TypeOK, Job
    <3>2. d \in Row /\ d.since = now /\ d.total >= r.total /\ d.paid = r.paid + j.span
      BY <3>1 DEF Draft, Row, Job
    <3>3. j.at \notin overlapped => d.paid <= d.since
      BY <1>1, <3>2 DEF UpdateInv, WorkInv
    <3> HIDE DEF d
    <3>4. k \in Job /\ k.at = j.at /\ k.left = j.left /\ k.draft = d
      BY <3>1, <3>2 DEF Job
    <3> HIDE DEF k
    <3>5. pc[t] \in Active /\ "writing" \in Active /\ d.since <= now /\ k.at \in rows'
      BY <1>1, <2>1, <3>1, <3>2, <3>4 DEF Active
    <3>6. k.at \in Wallets \ overlapped' =>
            k.draft.paid <= k.draft.since /\ k.draft.total >= row'[k.at].total
      BY <1>1, <3>2, <3>3, <3>4
    <3> QED BY <1>1, <2>1, <3>4, <3>5, <3>6, SameBackers
  <2>2. CASE Throw(t, "read")
    BY <1>1, <2>2, ThrowMoves DEF Throw, Active
  <2> QED BY <2>1, <2>2 DEF ReadAgain
<1>4. mishaps' \in [Wallets -> SUBSET Mishap]
  BY <1>1, GoesWrongType DEF ReadAgain, Throw, Mishap, TypeOK
<1> QED BY <1>1, <1>2, <1>3, <1>4 DEF Stepped, ReadAgain, TypeOK, Active, tableVars

LEMMA WriteStepped ==
  ASSUME UpdateInv, NEW t \in Tasks, WritePoints(t)
  PROVE  Stepped(t)
<1> DEFINE j == job[t]
           a == j.at
           d == j.draft
<1>1. TypeOK /\ WorkInv(t) /\ pc[t] = "writing" /\ pc[t] \in Active /\ a \in Wallets
      /\ now' = now /\ overlapped' = overlapped /\ rows' = rows /\ j \in Job /\ d \in Row
  BY DEF UpdateInv, WorkInv, WritePoints, Active, chainVars, TypeOK, Job
<1>2. RowStep(a)
  <2>1. CASE row' = [row EXCEPT ![a] = d]
    <3>1. row' \in [Wallets -> Row] /\ row'[a] = d /\ \A v \in Wallets \ {a} : row'[v] = row[v]
      BY <1>1, <2>1 DEF TypeOK
    <3>2. d.since <= now /\ (a \notin overlapped => d.paid <= d.since /\ d.total >= row[a].total)
      BY <1>1 DEF WorkInv
    <3>3. a \in rows
      BY <1>1 DEF WorkInv
    <3> QED BY <1>1, <3>1, <3>2, <3>3 DEF RowStep, TypeOK
  <2>2. CASE row' = row
    BY <1>1, <2>2, RowsKept
  <2> QED BY <2>1, <2>2 DEF WritePoints
<1>3. Moves(t, Mine(t))
  <2>1. CASE Do(t, "logging", [j EXCEPT !.draft = NewRow(0)])
    <3> DEFINE k == [j EXCEPT !.draft = NewRow(0)]
    <3>1. k \in Job /\ k.at = a /\ k.left = j.left /\ k.draft = NewRow(0)
      BY <1>1, NewRowType DEF Job
    <3>2. NewRow(0).since <= now
      BY <1>1 DEF NewRow, TypeOK
    <3>3. Do(t, "logging", k)
      BY <2>1
    <3> HIDE DEF k
    <3> QED BY <1>1, <3>1, <3>2, <3>3, SameBackers DEF Active
  <2>2. CASE Updated(t)
    BY <1>1, <2>2, UpdatedMoves
  <2>3. CASE NextWallet(t)
    BY <1>1, <2>3, ThrowMoves
  <2> QED BY <2>1, <2>2, <2>3 DEF WritePoints, Throw
<1>4. mishaps' \in [Wallets -> SUBSET Mishap]
  BY <1>1, GoesWrongType DEF WritePoints, Throw, Mishap, TypeOK
<1> QED BY <1>1, <1>2, <1>3, <1>4 DEF Stepped, WritePoints, TypeOK

LEMMA RecordStepped ==
  ASSUME UpdateInv, NEW t \in Tasks, RecordPointHistory(t)
  PROVE  Stepped(t)
<1> DEFINE j == job[t]
<1>1. TypeOK /\ pc[t] \in Active /\ j.at \in Wallets /\ now' = now /\ Hundredths(j.gain) \in Nat
  BY HundredthsType DEF UpdateInv, WorkInv, RecordPointHistory, Active, chainVars, TypeOK, Job
<1>2. RowStep(j.at)
  BY <1>1, RowsKept DEF RecordPointHistory
<1>3. Moves(t, Mine(t))
  BY <1>1, UpdatedMoves DEF RecordPointHistory
<1>4. history' \in [Wallets -> Nat]
  <2>1. history \in [Wallets -> Nat]
    BY <1>1 DEF TypeOK
  <2>2. \/ history' = history
        \/ history' = [history EXCEPT ![j.at] = @ + Hundredths(j.gain)]
    BY DEF RecordPointHistory
  <2> QED BY <1>1, <2>1, <2>2
<1>5. mishaps' \in [Wallets -> SUBSET Mishap]
  BY <1>1, GoesWrongType DEF RecordPointHistory, Mishap, TypeOK
<1> QED BY <1>1, <1>2, <1>3, <1>4, <1>5 DEF Stepped, RecordPointHistory, TypeOK

LEMMA UpdateBackerStepped ==
  ASSUME UpdateInv, NEW t \in Tasks, UpdateBacker(t)
  PROVE  Stepped(t)
<1> DEFINE j == job[t]
<1>1. TypeOK /\ pc[t] \in Active /\ j.at \in Wallets /\ now' = now /\ j.aim[j.at] \in Nat
  BY DEF UpdateInv, WorkInv, UpdateBacker, Active, chainVars, TypeOK, Job
<1>2. RowStep(j.at)
  BY <1>1, RowsKept DEF UpdateBacker
<1>3. Moves(t, Mine(t))
  BY <1>1, ThrowMoves DEF UpdateBacker
<1>4. listed' \in [Wallets -> Nat]
  BY <1>1 DEF UpdateBacker, TypeOK
<1>5. mishaps' \in [Wallets -> SUBSET Mishap]
  BY <1>1, GoesWrongType DEF UpdateBacker, Mishap, TypeOK
<1> QED BY <1>1, <1>2, <1>3, <1>4, <1>5 DEF Stepped, UpdateBacker, TypeOK

LEMMA StepStepped ==
  ASSUME UpdateInv, NEW t \in Tasks, Step(t)
  PROVE  Stepped(t)
BY ReadStepped, CreateStepped, CalculateStepped, CreateToCalculateStepped,
   ReadAgainStepped, WriteStepped, RecordStepped, UpdateBackerStepped DEF Step

-----------------------------------------------------------------------------
(* Tasks begin *)

\* What every task comes to that begins, for the backers in S.
Begun(t, S) ==
  /\ S \in SUBSET Wallets /\ Meets(t, S) /\ Moves(t, S)
  /\ heard' \in [Wallets -> Nat] /\ told' \in [Wallets -> Nat]
  /\ mishaps' \in [Wallets -> SUBSET Mishap] /\ UNCHANGED <<now, changes, holders>>

LEMMA BegunKeeps ==
  ASSUME UpdateInv, NEW t \in Tasks, NEW S, Begun(t, S)
  PROVE  UpdateInv'
<1>1. Core'
  BY BeginKeepsCore DEF Begun
<1>2. TypeOK'
  BY DEF Begun, Meets, tableVars, UpdateInv, TypeOK, Moves, Do
<1> QED BY <1>1, <1>2 DEF Core, UpdateInv

LEMMA StartForMoves ==
  ASSUME UpdateInv, now' = now, NEW t \in Tasks, NEW w \in Wallets, NEW k \in Kind, NEW a \in Nat,
         StartFor(t, k, w, a)
  PROVE  Moves(t, {w})
<1> DEFINE f == [NoJob.aim EXCEPT ![w] = a]
           j == [NoJob EXCEPT !.kind = k, !.at = w, !.aim = [@ EXCEPT ![w] = a]]
<1>1. f \in [Wallets -> Nat]
  BY DEF NoJob
<1>2. j = [NoJob EXCEPT !.kind = k, !.at = w, !.aim = f]
  BY DEF NoJob
<1> HIDE DEF f
<1>3. j \in Job /\ j.at = w /\ j.left = {} /\ j.draft = NewRow(0)
  BY <1>1, <1>2, NewRowType DEF NoJob, Job
<1>4. Do(t, "reading", j)
  BY DEF StartFor
<1> HIDE DEF j
<1>5. Lands(t, {w}, "reading", j)
  BY <1>3, <1>4 DEF Lands, Plain
<1> QED BY <1>5, LandsMoves DEF UpdateInv

LEMMA StartLoopBegun ==
  ASSUME UpdateInv, NEW t \in Tasks, NEW k \in Kind, NEW S \in SUBSET Wallets,
         NEW f \in [Wallets -> Nat], StartLoop(t, k, S, f),
         told' \in [Wallets -> Nat], UNCHANGED <<now, changes, heard, holders>>
  PROVE  Begun(t, S)
<1> DEFINE j == [NoJob EXCEPT !.kind = k, !.aim = f]
<1>1. j \in Job
  BY NoJobType DEF Job
<1>2. Visit(t, j, S)
  BY DEF StartLoop
<1> HIDE DEF j
<1>3. Moves(t, S)
  BY <1>1, <1>2, VisitLands, LandsMoves DEF UpdateInv
<1> QED BY <1>3 DEF Begun, StartLoop, UpdateInv, TypeOK

\* What a log line says of a deposit, and the deposit itself, are amounts.
LEMMA DepositType ==
  ASSUME TypeOK
  PROVE  /\ \A w \in Wallets : News(w) => Moved(w) \in Nat
         /\ Deposits \in [Wallets -> Nat]
<1>1. ASSUME NEW w \in Wallets, News(w) PROVE Moved(w) \in Nat
  <2>1. /\ changes[w][heard[w] + 1] \in Nat
        /\ heard[w] # 0 => changes[w][heard[w]] \in Nat
    BY <1>1 DEF TypeOK, News
  <2> QED BY <2>1 DEF Moved
<1>2. ASSUME NEW w \in Wallets PROVE Deposit(w) \in Nat
  <2>1. changes[w] \in Seq(Nat)
    BY DEF TypeOK
  <2>2. changes[w] # <<>> => Len(changes[w]) \in 1 .. Len(changes[w])
    BY <2>1
  <2>3. changes[w] # <<>> => changes[w][Len(changes[w])] \in Nat
    BY <2>1, <2>2
  <2> QED BY <2>3 DEF Deposit, Last
<1> QED BY <1>1, <1>2 DEF Deposits

LEMMA EventBegun ==
  ASSUME UpdateInv, NEW t \in Tasks, NEW w \in Wallets,
         HandleEvent(t, w) \/ HandleVoidEvent(t, w)
  PROVE  Begun(t, {w})
<1>1. TypeOK
  BY DEF UpdateInv
<1>2. PICK a \in Nat : TakeLine(t, w, a)
  BY <1>1, DepositType, PointsAssumption DEF HandleEvent, HandleVoidEvent
<1>3. UNCHANGED <<now, changes, holders>>
  BY DEF HandleEvent, HandleVoidEvent
<1>4. Moves(t, {w}) /\ Meets(t, {w})
  BY <1>2, <1>3, StartForMoves DEF TakeLine, StartFor, Kind
<1>5. heard' \in [Wallets -> Nat] /\ mishaps' \in [Wallets -> SUBSET Mishap]
  <2>1. /\ heard \in [Wallets -> Nat] /\ mishaps \in [Wallets -> SUBSET Mishap]
        /\ "void" \in Mishap
    BY <1>1 DEF TypeOK, Mishap
  <2>2. CASE HandleEvent(t, w)
    BY <2>1, <2>2 DEF HandleEvent
  <2>3. CASE HandleVoidEvent(t, w)
    BY <2>1, <2>3 DEF HandleVoidEvent
  <2> QED BY <2>2, <2>3
<1>6. told' \in [Wallets -> Nat]
  BY <1>1, <1>2 DEF TakeLine, TypeOK
<1> QED BY <1>3, <1>4, <1>5, <1>6 DEF Begun

LEMMA RequestBegun ==
  ASSUME UpdateInv, NEW t \in Tasks, NEW w \in Wallets, Request(t, w)
  PROVE  Begun(t, {w})
<1>1. TypeOK
  BY DEF UpdateInv
<1>2. Moves(t, {w})
  BY <1>1, StartForMoves DEF Request, Kind, chainVars
<1> QED BY <1>1, <1>2 DEF Begun, Request, StartFor, chainVars, TypeOK

LEMMA BeginBegun ==
  ASSUME UpdateInv, NEW t \in Tasks, Begin(t)
  PROVE  \E S : Begun(t, S)
<1>1. TypeOK
  BY DEF UpdateInv
<1>2. CASE SyncAllBackerPoints(t)
  BY <1>1, <1>2, StartLoopBegun DEF SyncAllBackerPoints, Kind, TypeOK, chainVars
<1>3. CASE ManualSyncAllBackers(t)
  <2>1. PICK S \in SUBSET Wallets :
          /\ StartLoop(t, "manual", S, Deposits)
          /\ told' = [w \in Wallets |-> IF w \in S THEN Deposit(w) ELSE told[w]]
          /\ UNCHANGED <<now, changes, heard, holders>>
    BY <1>3 DEF ManualSyncAllBackers
  <2>2. Deposits \in [Wallets -> Nat]
    BY <1>1, DepositType
  <2>3. told' \in [Wallets -> Nat]
    BY <1>1, <2>1, <2>2 DEF Deposits, TypeOK
  <2> QED BY <2>1, <2>2, <2>3, StartLoopBegun DEF Kind
<1> QED BY <1>2, <1>3, EventBegun, RequestBegun DEF Begin

-----------------------------------------------------------------------------
(* The chain, and a crash *)

\* The clock moves on, or the chain changes, and no task and no row does.
LEMMA ChainKeepsCore ==
  ASSUME UpdateInv, now' \in Nat, now' >= now, UNCHANGED <<rows, row, pc, job, overlapped>>
  PROVE  Core'
<1>1. ASSUME NEW t \in Tasks PROVE WorkInv(t)'
  BY DEF UpdateInv, TypeOK, WorkInv, Job, Row
<1>2. ASSUME NEW w \in Wallets PROVE RowInv(w)'
  BY DEF UpdateInv, TypeOK, RowInv, Busy, Row
<1> QED BY <1>1, <1>2 DEF Core, UpdateInv, NoMomentPaidTwice

LEMMA ChainKeeps ==
  ASSUME UpdateInv, \/ Advance
               \/ \E w \in Wallets : ChangeDeposit(w) \/ LoseNews(w)
  PROVE  UpdateInv' /\ row' = row
<1>1. TypeOK
  BY DEF UpdateInv
<1>2. CASE Advance
  <2>1. TypeOK'
    BY <1>1, <1>2 DEF Advance, tableVars, taskVars, TypeOK
  <2>2. Core'
    BY <1>1, <1>2, ChainKeepsCore DEF Advance, tableVars, taskVars, TypeOK
  <2> QED BY <1>2, <2>1, <2>2 DEF Core, UpdateInv, Advance, tableVars
<1>3. ASSUME NEW w \in Wallets, ChangeDeposit(w) PROVE UpdateInv' /\ row' = row
  <2>1. changes' \in [Wallets -> Seq(Nat)]
    BY <1>1, <1>3, PointsAssumption DEF ChangeDeposit, TypeOK
  <2>2. TypeOK'
    BY <1>1, <1>3, <2>1 DEF ChangeDeposit, tableVars, taskVars, TypeOK
  <2>3. Core'
    BY <1>1, <1>3, ChainKeepsCore DEF ChangeDeposit, tableVars, taskVars, TypeOK
  <2> QED BY <1>3, <2>2, <2>3 DEF Core, UpdateInv, ChangeDeposit, tableVars
<1>4. ASSUME NEW w \in Wallets, LoseNews(w) PROVE UpdateInv' /\ row' = row
  <2>1. TypeOK'
    BY <1>1, <1>4 DEF LoseNews, tableVars, taskVars, TypeOK, Mishap
  <2>2. Core'
    BY <1>1, <1>4, ChainKeepsCore DEF LoseNews, tableVars, taskVars, TypeOK
  <2> QED BY <1>4, <2>1, <2>2 DEF Core, UpdateInv, LoseNews, tableVars
<1> QED BY <1>2, <1>3, <1>4

LEMMA CrashKeeps ==
  ASSUME UpdateInv, Crash
  PROVE  UpdateInv' /\ row' = row
<1>1. TypeOK /\ UNCHANGED <<now, changes, told, holders, listed, rows, row, history, overlapped>>
  BY DEF UpdateInv, Crash, tableVars
<1>2. \A t \in Tasks : pc'[t] \in {"idle", "done"} /\ job'[t] = NoJob
  BY DEF Crash
<1>3. TypeOK'
  <2>1. pc' \in [Tasks -> Label] /\ job' \in [Tasks -> Job]
    BY NoJobType DEF Crash, Label
  <2>2. heard' \in [Wallets -> Nat]
    <3>1. \A w \in Wallets : Len(changes[w]) \in Nat
      BY <1>1 DEF TypeOK
    <3> QED BY <3>1 DEF Crash
  <2>3. mishaps' \in [Wallets -> SUBSET Mishap]
    BY <1>1 DEF Crash, TypeOK, Mishap
  <2> QED BY <1>1, <2>1, <2>2, <2>3 DEF TypeOK
<1>4. NoJob.draft.since = 0 /\ 0 <= now
  BY <1>1 DEF NoJob, NewRow, TypeOK
<1>5. ASSUME NEW t \in Tasks PROVE WorkInv(t)'
  BY <1>1, <1>2, <1>4 DEF WorkInv, Active
<1>6. ASSUME NEW w \in Wallets PROVE RowInv(w)'
  BY <1>1, <1>2 DEF UpdateInv, RowInv, Busy, Active
<1> QED BY <1>1, <1>3, <1>5, <1>6 DEF UpdateInv, NoMomentPaidTwice

-----------------------------------------------------------------------------
(* The tables: what a task carries from the job to the row to the list *)

\* Task t goes on with its backer, or begins with one it had still to visit.
Turns(t, l, k) ==
  /\ pc'[t] = l /\ job'[t] = k
  /\ \A u \in Tasks \ {t} : pc'[u] = pc[u] /\ job'[u] = job[u]
  /\ l \in Active =>
       /\ k.kind = job[t].kind /\ k.aim = job[t].aim
       /\ k.at \in Mine(t) /\ k.left \subseteq job[t].left \ {k.at}
       /\ k.at # job[t].at =>
            l = "calculating" /\ k.amount = job[t].aim[k.at] /\ ~k.before
       /\ l \in {"reading", "creating"} => pc[t] = "reading"
  /\ \/ pc[t] \in {"reading", "creating"}
     \/ job[t].left \subseteq IF l \in Active THEN k.left \cup {k.at} ELSE {}

\* Only the backer that task t works for is touched.
Elsewhere(t) ==
  /\ UNCHANGED <<heard, changes, told, overlapped>>
  /\ \A v \in Wallets \ {job[t].at} :
       /\ row'[v] = row[v] /\ listed'[v] = listed[v] /\ history'[v] = history[v]
       /\ mishaps'[v] = mishaps[v] /\ (v \in rows' <=> v \in rows)
  /\ mishaps[job[t].at] \subseteq mishaps'[job[t].at]

\* The backer is carried on, or done.
Fulfils(t, l, k) ==
  \A a \in Wallets :
    a = job[t].at /\ a \notin overlapped /\ Calm(a)' =>
      IF l \in Active /\ k.at = a THEN Duty(t, a)' ELSE Settled(a)'

\* A step of a task keeps what is claimed of the tables.
LEMMA TablesTurn ==
  ASSUME UpdateInv, \A w \in Wallets : TablesInv(w), NEW t \in Tasks, pc[t] \in Active,
         NEW l, NEW k, Turns(t, l, k), Elsewhere(t), Fulfils(t, l, k)
  PROVE  \A w \in Wallets : TablesInv(w)'
<1> DEFINE a == job[t].at
<1>1. a \in Wallets /\ a \notin job[t].left
  BY DEF UpdateInv, WorkInv
<1> SUFFICES ASSUME NEW w \in Wallets PROVE TablesInv(w)'
  OBVIOUS
<1>2. told' = told
  BY DEF Elsewhere
<1> SUFFICES ASSUME w \notin overlapped, Calm(w)'
             PROVE  (Idle(w) => Settled(w))' /\ \A u \in Tasks : (Busy(u, w) => Duty(u, w))'
  BY <1>2 DEF TablesInv, Elsewhere
<1>3. Calm(w)
  BY <1>1 DEF Elsewhere, Calm
<1>4. (Idle(w) => Settled(w)) /\ \A u \in Tasks : Busy(u, w) => Duty(u, w)
  BY <1>3 DEF TablesInv
<1>5. \A u, v \in Tasks : Busy(u, w) /\ Busy(v, w) => u = v
  BY DEF UpdateInv, RowInv
<1>6. \A u \in Tasks \ {t} : Busy(u, w)' <=> Busy(u, w)
  BY DEF Turns, Busy
<1>7. Busy(t, w)' => Busy(t, w)
  BY DEF Turns, Busy, Mine
<1>8. CASE w = a
  <2>1. Busy(t, w) /\ \A u \in Tasks \ {t} : ~Busy(u, w)'
    BY <1>5, <1>6, <1>8 DEF Busy
  <2>2. Busy(t, w)' <=> (l \in Active /\ k.at = a)
    BY <1>1, <1>8 DEF Busy, Turns
  <2>3. IF Busy(t, w)' THEN Duty(t, w)' ELSE Settled(w)'
    BY <1>8, <2>2 DEF Fulfils, Elsewhere
  <2> QED
    BY <2>1, <2>3 DEF Idle
<1>9. CASE w # a
  <2>1. row'[w] = row[w] /\ listed'[w] = listed[w] /\ (w \in rows' <=> w \in rows)
    BY <1>9 DEF Elsewhere
  <2>2. Settled(w)' <=> Settled(w)
    BY <1>2, <2>1 DEF Settled
  <2>3. CASE Busy(t, w)
    <3>1. w \in job[t].left /\ Duty(t, w)
      BY <1>4, <1>9, <2>3 DEF Busy
    <3>2. /\ pc[t] \notin {"reading", "creating"} /\ Goal(t, w) = told[w]
          /\ row[w].held = listed[w] /\ job[t].aim[w] = Goal(t, w)
      BY <3>1 DEF Duty
    <3>3. l \in Active /\ w \in k.left \cup {k.at} /\ pc'[t] = l /\ job'[t] = k
      BY <3>1, <3>2 DEF Turns
    <3>4. /\ k.kind = job[t].kind /\ k.aim = job[t].aim /\ k.at \notin k.left
          /\ l \notin {"reading", "creating"}
          /\ w = k.at => l = "calculating" /\ k.amount = job[t].aim[w] /\ ~k.before
      BY <1>9, <3>2, <3>3 DEF Turns
    <3>5. Goal(t, w)' = Goal(t, w) /\ (Lists(t)' <=> Lists(t)) /\ told'[w] = told[w]
      BY <2>1, <3>3, <3>4 DEF Goal, Lists, Elsewhere
    <3>6. ~Lists(t) => Settled(w)'
      BY <2>1, <3>2, <3>5 DEF Settled, Goal
    <3>7. Duty(t, w)'
      BY <2>1, <3>2, <3>3, <3>4, <3>5, <3>6 DEF Duty
    <3>8. Busy(t, w)' /\ \A u \in Tasks \ {t} : ~Busy(u, w)'
      BY <1>5, <1>6, <2>3, <3>3 DEF Busy
    <3> QED
      BY <3>7, <3>8 DEF Idle
  <2>4. CASE ~Busy(t, w)
    <3>1. ~Busy(t, w)' /\ (Idle(w)' => Idle(w))
      BY <1>6, <1>7, <2>4 DEF Idle
    <3>2. ASSUME NEW u \in Tasks \ {t}, Busy(u, w) PROVE Duty(u, w)'
      <4>1. pc'[u] = pc[u] /\ job'[u] = job[u] /\ Duty(u, w)
        BY <1>4, <3>2 DEF Turns
      <4>2. Goal(u, w)' = Goal(u, w) /\ (Lists(u)' <=> Lists(u))
        BY <2>1, <4>1 DEF Goal, Lists
      <4>3. (Goal(u, w) = told[w])'
        BY <1>2, <4>1, <4>2 DEF Duty
      <4> QED
        BY <2>1, <2>2, <4>1, <4>2, <4>3 DEF Duty
    <3> QED
      BY <1>4, <1>6, <2>2, <3>1, <3>2
  <2> QED
    BY <2>3, <2>4
<1> QED
  BY <1>8, <1>9

-----------------------------------------------------------------------------
(* The history: what is in a total and not yet explained *)

\* The history and what t has still to log grow with the total.
Accounts(t, l, k) ==
  \A a \in Wallets :
    a = job[t].at /\ mishaps'[a] \cap {"write", "history", "crash"} = {} =>
      /\ history[a] <= history'[a]
      /\ history[a] + Unlogged(t, a) <= history'[a] + Unlogged(t, a)'
      /\ \/ row'[a].total <= row[a].total
         \/ /\ pc[t] = "writing" /\ row'[a].total <= job[t].draft.total
            /\ Hundredths(job[t].gain) <= Unlogged(t, a)'
      /\ l = "writing" /\ k.at = a => k.draft.total <= row[a].total + Hundredths(k.gain)

\* What is not yet logged is a natural number, of one task and of all.
LEMMA ExplainedType ==
  ASSUME TypeOK, NEW w \in Wallets
  PROVE  /\ \A t \in Tasks : Unlogged(t, w) \in Nat
         /\ Explained(w) \in Int
<1> DEFINE U == [t \in Tasks |-> Unlogged(t, w)]
<1>1. \A t \in Tasks : Unlogged(t, w) \in Nat
  BY HundredthsType DEF Unlogged, TypeOK, Job
<1>2. U \in [Tasks -> Int]
  BY <1>1
<1>3. Explained(w) = history[w] + SumFunction(U) /\ history[w] \in Nat
  BY DEF Explained, TypeOK
<1> HIDE DEF U
<1>4. SumFunction(U) \in Int
  BY <1>2, SumType, PointsAssumption
<1> QED
  BY <1>1, <1>3, <1>4

\* A step of one task changes one term of what is not yet logged.
LEMMA ExplainedChanges ==
  ASSUME TypeOK, TypeOK', NEW t \in Tasks, NEW l, NEW k, Turns(t, l, k), NEW w \in Wallets
  PROVE  /\ Explained(w) \in Int /\ Explained(w)' \in Int
         /\ Unlogged(t, w) \in Nat /\ Unlogged(t, w)' \in Nat
         /\ Explained(w)' = Explained(w) + history'[w] - history[w]
                            + Unlogged(t, w)' - Unlogged(t, w)
<1> DEFINE U == [u \in Tasks |-> Unlogged(u, w)]
           V == [u \in Tasks |-> Unlogged(u, w)']
<1>1. \A u \in Tasks : Unlogged(u, w) \in Nat /\ Unlogged(u, w)' \in Nat
  BY HundredthsType DEF Unlogged, TypeOK, Job
<1>2. \A u \in Tasks \ {t} : Unlogged(u, w)' = Unlogged(u, w)
  BY DEF Turns, Unlogged
<1>3. U \in [Tasks -> Int] /\ V \in [Tasks -> Int] /\ \A u \in Tasks \ {t} : V[u] = U[u]
  BY <1>1, <1>2
<1>4. U[t] = Unlogged(t, w) /\ V[t] = Unlogged(t, w)'
  OBVIOUS
<1>5. Explained(w) = history[w] + SumFunction(U) /\ Explained(w)' = history'[w] + SumFunction(V)
  BY DEF Explained
<1>6. history[w] \in Nat /\ history'[w] \in Nat
  BY DEF TypeOK
<1> HIDE DEF U, V
<1>7. SumFunction(V) = SumFunction(U) - U[t] + V[t] /\ SumFunction(U) \in Int
  BY <1>3, PointsAssumption, SumChangeAt, SumType
<1> QED
  BY <1>1, <1>4, <1>5, <1>6, <1>7

\* A step of a task keeps what is claimed of the history.
LEMMA HistoryTurn ==
  ASSUME TypeOK, TypeOK', \A w \in Wallets : HistoryInv(w), NEW t \in Tasks,
         NEW l, NEW k, Turns(t, l, k), Elsewhere(t), Accounts(t, l, k), job[t].at \in Wallets
  PROVE  \A w \in Wallets : HistoryInv(w)'
<1> SUFFICES ASSUME NEW w \in Wallets, mishaps'[w] \cap {"write", "history", "crash"} = {}
             PROVE  /\ row'[w].total <= Explained(w)'
                    /\ \A u \in Tasks : pc'[u] = "writing" /\ job'[u].at = w =>
                         job'[u].draft.total <= Explained(w)' + Hundredths(job'[u].gain)
  BY DEF HistoryInv, Hundredths
<1>1. mishaps[w] \cap {"write", "history", "crash"} = {}
  BY DEF Elsewhere
<1>2. /\ row[w].total <= Explained(w)
      /\ \A u \in Tasks : pc[u] = "writing" /\ job[u].at = w =>
           job[u].draft.total <= Explained(w) + Hundredths(job[u].gain)
  BY <1>1 DEF HistoryInv
<1>3. /\ Explained(w) \in Int /\ Explained(w)' \in Int
      /\ Unlogged(t, w) \in Nat /\ Unlogged(t, w)' \in Nat
      /\ Explained(w)' = Explained(w) + history'[w] - history[w]
                         + Unlogged(t, w)' - Unlogged(t, w)
  BY ExplainedChanges
<1>4. /\ history[w] \in Nat /\ history'[w] \in Nat
      /\ row[w].total \in Nat /\ row'[w].total \in Nat
      /\ \A u \in Tasks : /\ job[u].draft.total \in Nat /\ job'[u].draft.total \in Nat
                          /\ Hundredths(job[u].gain) \in Nat
                          /\ Hundredths(job'[u].gain) \in Nat
  BY HundredthsType DEF TypeOK, Row, Job
<1>5. "writing" \in Active /\ "logging" \in Active
  BY DEF Active
<1>6. CASE w = job[t].at
  <2>1. /\ history[w] <= history'[w]
        /\ history[w] + Unlogged(t, w) <= history'[w] + Unlogged(t, w)'
        /\ \/ row'[w].total <= row[w].total
           \/ /\ pc[t] = "writing" /\ row'[w].total <= job[t].draft.total
              /\ Hundredths(job[t].gain) <= Unlogged(t, w)'
        /\ l = "writing" /\ k.at = w => k.draft.total <= row[w].total + Hundredths(k.gain)
    BY <1>6 DEF Accounts
  <2>2. Explained(w) <= Explained(w)'
    BY <1>3, <1>4, <2>1
  <2>3. row'[w].total <= Explained(w)'
    <3>1. CASE row'[w].total <= row[w].total
      BY <1>2, <1>3, <1>4, <2>2, <3>1
    <3>2. CASE /\ pc[t] = "writing" /\ row'[w].total <= job[t].draft.total
               /\ Hundredths(job[t].gain) <= Unlogged(t, w)'
      <4>1. job[t].draft.total <= Explained(w) + Hundredths(job[t].gain)
        BY <1>2, <1>6, <3>2
      <4>2. Unlogged(t, w) = 0
        BY <3>2 DEF Unlogged
      <4> QED
        BY <1>3, <1>4, <2>1, <3>2, <4>1, <4>2
    <3> QED
      BY <2>1, <3>1, <3>2
  <2>4. ASSUME NEW u \in Tasks, pc'[u] = "writing", job'[u].at = w
        PROVE  job'[u].draft.total <= Explained(w)' + Hundredths(job'[u].gain)
    <3>1. CASE u = t
      <4>1. job'[u] = k /\ l = "writing" /\ k.at = w
        BY <2>4, <3>1 DEF Turns
      <4> QED
        BY <1>2, <1>3, <1>4, <2>1, <2>2, <4>1
    <3>2. CASE u # t
      <4>1. pc[u] = "writing" /\ job'[u] = job[u]
        BY <2>4, <3>2 DEF Turns
      <4> QED
        BY <1>2, <1>3, <1>4, <2>2, <2>4, <4>1
    <3> QED
      BY <3>1, <3>2
  <2> QED
    BY <2>3, <2>4
<1>7. CASE w # job[t].at
  <2>1. row'[w] = row[w] /\ history'[w] = history[w]
    BY <1>7 DEF Elsewhere
  <2>2. ~(pc'[t] \in {"writing", "logging"} /\ job'[t].at = w)
    BY <1>5, <1>7 DEF Turns
  <2>3. Unlogged(t, w) = 0 /\ Unlogged(t, w)' = 0
    BY <1>7, <2>2 DEF Unlogged
  <2>4. Explained(w)' = Explained(w)
    BY <1>3, <1>4, <2>1, <2>3
  <2>5. \A u \in Tasks : pc'[u] = "writing" /\ job'[u].at = w => pc[u] = "writing" /\ job'[u] = job[u]
    BY <2>2 DEF Turns
  <2> QED
    BY <1>2, <2>1, <2>4, <2>5
<1> QED
  BY <1>6, <1>7

\* A step that neither writes nor logs a total.
LEMMA QuietAccounts ==
  ASSUME TypeOK, TypeOK', NEW t \in Tasks, pc[t] # "logging", NEW l, NEW k, l # "writing",
         history' = history,
         \A a \in Wallets : a = job[t].at => row'[a].total <= row[a].total
  PROVE  Accounts(t, l, k)
<1> SUFFICES ASSUME NEW a \in Wallets, a = job[t].at
             PROVE  history[a] + Unlogged(t, a) <= history[a] + Unlogged(t, a)'
  BY DEF Accounts, TypeOK
<1>1. Unlogged(t, a) = 0
  BY DEF Unlogged
<1>2. Unlogged(t, a)' \in Nat
  BY HundredthsType DEF Unlogged, TypeOK, Job
<1> QED
  BY <1>1, <1>2 DEF TypeOK

-----------------------------------------------------------------------------
(* Where the control operators take a backer *)

\* What Visiting keeps of the job it starts from.
LEMMA VisitingFields ==
  ASSUME NEW j, NEW w, NEW S, NEW a
  PROVE  /\ Visiting(j, w, S, a).kind = j.kind
         /\ Visiting(j, w, S, a).at = w
         /\ Visiting(j, w, S, a).left = S
         /\ Visiting(j, w, S, a).aim = j.aim
         /\ ~Visiting(j, w, S, a).before
         /\ Visiting(j, w, S, a).amount = a
<1>1. Visiting(j, w, S, a).kind = j.kind
  BY DEF Visiting, NoJob
<1>2. Visiting(j, w, S, a).at = w
  BY DEF Visiting, NoJob
<1>3. Visiting(j, w, S, a).left = S
  BY DEF Visiting, NoJob
<1>4. Visiting(j, w, S, a).aim = j.aim
  BY DEF Visiting, NoJob
<1>5. ~Visiting(j, w, S, a).before
  BY DEF Visiting, NoJob
<1>6. Visiting(j, w, S, a).amount = a
  BY DEF Visiting, NoJob
<1> QED BY <1>1, <1>2, <1>3, <1>4, <1>5, <1>6

\* Task t goes to label l with job k for the same kind of work.
LEMMA DoTurns ==
  ASSUME TypeOK, NEW t \in Tasks, NEW l, NEW k, Do(t, l, k),
         l \in Active =>
           /\ k.kind = job[t].kind /\ k.aim = job[t].aim
           /\ k.at \in Mine(t) /\ k.left \subseteq job[t].left \ {k.at}
           /\ k.at # job[t].at =>
                l = "calculating" /\ k.amount = job[t].aim[k.at] /\ ~k.before
           /\ l \in {"reading", "creating"} => pc[t] = "reading",
         \/ pc[t] \in {"reading", "creating"}
         \/ job[t].left \subseteq IF l \in Active THEN k.left \cup {k.at} ELSE {}
  PROVE  Turns(t, l, k)
BY DEF Do, Turns, TypeOK

\* The loop leaves its backer behind.
LEMMA NextWalletTurns ==
  ASSUME UpdateInv, NEW t \in Tasks, pc[t] \in Active, NextWallet(t)
  PROVE  \E l, k : /\ Turns(t, l, k) /\ l \in {"done", "calculating"}
                   /\ l \in Active => k.at # job[t].at
<1> DEFINE j == job[t]
<1>1. TypeOK /\ j.at \notin j.left
  BY DEF UpdateInv, WorkInv
<1>2. CASE j.left = {} /\ Do(t, "done", NoJob)
  <2>1. "done" \notin Active
    BY DEF Active
  <2>2. Turns(t, "done", NoJob)
    BY <1>1, <1>2, <2>1, DoTurns
  <2> QED BY <2>1, <2>2
<1>3. CASE \E w \in j.left : Do(t, "calculating", Visiting(j, w, j.left \ {w}, j.aim[w]))
  <2>1. PICK w \in j.left : Do(t, "calculating", Visiting(j, w, j.left \ {w}, j.aim[w]))
    BY <1>3
  <2> DEFINE S == j.left \ {w}
             m == j.aim[w]
             k == Visiting(j, w, S, m)
  <2>3. Do(t, "calculating", k)
    BY <2>1
  <2> HIDE DEF j, S, m
  <2>2. /\ k.kind = j.kind /\ k.at = w /\ k.left = S /\ k.aim = j.aim
        /\ ~k.before /\ k.amount = m
    BY VisitingFields
  <2> HIDE DEF k
  <2> USE DEF j, S, m
  <2>4. Turns(t, "calculating", k)
    BY <1>1, <2>2, <2>3, DoTurns DEF Mine, Active
  <2> QED BY <1>1, <2>2, <2>4
<1> QED BY <1>2, <1>3 DEF NextWallet, Visit

\* A call of the task's backer went wrong.
Fails(t) == \E what \in Mishap \ {"void", "lost"} : GoesWrong(t, what)

\* What a task owes its backer, as long as it is alone and nothing went wrong.
LEMMA DutyOf ==
  ASSUME \A w \in Wallets : TablesInv(w), NEW t \in Tasks, pc[t] \in Active, Elsewhere(t),
         NEW a \in Wallets, a = job[t].at, a \notin overlapped, Calm(a)'
  PROVE  Duty(t, a)
BY DEF TablesInv, Elsewhere, Busy, Calm

\* What is left to show of a task that stays with its backer.
Carried(t, l, k, a) ==
  /\ listed'[a] = listed[a]
  /\ l \in {"reading", "creating"} => k.kind # "manual"
  /\ l \in {"creating", "recreating"} => a \notin rows'
  /\ ~Lists(t) => row'[a].held = listed[a] /\ ~k.before /\ l # "listing"
  /\ l = "listing" => row'[a].held = Goal(t, a)
  /\ ~k.before =>
       /\ l \in {"calculating", "recreating", "rereading"} => k.amount = Goal(t, a)
       /\ l = "writing" => k.draft.held = Goal(t, a)
       /\ l = "logging" => row'[a].held = Goal(t, a)

\* Task t is at the same backer, and owes it the same.
LEMMA DutyGoesOn ==
  ASSUME NEW t \in Tasks, NEW l, NEW k, Turns(t, l, k), Elsewhere(t), l \in Active,
         NEW a \in Wallets, a = job[t].at, k.at = a, Duty(t, a), Carried(t, l, k, a)
  PROVE  Duty(t, a)'
<1>1. pc'[t] = l /\ job'[t] = k /\ k.kind = job[t].kind /\ k.aim = job[t].aim /\ a \notin k.left
  BY DEF Turns
<1>2. Goal(t, a)' = Goal(t, a) /\ (Lists(t)' <=> Lists(t))
  BY <1>1 DEF Goal, Lists, Carried
<1>3. told' = told /\ Goal(t, a) = told[a]
  BY DEF Elsewhere, Duty
<1>4. (Goal(t, a) = told[a])'
  BY <1>2, <1>3
<1>5. ~Lists(t) => Settled(a)'
  <2> SUFFICES ASSUME ~Lists(t) PROVE Settled(a)'
    OBVIOUS
  <2>1. listed'[a] = listed[a] /\ row'[a].held = listed[a] /\ Goal(t, a) = listed[a]
    BY DEF Carried, Goal
  <2> QED BY <1>2, <1>4, <2>1 DEF Settled
<1> QED BY <1>1, <1>2, <1>4, <1>5 DEF Duty, Carried

\* A task that is carried on, or leaves a backer that is settled.
LEMMA CarriedFulfils ==
  ASSUME \A w \in Wallets : TablesInv(w), NEW t \in Tasks, pc[t] \in Active,
         NEW l, NEW k, Turns(t, l, k), Elsewhere(t),
         \A a \in Wallets : a = job[t].at /\ a \notin overlapped /\ Calm(a)' =>
           IF l \in Active /\ k.at = a THEN Carried(t, l, k, a) ELSE Settled(a)'
  PROVE  Fulfils(t, l, k)
BY DutyOf, DutyGoesOn DEF Fulfils

\* What goes wrong, goes wrong for one backer, and is remembered.
LEMMA Slips ==
  ASSUME TypeOK, NEW t \in Tasks, job[t].at \in Wallets,
         mishaps' = mishaps \/ Fails(t)
  PROVE  /\ \A v \in Wallets \ {job[t].at} : mishaps'[v] = mishaps[v]
         /\ mishaps[job[t].at] \subseteq mishaps'[job[t].at]
         /\ \A what : GoesWrong(t, what) => what \in mishaps'[job[t].at]
<1>1. mishaps \in [Wallets -> SUBSET Mishap]
  BY DEF TypeOK
<1>2. ASSUME NEW what, GoesWrong(t, what)
      PROVE  mishaps' = [mishaps EXCEPT ![job[t].at] = @ \cup {what}]
  BY <1>2 DEF GoesWrong
<1>3. \/ mishaps' = mishaps
      \/ \E what : mishaps' = [mishaps EXCEPT ![job[t].at] = @ \cup {what}]
  BY <1>2 DEF Fails
<1>4. ASSUME NEW what, mishaps' = [mishaps EXCEPT ![job[t].at] = @ \cup {what}]
      PROVE  /\ \A v \in Wallets \ {job[t].at} : mishaps'[v] = mishaps[v]
             /\ mishaps'[job[t].at] = mishaps[job[t].at] \cup {what}
  BY <1>1, <1>4
<1> QED BY <1>2, <1>3, <1>4

\* A step of a task leaves the records of the other backers alone.
LEMMA StepElsewhere ==
  ASSUME UpdateInv, NEW t \in Tasks, Step(t)
  PROVE  Elsewhere(t) /\ UpdateInv' /\ pc[t] \in Active /\ job[t].at \in Wallets
<1>1. Stepped(t) /\ UpdateInv'
  BY StepStepped, SteppedKeeps
<1>2. TypeOK /\ pc[t] \in Active /\ job[t].at \in Wallets
  BY <1>1 DEF UpdateInv, WorkInv, Stepped
<1>3. mishaps' = mishaps \/ Fails(t)
  BY DEF Step, Read, CreateBackerPoints, CalculatePoints, CreateToCalculate, ReadAgain,
         WritePoints, RecordPointHistory, UpdateBacker, Throw, Fails, Mishap
<1>4. \A v \in Wallets \ {job[t].at} : listed'[v] = listed[v]
  BY <1>2 DEF Step, Read, CreateBackerPoints, CalculatePoints, CreateToCalculate, ReadAgain,
              WritePoints, RecordPointHistory, UpdateBacker, tableVars, TypeOK
<1>5. \A v \in Wallets \ {job[t].at} : history'[v] = history[v]
  BY <1>2 DEF Step, Read, CreateBackerPoints, CalculatePoints, CreateToCalculate, ReadAgain,
              WritePoints, RecordPointHistory, UpdateBacker, tableVars, TypeOK
<1>6. /\ \A v \in Wallets \ {job[t].at} : row'[v] = row[v] /\ (v \in rows' <=> v \in rows)
      /\ UNCHANGED <<heard, changes, told, overlapped>>
  BY <1>1 DEF Stepped, RowStep, chainVars
<1> QED BY <1>1, <1>2, <1>3, <1>4, <1>5, <1>6, Slips DEF Elsewhere

\* Every step of a task ends like this.
Turned(t) ==
  \E l, k : Turns(t, l, k) /\ Fulfils(t, l, k) /\ Accounts(t, l, k)

\* After a mishap nothing is claimed of the tables.
LEMMA SlipFulfils ==
  ASSUME TypeOK, NEW t \in Tasks, job[t].at \in Wallets, Fails(t),
         NEW l, NEW k
  PROVE  Fulfils(t, l, k)
BY Slips DEF Fulfils, Fails, Calm

\* A loop that goes on after a mishap, or with its backer settled.
LEMMA NextWalletTurned ==
  ASSUME UpdateInv, UpdateInv', \A w \in Wallets : TablesInv(w), NEW t \in Tasks,
         pc[t] \in Active, job[t].at \in Wallets, Elsewhere(t), NextWallet(t),
         \/ Fails(t)
         \/ \A a \in Wallets : a = job[t].at /\ a \notin overlapped /\ Calm(a)' =>
              Settled(a)',
         \A l, k : l \in {"done", "calculating"} /\ Turns(t, l, k) => Accounts(t, l, k)
  PROVE  Turned(t)
<1>1. PICK l, k : /\ Turns(t, l, k) /\ l \in {"done", "calculating"}
                  /\ l \in Active => k.at # job[t].at
  BY NextWalletTurns
<1>2. Fulfils(t, l, k)
  BY <1>1, SlipFulfils DEF Fulfils, UpdateInv
<1> QED BY <1>1, <1>2 DEF Turned

\* The first read leads to the calculation, with the deposit that the task owes
\* unless it pays for the time before an event.
LEMMA FoundTurns ==
  ASSUME TypeOK, NEW t \in Tasks, pc[t] \in {"reading", "creating"}, NEW held, Found(t, held)
  PROVE  \E k : /\ Turns(t, "calculating", k) /\ k.at = job[t].at
                /\ k.before => job[t].kind = "event"
                /\ ~k.before => k.amount = IF job[t].kind = "event" THEN job[t].aim[job[t].at]
                                           ELSE held
<1> DEFINE j == job[t]
           a == j.at
           m == IF j.kind = "event" THEN j.aim[a] ELSE held
<1>1. CASE j.kind = "event" /\ Do(t, "calculating", [Visiting(j, a, {}, held) EXCEPT !.before = TRUE])
  <2> DEFINE v == Visiting(j, a, {}, held)
             k == [v EXCEPT !.before = TRUE]
  <2>1. Do(t, "calculating", k)
    BY <1>1
  <2>2. k.kind = j.kind /\ k.at = a /\ k.left = {} /\ k.aim = j.aim /\ k.before
    BY DEF Visiting, NoJob
  <2> HIDE DEF k
  <2>3. Turns(t, "calculating", k)
    BY <2>1, <2>2, DoTurns DEF Mine
  <2> QED BY <1>1, <2>2, <2>3
<1>2. CASE Do(t, "calculating", Visiting(j, a, {}, m))
  <2> HIDE DEF m
  <2> DEFINE k == Visiting(j, a, {}, m)
  <2>1. Do(t, "calculating", k)
    BY <1>2
  <2>2. k.kind = j.kind /\ k.at = a /\ k.left = {} /\ k.aim = j.aim /\ ~k.before /\ k.amount = m
    BY VisitingFields
  <2> HIDE DEF k
  <2>3. Turns(t, "calculating", k)
    BY <2>1, <2>2, DoTurns DEF Mine
  <2> QED BY <2>2, <2>3 DEF m
<1> QED BY <1>1, <1>2 DEF Found

\* ... and what is held in the row is what the task goes on with.
LEMMA FoundTurned ==
  ASSUME UpdateInv, UpdateInv', \A w \in Wallets : TablesInv(w), NEW t \in Tasks,
         pc[t] \in {"reading", "creating"}, job[t].at \in Wallets, Elsewhere(t),
         NEW held, Found(t, held), history' = history, listed' = listed,
         row'[job[t].at].total <= row[job[t].at].total,
         \/ Fails(t)
         \/ row[job[t].at].held = held /\ row'[job[t].at].held = held
  PROVE  Turned(t)
<1>1. TypeOK /\ TypeOK' /\ pc[t] \in Active
  BY DEF UpdateInv, Active
<1>2. PICK k : /\ Turns(t, "calculating", k) /\ k.at = job[t].at
               /\ k.before => job[t].kind = "event"
               /\ ~k.before => k.amount = IF job[t].kind = "event" THEN job[t].aim[job[t].at]
                                          ELSE held
  BY <1>1, FoundTurns
<1>3. Accounts(t, "calculating", k)
  BY <1>1, QuietAccounts
<1>4. CASE Fails(t)
  BY <1>1, <1>2, <1>3, <1>4, SlipFulfils DEF Turned
<1>5. CASE row[job[t].at].held = held /\ row'[job[t].at].held = held
  <2>1. ASSUME NEW a \in Wallets, a = job[t].at, a \notin overlapped, Calm(a)'
        PROVE  Carried(t, "calculating", k, a)
    <3>1. Duty(t, a) /\ job[t].kind # "manual"
      BY <1>1, <2>1, DutyOf DEF Duty
    <3>2. ~Lists(t) => job[t].kind # "event" /\ held = listed[a] /\ ~k.before
      BY <1>2, <1>5, <2>1, <3>1 DEF Duty, Settled, Lists
    <3>3. Goal(t, a) = IF job[t].kind = "event" THEN job[t].aim[a] ELSE listed[a]
      BY <3>1 DEF Goal, Lists
    <3> QED BY <1>2, <1>5, <2>1, <3>1, <3>2, <3>3 DEF Carried, Lists
  <2>2. Fulfils(t, "calculating", k)
    BY <1>1, <1>2, <2>1, CarriedFulfils DEF Active
  <2> QED BY <1>2, <1>3, <2>2 DEF Turned
<1> QED BY <1>4, <1>5

\* A step that leaves the records of the backer as they are, or inserts its row.
Quiet(t) ==
  /\ history' = history /\ listed' = listed
  /\ \A a \in Wallets : a = job[t].at =>
       row'[a].held = row[a].held /\ row'[a].total <= row[a].total

LEMMA KeptQuiet ==
  ASSUME UpdateInv, NEW t \in Tasks, job[t].at \in Wallets, history' = history, listed' = listed,
         row' = row \/ (pc[t] \in {"creating", "recreating"} /\ Insert(t) /\ UpdateInv')
  PROVE  Quiet(t)
<1> DEFINE a == job[t].at
<1>1. row[a].total \in Nat
  BY DEF UpdateInv, TypeOK, Row
<1>2. CASE row' = row
  BY <1>1, <1>2 DEF Quiet
<1>3. CASE pc[t] \in {"creating", "recreating"} /\ Insert(t)
  <2>1. row'[a] = job[t].draft /\ a \notin rows
    BY <1>3, InsertRowStep DEF Insert
  <2>2. job[t].draft = NewRow(job[t].draft.since) /\ row[a] = NewRow(0)
    BY <1>3, <2>1 DEF UpdateInv, WorkInv, RowInv, Active
  <2>3. row'[a].held = 0 /\ row[a].held = 0 /\ row'[a].total = 0 /\ row[a].total = 0
    BY <2>1, <2>2 DEF NewRow
  <2> QED BY <2>3 DEF Quiet
<1> QED BY <1>2, <1>3

\* A task that goes on with the same job, but for what it has computed.
LEMMA StaysTurns ==
  ASSUME UpdateInv, NEW t \in Tasks, pc[t] \in Active, NEW l, NEW k, Do(t, l, k),
         k.kind = job[t].kind, k.at = job[t].at, k.left = job[t].left, k.aim = job[t].aim,
         l \in Active, l \in {"reading", "creating"} => pc[t] = "reading"
  PROVE  Turns(t, l, k)
BY DoTurns DEF UpdateInv, WorkInv, Mine

LEMMA MissingTurned ==
  ASSUME UpdateInv, UpdateInv', \A w \in Wallets : TablesInv(w), NEW t \in Tasks,
         job[t].at \in Wallets, Elsewhere(t), Quiet(t), rows' = rows,
         NEW l, Missing(t, l), \/ pc[t] = "reading" /\ l = "creating"
                               \/ pc[t] = "calculating" /\ l = "recreating"
  PROVE  Turned(t)
<1> DEFINE j == job[t]
           k == [j EXCEPT !.draft = NewRow(now)]
<1>1. TypeOK /\ TypeOK' /\ pc[t] \in Active /\ l \in Active /\ j \in Job
  BY DEF UpdateInv, Active, TypeOK
<1>2. k.kind = j.kind /\ k.at = j.at /\ k.left = j.left /\ k.aim = j.aim
      /\ (k.before <=> j.before) /\ k.amount = j.amount
  BY <1>1 DEF Job
<1>3. Do(t, l, k) /\ j.at \notin rows
  BY DEF Missing
<1> HIDE DEF k
<1>4. Turns(t, l, k)
  BY <1>1, <1>2, <1>3, StaysTurns
<1>5. ASSUME NEW a \in Wallets, a = j.at, a \notin overlapped, Calm(a)'
      PROVE  Carried(t, l, k, a)
  <2>1. Duty(t, a)
    BY <1>1, <1>5, DutyOf
  <2> QED BY <1>2, <1>3, <1>5, <2>1 DEF Carried, Quiet, Duty, Settled
<1>6. Fulfils(t, l, k)
  BY <1>1, <1>2, <1>4, <1>5, CarriedFulfils
<1>7. Accounts(t, l, k)
  BY <1>1, QuietAccounts DEF Quiet
<1> QED BY <1>4, <1>6, <1>7 DEF Turned

LEMMA CalculatedTurned ==
  ASSUME UpdateInv, UpdateInv', \A w \in Wallets : TablesInv(w), NEW t \in Tasks,
         pc[t] \in {"calculating", "recreating"}, job[t].at \in Wallets, Elsewhere(t), Quiet(t),
         NEW r, Calculated(t, r)
  PROVE  Turned(t)
<1> DEFINE j == job[t]
           g == (r.held + j.amount) * (now - r.since)
           s == now - r.since
<1>1. TypeOK /\ TypeOK' /\ pc[t] \in Active /\ "rereading" \in Active /\ j \in Job
  BY DEF UpdateInv, Active, TypeOK
<1>2. CASE j.kind = "get" /\ NextWallet(t)
  <2>1. ASSUME NEW a \in Wallets, a = j.at, a \notin overlapped, Calm(a)'
        PROVE  Settled(a)'
    <3>1. Duty(t, a) /\ ~Lists(t)
      BY <1>1, <1>2, <2>1, DutyOf DEF Lists
    <3>2. Settled(a)
      BY <2>1, <3>1 DEF Duty
    <3> QED BY <2>1, <3>2 DEF Settled, Quiet, Elsewhere
  <2>2. \A l, k : l \in {"done", "calculating"} => Accounts(t, l, k)
    BY <1>1, QuietAccounts DEF Quiet
  <2> QED BY <1>1, <1>2, <2>1, <2>2, NextWalletTurned
<1>3. ASSUME NEW k, Do(t, "rereading", k), k.kind = j.kind, k.at = j.at, k.left = j.left,
             k.aim = j.aim, k.before <=> j.before, k.amount = j.amount
      PROVE  Turned(t)
  <2>1. Turns(t, "rereading", k)
    BY <1>1, <1>3, StaysTurns
  <2>2. ASSUME NEW a \in Wallets, a = j.at, a \notin overlapped, Calm(a)'
        PROVE  Carried(t, "rereading", k, a)
    <3>1. Duty(t, a)
      BY <1>1, <2>2, DutyOf
    <3> QED BY <1>3, <2>2, <3>1 DEF Carried, Quiet, Duty, Settled
  <2>3. Fulfils(t, "rereading", k)
    BY <1>1, <1>3, <2>1, <2>2, CarriedFulfils
  <2>4. Accounts(t, "rereading", k)
    BY <1>1, QuietAccounts DEF Quiet
  <2> QED BY <2>1, <2>3, <2>4 DEF Turned
<1>4. CASE Do(t, "rereading", j)
  BY <1>3, <1>4
<1>5. CASE Do(t, "rereading", [j EXCEPT !.gain = g, !.span = s])
  <2> DEFINE k == [j EXCEPT !.gain = g, !.span = s]
  <2> HIDE DEF g, s
  <2>1. k.kind = j.kind /\ k.at = j.at /\ k.left = j.left /\ k.aim = j.aim
        /\ (k.before <=> j.before) /\ k.amount = j.amount
    BY <1>1 DEF Job
  <2>2. Do(t, "rereading", k)
    BY <1>5
  <2> HIDE DEF k, j
  <2> QED BY <1>3, <2>1, <2>2
<1> QED BY <1>2, <1>4, <1>5 DEF Calculated, Proceed

LEMMA SlipAccounts ==
  ASSUME TypeOK, NEW t \in Tasks, job[t].at \in Wallets, NEW what \in {"write", "history"},
         GoesWrong(t, what), NEW l, NEW k
  PROVE  Accounts(t, l, k)
BY Slips DEF Accounts, Fails, Mishap

\* After an update the task repeats it, lists the deposit, or leaves a backer
\* whose row and list agree.
LEMMA UpdatedTurned ==
  ASSUME UpdateInv, UpdateInv', \A w \in Wallets : TablesInv(w), NEW t \in Tasks,
         pc[t] \in Active, job[t].at \in Wallets, Elsewhere(t), Updated(t), listed' = listed,
         \A a \in Wallets : a = job[t].at /\ a \notin overlapped /\ Calm(a)' =>
           (~job[t].before => row'[a].held = Goal(t, a)),
         \A l, k : l \in {"done", "calculating", "listing"} /\ Turns(t, l, k) => Accounts(t, l, k)
  PROVE  Turned(t)
<1> DEFINE j == job[t]
<1>1. TypeOK /\ "calculating" \in Active /\ "listing" \in Active
  BY DEF UpdateInv, Active
<1>2. CASE j.before /\ Do(t, "calculating", Visiting(j, j.at, j.left, j.aim[j.at]))
  <2> DEFINE m == j.aim[j.at]
             b == j.at
             S == j.left
             k == Visiting(j, b, S, m)
  <2>1. Do(t, "calculating", k)
    BY <1>2
  <2> HIDE DEF j, m, b, S
  <2>2. k.kind = j.kind /\ k.at = b /\ k.left = S /\ k.aim = j.aim /\ ~k.before /\ k.amount = m
    BY VisitingFields
  <2> HIDE DEF k
  <2> USE DEF j, m, b, S
  <2>3. Turns(t, "calculating", k)
    BY <1>1, <2>1, <2>2, StaysTurns
  <2>4. ASSUME NEW a \in Wallets, a = j.at, a \notin overlapped, Calm(a)'
        PROVE  Carried(t, "calculating", k, a)
    <3>1. Duty(t, a) /\ Lists(t)
      BY <1>2, <2>4, DutyOf DEF Duty
    <3> QED BY <2>2, <2>4, <3>1 DEF Carried, Goal
  <2>5. Fulfils(t, "calculating", k)
    BY <1>1, <2>2, <2>3, <2>4, CarriedFulfils
  <2> QED BY <2>3, <2>5 DEF Turned
<1>3. CASE ~j.before /\ Lists(t) /\ Do(t, "listing", Visiting(j, j.at, j.left, 0))
  <2> DEFINE b == j.at
             S == j.left
             k == Visiting(j, b, S, 0)
  <2>1. Do(t, "listing", k)
    BY <1>3
  <2> HIDE DEF j, b, S
  <2>2. k.kind = j.kind /\ k.at = b /\ k.left = S /\ k.aim = j.aim /\ ~k.before
    BY VisitingFields
  <2> HIDE DEF k
  <2> USE DEF j, b, S
  <2>3. Turns(t, "listing", k)
    BY <1>1, <2>1, <2>2, StaysTurns
  <2>4. ASSUME NEW a \in Wallets, a = j.at, a \notin overlapped, Calm(a)'
        PROVE  Carried(t, "listing", k, a)
    BY <1>3, <2>2, <2>4 DEF Carried
  <2>5. Fulfils(t, "listing", k)
    BY <1>1, <2>2, <2>3, <2>4, CarriedFulfils
  <2> QED BY <2>3, <2>5 DEF Turned
<1>4. CASE ~j.before /\ ~Lists(t) /\ NextWallet(t)
  <2>1. ASSUME NEW a \in Wallets, a = j.at, a \notin overlapped, Calm(a)'
        PROVE  Settled(a)'
    <3>1. Duty(t, a) /\ Goal(t, a) = listed[a] /\ row'[a].held = listed[a]
      BY <1>4, <2>1, DutyOf DEF Goal
    <3> QED BY <2>1, <3>1 DEF Duty, Settled, Elsewhere
  <2> QED BY <1>4, <2>1, NextWalletTurned
<1> QED BY <1>2, <1>3, <1>4 DEF Updated, Lists

-----------------------------------------------------------------------------
(* The steps of a task keep the tables and the history *)

\* What every step starts from.
Ready(t) ==
  /\ UpdateInv /\ UpdateInv' /\ \A w \in Wallets : TablesInv(w)
  /\ job[t].at \in Wallets /\ Elsewhere(t)

LEMMA ReadTurned ==
  ASSUME NEW t \in Tasks, Ready(t), Read(t)
  PROVE  Turned(t)
<1>1. Quiet(t) /\ rows' = rows
  BY KeptQuiet DEF Read, tableVars, Ready
<1>2. /\ history' = history /\ listed' = listed
      /\ row'[job[t].at].total <= row[job[t].at].total
      /\ row'[job[t].at].held = row[job[t].at].held
  BY <1>1 DEF Quiet, Ready
<1>3. CASE GoesWrong(t, "read") /\ Found(t, 0)
  BY <1>1, <1>2, <1>3, FoundTurned DEF Read, Ready, Fails, Mishap
<1> QED BY <1>1, <1>2, <1>3, FoundTurned, MissingTurned DEF Read, Ready

LEMMA CreateTurned ==
  ASSUME NEW t \in Tasks, Ready(t), CreateBackerPoints(t)
  PROVE  Turned(t)
<1> DEFINE a == job[t].at
<1>1. pc[t] \in Active /\ pc[t] = "creating" /\ TypeOK /\ TypeOK'
  BY DEF CreateBackerPoints, Active, Ready, UpdateInv
<1>2. Quiet(t)
  BY <1>1, KeptQuiet DEF CreateBackerPoints, Ready
<1>3. /\ history' = history /\ listed' = listed /\ row'[a].total <= row[a].total
      /\ row'[a].held = row[a].held
  BY <1>2 DEF Quiet, Ready
<1>4. \A l, k : l \in {"done", "calculating"} => Accounts(t, l, k)
  BY <1>1, <1>2, QuietAccounts DEF Quiet
<1>5. CASE Insert(t) /\ Found(t, 0)
  <2>1. row[a].held = 0
    BY <1>5 DEF Insert, Ready, UpdateInv, RowInv, NewRow
  <2> QED BY <1>1, <1>3, <1>5, <2>1, FoundTurned DEF Ready
<1>6. CASE a \in rows /\ NextWallet(t)
  <2>1. ASSUME NEW b \in Wallets, b = a, b \notin overlapped, Calm(b)'
        PROVE  FALSE
    BY <1>1, <1>6, <2>1, DutyOf DEF Duty, Ready
  <2> QED BY <1>1, <1>4, <1>6, <2>1, NextWalletTurned DEF Ready
<1>7. CASE Throw(t, "create")
  BY <1>1, <1>4, <1>7, NextWalletTurned DEF Ready, Throw, Fails, Mishap
<1> QED BY <1>5, <1>6, <1>7 DEF CreateBackerPoints

LEMMA CalculateTurned ==
  ASSUME NEW t \in Tasks, Ready(t), CalculatePoints(t)
  PROVE  Turned(t)
<1>1. pc[t] \in Active /\ pc[t] = "calculating" /\ TypeOK /\ TypeOK' /\ rows' = rows
  BY DEF CalculatePoints, Active, Ready, UpdateInv, tableVars
<1>2. Quiet(t)
  BY <1>1, KeptQuiet DEF CalculatePoints, Ready, tableVars
<1>3. \A l, k : l \in {"done", "calculating"} => Accounts(t, l, k)
  BY <1>1, <1>2, QuietAccounts DEF Quiet
<1>4. CASE Calculated(t, row[job[t].at])
  BY <1>1, <1>2, <1>4, CalculatedTurned DEF Ready
<1>5. CASE Missing(t, "recreating")
  BY <1>1, <1>2, <1>5, MissingTurned DEF Ready
<1>6. CASE Throw(t, "read")
  BY <1>1, <1>3, <1>6, NextWalletTurned DEF Ready, Throw, Fails, Mishap
<1> QED BY <1>4, <1>5, <1>6 DEF CalculatePoints

LEMMA CreateToCalculateTurned ==
  ASSUME NEW t \in Tasks, Ready(t), CreateToCalculate(t)
  PROVE  Turned(t)
<1> DEFINE a == job[t].at
<1>1. pc[t] \in Active /\ pc[t] = "recreating" /\ TypeOK /\ TypeOK'
  BY DEF CreateToCalculate, Active, Ready, UpdateInv
<1>2. Quiet(t)
  BY <1>1, KeptQuiet DEF CreateToCalculate, Ready
<1>3. \A l, k : l \in {"done", "calculating"} => Accounts(t, l, k)
  BY <1>1, <1>2, QuietAccounts DEF Quiet
<1>4. CASE Calculated(t, job[t].draft)
  BY <1>1, <1>2, <1>4, CalculatedTurned DEF Ready
<1>5. CASE a \in rows /\ NextWallet(t)
  <2>1. ASSUME NEW b \in Wallets, b = a, b \notin overlapped, Calm(b)'
        PROVE  FALSE
    BY <1>1, <1>5, <2>1, DutyOf DEF Duty, Ready
  <2> QED BY <1>1, <1>3, <1>5, <2>1, NextWalletTurned DEF Ready
<1>6. CASE Throw(t, "create")
  BY <1>1, <1>3, <1>6, NextWalletTurned DEF Ready, Throw, Fails, Mishap
<1> QED BY <1>4, <1>5, <1>6 DEF CreateToCalculate

\* The draft exceeds the row by the gain, and holds the deposit that is owed.
LEMMA ReadAgainTurned ==
  ASSUME NEW t \in Tasks, Ready(t), ReadAgain(t)
  PROVE  Turned(t)
<1> DEFINE j == job[t]
           d == Draft(j, row[j.at])
           k == [j EXCEPT !.draft = d]
<1>1. pc[t] \in Active /\ pc[t] = "rereading" /\ TypeOK /\ TypeOK' /\ j \in Job
      /\ "writing" \in Active
  BY DEF ReadAgain, Active, Ready, UpdateInv, TypeOK
<1>2. Quiet(t)
  BY <1>1, KeptQuiet DEF ReadAgain, Ready, tableVars
<1>3. \A l, m : l \in {"done", "calculating"} => Accounts(t, l, m)
  BY <1>1, <1>2, QuietAccounts DEF Quiet
<1>4. CASE Do(t, "writing", k)
  <2>1. d.held = j.amount /\ d.total = row[j.at].total + Hundredths(j.gain)
    BY DEF Draft
  <2> HIDE DEF d
  <2>2. k.kind = j.kind /\ k.at = j.at /\ k.left = j.left /\ k.aim = j.aim
        /\ (k.before <=> j.before) /\ k.draft = d /\ k.gain = j.gain
    BY <1>1 DEF Job
  <2>3. Do(t, "writing", k)
    BY <1>4
  <2> HIDE DEF k
  <2>4. Turns(t, "writing", k)
    BY <1>1, <2>2, <2>3, StaysTurns DEF Ready
  <2>5. ASSUME NEW a \in Wallets, a = j.at, a \notin overlapped, Calm(a)'
        PROVE  Carried(t, "writing", k, a)
    <3>1. Duty(t, a)
      BY <1>1, <2>5, DutyOf DEF Ready
    <3> QED BY <1>1, <1>2, <2>1, <2>2, <2>5, <3>1 DEF Carried, Quiet, Duty, Settled
  <2>6. Fulfils(t, "writing", k)
    BY <1>1, <2>2, <2>4, <2>5, CarriedFulfils DEF Ready
  <2>7. Accounts(t, "writing", k)
    <3> SUFFICES ASSUME NEW a \in Wallets, a = j.at
                 PROVE  /\ history[a] <= history'[a]
                        /\ history[a] + Unlogged(t, a) <= history'[a] + Unlogged(t, a)'
                        /\ row'[a].total <= row[a].total
                        /\ k.draft.total <= row[a].total + Hundredths(k.gain)
      BY DEF Accounts
    <3>1. Unlogged(t, a) = 0 /\ Unlogged(t, a)' = 0
      BY <1>1, <2>4 DEF Unlogged, Turns
    <3>2. row[a].total \in Nat /\ Hundredths(j.gain) \in Nat /\ history[a] \in Nat
      BY <1>1, HundredthsType DEF TypeOK, Row, Job
    <3> QED BY <1>2, <2>1, <2>2, <3>1, <3>2 DEF Quiet
  <2> QED BY <2>4, <2>6, <2>7 DEF Turned
<1>5. CASE Throw(t, "read")
  BY <1>1, <1>3, <1>5, NextWalletTurned DEF Ready, Throw, Fails, Mishap
<1> QED BY <1>4, <1>5 DEF ReadAgain

\* Nothing rounds to nothing.
LEMMA NoGain == Hundredths(0) = 0
<1>1. Cent \in Nat /\ Cent > 0 /\ 2 * 0 + Cent = Cent
  BY PointsAssumption
<1>2. \A c \in Nat : c > 0 => c \div (2 * c) = 0
  OBVIOUS
<1> QED BY <1>1, <1>2 DEF Hundredths

\* The total grows by the gain, which is still to be logged.
LEMMA WriteTurned ==
  ASSUME NEW t \in Tasks, Ready(t), WritePoints(t)
  PROVE  Turned(t)
<1> DEFINE j == job[t]
           d == j.draft
           k == [j EXCEPT !.draft = NewRow(0)]
<1>1. pc[t] \in Active /\ pc[t] = "writing" /\ TypeOK /\ TypeOK' /\ j \in Job
      /\ "logging" \in Active /\ UpdateInv /\ history' = history /\ listed' = listed
      /\ rows' = rows /\ j.at \in Wallets
  BY DEF WritePoints, Active, Ready, UpdateInv, TypeOK
<1>2. CASE Throw(t, "write")
  BY <1>1, <1>2, NextWalletTurned, SlipAccounts DEF Ready, Throw, Fails, Mishap
<1>3. ASSUME row' = [row EXCEPT ![j.at] = d], NEW a \in Wallets, a = j.at
      PROVE  /\ row'[a] = d /\ d.total \in Nat /\ row[a].total \in Nat /\ history[a] \in Nat
             /\ Unlogged(t, a) = 0 /\ Hundredths(j.gain) \in Nat
  BY <1>1, <1>3, HundredthsType DEF TypeOK, Unlogged, Row, Job
<1>4. ASSUME row' = [row EXCEPT ![j.at] = d], mishaps' = mishaps,
             NEW a \in Wallets, a = j.at, a \notin overlapped, Calm(a)'
      PROVE  /\ ~j.before => row'[a].held = Goal(t, a)
             /\ ~Lists(t) => row'[a].held = listed[a] /\ ~j.before
  <2>1. Duty(t, a) /\ row'[a] = d
    BY <1>1, <1>3, <1>4, DutyOf DEF Ready
  <2> QED BY <1>1, <1>4, <2>1 DEF Duty, Goal
<1>5. CASE /\ row' = [row EXCEPT ![j.at] = d] /\ mishaps' = mishaps
           /\ Do(t, "logging", k)
  <2>1. k.kind = j.kind /\ k.at = j.at /\ k.left = j.left /\ k.aim = j.aim
        /\ (k.before <=> j.before) /\ k.gain = j.gain
    BY <1>1 DEF Job
  <2>2. Do(t, "logging", k)
    BY <1>5
  <2> HIDE DEF k
  <2>3. Turns(t, "logging", k)
    BY <1>1, <2>1, <2>2, StaysTurns
  <2>4. ASSUME NEW a \in Wallets, a = j.at, a \notin overlapped, Calm(a)'
        PROVE  Carried(t, "logging", k, a)
    BY <1>1, <1>4, <1>5, <2>1, <2>4 DEF Carried
  <2>5. Fulfils(t, "logging", k)
    BY <1>1, <2>1, <2>3, <2>4, CarriedFulfils DEF Ready
  <2>6. Accounts(t, "logging", k)
    <3> SUFFICES ASSUME NEW a \in Wallets, a = j.at
                 PROVE  /\ history[a] <= history'[a]
                        /\ history[a] + Unlogged(t, a) <= history'[a] + Unlogged(t, a)'
                        /\ pc[t] = "writing" /\ row'[a].total <= job[t].draft.total
                        /\ Hundredths(job[t].gain) <= Unlogged(t, a)'
      BY DEF Accounts
    <3>1. Unlogged(t, a)' = Hundredths(j.gain)
      BY <2>1, <2>3 DEF Unlogged, Turns, Hundredths
    <3> QED BY <1>1, <1>3, <1>5, <3>1
  <2> QED BY <2>3, <2>5, <2>6 DEF Turned
<1>6. CASE /\ row' = [row EXCEPT ![j.at] = d] /\ mishaps' = mishaps
           /\ ~(j.gain > 0) /\ Updated(t)
  <2>1. Hundredths(j.gain) = 0
    <3>1. j.gain = 0
      BY <1>1, <1>6 DEF Job
    <3> QED BY <3>1, NoGain
  <2>2. ASSUME NEW l \in {"done", "calculating", "listing"}, NEW m, Turns(t, l, m)
        PROVE  Accounts(t, l, m)
    <3> SUFFICES ASSUME NEW a \in Wallets, a = j.at
                 PROVE  /\ history[a] <= history'[a]
                        /\ history[a] + Unlogged(t, a) <= history'[a] + Unlogged(t, a)'
                        /\ pc[t] = "writing" /\ row'[a].total <= job[t].draft.total
                        /\ Hundredths(job[t].gain) <= Unlogged(t, a)'
      BY DEF Accounts
    <3>1. Unlogged(t, a)' = 0
      BY <2>2 DEF Unlogged, Turns
    <3> QED BY <1>1, <1>3, <1>6, <2>1, <3>1
  <2> QED BY <1>1, <1>4, <1>6, <2>2, UpdatedTurned DEF Ready
<1> QED BY <1>2, <1>5, <1>6 DEF WritePoints

\* What is logged moves from the task to the history.
LEMMA RecordTurned ==
  ASSUME NEW t \in Tasks, Ready(t), RecordPointHistory(t)
  PROVE  Turned(t)
<1> DEFINE j == job[t]
<1>1. pc[t] \in Active /\ pc[t] = "logging" /\ TypeOK /\ TypeOK' /\ j \in Job
      /\ UpdateInv /\ listed' = listed /\ row' = row /\ j.at \in Wallets /\ Updated(t)
  BY DEF RecordPointHistory, Active, Ready, UpdateInv, TypeOK
<1>2. ASSUME NEW a \in Wallets, a = j.at, a \notin overlapped, Calm(a)'
      PROVE  ~j.before => row'[a].held = Goal(t, a)
  <2>1. Duty(t, a)
    BY <1>1, <1>2, DutyOf DEF Ready
  <2> QED BY <1>1, <1>2, <2>1 DEF Duty
<1>3. ASSUME NEW l \in {"done", "calculating", "listing"}, NEW k, Turns(t, l, k)
      PROVE  Accounts(t, l, k)
  <2>1. CASE GoesWrong(t, "history")
    BY <1>1, <2>1, SlipAccounts
  <2>2. CASE history' = [history EXCEPT ![j.at] = @ + Hundredths(j.gain)]
    <3> SUFFICES ASSUME NEW a \in Wallets, a = j.at
                 PROVE  /\ history[a] <= history'[a]
                        /\ history[a] + Unlogged(t, a) <= history'[a] + Unlogged(t, a)'
                        /\ row'[a].total <= row[a].total
      BY <1>3 DEF Accounts
    <3>1. Unlogged(t, a) = Hundredths(j.gain) /\ Unlogged(t, a)' = 0
      BY <1>1, <1>3 DEF Unlogged, Turns
    <3>2. history'[a] = history[a] + Hundredths(j.gain)
      BY <1>1, <2>2 DEF TypeOK
    <3>3. history[a] \in Nat /\ Hundredths(j.gain) \in Nat /\ row[a].total \in Nat
      BY <1>1, HundredthsType DEF TypeOK, Row, Job
    <3> QED BY <1>1, <3>1, <3>2, <3>3
  <2> QED BY <2>1, <2>2 DEF RecordPointHistory
<1> QED BY <1>1, <1>2, <1>3, UpdatedTurned DEF Ready

\* The list follows the row.
LEMMA UpdateBackerTurned ==
  ASSUME NEW t \in Tasks, Ready(t), UpdateBacker(t)
  PROVE  Turned(t)
<1> DEFINE j == job[t]
<1>1. pc[t] \in Active /\ pc[t] = "listing" /\ TypeOK /\ TypeOK' /\ NextWallet(t)
      /\ UpdateInv /\ history' = history /\ row' = row /\ j.at \in Wallets
  BY DEF UpdateBacker, Active, Ready, UpdateInv, TypeOK
<1>2. \A a \in Wallets : a = j.at => row'[a].total <= row[a].total
  BY <1>1 DEF TypeOK, Row
<1>3. \A l, k : l \in {"done", "calculating"} => Accounts(t, l, k)
  BY <1>1, <1>2, QuietAccounts
<1>4. CASE GoesWrong(t, "list")
  BY <1>1, <1>3, <1>4, NextWalletTurned DEF Ready, Fails, Mishap
<1>5. CASE listed' = [listed EXCEPT ![j.at] = j.aim[j.at]]
  <2>1. ASSUME NEW a \in Wallets, a = j.at, a \notin overlapped, Calm(a)'
        PROVE  Settled(a)'
    <3>1. Duty(t, a) /\ Lists(t)
      BY <1>1, <2>1, DutyOf DEF Ready, Duty
    <3>2. row[a].held = j.aim[a] /\ listed'[a] = j.aim[a] /\ j.aim[a] = told'[a]
      BY <1>1, <1>5, <2>1, <3>1 DEF Duty, Goal, TypeOK, Ready, Elsewhere
    <3> QED BY <1>1, <3>2 DEF Settled
  <2> QED BY <1>1, <1>3, <2>1, NextWalletTurned DEF Ready
<1> QED BY <1>4, <1>5 DEF UpdateBacker

\* A step of a task keeps what is claimed of the tables and of the history.
LEMMA StepTurned ==
  ASSUME IInv, NEW t \in Tasks, Step(t)
  PROVE  IInv'
<1>1. UpdateInv /\ (\A w \in Wallets : TablesInv(w)) /\ \A w \in Wallets : HistoryInv(w)
  BY DEF IInv
<1>2. Elsewhere(t) /\ UpdateInv' /\ pc[t] \in Active /\ job[t].at \in Wallets
  BY <1>1, StepElsewhere
<1>3. Ready(t)
  BY <1>1, <1>2 DEF Ready
<1>4. Turned(t)
  BY <1>3, ReadTurned, CreateTurned, CalculateTurned, CreateToCalculateTurned, ReadAgainTurned,
     WriteTurned, RecordTurned, UpdateBackerTurned DEF Step
<1>5. PICK l, k : Turns(t, l, k) /\ Fulfils(t, l, k) /\ Accounts(t, l, k)
  BY <1>4 DEF Turned
<1>6. \A w \in Wallets : TablesInv(w)'
  BY <1>1, <1>2, <1>5, TablesTurn
<1>7. \A w \in Wallets : HistoryInv(w)'
  BY <1>1, <1>2, <1>5, HistoryTurn DEF UpdateInv
<1> QED BY <1>2, <1>6, <1>7 DEF IInv

-----------------------------------------------------------------------------
(* Tasks begin, the chain moves on, and a crash *)

\* What a backer is still to be explained stays as it is.
LEMMA HistoryKept ==
  ASSUME NEW w \in Wallets, HistoryInv(w), mishaps[w] \subseteq mishaps'[w],
         history'[w] = history[w], row'[w].total = row[w].total,
         \A t \in Tasks : Unlogged(t, w)' = Unlogged(t, w),
         \A t \in Tasks : pc'[t] = "writing" /\ job'[t].at = w =>
           pc[t] = "writing" /\ job'[t] = job[t]
  PROVE  HistoryInv(w)'
<1> DEFINE U == [t \in Tasks |-> Unlogged(t, w)]
           V == [t \in Tasks |-> Unlogged(t, w)']
<1>1. V = U
  OBVIOUS
<1>2. Explained(w) = history[w] + SumFunction(U) /\ Explained(w)' = history'[w] + SumFunction(V)
  BY DEF Explained
<1> HIDE DEF U, V
<1>3. Explained(w)' = Explained(w)
  BY <1>1, <1>2
<1> SUFFICES ASSUME mishaps'[w] \cap {"write", "history", "crash"} = {}
             PROVE  /\ row'[w].total <= Explained(w)'
                    /\ \A t \in Tasks : pc'[t] = "writing" /\ job'[t].at = w =>
                         job'[t].draft.total <= Explained(w)' + Hundredths(job'[t].gain)
  BY DEF HistoryInv, Hundredths
<1>4. mishaps[w] \cap {"write", "history", "crash"} = {}
  OBVIOUS
<1> QED BY <1>3, <1>4 DEF HistoryInv

\* While nobody works for a backer, all its points are in the history.
LEMMA IdleUnlogged ==
  ASSUME NEW w \in Wallets, Idle(w), NEW t \in Tasks
  PROVE  Unlogged(t, w) = 0
BY DEF Idle, Busy, Unlogged, Active

\* A loop begins with one backer and leaves the others to visit.
LEMMA VisitFields ==
  ASSUME TypeOK, NEW t \in Tasks, NEW j, NEW S, Visit(t, j, S)
  PROVE  \/ S = {} /\ pc'[t] = "done"
         \/ \E w \in S : /\ pc'[t] = "calculating" /\ job'[t].at = w /\ job'[t].left = S \ {w}
                         /\ job'[t].kind = j.kind /\ job'[t].aim = j.aim
                         /\ ~job'[t].before /\ job'[t].amount = j.aim[w]
<1>1. CASE S = {} /\ Do(t, "done", NoJob)
  BY <1>1 DEF Do, TypeOK
<1>2. ASSUME NEW w \in S, Do(t, "calculating", Visiting(j, w, S \ {w}, j.aim[w]))
      PROVE  /\ pc'[t] = "calculating" /\ job'[t].at = w /\ job'[t].left = S \ {w}
             /\ job'[t].kind = j.kind /\ job'[t].aim = j.aim
             /\ ~job'[t].before /\ job'[t].amount = j.aim[w]
  <2> DEFINE B == S \ {w}
             m == j.aim[w]
             k == Visiting(j, w, B, m)
  <2>1. Do(t, "calculating", k)
    BY <1>2
  <2> HIDE DEF B, m
  <2>2. k.kind = j.kind /\ k.at = w /\ k.left = B /\ k.aim = j.aim /\ ~k.before /\ k.amount = m
    BY VisitingFields
  <2> HIDE DEF k
  <2>3. pc'[t] = "calculating" /\ job'[t] = k
    BY <2>1 DEF Do, TypeOK
  <2> QED BY <2>2, <2>3 DEF B, m
<1> QED BY <1>1, <1>2 DEF Visit

\* What a task has to bring along to begin for the backers in S.
Brings(t, S) ==
  /\ \A w \in Wallets : Busy(t, w)' <=> w \in S
  /\ \A w \in Wallets : /\ mishaps'[w] = mishaps[w] \/ mishaps'[w] = mishaps[w] \cup {"void"}
                        /\ w \notin S => told'[w] = told[w]
  /\ \A w \in S : Settled(w) => Duty(t, w)'

\* Nobody notices a task that begins, except where it shares a backer.
LEMMA BeginTables ==
  ASSUME UpdateInv, \A w \in Wallets : TablesInv(w) /\ HistoryInv(w), NEW t \in Tasks,
         NEW S, Begun(t, S), Brings(t, S), pc'[t] \notin {"writing", "logging"}
  PROVE  \A w \in Wallets : TablesInv(w)' /\ HistoryInv(w)'
<1>1. /\ pc[t] = "idle" /\ ~(pc[t] \in Active)
      /\ UNCHANGED <<listed, rows, row, history>>
      /\ \A u \in Tasks \ {t} : pc'[u] = pc[u] /\ job'[u] = job[u]
      /\ overlapped' = overlapped \cup {w \in S : ~Idle(w)}
      /\ S \in SUBSET Wallets
  BY DEF Begun, Meets, tableVars, Moves, Do, UpdateInv, TypeOK, Active
<1> SUFFICES ASSUME NEW w \in Wallets PROVE TablesInv(w)' /\ HistoryInv(w)'
  OBVIOUS
<1>2. HistoryInv(w)'
  <2>1. \A u \in Tasks : Unlogged(u, w)' = Unlogged(u, w)
    BY <1>1 DEF Unlogged, Hundredths
  <2>2. mishaps[w] \subseteq mishaps'[w]
    BY DEF Brings
  <2> QED BY <1>1, <2>1, <2>2, HistoryKept
<1>3. \A u \in Tasks \ {t} : Busy(u, w)' <=> Busy(u, w)
  BY <1>1 DEF Busy
<1>4. ~Busy(t, w) /\ (Busy(t, w)' <=> w \in S)
  BY <1>1 DEF Busy, Brings
<1>5. ASSUME w \notin overlapped', Calm(w)'
      PROVE  (Idle(w) => Settled(w))' /\ \A u \in Tasks : (Busy(u, w) => Duty(u, w))'
  <2>1. (Idle(w) => Settled(w)) /\ \A u \in Tasks : Busy(u, w) => Duty(u, w)
    BY <1>1, <1>5 DEF TablesInv, Brings, Calm
  <2>2. CASE w \in S
    <3>1. Idle(w)
      BY <1>1, <1>5, <2>2
    <3>2. Duty(t, w)' /\ \A u \in Tasks \ {t} : ~Busy(u, w)'
      BY <1>3, <2>1, <2>2, <3>1 DEF Brings, Idle
    <3> QED BY <1>4, <2>2, <3>2 DEF Idle
  <2>3. CASE w \notin S
    <3>1. told'[w] = told[w] /\ (Idle(w)' <=> Idle(w))
      BY <1>3, <1>4, <2>3 DEF Brings, Idle
    <3>2. Settled(w)' <=> Settled(w)
      BY <1>1, <3>1 DEF Settled
    <3>3. ASSUME NEW u \in Tasks \ {t}, Busy(u, w) PROVE Duty(u, w)'
      <4>1. Duty(u, w) /\ Goal(u, w)' = Goal(u, w) /\ (Lists(u)' <=> Lists(u))
        BY <1>1, <2>1, <3>3 DEF Goal, Lists
      <4>2. (Goal(u, w) = told[w])'
        BY <1>1, <3>1, <4>1 DEF Duty
      <4> QED BY <1>1, <3>2, <3>3, <4>1, <4>2 DEF Duty
    <3> QED BY <1>3, <1>4, <2>1, <2>3, <3>1, <3>2, <3>3
  <2> QED BY <2>2, <2>3
<1> QED BY <1>2, <1>5 DEF TablesInv

\* A handler has been told the deposit that it will write.
LEMMA EventBrings ==
  ASSUME UpdateInv, NEW t \in Tasks, NEW w \in Wallets,
         HandleEvent(t, w) \/ HandleVoidEvent(t, w)
  PROVE  Brings(t, {w}) /\ pc'[t] = "reading"
<1>1. TypeOK
  BY DEF UpdateInv
<1>2. PICK a : TakeLine(t, w, a)
  BY DEF HandleEvent, HandleVoidEvent
<1> DEFINE f == [NoJob.aim EXCEPT ![w] = a]
           j == [NoJob EXCEPT !.kind = "event", !.at = w, !.aim = [@ EXCEPT ![w] = a]]
<1>3. Do(t, "reading", j) /\ UNCHANGED <<listed, rows, row>>
  BY <1>2 DEF TakeLine, StartFor, Meets, tableVars
<1>4. j.kind = "event" /\ j.at = w /\ j.left = {} /\ j.aim[w] = a
  <2>1. f[w] = a
    BY DEF NoJob
  <2>2. j.aim = f
    BY DEF NoJob
  <2>3. j.kind = "event" /\ j.at = w /\ j.left = {}
    BY DEF NoJob
  <2> HIDE DEF f, j
  <2> QED BY <2>1, <2>2, <2>3
<1> HIDE DEF j
<1>5. pc'[t] = "reading" /\ job'[t] = j
  BY <1>1, <1>3 DEF Do, TypeOK
<1>6. told'[w] = a /\ \A v \in Wallets \ {w} : told'[v] = told[v]
  BY <1>1, <1>2 DEF TakeLine, TypeOK
<1>7. \A v \in Wallets : mishaps'[v] = mishaps[v] \/ mishaps'[v] = mishaps[v] \cup {"void"}
  BY <1>1 DEF HandleEvent, HandleVoidEvent, TypeOK
<1>8. \A v \in Wallets : Busy(t, v)' <=> v \in {w}
  BY <1>4, <1>5 DEF Busy, Active
<1>9. Settled(w) => Duty(t, w)'
  <2>1. Lists(t)' /\ Goal(t, w)' = a
    BY <1>4, <1>5 DEF Lists, Goal
  <2> QED BY <1>4, <1>5, <1>6, <2>1 DEF Duty
<1> QED BY <1>5, <1>6, <1>7, <1>8, <1>9 DEF Brings

\* A request repeats what is listed.
LEMMA RequestBrings ==
  ASSUME UpdateInv, \A w \in Wallets : TablesInv(w), NEW t \in Tasks, NEW w \in Wallets,
         Request(t, w)
  PROVE  Brings(t, {w}) /\ pc'[t] = "reading"
<1>1. PICK k \in {"post", "get"} : StartFor(t, k, w, 0)
  BY DEF Request
<1> DEFINE j == [NoJob EXCEPT !.kind = k, !.at = w, !.aim = [@ EXCEPT ![w] = 0]]
<1>2. /\ Do(t, "reading", j) /\ UNCHANGED <<told, mishaps, listed, rows, row>> /\ TypeOK
  BY <1>1 DEF Request, StartFor, Meets, UpdateInv, chainVars, tableVars
<1>3. j.kind = k /\ j.at = w /\ j.left = {} /\ ~j.before
  BY DEF NoJob
<1> HIDE DEF j
<1>4. pc'[t] = "reading" /\ job'[t] = j
  BY <1>2 DEF Do, TypeOK
<1>5. \A v \in Wallets : Busy(t, v)' <=> v \in {w}
  BY <1>3, <1>4 DEF Busy, Active
<1>6. ASSUME Settled(w) PROVE Duty(t, w)'
  <2>1. ~Lists(t)' /\ Goal(t, w)' = listed[w] /\ k # "manual"
    BY <1>2, <1>3, <1>4 DEF Lists, Goal
  <2>2. (Goal(t, w) = told[w])' /\ Settled(w)'
    BY <1>2, <1>6, <2>1 DEF Settled
  <2> QED BY <1>3, <1>4, <2>1, <2>2 DEF Duty
<1> QED BY <1>2, <1>4, <1>5, <1>6 DEF Brings

\* The timer repeats what is listed; a manual sync brings what is on chain.
LEMMA LoopBrings ==
  ASSUME UpdateInv, \A w \in Wallets : TablesInv(w), NEW t \in Tasks,
         NEW kind \in {"tick", "manual"}, NEW S \in SUBSET Wallets, NEW f \in [Wallets -> Nat],
         StartLoop(t, kind, S, f),
         IF kind = "tick" THEN f = listed /\ told' = told
                          ELSE told' = [w \in Wallets |-> IF w \in S THEN f[w] ELSE told[w]]
  PROVE  Brings(t, S) /\ pc'[t] \in {"done", "calculating"}
<1> DEFINE j == [NoJob EXCEPT !.kind = kind, !.aim = f]
<1>1. /\ Visit(t, j, S) /\ UNCHANGED <<mishaps, listed, rows, row>> /\ TypeOK
  BY DEF StartLoop, Meets, UpdateInv, tableVars
<1>2. j.kind = kind /\ j.aim = f
  BY DEF NoJob
<1> HIDE DEF j
<1>3. \A v \in Wallets : v \notin S => told'[v] = told[v]
  OBVIOUS
<1>4. CASE S = {} /\ pc'[t] = "done"
  <2>1. \A v \in Wallets : ~Busy(t, v)'
    BY <1>4 DEF Busy, Active
  <2> QED BY <1>1, <1>3, <1>4, <2>1 DEF Brings
<1>5. ASSUME NEW w \in S, pc'[t] = "calculating", job'[t].at = w, job'[t].left = S \ {w},
             job'[t].kind = kind, job'[t].aim = f, ~job'[t].before, job'[t].amount = f[w]
      PROVE  Brings(t, S)
  <2>1. \A v \in Wallets : Busy(t, v)' <=> v \in S
    BY <1>5 DEF Busy, Active
  <2>2. ASSUME NEW v \in S, Settled(v) PROVE Duty(t, v)'
    <3>1. (Lists(t)' <=> kind = "manual") /\ Goal(t, v)' = f[v]
      BY <1>1, <1>5 DEF Lists, Goal
    <3>2. told'[v] = f[v] /\ row'[v].held = listed'[v]
      BY <1>1, <2>2 DEF Settled
    <3>3. kind = "tick" => Settled(v)'
      BY <1>1, <2>2 DEF Settled
    <3> QED BY <1>5, <3>1, <3>2, <3>3 DEF Duty
  <2> QED BY <1>1, <1>3, <2>1, <2>2 DEF Brings
<1>6. \/ S = {} /\ pc'[t] = "done"
      \/ \E w \in S : /\ pc'[t] = "calculating" /\ job'[t].at = w /\ job'[t].left = S \ {w}
                      /\ job'[t].kind = kind /\ job'[t].aim = f
                      /\ ~job'[t].before /\ job'[t].amount = f[w]
  BY <1>1, <1>2, VisitFields
<1> QED BY <1>4, <1>5, <1>6

\* Whatever begins keeps what is claimed of the tables and of the history.
LEMMA BeginTurned ==
  ASSUME IInv, NEW t \in Tasks, Begin(t)
  PROVE  IInv'
<1>1. UpdateInv /\ TypeOK /\ (\A w \in Wallets : TablesInv(w))
      /\ \A w \in Wallets : TablesInv(w) /\ HistoryInv(w)
  BY DEF IInv, UpdateInv
<1>2. \E S : Begun(t, S) /\ Brings(t, S) /\ pc'[t] \notin {"writing", "logging"}
  <2>1. ASSUME NEW w \in Wallets, HandleEvent(t, w) \/ HandleVoidEvent(t, w)
        PROVE  Begun(t, {w}) /\ Brings(t, {w}) /\ pc'[t] \notin {"writing", "logging"}
    BY <1>1, <2>1, EventBegun, EventBrings
  <2>2. ASSUME NEW w \in Wallets, Request(t, w)
        PROVE  Begun(t, {w}) /\ Brings(t, {w}) /\ pc'[t] \notin {"writing", "logging"}
    BY <1>1, <2>2, RequestBegun, RequestBrings
  <2>3. ASSUME NEW kind \in {"tick", "manual"}, NEW S \in SUBSET Wallets,
               NEW f \in [Wallets -> Nat], StartLoop(t, kind, S, f),
               told' \in [Wallets -> Nat], UNCHANGED <<now, changes, heard, holders>>,
               IF kind = "tick" THEN f = listed /\ told' = told
                                ELSE told' = [w \in Wallets |-> IF w \in S THEN f[w] ELSE told[w]]
        PROVE  Begun(t, S) /\ Brings(t, S) /\ pc'[t] \notin {"writing", "logging"}
    BY <1>1, <2>3, StartLoopBegun, LoopBrings DEF Kind
  <2>4. CASE SyncAllBackerPoints(t)
    BY <1>1, <2>3, <2>4 DEF SyncAllBackerPoints, TypeOK, chainVars
  <2>5. CASE ManualSyncAllBackers(t)
    <3>1. PICK S \in SUBSET Wallets :
            /\ StartLoop(t, "manual", S, Deposits)
            /\ told' = [w \in Wallets |-> IF w \in S THEN Deposit(w) ELSE told[w]]
            /\ UNCHANGED <<now, changes, heard, holders>>
      BY <2>5 DEF ManualSyncAllBackers
    <3>2. Deposits \in [Wallets -> Nat] /\ \A w \in Wallets : Deposits[w] = Deposit(w)
      BY <1>1, DepositType DEF Deposits
    <3>3. told' = [w \in Wallets |-> IF w \in S THEN Deposits[w] ELSE told[w]]
      BY <3>1, <3>2
    <3>4. told' \in [Wallets -> Nat]
      BY <1>1, <3>2, <3>3 DEF TypeOK
    <3> QED BY <2>3, <3>1, <3>2, <3>3, <3>4
  <2> QED BY <2>1, <2>2, <2>4, <2>5 DEF Begin
<1>3. PICK S : Begun(t, S) /\ Brings(t, S) /\ pc'[t] \notin {"writing", "logging"}
  BY <1>2
<1>4. UpdateInv'
  BY <1>1, <1>3, BegunKeeps
<1>5. \A w \in Wallets : TablesInv(w)' /\ HistoryInv(w)'
  BY <1>1, <1>3, BeginTables
<1> QED BY <1>4, <1>5 DEF IInv

\* No task moves, and nobody is told anything.
LEMMA TablesKept ==
  ASSUME NEW w \in Wallets, TablesInv(w),
         UNCHANGED <<told, listed, rows, row, pc, job, overlapped>>,
         mishaps[w] \subseteq mishaps'[w]
  PROVE  TablesInv(w)'
<1> SUFFICES ASSUME w \notin overlapped, Calm(w)'
             PROVE  (Idle(w) => Settled(w))' /\ \A t \in Tasks : (Busy(t, w) => Duty(t, w))'
  BY DEF TablesInv
<1>1. (Idle(w)' <=> Idle(w)) /\ \A t \in Tasks : Busy(t, w)' <=> Busy(t, w)
  BY DEF Idle, Busy
<1>2. (Idle(w) => Settled(w)) /\ \A t \in Tasks : Busy(t, w) => Duty(t, w)
  BY DEF TablesInv, Calm
<1>3. Settled(w) => Settled(w)'
  BY DEF Settled
<1>4. ASSUME NEW t \in Tasks, Duty(t, w) PROVE Duty(t, w)'
  <2>1. Goal(t, w)' = Goal(t, w) /\ (Lists(t)' <=> Lists(t))
    BY DEF Goal, Lists
  <2>2. (Goal(t, w) = told[w])'
    BY <1>4, <2>1 DEF Duty
  <2> QED BY <1>3, <1>4, <2>1, <2>2 DEF Duty
<1> QED BY <1>1, <1>2, <1>3, <1>4

LEMMA ChainTurned ==
  ASSUME IInv, \/ Advance
               \/ \E w \in Wallets : ChangeDeposit(w) \/ LoseNews(w)
  PROVE  IInv'
<1>1. UpdateInv /\ TypeOK /\ UpdateInv' /\ \A w \in Wallets : TablesInv(w) /\ HistoryInv(w)
  BY ChainKeeps DEF IInv, UpdateInv
<1>2. UNCHANGED <<told, listed, rows, row, history, pc, job, overlapped>>
  BY DEF Advance, ChangeDeposit, LoseNews, tableVars, taskVars
<1>3. ASSUME NEW v \in Wallets PROVE mishaps[v] \subseteq mishaps'[v]
  BY <1>1 DEF Advance, ChangeDeposit, LoseNews, TypeOK
<1>4. ASSUME NEW v \in Wallets PROVE HistoryInv(v)'
  <2>1. \A t \in Tasks : Unlogged(t, v)' = Unlogged(t, v)
    BY <1>2 DEF Unlogged, Hundredths
  <2> QED BY <1>1, <1>2, <1>3, <2>1, HistoryKept
<1>5. ASSUME NEW v \in Wallets PROVE TablesInv(v)'
  BY <1>1, <1>2, <1>3, TablesKept
<1> QED BY <1>1, <1>4, <1>5 DEF IInv

\* A crash is a mishap for every backer that has anything under way.
LEMMA CrashTurned ==
  ASSUME IInv, Crash
  PROVE  IInv'
<1>1. UpdateInv /\ TypeOK /\ UpdateInv' /\ \A w \in Wallets : TablesInv(w) /\ HistoryInv(w)
  BY CrashKeeps DEF IInv, UpdateInv
<1>2. /\ UNCHANGED <<told, listed, rows, row, history, overlapped>>
      /\ \A t \in Tasks : pc'[t] \in {"idle", "done"}
      /\ \A w \in Wallets : mishaps'[w] = IF Idle(w) /\ ~News(w) THEN mishaps[w]
                                           ELSE mishaps[w] \cup {"crash"}
  BY DEF Crash, tableVars
<1> SUFFICES ASSUME NEW w \in Wallets PROVE TablesInv(w)' /\ HistoryInv(w)'
  BY <1>1 DEF IInv
<1>3. \A t \in Tasks : ~Busy(t, w)' /\ Unlogged(t, w)' = 0 /\ pc'[t] # "writing"
  BY <1>2 DEF Busy, Active, Unlogged
<1>4. HistoryInv(w)'
  <2>1. CASE Idle(w) /\ ~News(w)
    <3>1. \A t \in Tasks : Unlogged(t, w)' = Unlogged(t, w)
      BY <1>3, <2>1, IdleUnlogged
    <3> QED BY <1>1, <1>2, <1>3, <2>1, <3>1, HistoryKept
  <2>2. CASE ~(Idle(w) /\ ~News(w))
    BY <1>2, <2>2 DEF HistoryInv
  <2> QED BY <2>1, <2>2
<1>5. ASSUME w \notin overlapped, Calm(w)' PROVE Settled(w)'
  <2>1. Idle(w) /\ Calm(w)
    BY <1>2, <1>5 DEF Calm
  <2>2. Settled(w)
    BY <1>1, <1>5, <2>1 DEF TablesInv
  <2> QED BY <1>2, <2>2 DEF Settled
<1> QED BY <1>2, <1>3, <1>4, <1>5 DEF TablesInv

-----------------------------------------------------------------------------
(* Theorems *)

LEMMA InitUpdate == Init => UpdateInv
<1> SUFFICES ASSUME Init PROVE UpdateInv
  OBVIOUS
<1>1. TypeOK
  BY NewRowType, NoJobType DEF Init, TypeOK, Label
<1>2. NewRow(0).since = 0 /\ NewRow(0).paid = 0 /\ NoJob.draft = NewRow(0)
  BY DEF NewRow, NoJob
<1>3. ASSUME NEW t \in Tasks PROVE WorkInv(t)
  BY <1>2 DEF Init, WorkInv, Active
<1>4. ASSUME NEW w \in Wallets PROVE RowInv(w)
  BY <1>2 DEF Init, RowInv, Busy, Active
<1>5. NoMomentPaidTwice
  BY <1>2 DEF Init, NoMomentPaidTwice
<1> QED BY <1>1, <1>3, <1>4, <1>5 DEF UpdateInv

\* A step of a task keeps the totals of other backers, and its own unless shared.
LEMMA SteppedGrows ==
  ASSUME UpdateInv, NEW t \in Tasks, Stepped(t), NEW w \in Wallets, row'[w].total < row[w].total
  PROVE  w \in overlapped'
<1>1. row'[w].total \in Nat /\ row[w].total \in Nat
  BY DEF UpdateInv, TypeOK, Stepped, RowStep, Row
<1>2. w = job[t].at
  BY <1>1 DEF Stepped, RowStep
<1> QED BY <1>1, <1>2 DEF Stepped, RowStep

LEMMA NextKeeps ==
  ASSUME UpdateInv, [Next]_vars
  PROVE  /\ UpdateInv'
         /\ \A w \in Wallets : row'[w].total < row[w].total => w \in overlapped'
<1>1. ASSUME row' = row, NEW w \in Wallets PROVE ~(row'[w].total < row[w].total)
  <2>1. row[w].total \in Nat
    BY DEF UpdateInv, TypeOK, Row
  <2> QED BY <1>1, <2>1
<1>2. ASSUME NEW t \in Tasks, Begin(t) PROVE UpdateInv' /\ row' = row
  <2>1. PICK S : Begun(t, S)
    BY <1>2, BeginBegun
  <2> QED BY <2>1, BegunKeeps DEF Begun, Meets, tableVars
<1>3. ASSUME NEW t \in Tasks, Step(t)
      PROVE  UpdateInv' /\ \A w \in Wallets : row'[w].total < row[w].total => w \in overlapped'
  BY <1>3, StepStepped, SteppedKeeps, SteppedGrows
<1>4. CASE UNCHANGED vars
  <2>1. UpdateInv'
    BY <1>4 DEF vars, chainVars, tableVars, taskVars, UpdateInv, TypeOK, WorkInv, RowInv, Busy,
                NoMomentPaidTwice
  <2> QED BY <1>1, <1>4, <2>1 DEF vars, tableVars
<1> QED BY <1>1, <1>2, <1>3, <1>4, ChainKeeps, CrashKeeps DEF Next

\* Nothing is listed, held, or to be explained, before the first event.
LEMMA InitIInv == Init => IInv
<1> SUFFICES ASSUME Init PROVE IInv
  OBVIOUS
<1>1. UpdateInv
  BY InitUpdate
<1> SUFFICES ASSUME NEW w \in Wallets PROVE TablesInv(w) /\ HistoryInv(w)
  BY <1>1 DEF IInv
<1>2. /\ told[w] = 0 /\ listed[w] = 0 /\ row[w] = NewRow(0)
      /\ history[w] = 0 /\ \A t \in Tasks : pc[t] = "idle"
  BY DEF Init
<1>3. row[w].held = 0 /\ row[w].total = 0
  BY <1>2 DEF NewRow
<1>4. \A t \in Tasks : ~Busy(t, w) /\ Unlogged(t, w) = 0
  BY <1>2 DEF Busy, Active, Unlogged
<1>5. TablesInv(w)
  <2>1. Settled(w)
    BY <1>2, <1>3 DEF Settled
  <2> QED BY <1>4, <2>1 DEF TablesInv
<1>7. Explained(w) = 0
  <2> DEFINE U == [t \in Tasks |-> Unlogged(t, w)]
  <2>1. U \in [Tasks -> Int] /\ \A t \in Tasks : U[t] = 0
    BY <1>4
  <2>2. Explained(w) = history[w] + SumFunction(U)
    BY DEF Explained
  <2> HIDE DEF U
  <2>3. SumFunction(U) = 0 * Cardinality(Tasks) /\ Cardinality(Tasks) \in Nat
    BY <2>1, SumConstant, FS_CardinalityType, PointsAssumption
  <2> QED BY <1>2, <2>2, <2>3
<1>8. HistoryInv(w)
  BY <1>2, <1>3, <1>7 DEF HistoryInv
<1> QED BY <1>5, <1>8

LEMMA StutterTurned == ASSUME IInv, UNCHANGED vars PROVE IInv'
<1>1. UpdateInv' /\ \A w \in Wallets : TablesInv(w) /\ HistoryInv(w)
  BY NextKeeps DEF IInv
<1>2. UNCHANGED <<listed, rows, row, history, pc, job, overlapped, told, mishaps>>
  BY DEF vars, chainVars, tableVars, taskVars
<1> SUFFICES ASSUME NEW w \in Wallets PROVE TablesInv(w)' /\ HistoryInv(w)'
  BY <1>1 DEF IInv
<1>3. HistoryInv(w)'
  <2>1. \A t \in Tasks : Unlogged(t, w)' = Unlogged(t, w)
    BY <1>2 DEF Unlogged, Hundredths
  <2> QED BY <1>1, <1>2, <2>1, HistoryKept
<1>4. TablesInv(w)'
  BY <1>1, <1>2, TablesKept
<1> QED BY <1>3, <1>4

\* The invariant that the other theorems rest on holds throughout: nobody shares
\* the row of a backer unnoticed, a task carries the deposit on until both tables
\* hold it, and what is in a total is in the history or about to be logged.
THEOREM Invariance == Spec => []IInv
<1>1. IInv /\ [Next]_vars => IInv'
  BY BeginTurned, StepTurned, ChainTurned, CrashTurned, StutterTurned DEF Next
<1> QED BY <1>1, InitIInv, PTL DEF Spec

\* Every variable of the points system keeps its type.
THEOREM TypeCorrectness == Spec => []TypeOK
<1>1. IInv => TypeOK
  BY DEF IInv, UpdateInv
<1> QED BY <1>1, Invariance, PTL

\* However the timer, the events and the requests interleave, fail or crash,
\* calculatePoints credits no moment twice to a backer that no two of them
\* ever worked for at once.
THEOREM NothingPaidTwice == Spec => []NoMomentPaidTwice
<1>1. IInv => NoMomentPaidTwice
  BY DEF IInv, UpdateInv
<1> QED BY <1>1, Invariance, PTL

\* updatePoints lowers the total of no backer, unless two updates overlapped.
THEOREM TotalsGrow == Spec => PointsOnlyGrow
<1>1. IInv /\ [Next]_vars
        => [\A w \in Wallets : row'[w].total < row[w].total => w \in overlapped']_vars
  BY NextKeeps DEF IInv
<1> QED BY <1>1, Invariance, PTL DEF Spec, PointsOnlyGrow

\* However the handlers, the syncs and the timer interleave at their awaits: once
\* the tasks of a backer are over, backers and backer_points hold the deposit that
\* its last log line or manual sync gave, unless two tasks worked for the backer at
\* once, a call failed or the process crashed.
THEOREM TablesFollow == Spec => []TablesFollowNews
<1>1. IInv => TablesFollowNews
  BY DEF IInv, TablesInv, Settled, TablesFollowNews
<1> QED BY <1>1, Invariance, PTL

\* Whether updates overlap or not, point_history accounts for the whole total of
\* a backer once its tasks are over, unless a write or the logging of a gain
\* failed, or the process crashed between the two.
THEOREM HistoryExplains == Spec => []HistoryExplainsTotal
<1>1. IInv => HistoryExplainsTotal
  <2> SUFFICES ASSUME IInv, NEW w \in Wallets, Idle(w),
                      mishaps[w] \cap {"write", "history", "crash"} = {}
               PROVE  row[w].total <= history[w]
    BY DEF HistoryExplainsTotal
  <2>1. row[w].total <= Explained(w) /\ history[w] \in Nat
    BY DEF IInv, HistoryInv, UpdateInv, TypeOK
  <2> DEFINE U == [t \in Tasks |-> Unlogged(t, w)]
  <2>2. U \in [Tasks -> Int] /\ \A t \in Tasks : U[t] = 0
    BY IdleUnlogged
  <2>3. Explained(w) = history[w] + SumFunction(U)
    BY DEF Explained
  <2> HIDE DEF U
  <2>4. SumFunction(U) = 0 * Cardinality(Tasks) /\ Cardinality(Tasks) \in Nat
    BY <2>2, SumConstant, FS_CardinalityType, PointsAssumption
  <2> QED BY <2>1, <2>3, <2>4
<1> QED BY <1>1, Invariance, PTL
=============================================================================
