--------------------------- MODULE RewardPoolProofs ---------------------------
(***************************************************************************)
(* For any number of backers and requests:                                 *)
(*                                                                         *)
(* - A sync that overlaps with no other and reads the struct every time    *)
(*   never takes the pool table back, and a credit answered with success   *)
(*   is in it (TableInv).  Most steps are quiet: they leave the pool table *)
(*   alone, and each call either stands still or goes where nothing is     *)
(*   claimed of it.  What is left are the three steps of a sync.           *)
(*                                                                         *)
(* - The account covers what backers may claim, and the only withdrawal is *)
(*   not refused what is free (BooksInv).  No step of a backer and no      *)
(*   credit takes room from the balances; a payment takes only what its    *)
(*   guard has seen, and disturbs every other call that relies on it.      *)
(***************************************************************************)
EXTENDS RewardPool, SumTheorems, TLAPS

\* Call c moves to label l with job j, and mishaps are only added.
Lands(c, l, j) ==
  /\ pc' \in [Calls -> Label] /\ job' \in [Calls -> Job]
  /\ mishaps' \in [Calls -> SUBSET Mishap]
  /\ pc'[c] = l /\ job'[c] = j
  /\ \A d \in Calls \ {c} : pc'[d] = pc[d] /\ job'[d] = job[d]
  /\ \A d \in Calls : mishaps[d] \subseteq mishaps'[d]

Stands(c) == pc'[c] = pc[c] /\ job'[c] = job[c] /\ goal'[c] = goal[c]

\* Nothing is claimed of call c from now on, but that it withdraws.
Leaves(c) ==
  /\ pc'[c] \notin SyncCalls
  /\ job'[c].kind = "credit" => pc'[c] # "ok"
  /\ pc'[c] \in BoardCalls \cup PayoutCalls => job'[c].kind = "withdraw"

\* What every step does.
Grows == /\ TypeOK' /\ perShare' >= perShare
         /\ overlapped => overlapped'
         /\ \A c \in Calls : mishaps[c] \subseteq mishaps'[c]

-----------------------------------------------------------------------------
(* Helpers *)

\* What a backer may claim is a natural number.
LEMMA ClaimableType ==
  ASSUME NEW a \in Account, NEW s \in Nat
  PROVE  Claimable(a, s) \in Nat
<1>1. a.deposit \in Nat /\ a.debt \in Nat /\ a.pending \in Nat
  BY DEF Account
<1>2. a.deposit * s \in Nat
  BY <1>1
<1>3. ASSUME a.deposit * s >= a.debt
      PROVE  (a.deposit * s - a.debt) \div Precision \in Nat
  <2> DEFINE x == a.deposit * s - a.debt
  <2>1. x \in Nat
    BY <1>1, <1>2, <1>3
  <2> HIDE DEF x
  <2>2. x \div Precision \in Nat
    BY <2>1, RewardAssumption
  <2> QED
    BY <2>2 DEF x
<1> QED
  BY <1>1, <1>3 DEF Claimable

\* A job keeps its type when its state or its balance is replaced.
LEMMA JobType ==
  ASSUME NEW j \in Job
  PROVE  /\ NoJob \in Job /\ Zero \in State
         /\ \A s \in State : [j EXCEPT !.state = s] \in Job
         /\ \A n \in Nat : [j EXCEPT !.balance = n] \in Job
BY DEF Job, NoJob, Zero, State

\* Where the control operators lead.
LEMMA GoLands ==
  ASSUME TypeOK, NEW c \in Calls, NEW l \in Label, NEW j \in Job,
         Go(c, l, j), UNCHANGED mishaps
  PROVE  Lands(c, l, j)
BY DEF TypeOK, Go, Lands

LEMMA ProceedLands ==
  ASSUME TypeOK, NEW c \in Calls, NEW l \in Label, Proceed(c, l)
  PROVE  Lands(c, l, job[c])
BY GoLands DEF TypeOK, Proceed

LEMMA SufferLands ==
  ASSUME TypeOK, NEW c \in Calls, NEW l \in Label, NEW j \in Job, NEW w \in Mishap,
         Suffer(c, w, l, j)
  PROVE  Lands(c, l, j) /\ w \in mishaps'[c]
BY DEF TypeOK, Suffer, Go, Lands

LEMMA FailLands ==
  ASSUME TypeOK, NEW c \in Calls, NEW w \in Mishap, Fail(c, w)
  PROVE  Lands(c, "error", job[c])
BY SufferLands DEF TypeOK, Fail, Label

\* A credit raises reward_per_share and the balances.
LEMMA CreditType ==
  ASSUME TypeOK, NEW c \in Calls, Credit(c)
  PROVE  /\ perShare' \in Nat /\ perShare' >= perShare
         /\ tracked' \in Nat /\ lamports' \in Nat /\ disturbed' \subseteq Calls
<1> DEFINE n == job[c].arg
           x == n * Precision
<1>1. n \in Nat
  BY DEF TypeOK, Job
<1>2. x \in Nat
  BY <1>1, RewardAssumption
<1>3. deposited \in Nat /\ deposited > 0
  BY DEF TypeOK, Credit
<1> HIDE DEF x
<1>4. x \div deposited \in Nat
  BY <1>2, <1>3
<1>5. perShare' = perShare + x \div deposited
  BY DEF Credit, x
<1>6. tracked' \in Nat /\ lamports' \in Nat /\ disturbed' \subseteq Calls
  BY <1>1 DEF TypeOK, Credit, Disturb, At
<1> QED
  BY <1>4, <1>5, <1>6 DEF TypeOK

\* A payment leaves no balance negative.
LEMMA PayType ==
  ASSUME TypeOK, NEW c \in Calls, Pay(c)
  PROVE  /\ tracked' \in Nat /\ lamports' \in Nat /\ raced' \in BOOLEAN
         /\ disturbed' \subseteq Calls /\ perShare' = perShare
<1>1. job[c].arg \in Nat
  BY DEF TypeOK, Job
<1>2. tracked' \in Nat /\ lamports' \in Nat /\ perShare' = perShare
  BY <1>1 DEF TypeOK, Pay, Payable
<1>3. disturbed' \subseteq Calls
  BY DEF TypeOK, Pay, Disturb, At
<1>4. raced' \in BOOLEAN
  BY DEF Pay
<1> QED
  BY <1>2, <1>3, <1>4

-----------------------------------------------------------------------------
(* The kinds of steps *)

\* Whoever is orderly afterwards was so before.
LEMMA OrderlyBefore ==
  ASSUME Grows, Orderly'
  PROVE  Orderly
BY DEF Grows, Orderly

\* A quiet step.
LEMMA QuietKeepsInv ==
  ASSUME TableInv, Grows, pool' = pool, \A c \in Calls : Stands(c) \/ Leaves(c)
  PROVE  TableInv'
<1>1. \A c \in Calls : pc'[c] \in BoardCalls \cup PayoutCalls => job'[c].kind = "withdraw"
  BY DEF TableInv, Stands, Leaves
<1>2. ASSUME Orderly'
      PROVE  SyncInv' /\ \A c \in Calls : job'[c].kind = "credit" => CreditInv(c)'
  <2>1. SyncInv /\ \A c \in Calls : job[c].kind = "credit" => CreditInv(c)
    BY <1>2, OrderlyBefore DEF TableInv
  <2>2. perShare \in Nat /\ perShare' \in Nat /\ perShare <= perShare' /\ pool.perShare \in Nat
    BY DEF Grows, TableInv, TypeOK, State
  <2>3. \A c \in Calls : job[c].state.perShare \in Nat
    BY DEF TableInv, TypeOK, Job, State
  <2>4. \A c \in Calls : pc'[c] \in SyncCalls => Stands(c)
    BY DEF Leaves
  <2>5. SyncInv'
    BY <2>1, <2>2, <2>3, <2>4 DEF SyncInv, At, Stands, SyncCalls
  <2>6. ASSUME NEW c \in Calls, job'[c].kind = "credit"
        PROVE  CreditInv(c)'
    <3>1. CASE Stands(c)
      BY <2>1, <2>2, <2>6, <3>1 DEF CreditInv, Stands, SyncCalls
    <3>2. CASE Leaves(c)
      BY <2>6, <3>2 DEF CreditInv, Leaves, SyncCalls
    <3> QED
      BY <3>1, <3>2
  <2> QED
    BY <2>5, <2>6
<1> QED
  BY <1>1, <1>2 DEF TableInv, Grows

\* A sync starts.
LEMMA StartKeepsInv ==
  ASSUME TableInv, Grows, NEW c \in Calls, NEW j \in Job, Lands(c, "stateReading", j),
         pool' = pool, \A d \in Calls \ {c} : goal'[d] = goal[d],
         j.kind = "credit" => goal'[c] = perShare',
         overlapped' = (overlapped \/ At(SyncCalls) # {})
  PROVE  TableInv'
<1>1. \A d \in Calls : pc'[d] \in BoardCalls \cup PayoutCalls => job'[d].kind = "withdraw"
  BY DEF TableInv, Lands, BoardCalls, PayoutCalls
<1>2. ASSUME Orderly'
      PROVE  SyncInv' /\ \A d \in Calls : job'[d].kind = "credit" => CreditInv(d)'
  <2>1. SyncInv /\ \A d \in Calls : job[d].kind = "credit" => CreditInv(d)
    BY <1>2, OrderlyBefore DEF TableInv
  <2>2. perShare \in Nat /\ perShare' \in Nat /\ perShare <= perShare' /\ pool.perShare \in Nat
    BY DEF Grows, TableInv, TypeOK, State
  <2>3. \A d \in Calls : pc[d] \notin SyncCalls
    BY <1>2 DEF Orderly, At
  <2>4. \A d \in Calls : pc'[d] \in SyncCalls => d = c
    BY <2>3 DEF Lands
  <2>5. SyncInv'
    BY <2>1, <2>2, <2>4 DEF SyncInv, At, Lands, SyncCalls
  <2>6. ASSUME NEW d \in Calls, job'[d].kind = "credit"
        PROVE  CreditInv(d)'
    <3>1. CASE d = c
      BY <2>2, <2>6, <3>1 DEF CreditInv, Lands, SyncCalls
    <3>2. CASE d # c
      BY <2>1, <2>2, <2>3, <2>6, <3>2 DEF CreditInv, Lands, SyncCalls
    <3> QED
      BY <3>1, <3>2
  <2> QED
    BY <2>5, <2>6
<1> QED
  BY <1>1, <1>2 DEF TableInv, Grows

\* The sync reads the struct.
LEMMA ReadKeepsInv ==
  ASSUME TableInv, Grows, NEW c \in Calls, NEW j \in Job, pc[c] = "stateReading",
         Lands(c, "poolWriting", j), j.kind = job[c].kind, j.state.perShare = perShare,
         UNCHANGED <<pool, perShare, goal>>
  PROVE  TableInv'
<1>1. \A d \in Calls : pc'[d] \in BoardCalls \cup PayoutCalls => job'[d].kind = "withdraw"
  BY DEF TableInv, Lands, BoardCalls, PayoutCalls
<1>2. ASSUME Orderly'
      PROVE  SyncInv' /\ \A d \in Calls : job'[d].kind = "credit" => CreditInv(d)'
  <2>1. SyncInv /\ \A d \in Calls : job[d].kind = "credit" => CreditInv(d)
    BY <1>2, OrderlyBefore DEF TableInv
  <2>2. perShare \in Nat /\ pool.perShare \in Nat
    BY DEF TableInv, TypeOK, State
  <2>3. job'[c] = j
    BY DEF Lands
  <2>4. \A d \in Calls : pc'[d] \in SyncCalls => d = c
    BY <2>1 DEF SyncInv, At, Lands, SyncCalls
  <2>5. SyncInv'
    BY <2>1, <2>2, <2>3, <2>4 DEF SyncInv, At, SyncCalls
  <2>6. ASSUME NEW d \in Calls, job'[d].kind = "credit"
        PROVE  CreditInv(d)'
    <3>1. CASE d = c
      BY <2>1, <2>3, <2>6, <3>1 DEF CreditInv, Lands, SyncCalls
    <3>2. CASE d # c
      BY <2>1, <2>6, <3>2 DEF CreditInv, Lands, SyncCalls
    <3> QED
      BY <3>1, <3>2
  <2> QED
    BY <2>5, <2>6
<1> QED
  BY <1>1, <1>2 DEF TableInv, Grows

\* The sync writes the pool table, whatever the reply says.
LEMMA WriteKeepsInv ==
  ASSUME TableInv, Grows, NEW c \in Calls, pc[c] = "poolWriting", NEW l \in {"ok", "error"},
         Lands(c, l, job[c]), pool' = job[c].state, UNCHANGED <<perShare, goal>>
  PROVE  TableInv'
<1>1. \A d \in Calls : pc'[d] \in BoardCalls \cup PayoutCalls => job'[d].kind = "withdraw"
  BY DEF TableInv, Lands, BoardCalls, PayoutCalls
<1>2. ASSUME Orderly'
      PROVE  SyncInv' /\ \A d \in Calls : job'[d].kind = "credit" => CreditInv(d)'
  <2>1. SyncInv /\ \A d \in Calls : job[d].kind = "credit" => CreditInv(d)
    BY <1>2, OrderlyBefore DEF TableInv
  <2>2. /\ perShare \in Nat /\ pool.perShare \in Nat /\ pool'.perShare \in Nat
        /\ pool.perShare <= pool'.perShare /\ pool'.perShare <= perShare
    BY <2>1 DEF TableInv, TypeOK, Job, State, SyncInv, At
  <2>3. \A d \in Calls : pc'[d] \notin SyncCalls
    BY <2>1 DEF SyncInv, At, Lands, SyncCalls
  <2>4. SyncInv'
    BY <2>2, <2>3 DEF SyncInv, At, SyncCalls
  <2>5. ASSUME NEW d \in Calls, job'[d].kind = "credit"
        PROVE  CreditInv(d)'
    <3>1. CASE d = c
      BY <2>1, <2>3, <2>5, <3>1 DEF CreditInv, Lands, SyncCalls
    <3>2. CASE d # c
      BY <2>1, <2>2, <2>3, <2>5, <3>2 DEF CreditInv, Lands, SyncCalls
    <3> QED
      BY <3>1, <3>2
  <2> QED
    BY <2>4, <2>5
<1> QED
  BY <1>1, <1>2 DEF TableInv, Grows

\* A quiet step of one call.
LEMMA QuietCall ==
  ASSUME TableInv, Grows, NEW c \in Calls, NEW l \in Label \ SyncCalls, NEW j \in Job,
         Lands(c, l, j), j.kind = "credit" => l # "ok",
         l \in BoardCalls \cup PayoutCalls => j.kind = "withdraw",
         pool' = pool, \A d \in Calls \ {c} : goal'[d] = goal[d]
  PROVE  TableInv'
<1> \A d \in Calls : Stands(d) \/ Leaves(d)
  BY DEF Lands, Stands, Leaves
<1> QED
  BY QuietKeepsInv

\* A step of one call that leaves backers and rewards alone.
LEMMA CallGrows ==
  ASSUME TypeOK, NEW c \in Calls, NEW l \in Label, NEW j \in Job, Lands(c, l, j),
         UNCHANGED <<backerVars, rewardVars, raced>>,
         pool' \in State, late' \subseteq Calls, DOMAIN goal' = Calls,
         disturbed' \subseteq Calls, overlapped' \in BOOLEAN, overlapped => overlapped'
  PROVE  Grows
<1>1. TypeOK'
  BY DEF TypeOK, Lands, backerVars, rewardVars
<1>2. perShare' >= perShare
  BY DEF TypeOK, rewardVars
<1> QED
  BY <1>1, <1>2 DEF Grows, Lands

\* The most common kind: a call goes on and nothing else changes.
LEMMA PlainStep ==
  ASSUME TableInv, NEW c \in Calls, NEW l \in Label \ SyncCalls, NEW j \in Job,
         Lands(c, l, j), j.kind = "credit" => l # "ok",
         l \in BoardCalls \cup PayoutCalls => j.kind = "withdraw",
         UNCHANGED <<backerVars, rewardVars, pool, goal, raced, overlapped>>,
         late' \subseteq Calls, disturbed' \subseteq Calls
  PROVE  TableInv'
<1>1. TypeOK
  BY DEF TableInv
<1>2. Grows
  BY <1>1, CallGrows DEF TypeOK
<1> QED
  BY <1>2, QuietCall

-----------------------------------------------------------------------------
(* The actions *)

\* Backers and late instructions move no call.
LEMMA ChangeDepositKeepsInv ==
  ASSUME TableInv, NEW w \in Backers, ChangeDeposit(w)
  PROVE  TableInv'
<1>1. TypeOK
  BY DEF TableInv
<1>2. PICK a \in Stakes \ {account[w].deposit} :
        account' = [account EXCEPT ![w] = [deposit |-> a, debt |-> a * perShare,
                                           pending |-> Claimable(account[w], perShare)]]
  BY DEF ChangeDeposit
<1>3. a \in Nat /\ account[w] \in Account /\ perShare \in Nat
  BY <1>1, RewardAssumption DEF TypeOK
<1>4. Claimable(account[w], perShare) \in Nat
  BY <1>3, ClaimableType
<1>5. a * perShare \in Nat
  BY <1>3
<1>6. [deposit |-> a, debt |-> a * perShare,
       pending |-> Claimable(account[w], perShare)] \in Account
  BY <1>3, <1>4, <1>5 DEF Account
<1>7. account' \in [Backers -> Account]
  BY <1>1, <1>2, <1>6 DEF TypeOK
<1>8. deposited' \in Int
  BY <1>1, <1>3, <1>7 DEF TypeOK, ChangeDeposit, Account
<1>9. TypeOK' /\ UNCHANGED <<pc, job, goal, mishaps, pool, perShare, overlapped>>
  BY <1>1, <1>7, <1>8 DEF TypeOK, ChangeDeposit, rewardVars, callVars
<1>10. Grows
  BY <1>1, <1>9 DEF TypeOK, Grows
<1> QED
  BY <1>9, <1>10, QuietKeepsInv DEF Stands

LEMMA ClaimKeepsInv ==
  ASSUME TableInv, NEW w \in Backers, Claim(w)
  PROVE  TableInv'
<1> DEFINE n == Claimable(account[w], perShare)
<1>1. TypeOK
  BY DEF TableInv
<1>2. account[w] \in Account /\ perShare \in Nat
  BY <1>1 DEF TypeOK
<1>3. n \in Nat
  BY <1>2, ClaimableType
<1>4. /\ n <= tracked /\ n <= lamports
      /\ tracked' = tracked - n /\ lamports' = lamports - n
  BY DEF Claim
<1> HIDE DEF n
<1>5. tracked' \in Nat /\ lamports' \in Nat
  BY <1>1, <1>3, <1>4 DEF TypeOK
<1>6. account' = [account EXCEPT ![w].debt = account[w].deposit * perShare, ![w].pending = 0]
  BY DEF Claim
<1>7. account[w].deposit * perShare \in Nat
  BY <1>2 DEF Account
<1>8. account' \in [Backers -> Account]
  BY <1>1, <1>6, <1>7 DEF TypeOK, Account
<1>9. disturbed' \subseteq Calls
  BY <1>1 DEF TypeOK, Claim, Disturb, At
<1>10. TypeOK' /\ UNCHANGED <<pc, job, goal, mishaps, pool, perShare, overlapped>>
  BY <1>1, <1>5, <1>8, <1>9 DEF TypeOK, Claim, callVars
<1>11. Grows
  BY <1>1, <1>10 DEF TypeOK, Grows
<1> QED
  BY <1>10, <1>11, QuietKeepsInv DEF Stands

LEMMA LateLandingKeepsInv ==
  ASSUME TableInv, NEW c \in Calls, LateLanding(c)
  PROVE  TableInv'
<1>1. TypeOK
  BY DEF TableInv
<1>2. /\ perShare' \in Nat /\ perShare' >= perShare
      /\ tracked' \in Nat /\ lamports' \in Nat /\ disturbed' \subseteq Calls /\ raced' \in BOOLEAN
  <2>1. CASE Credit(c) /\ UNCHANGED raced
    BY <1>1, <2>1, CreditType DEF TypeOK
  <2>2. CASE Pay(c)
    BY <1>1, <2>2, PayType DEF TypeOK
  <2> QED
    BY <2>1, <2>2 DEF LateLanding
<1>3. TypeOK' /\ UNCHANGED <<pc, job, goal, mishaps, pool, overlapped>>
  BY <1>1, <1>2 DEF TypeOK, LateLanding, backerVars
<1>4. Grows
  BY <1>1, <1>2, <1>3 DEF Grows
<1> QED
  BY <1>3, <1>4, QuietKeepsInv DEF Stands

\* Requests.
LEMMA CreditFeeKeepsInv ==
  ASSUME TableInv, NEW c \in Calls, CreditFee(c)
  PROVE  TableInv'
<1>1. TypeOK
  BY DEF TableInv
<1>2. PICK n \in Fees : Go(c, "crediting", [NoJob EXCEPT !.kind = "credit", !.arg = n])
  BY DEF CreditFee
<1> DEFINE j == [NoJob EXCEPT !.kind = "credit", !.arg = n]
<1>3. j \in Job
  BY RewardAssumption DEF NoJob, Job, Zero, State
<1> HIDE DEF j
<1>4. Lands(c, "crediting", j)
  BY <1>1, <1>2, <1>3, GoLands DEF CreditFee, Label, Active, j
<1> QED
  BY <1>1, <1>3, <1>4, PlainStep
     DEF CreditFee, Label, Active, SyncCalls, BoardCalls, PayoutCalls, TypeOK

LEMMA AdminWithdrawKeepsInv ==
  ASSUME TableInv, NEW c \in Calls, AdminWithdraw(c)
  PROVE  TableInv'
<1>1. TypeOK
  BY DEF TableInv
<1>2. PICK n \in Amounts : Go(c, "pooling", [NoJob EXCEPT !.kind = "withdraw", !.arg = n])
  BY DEF AdminWithdraw
<1> DEFINE j == [NoJob EXCEPT !.kind = "withdraw", !.arg = n]
<1>3. j \in Job /\ j.kind = "withdraw"
  BY RewardAssumption DEF NoJob, Job, Zero, State
<1> HIDE DEF j
<1>4. Lands(c, "pooling", j)
  BY <1>1, <1>2, <1>3, GoLands DEF AdminWithdraw, Label, Active, BoardCalls, j
<1>5. DOMAIN goal' = Calls /\ \A d \in Calls \ {c} : goal'[d] = goal[d]
  BY <1>1 DEF TypeOK, AdminWithdraw
<1>6. "pooling" \in Label \ SyncCalls
  BY DEF Label, Active, BoardCalls, SyncCalls
<1>7. Grows
  BY <1>1, <1>3, <1>4, <1>5, <1>6, CallGrows DEF TypeOK, AdminWithdraw
<1> QED
  BY <1>3, <1>4, <1>5, <1>6, <1>7, QuietCall DEF AdminWithdraw

LEMMA SyncPoolStateKeepsInv ==
  ASSUME TableInv, NEW c \in Calls, SyncPoolState(c)
  PROVE  TableInv'
<1> DEFINE j == [NoJob EXCEPT !.kind = "sync"]
<1>1. TypeOK
  BY DEF TableInv
<1>2. j \in Job /\ j.kind = "sync"
  BY DEF NoJob, Job, Zero, State
<1>3. Go(c, "stateReading", j)
  BY DEF SyncPoolState
<1> HIDE DEF j
<1>4. "stateReading" \in Label
  BY DEF Label, Active, SyncCalls
<1>5. Lands(c, "stateReading", j)
  BY <1>1, <1>2, <1>3, <1>4, GoLands DEF SyncPoolState
<1>6. overlapped' = (overlapped \/ At(SyncCalls) # {})
  BY DEF SyncPoolState
<1>7. overlapped' \in BOOLEAN /\ (overlapped => overlapped')
  BY <1>6
<1>8. Grows
  BY <1>1, <1>2, <1>4, <1>5, <1>7, CallGrows DEF TypeOK, SyncPoolState
<1> QED
  BY <1>2, <1>5, <1>6, <1>8, StartKeepsInv DEF SyncPoolState

\* The sync.
LEMMA CreditFeeToPoolKeepsInv ==
  ASSUME TableInv, NEW c \in Calls, CreditFeeToPool(c)
  PROVE  TableInv'
<1>1. TypeOK /\ job[c] \in Job
  BY DEF TableInv, TypeOK
<1>2. /\ "stateReading" \in Label /\ "error" \in Label \ SyncCalls /\ "credit" \in Mishap
      /\ "error" \notin BoardCalls \cup PayoutCalls
  BY DEF Label, Active, SyncCalls, BoardCalls, PayoutCalls, Mishap
<1>3. CASE /\ Credit(c) /\ Proceed(c, "stateReading")
           /\ goal' = [goal EXCEPT ![c] = perShare']
           /\ overlapped' = (overlapped \/ At(SyncCalls) # {})
           /\ UNCHANGED late
  <2>1. Lands(c, "stateReading", job[c])
    BY <1>1, <1>2, <1>3, ProceedLands
  <2>2. /\ perShare' \in Nat /\ perShare' >= perShare
        /\ tracked' \in Nat /\ lamports' \in Nat /\ disturbed' \subseteq Calls
    BY <1>1, <1>3, CreditType
  <2>3. DOMAIN goal' = Calls /\ goal'[c] = perShare' /\ \A d \in Calls \ {c} : goal'[d] = goal[d]
    BY <1>1, <1>3 DEF TypeOK
  <2>4. overlapped' \in BOOLEAN /\ (overlapped => overlapped')
    BY <1>3
  <2>5. TypeOK'
    BY <1>1, <1>3, <2>1, <2>2, <2>3, <2>4 DEF TypeOK, Lands, CreditFeeToPool, backerVars
  <2>6. Grows
    BY <2>1, <2>2, <2>4, <2>5 DEF Grows, Lands
  <2> QED
    BY <1>1, <1>3, <2>1, <2>3, <2>6, StartKeepsInv DEF CreditFeeToPool
<1>4. CASE Proceed(c, "error") /\ UNCHANGED <<rewardVars, late, goal, disturbed, overlapped>>
  <2>1. Lands(c, "error", job[c])
    BY <1>1, <1>2, <1>4, ProceedLands
  <2> QED
    BY <1>1, <1>2, <1>4, <2>1, PlainStep DEF CreditFeeToPool, TypeOK
<1>5. CASE /\ Fail(c, "credit")
           /\ late' = late \cup {c} /\ UNCHANGED <<rewardVars, goal, disturbed, overlapped>>
  <2>1. Lands(c, "error", job[c])
    BY <1>1, <1>2, <1>5, FailLands
  <2> QED
    BY <1>1, <1>2, <1>5, <2>1, PlainStep DEF CreditFeeToPool, TypeOK
<1> QED
  BY <1>3, <1>4, <1>5 DEF CreditFeeToPool

LEMMA GetPoolStateKeepsInv ==
  ASSUME TableInv, NEW c \in Calls, GetPoolState(c)
  PROVE  TableInv'
<1>1. TypeOK /\ job[c] \in Job /\ OnChain \in State /\ Zero \in State
  BY DEF TableInv, TypeOK, OnChain, Zero, State
<1>2. /\ "poolWriting" \in Label /\ "error" \in Label \ SyncCalls
      /\ "error" \notin BoardCalls \cup PayoutCalls
      /\ "read" \in Mishap /\ "struct" \in Mishap
  BY DEF Label, Active, SyncCalls, BoardCalls, PayoutCalls, Mishap
<1>3. UNCHANGED <<backerVars, rewardVars, pool, late, goal, disturbed, raced, overlapped>>
  BY DEF GetPoolState
<1>4. CASE Go(c, "poolWriting", [job[c] EXCEPT !.state = OnChain]) /\ UNCHANGED mishaps
  <2> DEFINE j == [job[c] EXCEPT !.state = OnChain]
  <2>1. j \in Job /\ j.kind = job[c].kind /\ j.state.perShare = perShare
    BY <1>1, JobType DEF Job, OnChain
  <2> HIDE DEF j
  <2>2. Lands(c, "poolWriting", j)
    BY <1>1, <1>2, <1>4, <2>1, GoLands DEF j
  <2>3. Grows
    BY <1>1, <1>2, <1>3, <2>1, <2>2, CallGrows DEF TypeOK
  <2> QED
    BY <1>3, <2>1, <2>2, <2>3, ReadKeepsInv DEF GetPoolState, rewardVars
<1>5. CASE Suffer(c, "struct", "poolWriting", [job[c] EXCEPT !.state = Zero])
  <2> DEFINE j == [job[c] EXCEPT !.state = Zero]
  <2>1. j \in Job /\ j.kind = job[c].kind
    BY <1>1, JobType DEF Job
  <2> HIDE DEF j
  <2>2. Lands(c, "poolWriting", j) /\ "struct" \in mishaps'[c]
    BY <1>1, <1>2, <1>5, <2>1, SufferLands DEF j
  <2>3. Grows
    BY <1>1, <1>2, <1>3, <2>1, <2>2, CallGrows DEF TypeOK
  <2>4. \A d \in Calls : pc'[d] \in BoardCalls \cup PayoutCalls => job'[d].kind = "withdraw"
    BY <2>2 DEF TableInv, Lands, BoardCalls, PayoutCalls
  <2>5. ~Orderly'
    BY <2>2 DEF Orderly
  <2> QED
    BY <2>3, <2>4, <2>5 DEF TableInv, Grows
<1>6. CASE Fail(c, "read")
  <2>1. Lands(c, "error", job[c])
    BY <1>1, <1>2, <1>6, FailLands
  <2> QED
    BY <1>1, <1>2, <1>3, <2>1, PlainStep DEF TypeOK
<1> QED
  BY <1>4, <1>5, <1>6 DEF GetPoolState

LEMMA SyncPoolStateFromChainKeepsInv ==
  ASSUME TableInv, NEW c \in Calls, SyncPoolStateFromChain(c)
  PROVE  TableInv'
<1>1. TypeOK /\ job[c] \in Job /\ job[c].state \in State /\ pc[c] = "poolWriting"
  BY DEF TableInv, TypeOK, Job, SyncPoolStateFromChain
<1>2. /\ "ok" \in Label /\ "error" \in Label \ SyncCalls /\ "row" \in Mishap
      /\ "error" \notin BoardCalls \cup PayoutCalls
  BY DEF Label, Active, SyncCalls, BoardCalls, PayoutCalls, Mishap
<1>3. UNCHANGED <<backerVars, rewardVars, late, goal, disturbed, raced, overlapped>>
  BY DEF SyncPoolStateFromChain
<1>4. ASSUME NEW l \in {"ok", "error"}, Lands(c, l, job[c]), pool' = job[c].state
      PROVE  TableInv'
  <2>1. Grows
    BY <1>1, <1>2, <1>3, <1>4, CallGrows DEF TypeOK
  <2> QED
    BY <1>1, <1>3, <1>4, <2>1, WriteKeepsInv DEF rewardVars
<1>5. CASE pool' = job[c].state /\ Proceed(c, "ok")
  BY <1>1, <1>2, <1>4, <1>5, ProceedLands
<1>6. CASE Fail(c, "row") /\ pool' = job[c].state
  BY <1>1, <1>2, <1>4, <1>6, FailLands
<1>7. CASE Fail(c, "row") /\ UNCHANGED pool
  <2>1. Lands(c, "error", job[c])
    BY <1>1, <1>2, <1>7, FailLands
  <2> QED
    BY <1>1, <1>2, <1>3, <1>7, <2>1, PlainStep DEF TypeOK
<1> QED
  BY <1>5, <1>6, <1>7 DEF SyncPoolStateFromChain

-----------------------------------------------------------------------------
(* The withdrawal *)

\* A step of a withdrawal: it stays one, and leaves rewards and pool alone.
LEMMA WithdrawStep ==
  ASSUME TableInv, NEW c \in Calls, NEW l \in BoardCalls \cup PayoutCalls \cup {"ok", "error"},
         NEW j \in Job, Lands(c, l, j), j.kind = "withdraw",
         UNCHANGED <<backerVars, rewardVars, pool, goal, raced, overlapped>>,
         late' \subseteq Calls, disturbed' \subseteq Calls
  PROVE  TableInv'
<1> l \in Label \ SyncCalls
  BY DEF Label, Active, SyncCalls, BoardCalls, PayoutCalls
<1> QED
  BY PlainStep

LEMMA ReadPoolStateKeepsInv ==
  ASSUME TableInv, NEW c \in Calls, ReadPoolState(c)
  PROVE  TableInv'
<1>1. TypeOK /\ job[c] \in Job /\ OnChain \in State /\ Zero \in State
  BY DEF TableInv, TypeOK, OnChain, Zero, State
<1>2. job[c].kind = "withdraw"
  BY DEF TableInv, ReadPoolState, BoardCalls
<1>3. /\ "balancing" \in Label /\ "balancing" \in BoardCalls
      /\ "read" \in Mishap /\ "struct" \in Mishap
  BY DEF Label, Active, BoardCalls, Mishap
<1>4. UNCHANGED <<backerVars, rewardVars, pool, late, goal, raced, overlapped>>
  BY DEF ReadPoolState
<1>5. late' \subseteq Calls /\ disturbed' \subseteq Calls
  BY <1>1 DEF TypeOK, ReadPoolState, Disturb
<1>6. ASSUME NEW s \in State, Lands(c, "balancing", [job[c] EXCEPT !.state = s])
      PROVE  TableInv'
  <2> DEFINE j == [job[c] EXCEPT !.state = s]
  <2>1. j \in Job /\ j.kind = "withdraw"
    BY <1>1, <1>2, JobType DEF Job
  <2>2. Lands(c, "balancing", j)
    BY <1>6
  <2> HIDE DEF j
  <2> QED
    BY <1>3, <1>4, <1>5, <2>1, <2>2, WithdrawStep
<1>7. CASE Go(c, "balancing", [job[c] EXCEPT !.state = OnChain]) /\ UNCHANGED mishaps
  BY <1>1, <1>3, <1>6, <1>7, GoLands, JobType
<1>8. CASE Suffer(c, "struct", "balancing", [job[c] EXCEPT !.state = Zero])
  BY <1>1, <1>3, <1>6, <1>8, SufferLands, JobType
<1>9. CASE Suffer(c, "read", Guard(c, 0, 0), job[c])
  <2>1. Guard(c, 0, 0) \in {"tracking", "error"}
    BY DEF Guard
  <2>2. Guard(c, 0, 0) \in Label /\ Guard(c, 0, 0) \in BoardCalls \cup PayoutCalls \cup {"ok", "error"}
    BY <2>1 DEF Label, Active, PayoutCalls
  <2>3. Lands(c, Guard(c, 0, 0), job[c])
    BY <1>1, <1>3, <1>9, <2>2, SufferLands
  <2> QED
    BY <1>1, <1>2, <1>4, <1>5, <2>2, <2>3, WithdrawStep
<1> QED
  BY <1>7, <1>8, <1>9 DEF ReadPoolState

LEMMA ReadBalanceKeepsInv ==
  ASSUME TableInv, NEW c \in Calls, ReadBalance(c)
  PROVE  TableInv'
<1>1. TypeOK /\ job[c] \in Job /\ lamports \in Nat /\ 0 \in Nat
  BY DEF TableInv, TypeOK
<1>2. job[c].kind = "withdraw"
  BY DEF TableInv, ReadBalance, BoardCalls
<1>3. "listing" \in Label /\ "listing" \in BoardCalls /\ "balance" \in Mishap
  BY DEF Label, Active, BoardCalls, Mishap
<1>4. ASSUME NEW n \in Nat, Lands(c, "listing", [job[c] EXCEPT !.balance = n])
      PROVE  TableInv'
  <2> DEFINE j == [job[c] EXCEPT !.balance = n]
  <2>1. j \in Job /\ j.kind = "withdraw"
    BY <1>1, <1>2, JobType DEF Job
  <2>2. Lands(c, "listing", j)
    BY <1>4
  <2> HIDE DEF j
  <2> QED
    BY <1>1, <1>3, <2>1, <2>2, WithdrawStep DEF ReadBalance, TypeOK
<1>5. CASE Go(c, "listing", [job[c] EXCEPT !.balance = lamports]) /\ UNCHANGED mishaps
  BY <1>1, <1>3, <1>4, <1>5, GoLands, JobType
<1>6. CASE Suffer(c, "balance", "listing", [job[c] EXCEPT !.balance = 0])
  BY <1>1, <1>3, <1>4, <1>6, SufferLands, JobType
<1> QED
  BY <1>5, <1>6 DEF ReadBalance

LEMMA GetLeaderboardKeepsInv ==
  ASSUME TableInv, NEW c \in Calls, GetLeaderboard(c)
  PROVE  TableInv'
<1>1. TypeOK /\ job[c] \in Job
  BY DEF TableInv, TypeOK
<1>2. job[c].kind = "withdraw"
  BY DEF TableInv, GetLeaderboard, BoardCalls
<1>3. ASSUME NEW l \in {"tracking", "error"}, Lands(c, l, job[c])
      PROVE  TableInv'
  <2>1. l \in BoardCalls \cup PayoutCalls \cup {"ok", "error"}
    BY DEF PayoutCalls
  <2>2. disturbed' \subseteq Calls
    BY <1>1 DEF GetLeaderboard, Disturb, TypeOK
  <2> QED
    BY <1>1, <1>2, <1>3, <2>1, <2>2, WithdrawStep DEF GetLeaderboard, TypeOK
<1>4. \A b, n : Guard(c, b, n) \in {"tracking", "error"}
  BY DEF Guard
<1>5. {"tracking", "error"} \subseteq Label /\ "list" \in Mishap
  BY DEF Label, Active, PayoutCalls, Mishap
<1>6. \/ \E l \in {"tracking", "error"} : Proceed(c, l)
      \/ \E l \in {"tracking", "error"} : Suffer(c, "list", l, job[c])
  BY <1>4 DEF GetLeaderboard
<1>7. \E l \in {"tracking", "error"} : Lands(c, l, job[c])
  BY <1>1, <1>5, <1>6, ProceedLands, SufferLands
<1> QED
  BY <1>3, <1>7

LEMMA ReadTrackedKeepsInv ==
  ASSUME TableInv, NEW c \in Calls, ReadTracked(c)
  PROVE  TableInv'
<1>1. TypeOK /\ job[c] \in Job /\ OnChain \in State
  BY DEF TableInv, TypeOK, OnChain, State
<1>2. job[c].kind = "withdraw"
  BY DEF TableInv, ReadTracked, PayoutCalls
<1>3. "checking" \in Label /\ "checking" \in PayoutCalls /\ "check" \in Mishap
  BY DEF Label, Active, PayoutCalls, Mishap
<1>4. CASE Go(c, "checking", [job[c] EXCEPT !.state = OnChain]) /\ UNCHANGED mishaps
  <2> DEFINE j == [job[c] EXCEPT !.state = OnChain]
  <2>1. j \in Job /\ j.kind = "withdraw"
    BY <1>1, <1>2, JobType DEF Job
  <2> HIDE DEF j
  <2>2. Lands(c, "checking", j)
    BY <1>1, <1>3, <1>4, <2>1, GoLands DEF j
  <2> QED
    BY <1>1, <1>3, <2>1, <2>2, WithdrawStep DEF ReadTracked, TypeOK
<1>5. CASE Fail(c, "check")
  BY <1>1, <1>2, <1>3, <1>5, FailLands, WithdrawStep DEF ReadTracked, TypeOK
<1> QED
  BY <1>4, <1>5 DEF ReadTracked

LEMMA CheckBalancesKeepsInv ==
  ASSUME TableInv, NEW c \in Calls, CheckBalances(c)
  PROVE  TableInv'
<1>1. TypeOK /\ job[c] \in Job
  BY DEF TableInv, TypeOK
<1>2. job[c].kind = "withdraw"
  BY DEF TableInv, CheckBalances, PayoutCalls
<1>3. {"withdrawing", "error"} \subseteq Label /\ "check" \in Mishap
  BY DEF Label, Active, PayoutCalls, Mishap
<1>4. (\E l \in {"withdrawing", "error"} : Proceed(c, l)) \/ Fail(c, "check")
  BY DEF CheckBalances
<1>5. PICK l \in {"withdrawing", "error"} : Lands(c, l, job[c])
  BY <1>1, <1>3, <1>4, ProceedLands, FailLands
<1> QED
  BY <1>1, <1>2, <1>5, WithdrawStep DEF CheckBalances, TypeOK, PayoutCalls

LEMMA AdminWithdrawRewardPoolKeepsInv ==
  ASSUME TableInv, NEW c \in Calls, AdminWithdrawRewardPool(c)
  PROVE  TableInv'
<1>1. TypeOK /\ job[c] \in Job
  BY DEF TableInv, TypeOK
<1>2. job[c].kind = "withdraw"
  BY DEF TableInv, AdminWithdrawRewardPool, PayoutCalls
<1>3. /\ {"ok", "error"} \subseteq Label \ SyncCalls /\ "withdraw" \in Mishap
  BY DEF Label, Active, SyncCalls, PayoutCalls, Mishap
<1>4. UNCHANGED <<backerVars, pool, goal, overlapped>>
  BY DEF AdminWithdrawRewardPool
<1>5. CASE Pay(c) /\ Proceed(c, "ok") /\ UNCHANGED late
  <2>1. Lands(c, "ok", job[c])
    BY <1>1, <1>3, <1>5, ProceedLands
  <2>2. /\ tracked' \in Nat /\ lamports' \in Nat /\ raced' \in BOOLEAN
        /\ disturbed' \subseteq Calls /\ perShare' = perShare
    BY <1>1, <1>5, PayType
  <2>3. TypeOK'
    BY <1>1, <1>4, <1>5, <2>1, <2>2 DEF TypeOK, Lands, backerVars
  <2>4. Grows
    BY <1>1, <1>4, <2>1, <2>2, <2>3 DEF Grows, Lands, TypeOK
  <2>5. "ok" \notin BoardCalls \cup PayoutCalls
    BY DEF BoardCalls, PayoutCalls
  <2> QED
    BY <1>1, <1>2, <1>3, <1>4, <2>1, <2>4, <2>5, QuietCall
<1>6. CASE Proceed(c, "error") /\ UNCHANGED <<rewardVars, late, disturbed, raced>>
  <2>1. Lands(c, "error", job[c])
    BY <1>1, <1>3, <1>6, ProceedLands
  <2> QED
    BY <1>1, <1>2, <1>4, <1>6, <2>1, WithdrawStep DEF TypeOK
<1>7. CASE /\ Fail(c, "withdraw")
           /\ late' = late \cup {c} /\ UNCHANGED <<rewardVars, disturbed, raced>>
  <2>1. Lands(c, "error", job[c])
    BY <1>1, <1>3, <1>7, FailLands
  <2> QED
    BY <1>1, <1>2, <1>4, <1>7, <2>1, WithdrawStep DEF TypeOK
<1> QED
  BY <1>5, <1>6, <1>7 DEF AdminWithdrawRewardPool

\* A crash ends every call in flight.
LEMMA CrashKeepsInv ==
  ASSUME TableInv, Crash
  PROVE  TableInv'
<1>1. TypeOK
  BY DEF TableInv
<1>2. "dead" \in Label /\ "dead" \notin Active /\ "crash" \in Mishap
      /\ SyncCalls \cup BoardCalls \cup PayoutCalls \subseteq Active
  BY DEF Label, Active, SyncCalls, BoardCalls, PayoutCalls, Mishap
<1>3. \A c \in Calls : pc'[c] = IF pc[c] \in Active THEN "dead" ELSE pc[c]
  BY DEF Crash, At
<1>4. pc' \in [Calls -> Label] /\ mishaps' \in [Calls -> SUBSET Mishap]
  BY <1>1, <1>2 DEF Crash, At, TypeOK
<1>5. UNCHANGED <<backerVars, rewardVars, pool, job, goal, disturbed, raced, overlapped>>
      /\ late' \subseteq Calls
  BY <1>1 DEF Crash, At, TypeOK
<1>6. TypeOK'
  BY <1>1, <1>4, <1>5 DEF TypeOK, backerVars, rewardVars
<1>7. \A c \in Calls : mishaps[c] \subseteq mishaps'[c]
  BY <1>1 DEF Crash, At, TypeOK
<1>8. Grows
  BY <1>1, <1>5, <1>6, <1>7 DEF Grows, TypeOK, rewardVars
<1>9. \A c \in Calls : Stands(c) \/ Leaves(c)
  BY <1>2, <1>3, <1>5 DEF Stands, Leaves
<1> QED
  BY <1>5, <1>8, <1>9, QuietKeepsInv

-----------------------------------------------------------------------------
(* The books: what backers have earned, and what may be paid *)

\* A quotient and what it leaves.
LEMMA Quotient ==
  ASSUME NEW x \in Nat, NEW p \in Nat \ {0}
  PROVE  /\ x \div p \in Nat
         /\ p * (x \div p) <= x /\ x <= p * (x \div p) + (p - 1)
<1> DEFINE q == x \div p
           r == x % p
           y == p * q
<1>1. q \in Nat
  OBVIOUS
<1>2. x = y + r
  OBVIOUS
<1>3. r \in 0 .. (p - 1)
  OBVIOUS
<1>4. y \in Int
  BY <1>1
<1> HIDE DEF q, r, y
<1>5. y <= x /\ x <= y + (p - 1)
  BY <1>2, <1>3, <1>4
<1> QED
  BY <1>1, <1>5 DEF q, y

\* What a backer may claim is what it has earned, floored.
LEMMA ClaimableIsFloor ==
  ASSUME NEW a \in Account, perShare \in Nat, a.debt <= a.deposit * perShare
  PROVE  /\ Claimable(a, perShare) \in Nat /\ Earned(a) \in Nat
         /\ Precision * Claimable(a, perShare) <= Earned(a)
         /\ Earned(a) <= Precision * Claimable(a, perShare) + (Precision - 1)
<1> DEFINE x == a.deposit * perShare - a.debt
           q == x \div Precision
<1>1. a.deposit \in Nat /\ a.debt \in Nat /\ a.pending \in Nat /\ Precision \in Nat \ {0}
  BY RewardAssumption DEF Account
<1>2. a.deposit * perShare \in Nat
  BY <1>1
<1>3. x \in Nat
  BY <1>1, <1>2
<1>4. Claimable(a, perShare) = a.pending + q
  BY <1>1, <1>2 DEF Claimable
<1>5. Earned(a) = a.pending * Precision + x
  <2> DEFINE y == a.pending * Precision
             z == a.deposit * perShare
  <2>1. y \in Nat /\ z \in Nat
    BY <1>1, <1>2
  <2> HIDE DEF y, z
  <2>2. y + z - a.debt = y + (z - a.debt)
    BY <1>1, <2>1
  <2> QED
    BY <2>2 DEF Earned, y, z
<1> HIDE DEF x
<1>6. q \in Nat /\ Precision * q <= x /\ x <= Precision * q + (Precision - 1)
  BY <1>1, <1>3, Quotient
<1> HIDE DEF q
<1>7. Precision * (a.pending + q) = a.pending * Precision + Precision * q
  BY <1>1, <1>6
<1>8. a.pending * Precision \in Nat /\ Precision * q \in Nat
  BY <1>1, <1>6
<1> QED
  BY <1>1, <1>3, <1>4, <1>5, <1>6, <1>7, <1>8

\* All backers together.
LEMMA OwedIsFloor ==
  ASSUME TypeOK, AccountsInv
  PROVE  /\ Owed \in Int /\ TotalEarned \in Int /\ Slack \in Nat
         /\ Owed >= 0 /\ TotalEarned >= 0
         /\ Precision * Owed <= TotalEarned /\ TotalEarned <= Precision * Owed + Slack
<1> DEFINE F == [w \in Backers |-> Claimable(account[w], perShare)]
           E == [w \in Backers |-> Earned(account[w])]
           Z == [w \in Backers |-> 0]
           K == [w \in Backers |-> Precision - 1]
           PF == [w \in Backers |-> Precision * F[w]]
           PFK == [w \in Backers |-> Precision * F[w] + (Precision - 1)]
<1>1. \A w \in Backers : account[w] \in Account /\ account[w].debt <= account[w].deposit * perShare
  BY DEF TypeOK, AccountsInv
<1>2. perShare \in Nat /\ Precision \in Nat \ {0} /\ IsFiniteSet(Backers)
  BY RewardAssumption DEF TypeOK
<1>3. ASSUME NEW w \in Backers
      PROVE  /\ F[w] \in Nat /\ E[w] \in Nat
             /\ Precision * F[w] <= E[w] /\ E[w] <= Precision * F[w] + (Precision - 1)
  BY <1>1, <1>2, ClaimableIsFloor
<1>4. F \in [Backers -> Int] /\ E \in [Backers -> Int]
  BY <1>3
<1> HIDE DEF F, E
<1>5. \A w \in Backers : Precision * F[w] \in Int
  BY <1>2, <1>3
<1>6. PF \in [Backers -> Int] /\ PFK \in [Backers -> Int]
  BY <1>2, <1>5
<1>7. Z \in [Backers -> Int] /\ K \in [Backers -> Int]
  BY <1>2
<1>8. SumFunction(Z) = 0 /\ SumFunction(K) = Slack /\ Slack \in Nat
  <2>1. Cardinality(Backers) \in Nat
    BY <1>2, FS_CardinalityType
  <2>2. SumFunction(Z) = 0 * Cardinality(Backers)
    <3> \A w \in Backers : Z[w] = 0
      OBVIOUS
    <3> HIDE DEF Z
    <3> QED
      BY <1>2, <1>7, SumConstant
  <2>3. SumFunction(K) = (Precision - 1) * Cardinality(Backers)
    <3> \A w \in Backers : K[w] = Precision - 1
      OBVIOUS
    <3> Precision - 1 \in Int
      BY <1>2
    <3> HIDE DEF K
    <3> QED
      BY <1>2, <1>7, SumConstant
  <2> HIDE DEF Z, K
  <2>4. Precision - 1 \in Nat
    BY <1>2
  <2> QED
    BY <2>1, <2>2, <2>3, <2>4 DEF Slack
<1>9. SumFunction(F) \in Int /\ SumFunction(E) \in Int
  BY <1>2, <1>4, SumType
<1>10. SumFunction(PF) = SumFunction(Z) + Precision * SumFunction(F)
  <2>1. \A w \in Backers : PF[w] = Z[w] + Precision * F[w]
    BY <1>5
  <2> HIDE DEF PF, Z
  <2> QED
    BY <1>2, <1>4, <1>6, <1>7, <2>1, SumLinear
<1>11. SumFunction(PFK) = SumFunction(K) + Precision * SumFunction(F)
  <2>1. \A w \in Backers : PFK[w] = K[w] + Precision * F[w]
    BY <1>2, <1>5
  <2> HIDE DEF PFK, K
  <2> QED
    BY <1>2, <1>4, <1>6, <1>7, <2>1, SumLinear
<1>12. SumFunction(PF) <= SumFunction(E) /\ SumFunction(E) <= SumFunction(PFK)
  <2>1. \A w \in Backers : PF[w] <= E[w] /\ E[w] <= PFK[w]
    BY <1>3
  <2> HIDE DEF PF, PFK
  <2> QED
    BY <1>2, <1>4, <1>6, <2>1, SumMonotone
<1>13. SumFunction(Z) <= SumFunction(F)
  <2>1. \A w \in Backers : Z[w] <= F[w]
    BY <1>3
  <2> HIDE DEF Z
  <2> QED
    BY <1>2, <1>4, <1>7, <2>1, SumMonotone
<1>14. Owed = SumFunction(F) /\ TotalEarned = SumFunction(E)
  BY DEF Owed, TotalClaimable, TotalEarned, F, E
<1>15. Precision * SumFunction(F) \in Int /\ Precision * SumFunction(F) >= 0
  BY <1>2, <1>8, <1>9, <1>13
<1> HIDE DEF PF, PFK, Z, K
<1> QED
  BY <1>8, <1>9, <1>10, <1>11, <1>12, <1>13, <1>14, <1>15

\* A balance and its room.
LEMMA RoomType ==
  ASSUME TypeOK, AccountsInv
  PROVE  \A b \in Int : Room(b) \in Int /\ Room(b) = Precision * b + Slack - TotalEarned
<1> SUFFICES ASSUME NEW b \in Int
             PROVE  Room(b) \in Int
  BY DEF Room
<1>1. Precision * b \in Int
  BY RewardAssumption
<1>2. TotalEarned \in Int /\ Slack \in Nat
  BY OwedIsFloor
<1> QED
  BY <1>1, <1>2 DEF Room

-----------------------------------------------------------------------------
(* The calls that a step does not move *)

Stays(d) == Stands(d) /\ mishaps'[d] = mishaps[d]

\* What a step does to the rewards leaves what call d relies on as it is, or
\* disturbs the call.
Spares(d) ==
  /\ ~raced' /\ d \notin disturbed' /\ job[d].kind = "withdraw"
     /\ (pc[d] \in PayoutCalls \/ d \in late') => Room(lamports) <= Room(lamports)'
  /\ Lonely(d)' /\ pc[d] \in BoardCalls \cup PayoutCalls => Room(tracked) <= Room(tracked)'
  /\ d \notin disturbed' /\ pc[d] \in {"balancing", "listing"} => perShare' = perShare
  /\ d \notin disturbed' /\ pc[d] = "listing" => lamports' = lamports

\* Nothing that was noted is forgotten, and nothing becomes late or lonely.
Remembers(d) ==
  /\ disturbed \subseteq disturbed' /\ (raced => raced')
  /\ d \in late' => d \in late
  /\ Lonely(d)' => Lonely(d)

\* The rooms are numbers before and after.
Rooms == /\ Room(lamports) \in Int /\ Room(lamports)' \in Int
         /\ Room(tracked) \in Int /\ Room(tracked)' \in Int

\* What is known of a call that stays is still true.
LEMMA StayKeepsInv ==
  ASSUME TypeOK, NEW d \in Calls, CallInv(d), Stays(d), Spares(d), Remembers(d), Rooms
  PROVE  CallInv(d)'
<1>1. pc'[d] = pc[d] /\ job'[d] = job[d] /\ goal'[d] = goal[d] /\ mishaps'[d] = mishaps[d]
  BY DEF Stays, Stands
<1>2. /\ job[d].arg \in Nat /\ goal[d] \in Int /\ Precision \in Nat
  BY RewardAssumption DEF TypeOK, Job, CallInv
<1>3. Precision * job[d].arg \in Int /\ Precision * goal[d] \in Int
  BY <1>2
<1>4. PayoutInv(d)'
  <2> SUFFICES ASSUME job[d].kind = "withdraw", d \notin disturbed'
               PROVE  /\ pc[d] \in {"balancing", "listing"} => job[d].state.perShare = perShare'
                      /\ pc[d] = "listing" => \/ job[d].balance = lamports'
                                              \/ job[d].balance = 0 /\ mishaps[d] # {}
                      /\ ~raced' /\ (pc[d] \in PayoutCalls \/ d \in late') =>
                           Precision * job[d].arg <= Room(lamports)'
    BY <1>1 DEF PayoutInv
  <2>1. PayoutInv(d) /\ d \notin disturbed
    BY DEF CallInv, Remembers
  <2>2. pc[d] \in {"balancing", "listing"} => job[d].state.perShare = perShare'
    BY <2>1 DEF PayoutInv, Spares
  <2>3. pc[d] = "listing" => job[d].balance = lamports' \/ (job[d].balance = 0 /\ mishaps[d] # {})
    BY <2>1 DEF PayoutInv, Spares
  <2>4. ASSUME ~raced', pc[d] \in PayoutCalls \/ d \in late'
        PROVE  Precision * job[d].arg <= Room(lamports)'
    <3>1. Precision * job[d].arg <= Room(lamports)
      BY <2>1, <2>4 DEF PayoutInv, Remembers
    <3>2. Room(lamports) <= Room(lamports)'
      BY <2>4 DEF Spares
    <3> QED
      BY <1>3, <3>1, <3>2 DEF Rooms
  <2> QED
    BY <2>2, <2>3, <2>4
<1>5. FreeInv(d)'
  <2> SUFFICES ASSUME Lonely(d)', mishaps[d] = {}
               PROVE  /\ pc[d] \in BoardCalls \cup PayoutCalls =>
                           Precision * goal[d] <= Room(tracked)'
                      /\ pc[d] = "checking" =>
                           Precision * goal[d] <= Precision * job[d].state.tracked + Slack
    BY <1>1 DEF FreeInv, Slack
  <2>1. FreeInv(d) /\ Lonely(d)
    BY DEF CallInv, Remembers
  <2>2. ASSUME pc[d] \in BoardCalls \cup PayoutCalls
        PROVE  Precision * goal[d] <= Room(tracked)'
    <3>1. Precision * goal[d] <= Room(tracked)
      BY <2>1, <2>2 DEF FreeInv
    <3>2. Room(tracked) <= Room(tracked)'
      BY <2>2 DEF Spares
    <3> QED
      BY <1>3, <3>1, <3>2 DEF Rooms
  <2> QED
    BY <2>1, <2>2 DEF FreeInv
<1>6. Granted(d)'
  BY <1>1 DEF CallInv, Granted, Remembers
<1> QED
  BY <1>1, <1>4, <1>5, <1>6 DEF CallInv, Remembers

-----------------------------------------------------------------------------
(* What steps do to the rewards *)

\* The balances grow by n, and what was earned by at most Precision * n.
LEMMA RoomGrows ==
  ASSUME TypeOK, AccountsInv, NEW n \in Int, TotalEarned' \in Int,
         TotalEarned' <= TotalEarned + Precision * n,
         lamports' = lamports + n, tracked' = tracked + n
  PROVE  Rooms /\ Room(lamports) <= Room(lamports)' /\ Room(tracked) <= Room(tracked)'
<1>1. lamports \in Int /\ tracked \in Int /\ Precision \in Nat
  BY RewardAssumption DEF TypeOK
<1>2. TotalEarned \in Int /\ Slack \in Nat /\ Slack' = Slack
  BY OwedIsFloor DEF Slack
<1>3. Room(lamports) = Precision * lamports + Slack - TotalEarned
      /\ Room(tracked) = Precision * tracked + Slack - TotalEarned
  BY DEF Room
<1>4. Room(lamports)' = Precision * (lamports + n) + Slack - TotalEarned'
      /\ Room(tracked)' = Precision * (tracked + n) + Slack - TotalEarned'
  BY <1>2 DEF Room
<1>5. /\ Precision * (lamports + n) = Precision * lamports + Precision * n
      /\ Precision * (tracked + n) = Precision * tracked + Precision * n
      /\ Precision * lamports \in Int /\ Precision * tracked \in Int /\ Precision * n \in Int
  BY <1>1
<1> QED
  BY <1>2, <1>3, <1>4, <1>5 DEF Rooms

\* A step that leaves the accounts of backers and the rewards alone.
LEMMA QuietBooks ==
  ASSUME TypeOK, AccountsInv, UNCHANGED <<account, deposited, rewardVars, raced>>
  PROVE  /\ AccountsInv' /\ Rooms
         /\ Room(lamports)' = Room(lamports) /\ Room(tracked)' = Room(tracked)
<1>1. UNCHANGED <<account, deposited, perShare, tracked, lamports, raced>>
  BY DEF rewardVars
<1>2. TotalEarned' = TotalEarned /\ Slack' = Slack
  BY <1>1 DEF TotalEarned, Earned, Slack
<1>3. Room(lamports)' = Room(lamports) /\ Room(tracked)' = Room(tracked)
  BY <1>1, <1>2 DEF Room
<1>4. lamports \in Int /\ tracked \in Int
  BY DEF TypeOK
<1> QED
  BY <1>1, <1>3, <1>4, RoomType DEF AccountsInv, Rooms

\* The total of what was earned when the account of one backer changes.
LEMMA EarnedChangesAt ==
  ASSUME TypeOK, TypeOK', AccountsInv, NEW w \in Backers, NEW a \in Account,
         account' = [account EXCEPT ![w] = a], perShare' = perShare
  PROVE  /\ Earned(a) \in Int /\ Earned(account[w]) \in Int /\ TotalEarned \in Int
         /\ TotalEarned' = TotalEarned - Earned(account[w]) + Earned(a)
<1> DEFINE E == [v \in Backers |-> Earned(account[v])]
           F == [v \in Backers |-> Earned(account'[v])]
<1>1. \A x \in Account : Earned(x) \in Int
  <2> SUFFICES ASSUME NEW x \in Account PROVE Earned(x) \in Int
    OBVIOUS
  <2>1. x.deposit \in Nat /\ x.debt \in Nat /\ x.pending \in Nat
        /\ perShare \in Nat /\ Precision \in Nat
    BY RewardAssumption DEF Account, TypeOK
  <2>2. x.pending * Precision \in Int /\ x.deposit * perShare \in Int
    BY <2>1
  <2> QED
    BY <2>1, <2>2 DEF Earned
<1>2. account \in [Backers -> Account] /\ account' \in [Backers -> Account]
      /\ account'[w] = a /\ \A v \in Backers \ {w} : account'[v] = account[v]
  BY DEF TypeOK
<1>3. E \in [Backers -> Int] /\ F \in [Backers -> Int]
      /\ E[w] = Earned(account[w]) /\ F[w] = Earned(a)
      /\ \A v \in Backers \ {w} : F[v] = E[v]
  BY <1>1, <1>2
<1>4. TotalEarned = SumFunction(E) /\ TotalEarned' = SumFunction(F)
  BY DEF TotalEarned, Earned
<1> HIDE DEF E, F
<1>5. SumFunction(F) = SumFunction(E) - E[w] + F[w] /\ SumFunction(E) \in Int
  BY <1>3, RewardAssumption, SumChangeAt, SumType
<1> QED
  BY <1>1, <1>2, <1>3, <1>4, <1>5

\* When a deposit changes, what the backer had earned is floored.
LEMMA ChangeDepositBooks ==
  ASSUME TypeOK, TypeOK', AccountsInv, NEW w \in Backers, ChangeDeposit(w)
  PROVE  /\ AccountsInv' /\ Rooms
         /\ Room(lamports) <= Room(lamports)' /\ Room(tracked) <= Room(tracked)'
<1>1. PICK n \in Stakes \ {account[w].deposit} :
        account' = [account EXCEPT ![w] = [deposit |-> n, debt |-> n * perShare,
                                           pending |-> Claimable(account[w], perShare)]]
  BY DEF ChangeDeposit
<1> DEFINE old == account[w]
           share == Claimable(old, perShare)
           a == [deposit |-> n, debt |-> n * perShare, pending |-> share]
<1>2. old \in Account /\ old.debt <= old.deposit * perShare /\ perShare \in Nat /\ n \in Nat
  BY RewardAssumption DEF TypeOK, AccountsInv
<1>3. share \in Nat /\ Precision * share <= Earned(old) /\ Earned(old) \in Nat
  BY <1>2, ClaimableIsFloor
<1>4. n * perShare \in Nat /\ Precision \in Nat
  BY <1>2, RewardAssumption
<1>5. a \in Account /\ account'[w] = a
  BY <1>1, <1>2, <1>3, <1>4 DEF Account, TypeOK
<1>6. Earned(a) = Precision * share
  <2>1. share * Precision \in Nat /\ share * Precision = Precision * share
    BY <1>3, <1>4
  <2>2. Earned(a) = share * Precision + n * perShare - n * perShare
    BY DEF Earned
  <2> HIDE DEF share
  <2> QED
    BY <1>4, <2>1, <2>2
<1>7. UNCHANGED <<perShare, tracked, lamports, raced>>
      /\ deposited' = deposited - old.deposit + n
  BY <1>5 DEF ChangeDeposit, rewardVars
<1> HIDE DEF share
<1>8. TotalEarned' = TotalEarned - Earned(old) + Earned(a)
      /\ TotalEarned \in Int /\ Earned(a) \in Int
  <2> HIDE DEF a
  <2>1. account' = [account EXCEPT ![w] = a]
    BY <1>1 DEF a, share
  <2> QED
    BY <1>5, <1>7, <2>1, EarnedChangesAt
<1>9. TotalEarned' \in Int /\ TotalEarned' <= TotalEarned + Precision * 0
  BY <1>3, <1>4, <1>6, <1>8
<1>10. Rooms /\ Room(lamports) <= Room(lamports)' /\ Room(tracked) <= Room(tracked)'
  BY <1>7, <1>9, RoomGrows DEF TypeOK
<1>11. deposited' = SumFunction([v \in Backers |-> account'[v].deposit])
  <2> DEFINE D == [v \in Backers |-> account[v].deposit]
             G == [v \in Backers |-> account'[v].deposit]
  <2>1. D \in [Backers -> Int] /\ G \in [Backers -> Int]
    BY DEF TypeOK, Account
  <2>2. D[w] = old.deposit /\ G[w] = n /\ \A v \in Backers \ {w} : G[v] = D[v]
    BY <1>1, <1>5 DEF TypeOK
  <2>3. deposited = SumFunction(D)
    BY DEF AccountsInv
  <2> HIDE DEF D, G
  <2>4. SumFunction(G) = SumFunction(D) - D[w] + G[w]
    BY <2>1, <2>2, RewardAssumption, SumChangeAt
  <2>5. deposited' = SumFunction(G)
    BY <1>7, <2>2, <2>3, <2>4
  <2> QED
    BY <2>5 DEF G
<1>12. \A v \in Backers : account'[v].debt <= account'[v].deposit * perShare'
  <2> SUFFICES ASSUME NEW v \in Backers
               PROVE  account'[v].debt <= account'[v].deposit * perShare
    BY <1>7
  <2>1. CASE v = w
    BY <1>4, <1>5, <2>1
  <2>2. CASE v # w
    BY <1>1, <2>2 DEF TypeOK, AccountsInv
  <2> QED
    BY <2>1, <2>2
<1>13. ~raced' => Room(lamports)' >= 0
  BY <1>7, <1>10 DEF AccountsInv, Rooms
<1> QED
  BY <1>7, <1>10, <1>11, <1>12, <1>13 DEF AccountsInv

\* A claim takes at most what the backer had earned.
LEMMA ClaimBooks ==
  ASSUME TypeOK, TypeOK', AccountsInv, NEW w \in Backers, Claim(w)
  PROVE  /\ AccountsInv' /\ Rooms
         /\ Room(lamports) <= Room(lamports)' /\ Room(tracked) <= Room(tracked)'
<1> DEFINE old == account[w]
           n == Claimable(old, perShare)
           a == [old EXCEPT !.debt = old.deposit * perShare, !.pending = 0]
<1>1. old \in Account /\ old.debt <= old.deposit * perShare /\ perShare \in Nat
  BY DEF TypeOK, AccountsInv
<1>2. n \in Nat /\ Precision * n <= Earned(old) /\ Earned(old) \in Nat
  BY <1>1, ClaimableIsFloor
<1>3. /\ account' = [account EXCEPT ![w].debt = old.deposit * perShare, ![w].pending = 0]
      /\ tracked' = tracked - n /\ lamports' = lamports - n
      /\ UNCHANGED <<deposited, perShare, raced>>
  BY DEF Claim
<1>4. old.deposit \in Nat /\ old.deposit * perShare \in Nat /\ Precision \in Nat
  BY <1>1, RewardAssumption DEF Account
<1>5. account' = [account EXCEPT ![w] = a]
  BY <1>3
<1>6. \A x \in Account, d \in Nat :
        LET y == [x EXCEPT !.debt = d, !.pending = 0]
        IN  y \in Account /\ y.deposit = x.deposit /\ y.debt = d /\ y.pending = 0
  BY DEF Account
<1>7. a \in Account /\ account'[w] = a
      /\ a.deposit = old.deposit /\ a.debt = old.deposit * perShare /\ a.pending = 0
  <2>1. a \in Account /\ a.deposit = old.deposit
        /\ a.debt = old.deposit * perShare /\ a.pending = 0
    BY <1>1, <1>4, <1>6
  <2> HIDE DEF a
  <2> QED
    BY <1>5, <2>1 DEF TypeOK
<1>8. Earned(a) = 0
  <2>1. Earned(a) = 0 * Precision + old.deposit * perShare - old.deposit * perShare
    BY <1>7 DEF Earned
  <2> QED
    BY <1>4, <2>1
<1> HIDE DEF n, a
<1>9. TotalEarned' = TotalEarned - Earned(old) + Earned(a) /\ TotalEarned \in Int
  BY <1>3, <1>5, <1>7, EarnedChangesAt
<1>10. Precision * (-n) = -(Precision * n) /\ Precision * n \in Int /\ -n \in Int
  BY <1>2, <1>4
<1>11. TotalEarned' \in Int /\ TotalEarned' <= TotalEarned + Precision * (-n)
  BY <1>2, <1>8, <1>9, <1>10
<1>12. lamports' = lamports + (-n) /\ tracked' = tracked + (-n)
  BY <1>2, <1>3 DEF TypeOK
<1>13. Rooms /\ Room(lamports) <= Room(lamports)' /\ Room(tracked) <= Room(tracked)'
  BY <1>10, <1>11, <1>12, RoomGrows
<1>14. deposited' = SumFunction([v \in Backers |-> account'[v].deposit])
  <2>1. \A v \in Backers : account'[v].deposit = account[v].deposit
    BY <1>5, <1>7 DEF TypeOK
  <2>2. [v \in Backers |-> account'[v].deposit] = [v \in Backers |-> account[v].deposit]
    BY <2>1
  <2>3. deposited = SumFunction([v \in Backers |-> account[v].deposit])
    BY DEF AccountsInv
  <2> QED
    BY <1>3, <2>2, <2>3, Zenon
<1>15. \A v \in Backers : account'[v].debt <= account'[v].deposit * perShare'
  <2> SUFFICES ASSUME NEW v \in Backers
               PROVE  account'[v].debt <= account'[v].deposit * perShare
    BY <1>3
  <2>1. CASE v = w
    BY <1>4, <1>7, <2>1
  <2>2. CASE v # w
    BY <1>5, <2>2 DEF TypeOK, AccountsInv
  <2> QED
    BY <2>1, <2>2
<1>16. ~raced' => Room(lamports)' >= 0
  BY <1>3, <1>13 DEF AccountsInv, Rooms
<1>17. lamports' = tracked' + Reserve
  BY <1>2, <1>3, RewardAssumption DEF AccountsInv, TypeOK
<1> QED
  BY <1>13, <1>14, <1>15, <1>16, <1>17 DEF AccountsInv

\* A credit earns all backers together at most what it brings.
LEMMA CreditBooks ==
  ASSUME TypeOK, TypeOK', AccountsInv, NEW c \in Calls, Credit(c),
         UNCHANGED <<account, deposited, raced>>
  PROVE  /\ AccountsInv' /\ Rooms
         /\ Room(lamports) <= Room(lamports)' /\ Room(tracked) <= Room(tracked)'
<1> DEFINE n == job[c].arg
           k == (n * Precision) \div deposited
           E == [v \in Backers |-> Earned(account[v])]
           F == [v \in Backers |-> Earned(account[v])']
           D == [v \in Backers |-> account[v].deposit]
<1>1. n \in Nat /\ deposited \in Nat \ {0} /\ Precision \in Nat /\ perShare \in Nat
  BY RewardAssumption DEF TypeOK, Job, Credit
<1>2. n * Precision \in Nat
  BY <1>1
<1>3. k \in Nat /\ deposited * k <= n * Precision
  <2> DEFINE x == n * Precision
  <2>1. x \in Nat
    BY <1>2
  <2> HIDE DEF x
  <2> QED
    BY <1>1, <2>1, Quotient DEF x
<1>4. /\ perShare' = perShare + k
      /\ tracked' = tracked + n /\ lamports' = lamports + n
  BY DEF Credit
<1> HIDE DEF k, n
<1>5. ASSUME NEW v \in Backers
      PROVE  /\ E[v] \in Int /\ F[v] \in Int /\ D[v] \in Int /\ F[v] = E[v] + k * D[v]
             /\ account[v].debt <= account[v].deposit * perShare'
  <2> DEFINE p == account[v].pending * Precision
             d == account[v].deposit
             b == account[v].debt
  <2>1. d \in Nat /\ b \in Nat /\ account[v].pending \in Nat
    BY DEF TypeOK, Account
  <2>2. p \in Nat
    BY <1>1, <2>1
  <2>3. d * (perShare + k) = d * perShare + k * d /\ d * perShare \in Nat /\ k * d \in Nat
    BY <1>1, <1>3, <2>1
  <2>4. E[v] = p + d * perShare - b /\ F[v] = p + d * (perShare + k) - b /\ D[v] = d
    BY <1>4 DEF Earned
  <2>5. b <= d * perShare
    BY DEF AccountsInv
  <2> HIDE DEF p, d, b, E, F, D
  <2>6. b <= d * (perShare + k)
    BY <2>1, <2>3, <2>5
  <2>7. F[v] = E[v] + k * d /\ E[v] \in Int /\ F[v] \in Int
    BY <2>1, <2>2, <2>3, <2>4
  <2> QED
    BY <1>4, <2>1, <2>4, <2>6, <2>7 DEF b, d
<1>6. E \in [Backers -> Int] /\ F \in [Backers -> Int] /\ D \in [Backers -> Int]
  BY <1>5
<1>7. TotalEarned = SumFunction(E) /\ TotalEarned' = SumFunction(F)
  BY DEF TotalEarned
<1>8. deposited = SumFunction(D)
  BY DEF AccountsInv
<1>9. \A v \in Backers : F[v] = E[v] + k * D[v]
  BY <1>5
<1> HIDE DEF E, F, D
<1>10. SumFunction(F) = SumFunction(E) + k * SumFunction(D)
       /\ SumFunction(E) \in Int /\ SumFunction(F) \in Int
  BY <1>3, <1>6, <1>9, RewardAssumption, SumLinear, SumType
<1>11. k * deposited = deposited * k /\ n * Precision = Precision * n
       /\ deposited * k \in Int /\ Precision * n \in Int
  BY <1>1, <1>3
<1>12. TotalEarned' \in Int /\ TotalEarned' <= TotalEarned + Precision * n
  BY <1>3, <1>7, <1>8, <1>10, <1>11
<1>13. Rooms /\ Room(lamports) <= Room(lamports)' /\ Room(tracked) <= Room(tracked)'
  BY <1>1, <1>4, <1>12, RoomGrows
<1>14. ~raced' => Room(lamports)' >= 0
  BY <1>13 DEF AccountsInv, Rooms
<1>15. lamports' = tracked' + Reserve
  BY <1>1, <1>4, RewardAssumption DEF AccountsInv, TypeOK
<1>16. deposited' = SumFunction([v \in Backers |-> account'[v].deposit])
  BY DEF AccountsInv
<1> QED
  BY <1>5, <1>13, <1>14, <1>15, <1>16 DEF AccountsInv

\* A payment that was not disturbed takes no more than the room there is.
LEMMA PayBooks ==
  ASSUME TypeOK, TypeOK', AccountsInv, NEW c \in Calls, Pay(c), PayoutInv(c),
         job[c].kind = "withdraw", pc[c] \in PayoutCalls \/ c \in late,
         UNCHANGED <<account, deposited>>
  PROVE  AccountsInv' /\ Rooms
<1> DEFINE n == job[c].arg
<1>1. n \in Nat /\ lamports \in Nat /\ tracked \in Nat /\ Precision \in Nat
  BY RewardAssumption DEF TypeOK, Job
<1>2. /\ lamports' = lamports - n /\ tracked' = tracked - n /\ perShare' = perShare
      /\ raced' = (raced \/ c \in disturbed)
  BY DEF Pay
<1>3. ~raced' => Precision * n <= Room(lamports)
  BY <1>2 DEF PayoutInv
<1> HIDE DEF n
<1>4. TotalEarned' = TotalEarned /\ Slack' = Slack /\ TotalEarned \in Int /\ Slack \in Nat
  BY <1>2, OwedIsFloor DEF TotalEarned, Earned, Slack
<1>5. Room(lamports) = Precision * lamports + Slack - TotalEarned
      /\ Room(tracked) = Precision * tracked + Slack - TotalEarned
  BY DEF Room
<1>6. Room(lamports)' = Precision * (lamports - n) + Slack - TotalEarned
      /\ Room(tracked)' = Precision * (tracked - n) + Slack - TotalEarned
  BY <1>2, <1>4 DEF Room
<1>7. /\ Precision * (lamports - n) = Precision * lamports - Precision * n
      /\ Precision * (tracked - n) = Precision * tracked - Precision * n
      /\ Precision * lamports \in Int /\ Precision * tracked \in Int /\ Precision * n \in Int
  BY <1>1
<1>8. Rooms
  BY <1>4, <1>5, <1>6, <1>7 DEF Rooms
<1>9. ~raced' => Room(lamports)' >= 0
  BY <1>3, <1>4, <1>5, <1>6, <1>7
<1>10. lamports' = tracked' + Reserve
  BY <1>1, <1>2, RewardAssumption DEF AccountsInv
<1> QED
  BY <1>2, <1>8, <1>9, <1>10 DEF AccountsInv

-----------------------------------------------------------------------------
(* The actions keep the books *)

\* Call c alone goes to label l with job j.
Turns(c, l, j) ==
  /\ pc'[c] = l /\ job'[c] = j /\ mishaps[c] \subseteq mishaps'[c]
  /\ \A d \in Calls \ {c} : pc'[d] = pc[d] /\ job'[d] = job[d] /\ mishaps'[d] = mishaps[d]

LEMMA GoTurns ==
  ASSUME TypeOK, NEW c \in Calls, NEW l, NEW j, Go(c, l, j), UNCHANGED mishaps
  PROVE  Turns(c, l, j)
BY DEF TypeOK, Go, Turns

LEMMA SufferTurns ==
  ASSUME TypeOK, NEW c \in Calls, NEW l, NEW j, NEW w, Suffer(c, w, l, j)
  PROVE  Turns(c, l, j) /\ mishaps'[c] # {}
BY DEF TypeOK, Suffer, Go, Turns

\* What is left of a job when its state or its balance is replaced.
LEMMA JobFields ==
  ASSUME NEW j \in Job
  PROVE  /\ \A s : LET k == [j EXCEPT !.state = s]
                   IN  k.kind = j.kind /\ k.arg = j.arg /\ k.balance = j.balance /\ k.state = s
         /\ \A n : LET k == [j EXCEPT !.balance = n]
                   IN  k.kind = j.kind /\ k.arg = j.arg /\ k.balance = n /\ k.state = j.state
BY DEF Job

\* A step of one call that leaves the rewards alone: the others stay.
LEMMA QuietTurn ==
  ASSUME TypeOK, BooksInv, NEW c \in Calls, NEW l, NEW j, Turns(c, l, j),
         UNCHANGED <<account, deposited, rewardVars, raced>>,
         \A d \in Calls \ {c} : goal'[d] = goal[d] /\ (d \in late' => d \in late),
         j.kind = job[c].kind \/ job[c].kind = "none",
         disturbed \subseteq disturbed', CallInv(c)'
  PROVE  BooksInv'
<1>1. /\ AccountsInv' /\ Rooms
      /\ Room(lamports)' = Room(lamports) /\ Room(tracked)' = Room(tracked)
  BY QuietBooks DEF BooksInv
<1>2. ASSUME NEW d \in Calls, d # c
      PROVE  CallInv(d)'
  <2>1. Stays(d)
    BY <1>2 DEF Stays, Stands, Turns
  <2>2. Spares(d)
    BY <1>1 DEF Spares, Rooms, rewardVars
  <2>3. Remembers(d)
    BY <1>2 DEF Remembers, Lonely, Turns
  <2> QED
    BY <1>1, <2>1, <2>2, <2>3, StayKeepsInv DEF BooksInv
<1> QED
  BY <1>1, <1>2 DEF BooksInv

\* A call that is where nothing is known of it but that it is not refused.
LEMMA RestKeepsInv ==
  ASSUME NEW c \in Calls, goal'[c] \in Int, c \notin late',
         pc'[c] \notin {"idle"} \cup BoardCalls \cup PayoutCalls,
         pc'[c] \in {"crediting"} \cup SyncCalls => job'[c].kind # "withdraw",
         pc'[c] = "error" => mishaps'[c] # {} \/ job'[c].kind # "withdraw"
  PROVE  CallInv(c)'
<1>1. PayoutInv(c)'
  BY DEF PayoutInv, BoardCalls
<1>2. FreeInv(c)' /\ Granted(c)'
  BY DEF FreeInv, Granted, Lonely, PayoutCalls
<1> QED
  BY <1>1, <1>2 DEF CallInv

LEMMA CreditFeeBooks ==
  ASSUME TypeOK, BooksInv, NEW c \in Calls, CreditFee(c)
  PROVE  BooksInv'
<1>1. PICK n \in Fees : Go(c, "crediting", [NoJob EXCEPT !.kind = "credit", !.arg = n])
  BY DEF CreditFee
<1> DEFINE j == [NoJob EXCEPT !.kind = "credit", !.arg = n]
<1>2. j.kind = "credit"
  BY DEF NoJob
<1> HIDE DEF j
<1>3. Turns(c, "crediting", j)
  BY <1>1, GoTurns DEF CreditFee, j
<1>4. UNCHANGED <<account, deposited, rewardVars, raced, goal, late, disturbed>>
  BY DEF CreditFee, backerVars
<1>5. job[c].kind = "none" /\ c \notin late /\ goal[c] \in Int
  BY DEF BooksInv, CallInv, CreditFee
<1>6. CallInv(c)'
  <2>1. "crediting" \notin {"idle", "error"} \cup BoardCalls \cup PayoutCalls
    BY DEF BoardCalls, PayoutCalls
  <2> QED
    BY <1>2, <1>3, <1>4, <1>5, <2>1, RestKeepsInv DEF Turns
<1> QED
  BY <1>3, <1>4, <1>5, <1>6, QuietTurn

LEMMA SyncPoolStateBooks ==
  ASSUME TypeOK, BooksInv, NEW c \in Calls, SyncPoolState(c)
  PROVE  BooksInv'
<1> DEFINE j == [NoJob EXCEPT !.kind = "sync"]
<1>1. j.kind = "sync"
  BY DEF NoJob
<1>2. Go(c, "stateReading", j) /\ UNCHANGED mishaps
  BY DEF SyncPoolState
<1> HIDE DEF j
<1>3. Turns(c, "stateReading", j)
  BY <1>2, GoTurns
<1>4. UNCHANGED <<account, deposited, rewardVars, raced, goal, late, disturbed>>
  BY DEF SyncPoolState, backerVars
<1>5. job[c].kind = "none" /\ c \notin late /\ goal[c] \in Int
  BY DEF BooksInv, CallInv, SyncPoolState
<1>6. CallInv(c)'
  <2>1. "stateReading" \notin {"idle", "error"} \cup BoardCalls \cup PayoutCalls
    BY DEF BoardCalls, PayoutCalls
  <2> QED
    BY <1>1, <1>3, <1>4, <1>5, <2>1, RestKeepsInv DEF Turns
<1> QED
  BY <1>3, <1>4, <1>5, <1>6, QuietTurn

\* A withdrawal begins with what is free then.
LEMMA AdminWithdrawBooks ==
  ASSUME TypeOK, BooksInv, NEW c \in Calls, AdminWithdraw(c)
  PROVE  BooksInv'
<1>1. PICK n \in Amounts : Go(c, "pooling", [NoJob EXCEPT !.kind = "withdraw", !.arg = n])
  BY DEF AdminWithdraw
<1> DEFINE j == [NoJob EXCEPT !.kind = "withdraw", !.arg = n]
<1>2. Turns(c, "pooling", j)
  BY <1>1, GoTurns DEF AdminWithdraw
<1> HIDE DEF j
<1>3. UNCHANGED <<account, deposited, rewardVars, raced, late, disturbed>>
      /\ goal'[c] = tracked - Owed /\ \A d \in Calls \ {c} : goal'[d] = goal[d]
  BY DEF AdminWithdraw, backerVars, TypeOK
<1>4. job[c].kind = "none" /\ c \notin late
  BY DEF BooksInv, CallInv, AdminWithdraw
<1>5. /\ Rooms /\ Room(tracked)' = Room(tracked)
      /\ Room(tracked) = Precision * tracked + Slack - TotalEarned
  BY <1>3, QuietBooks, RoomType DEF BooksInv, TypeOK
<1>6. goal'[c] \in Int /\ Precision * goal'[c] <= Room(tracked)'
  <2>1. /\ Owed \in Int /\ TotalEarned \in Int /\ Slack \in Nat
        /\ TotalEarned <= Precision * Owed + Slack
    BY OwedIsFloor DEF BooksInv
  <2>2. tracked \in Nat /\ Precision \in Nat
    BY RewardAssumption DEF TypeOK
  <2>3. Precision * (tracked - Owed) = Precision * tracked - Precision * Owed
        /\ Precision * tracked \in Int /\ Precision * Owed \in Int
    BY <2>1, <2>2
  <2> QED
    BY <1>3, <1>5, <2>1, <2>2, <2>3
<1>7. CallInv(c)'
  <2>1. pc'[c] = "pooling"
    BY <1>2 DEF Turns
  <2>2. PayoutInv(c)'
    BY <1>3, <1>4, <2>1 DEF PayoutInv, PayoutCalls
  <2>3. FreeInv(c)'
    BY <1>6, <2>1 DEF FreeInv
  <2>4. Granted(c)'
    BY <2>1 DEF Granted
  <2> QED
    BY <1>3, <1>4, <1>6, <2>1, <2>2, <2>3, <2>4 DEF CallInv, SyncCalls
<1> QED
  BY <1>2, <1>3, <1>4, <1>7, QuietTurn

\* A credit: the calls stay, but for the one that comes to rest.
LEMMA CreditTurn ==
  ASSUME TypeOK, TypeOK', BooksInv, NEW c \in Calls, Credit(c),
         UNCHANGED <<account, deposited, raced>>, late' \subseteq late,
         \A d \in Calls : Stays(d) \/ CallInv(d)', \A d \in Calls : job'[d] = job[d]
  PROVE  BooksInv'
<1>1. /\ AccountsInv' /\ Rooms
      /\ Room(lamports) <= Room(lamports)' /\ Room(tracked) <= Room(tracked)'
  BY CreditBooks DEF BooksInv
<1>2. ASSUME NEW d \in Calls, Stays(d)
      PROVE  CallInv(d)'
  <2>1. pc[d] \in {"balancing", "listing"} => d \in disturbed'
    BY DEF Credit, Disturb, At
  <2>2. Spares(d)
    BY <1>1, <2>1 DEF Spares
  <2>3. Remembers(d)
    BY DEF Remembers, Lonely, Credit, Disturb
  <2> QED
    BY <1>1, <1>2, <2>2, <2>3, StayKeepsInv DEF BooksInv
<1> QED
  BY <1>1, <1>2 DEF BooksInv

LEMMA CreditFeeToPoolBooks ==
  ASSUME TypeOK, TypeOK', BooksInv, NEW c \in Calls, CreditFeeToPool(c)
  PROVE  BooksInv'
<1>1. pc[c] = "crediting" /\ job[c].kind # "withdraw" /\ c \notin late /\ goal[c] \in Int
  BY DEF CreditFeeToPool, BooksInv, CallInv
<1>2. UNCHANGED <<account, deposited, raced>>
  BY DEF CreditFeeToPool, backerVars
<1>3. {"stateReading", "error"} \cap ({"idle"} \cup BoardCalls \cup PayoutCalls) = {}
      /\ "error" \notin {"crediting"} \cup SyncCalls
  BY DEF BoardCalls, PayoutCalls, SyncCalls
<1>4. CASE /\ Credit(c) /\ Proceed(c, "stateReading")
           /\ goal' = [goal EXCEPT ![c] = perShare'] /\ UNCHANGED late
  <2>1. Turns(c, "stateReading", job[c])
    BY <1>4, GoTurns DEF Proceed
  <2>2. goal'[c] \in Int /\ \A d \in Calls \ {c} : goal'[d] = goal[d]
    BY <1>4 DEF TypeOK
  <2>3. CallInv(c)'
    BY <1>1, <1>3, <1>4, <2>1, <2>2, RestKeepsInv DEF Turns
  <2>4. \A d \in Calls : Stays(d) \/ CallInv(d)'
    BY <2>1, <2>2, <2>3 DEF Stays, Stands, Turns
  <2>5. \A d \in Calls : job'[d] = job[d]
    BY <2>1 DEF Turns
  <2> QED
    BY <1>2, <1>4, <2>4, <2>5, CreditTurn
<1>5. CASE Proceed(c, "error") /\ UNCHANGED <<rewardVars, late, goal, disturbed>>
  <2>1. Turns(c, "error", job[c])
    BY <1>5, GoTurns DEF Proceed
  <2>2. CallInv(c)'
    BY <1>1, <1>3, <1>5, <2>1, RestKeepsInv DEF Turns
  <2> QED
    BY <1>2, <1>5, <2>1, <2>2, QuietTurn
<1>6. CASE /\ Fail(c, "credit")
           /\ late' = late \cup {c} /\ UNCHANGED <<rewardVars, goal, disturbed>>
  <2>1. Turns(c, "error", job[c]) /\ mishaps'[c] # {}
    BY <1>6, SufferTurns DEF Fail
  <2>2. CallInv(c)'
    BY <1>1, <1>3, <1>6, <2>1
       DEF CallInv, Turns, PayoutInv, FreeInv, Granted, Lonely
  <2> QED
    BY <1>2, <1>6, <2>1, <2>2, QuietTurn
<1> QED
  BY <1>4, <1>5, <1>6 DEF CreditFeeToPool

\* The calls of a sync, of which nothing is known.
LEMMA SyncBooks ==
  ASSUME TypeOK, BooksInv, NEW c \in Calls, GetPoolState(c) \/ SyncPoolStateFromChain(c)
  PROVE  BooksInv'
<1>1. /\ pc[c] \in SyncCalls /\ job[c].kind # "withdraw" /\ c \notin late /\ goal[c] \in Int
      /\ job[c] \in Job
  BY DEF GetPoolState, SyncPoolStateFromChain, BooksInv, CallInv, SyncCalls, TypeOK
<1>2. UNCHANGED <<account, deposited, rewardVars, raced, late, goal, disturbed>>
  BY DEF GetPoolState, SyncPoolStateFromChain, backerVars
<1>3. {"poolWriting", "ok", "error"} \cap ({"idle"} \cup BoardCalls \cup PayoutCalls) = {}
  BY DEF BoardCalls, PayoutCalls
<1>4. ASSUME NEW l \in {"poolWriting", "ok", "error"}, NEW j, Turns(c, l, j),
             j.kind = job[c].kind
      PROVE  BooksInv'
  <2>1. CallInv(c)'
    BY <1>1, <1>2, <1>3, <1>4, RestKeepsInv DEF Turns
  <2> QED
    BY <1>2, <1>4, <2>1, QuietTurn
<1>5. \E l \in {"poolWriting", "ok", "error"} : \E s :
        \/ Turns(c, l, job[c])
        \/ Turns(c, l, [job[c] EXCEPT !.state = s])
  BY GoTurns, SufferTurns DEF GetPoolState, SyncPoolStateFromChain, Proceed, Fail
<1> QED
  BY <1>1, <1>4, <1>5, JobFields

-----------------------------------------------------------------------------
(* The withdrawal keeps the books *)

\* Fractions that flooring hides, in whole units.
LEMMA DustIsSlack ==
  ASSUME NEW n \in Int, NEW g \in Int, Precision * g <= Precision * n + Slack
  PROVE  g <= n + Dust
<1> DEFINE C == Cardinality(Backers)
<1>1. C \in Nat \ {0} /\ Precision \in Nat \ {0}
  BY RewardAssumption, FS_CardinalityType, FS_EmptySet
<1> HIDE DEF C
<1>2. Slack = C * (Precision - 1) /\ Dust = C - 1
  BY DEF Slack, Dust, C
<1>3. C * (Precision - 1) = Precision * C - C /\ Precision * C \in Int
  BY <1>1
<1>4. SUFFICES ASSUME g >= n + C PROVE FALSE
  BY <1>1, <1>2
<1>5. Precision * g >= Precision * (n + C)
  <2>1. PICK k \in Nat : g = (n + C) + k
    <3>1. g - (n + C) \in Nat /\ g = (n + C) + (g - (n + C))
      BY <1>1, <1>4
    <3> QED
      BY <3>1
  <2>2. Precision * ((n + C) + k) = Precision * (n + C) + Precision * k
    BY <1>1
  <2>3. Precision * k \in Nat /\ Precision * (n + C) \in Int
    BY <1>1
  <2> QED
    BY <2>1, <2>2, <2>3
<1>6. Precision * (n + C) = Precision * n + Precision * C /\ Precision * n \in Int
      /\ Precision * g \in Int
  BY <1>1
<1> QED
  BY <1>1, <1>2, <1>3, <1>5, <1>6

\* The only withdrawal is refused: what was free to begin with is free.
LEMMA RefusalGranted ==
  ASSUME TypeOK, NEW c \in Calls, CallInv(c), NEW b \in Int,
         Precision * goal[c] <= Precision * b + Slack, job[c].arg > b
  PROVE  job[c].arg > goal[c] - Dust
<1>1. goal[c] \in Int /\ job[c].arg \in Nat /\ Dust \in Int
  <2> Cardinality(Backers) \in Nat
    BY RewardAssumption, FS_CardinalityType
  <2> QED
    BY DEF CallInv, TypeOK, Job, Dust
<1>2. goal[c] <= b + Dust
  BY <1>1, DustIsSlack
<1> QED
  BY <1>1, <1>2

\* What the account holds covers what the program tracks.
LEMMA FreeIsCovered ==
  ASSUME TypeOK, AccountsInv, NEW g \in Int, Precision * g <= Room(tracked)
  PROVE  /\ Precision * g <= Precision * tracked + Slack
         /\ Precision * g <= Precision * lamports + Slack
         /\ Precision * g <= Room(lamports)
<1>1. /\ lamports \in Nat /\ tracked \in Nat /\ Reserve \in Nat /\ Precision \in Nat
      /\ lamports = tracked + Reserve
  BY RewardAssumption DEF TypeOK, AccountsInv
<1>2. TotalEarned \in Int /\ TotalEarned >= 0 /\ Slack \in Nat
  BY OwedIsFloor
<1>3. Room(tracked) = Precision * tracked + Slack - TotalEarned
      /\ Room(lamports) = Precision * lamports + Slack - TotalEarned
  BY DEF Room
<1>4. Precision * (tracked + Reserve) = Precision * tracked + Precision * Reserve
      /\ Precision * tracked \in Int /\ Precision * Reserve \in Nat /\ Precision * g \in Int
  BY <1>1
<1> QED
  BY <1>1, <1>2, <1>3, <1>4

\* Excess over what backers may claim is excess over what they have earned, and
\* the other way round, up to fractions.
LEMMA ExcessHasRoom ==
  ASSUME TypeOK, AccountsInv, NEW n \in Nat
  PROVE  /\ n <= lamports - Owed => Precision * n <= Room(lamports)
         /\ \A g \in Int : Precision * g <= Room(tracked)
                           => Precision * g <= Precision * (lamports - Owed) + Slack
<1>1. /\ Owed \in Int /\ TotalEarned \in Int /\ Slack \in Nat
      /\ Precision * Owed <= TotalEarned /\ TotalEarned <= Precision * Owed + Slack
  BY OwedIsFloor
<1>2. lamports \in Nat /\ Precision \in Nat /\ tracked \in Nat
  BY RewardAssumption DEF TypeOK
<1>3. Room(lamports) = Precision * lamports + Slack - TotalEarned
  BY DEF Room
<1>4. Precision * (lamports - Owed) = Precision * lamports - Precision * Owed
      /\ Precision * lamports \in Int /\ Precision * Owed \in Int
  BY <1>1, <1>2
<1>5. ASSUME n <= lamports - Owed
      PROVE  Precision * n <= Room(lamports)
  <2>1. PICK k \in Nat : lamports - Owed = n + k
    <3>1. (lamports - Owed) - n \in Nat /\ lamports - Owed = n + ((lamports - Owed) - n)
      BY <1>1, <1>2, <1>5
    <3> QED
      BY <3>1
  <2>2. Precision * (n + k) = Precision * n + Precision * k
        /\ Precision * n \in Int /\ Precision * k \in Nat
    BY <1>2
  <2> QED
    BY <1>1, <1>3, <1>4, <2>1, <2>2
<1>6. ASSUME NEW g \in Int, Precision * g <= Room(tracked)
      PROVE  Precision * g <= Precision * (lamports - Owed) + Slack
  <2>1. Precision * g <= Room(lamports)
    BY <1>6, FreeIsCovered
  <2>2. Precision * g \in Int
    BY <1>2
  <2> QED
    BY <1>1, <1>3, <1>4, <2>1, <2>2
<1> QED
  BY <1>5, <1>6

\* A quiet step of a withdrawal.
LEMMA WithdrawTurn ==
  ASSUME TypeOK, BooksInv, NEW c \in Calls, NEW l, NEW j, Turns(c, l, j),
         UNCHANGED <<backerVars, rewardVars, raced, goal>>, c \notin late, late' \subseteq late \cup {c},
         pc[c] \notin {"error", "dead"}, l \in BoardCalls \cup PayoutCalls \cup {"error"},
         c \in late' => l = "error" /\ mishaps'[c] # {}
                        /\ (j.kind = "withdraw" /\ c \notin disturbed' /\ ~raced
                              => Precision * j.arg <= Room(lamports)),
         j.kind = "withdraw", job[c].kind = "withdraw", j.arg = job[c].arg,
         disturbed \subseteq disturbed',
         c \notin disturbed' =>
           /\ l \in {"balancing", "listing"} => j.state.perShare = perShare
           /\ l = "listing" => \/ j.balance = lamports
                               \/ (j.balance = 0 /\ mishaps'[c] # {})
           /\ ~raced /\ l \in PayoutCalls => Precision * j.arg <= Room(lamports),
         Lonely(c) /\ mishaps'[c] = {} =>
           /\ l \in BoardCalls \cup PayoutCalls => Precision * goal[c] <= Room(tracked)
           /\ l = "checking" => Precision * goal[c] <= Precision * j.state.tracked + Slack
           /\ l = "error" /\ c \notin disturbed' => job[c].arg > goal[c] - Dust
  PROVE  BooksInv'
<1>1. UNCHANGED <<account, deposited, perShare, tracked, lamports, raced, goal>>
      /\ Room(lamports)' = Room(lamports) /\ Room(tracked)' = Room(tracked)
  BY QuietBooks DEF BooksInv, backerVars, rewardVars
<1>2. pc'[c] = l /\ job'[c] = j /\ (Lonely(c)' => Lonely(c))
  BY DEF Turns, Lonely
<1>3. PayoutInv(c)'
  <2> SUFFICES ASSUME c \notin disturbed'
               PROVE  /\ l \in {"balancing", "listing"} => j.state.perShare = perShare
                      /\ l = "listing" => \/ j.balance = lamports
                                          \/ (j.balance = 0 /\ mishaps'[c] # {})
                      /\ ~raced /\ (l \in PayoutCalls \/ c \in late') =>
                           Precision * j.arg <= Room(lamports)
    BY <1>1, <1>2 DEF PayoutInv
  <2> QED
    OBVIOUS
<1>4. FreeInv(c)'
  <2> SUFFICES ASSUME Lonely(c), mishaps'[c] = {}
               PROVE  /\ l \in BoardCalls \cup PayoutCalls => Precision * goal[c] <= Room(tracked)
                      /\ l = "checking" =>
                           Precision * goal[c] <= Precision * j.state.tracked + Slack
    BY <1>1, <1>2 DEF FreeInv, Slack
  <2> QED
    OBVIOUS
<1>5. Granted(c)'
  BY <1>1, <1>2 DEF Granted, Dust
<1>6. goal[c] \in Int /\ l # "idle" /\ l \notin {"crediting"} \cup SyncCalls
  BY DEF BooksInv, CallInv, BoardCalls, PayoutCalls, SyncCalls
<1>7. CallInv(c)'
  BY <1>1, <1>2, <1>3, <1>4, <1>5, <1>6 DEF CallInv
<1> QED
  BY <1>1, <1>7, QuietTurn DEF backerVars, rewardVars

\* What is known of a withdrawal.
LEMMA WithdrawFacts ==
  ASSUME TypeOK, BooksInv, NEW c \in Calls, job[c].kind = "withdraw",
         pc[c] \in BoardCalls \cup PayoutCalls
  PROVE  /\ CallInv(c) /\ PayoutInv(c) /\ AccountsInv
         /\ Lonely(c) /\ mishaps[c] = {} => Precision * goal[c] <= Room(tracked)
         /\ pc[c] \notin {"error", "dead"} /\ c \notin late
         /\ job[c] \in Job /\ job[c].arg \in Nat /\ goal[c] \in Int
BY DEF BooksInv, CallInv, FreeInv, BoardCalls, PayoutCalls, TypeOK, Job

LEMMA ReadPoolStateBooks ==
  ASSUME TypeOK, BooksInv, NEW c \in Calls, job[c].kind = "withdraw", ReadPoolState(c)
  PROVE  BooksInv'
<1>1. pc[c] = "pooling" /\ "pooling" \in BoardCalls /\ "balancing" \in BoardCalls
      /\ "tracking" \in PayoutCalls
  BY DEF ReadPoolState, BoardCalls, PayoutCalls
<1>2. UNCHANGED <<backerVars, rewardVars, late, goal, raced>> /\ disturbed \subseteq disturbed'
  BY DEF ReadPoolState, Disturb
<1>3. /\ CallInv(c) /\ PayoutInv(c) /\ AccountsInv
      /\ Lonely(c) /\ mishaps[c] = {} => Precision * goal[c] <= Room(tracked)
      /\ pc[c] \notin {"error", "dead"} /\ c \notin late
      /\ job[c] \in Job /\ job[c].arg \in Nat /\ goal[c] \in Int
  BY <1>1, WithdrawFacts
<1>4. "balancing" \notin PayoutCalls \cup {"listing", "checking", "error"}
  BY DEF PayoutCalls
<1>5. CASE Go(c, "balancing", [job[c] EXCEPT !.state = OnChain]) /\ UNCHANGED mishaps
  <2> DEFINE j == [job[c] EXCEPT !.state = OnChain]
  <2>1. Turns(c, "balancing", j)
    BY <1>5, GoTurns
  <2>2. j.kind = "withdraw" /\ j.arg = job[c].arg /\ j.state.perShare = perShare
    BY <1>3, JobFields DEF OnChain
  <2> HIDE DEF j
  <2> QED
    BY <1>1, <1>2, <1>3, <1>4, <1>5, <2>1, <2>2, WithdrawTurn
<1>6. CASE Suffer(c, "struct", "balancing", [job[c] EXCEPT !.state = Zero]) /\ Disturb({c})
  <2> DEFINE j == [job[c] EXCEPT !.state = Zero]
  <2>1. Turns(c, "balancing", j) /\ mishaps'[c] # {}
    BY <1>6, SufferTurns
  <2>2. j.kind = "withdraw" /\ j.arg = job[c].arg
    BY <1>3, JobFields
  <2>3. c \in disturbed'
    BY <1>6 DEF Disturb
  <2> HIDE DEF j
  <2> QED
    BY <1>1, <1>2, <1>3, <2>1, <2>2, <2>3, WithdrawTurn
<1>7. CASE Suffer(c, "read", Guard(c, 0, 0), job[c])
  <2> DEFINE l == Guard(c, 0, 0)
  <2>1. l \in {"tracking", "error"}
    BY DEF Guard
  <2>2. Turns(c, l, job[c]) /\ mishaps'[c] # {}
    BY <1>7, SufferTurns
  <2>3. l = "tracking" => job[c].arg = 0
    BY <1>3 DEF Guard
  <2>4. Precision * 0 = 0 /\ (~raced => 0 <= Room(lamports))
    BY <1>3, RewardAssumption, RoomType DEF AccountsInv, TypeOK
  <2>5. ~raced /\ l \in PayoutCalls => Precision * job[c].arg <= Room(lamports)
    BY <2>1, <2>3, <2>4 DEF PayoutCalls
  <2>6. l \in BoardCalls \cup PayoutCalls \cup {"error"} /\ l \notin {"balancing", "listing"}
    BY <1>1, <2>1
  <2> HIDE DEF l
  <2> QED
    BY <1>2, <1>3, <2>2, <2>5, <2>6, WithdrawTurn
<1> QED
  BY <1>5, <1>6, <1>7 DEF ReadPoolState

LEMMA ReadBalanceBooks ==
  ASSUME TypeOK, BooksInv, NEW c \in Calls, job[c].kind = "withdraw", ReadBalance(c)
  PROVE  BooksInv'
<1>1. pc[c] = "balancing" /\ "balancing" \in BoardCalls /\ "listing" \in BoardCalls
      /\ "listing" \notin PayoutCalls
  BY DEF ReadBalance, BoardCalls, PayoutCalls
<1>2. UNCHANGED <<backerVars, rewardVars, late, goal, raced, disturbed>>
  BY DEF ReadBalance
<1>3. /\ CallInv(c) /\ PayoutInv(c) /\ AccountsInv
      /\ Lonely(c) /\ mishaps[c] = {} => Precision * goal[c] <= Room(tracked)
      /\ pc[c] \notin {"error", "dead"} /\ c \notin late
      /\ job[c] \in Job /\ job[c].arg \in Nat /\ goal[c] \in Int
  BY <1>1, WithdrawFacts
<1>4. c \notin disturbed => job[c].state.perShare = perShare
  BY <1>1, <1>3 DEF PayoutInv
<1>5. ASSUME NEW j, Turns(c, "listing", j), j.kind = "withdraw", j.arg = job[c].arg,
             j.state = job[c].state,
             j.balance = lamports \/ (j.balance = 0 /\ mishaps'[c] # {})
      PROVE  BooksInv'
  <2>1. mishaps'[c] = {} => mishaps[c] = {}
    BY <1>5 DEF Turns
  <2> QED
    BY <1>1, <1>2, <1>3, <1>4, <1>5, <2>1, WithdrawTurn
<1>6. CASE Go(c, "listing", [job[c] EXCEPT !.balance = lamports]) /\ UNCHANGED mishaps
  <2> DEFINE j == [job[c] EXCEPT !.balance = lamports]
  <2>1. Turns(c, "listing", j)
    BY <1>6, GoTurns
  <2>2. j.kind = "withdraw" /\ j.arg = job[c].arg /\ j.state = job[c].state
        /\ j.balance = lamports
    BY <1>3, JobFields
  <2> HIDE DEF j
  <2> QED
    BY <1>5, <2>1, <2>2
<1>7. CASE Suffer(c, "balance", "listing", [job[c] EXCEPT !.balance = 0])
  <2> DEFINE j == [job[c] EXCEPT !.balance = 0]
  <2>1. Turns(c, "listing", j) /\ mishaps'[c] # {}
    BY <1>7, SufferTurns
  <2>2. j.kind = "withdraw" /\ j.arg = job[c].arg /\ j.state = job[c].state
        /\ j.balance = 0
    BY <1>3, JobFields
  <2> HIDE DEF j
  <2> QED
    BY <1>5, <2>1, <2>2
<1> QED
  BY <1>6, <1>7 DEF ReadBalance

\* The guard passes only what there is room for, and refuses only what was not
\* free to begin with.
LEMMA GetLeaderboardBooks ==
  ASSUME TypeOK, BooksInv, NEW c \in Calls, job[c].kind = "withdraw", GetLeaderboard(c)
  PROVE  BooksInv'
<1>1. pc[c] = "listing" /\ "listing" \in BoardCalls /\ "tracking" \in PayoutCalls
  BY DEF GetLeaderboard, BoardCalls, PayoutCalls
<1>2. UNCHANGED <<backerVars, rewardVars, late, goal, raced>> /\ disturbed \subseteq disturbed'
  BY DEF GetLeaderboard, Disturb
<1>3. /\ CallInv(c) /\ PayoutInv(c) /\ AccountsInv
      /\ Lonely(c) /\ mishaps[c] = {} => Precision * goal[c] <= Room(tracked)
      /\ pc[c] \notin {"error", "dead"} /\ c \notin late
      /\ job[c] \in Job /\ job[c].arg \in Nat /\ goal[c] \in Int
  BY <1>1, WithdrawFacts
<1>4. Owed \in Int /\ Owed >= 0 /\ lamports \in Nat
  BY <1>3, OwedIsFloor DEF TypeOK
<1>5. CASE /\ Proceed(c, Guard(c, job[c].balance, TotalClaimable(job[c].state.perShare)))
           /\ UNCHANGED disturbed
  <2> DEFINE l == Guard(c, job[c].balance, TotalClaimable(job[c].state.perShare))
  <2>1. l \in {"tracking", "error"}
    BY DEF Guard
  <2>2. Turns(c, l, job[c]) /\ mishaps' = mishaps
    BY <1>5, GoTurns DEF Proceed
  <2>3. ASSUME c \notin disturbed
        PROVE  /\ l = IF job[c].arg <= job[c].balance - Owed \/ job[c].arg = 0
                        THEN "tracking" ELSE "error"
               /\ job[c].balance = lamports \/ (job[c].balance = 0 /\ mishaps[c] # {})
    BY <1>1, <1>3, <2>3 DEF PayoutInv, Guard, Owed
  <2>4. ASSUME c \notin disturbed, ~raced, l = "tracking"
        PROVE  Precision * job[c].arg <= Room(lamports)
    <3>1. CASE job[c].arg = 0
      <4>1. Precision * 0 = 0 /\ 0 <= Room(lamports)
        BY <1>3, <2>4, RewardAssumption, RoomType DEF AccountsInv, TypeOK
      <4> QED
        BY <3>1, <4>1
    <3>2. CASE job[c].arg # 0
      <4>1. job[c].arg <= job[c].balance - Owed
        BY <2>3, <2>4, <3>2
      <4>2. job[c].arg <= lamports - Owed
        BY <1>3, <1>4, <2>3, <2>4, <3>2, <4>1
      <4> QED
        BY <1>3, <4>2, ExcessHasRoom
    <3> QED
      BY <3>1, <3>2
  <2>5. ASSUME Lonely(c), mishaps[c] = {}, c \notin disturbed, l = "error"
        PROVE  job[c].arg > goal[c] - Dust
    <3>1. ~(job[c].arg <= lamports - Owed)
      BY <2>3, <2>5
    <3>2. job[c].arg > lamports - Owed /\ lamports - Owed \in Int
      BY <1>3, <1>4, <3>1
    <3>3. Precision * goal[c] <= Precision * (lamports - Owed) + Slack
      BY <1>3, <2>5, ExcessHasRoom
    <3> QED
      BY <1>3, <3>2, <3>3, RefusalGranted
  <2>6. /\ l \in BoardCalls \cup PayoutCalls \cup {"error"} /\ l \notin {"balancing", "listing"}
        /\ (l \in PayoutCalls => l = "tracking") /\ l # "checking"
    BY <1>1, <2>1 DEF PayoutCalls
  <2> HIDE DEF l
  <2> QED
    BY <1>2, <1>3, <1>5, <2>2, <2>4, <2>5, <2>6, WithdrawTurn
<1>6. CASE Suffer(c, "list", Guard(c, job[c].balance, 0), job[c]) /\ Disturb({c})
  <2> DEFINE l == Guard(c, job[c].balance, 0)
  <2>1. l \in {"tracking", "error"}
    BY DEF Guard
  <2>2. Turns(c, l, job[c]) /\ mishaps'[c] # {}
    BY <1>6, SufferTurns
  <2>3. c \in disturbed'
    BY <1>6 DEF Disturb
  <2>4. l \in BoardCalls \cup PayoutCalls \cup {"error"}
    BY <1>1, <2>1
  <2> HIDE DEF l
  <2> QED
    BY <1>2, <1>3, <2>2, <2>3, <2>4, WithdrawTurn
<1> QED
  BY <1>5, <1>6 DEF GetLeaderboard

LEMMA ReadTrackedBooks ==
  ASSUME TypeOK, BooksInv, NEW c \in Calls, job[c].kind = "withdraw", ReadTracked(c)
  PROVE  BooksInv'
<1>1. pc[c] = "tracking" /\ {"tracking", "checking"} \subseteq PayoutCalls
      /\ "error" \notin BoardCalls \cup PayoutCalls
  BY DEF ReadTracked, PayoutCalls, BoardCalls
<1>2. UNCHANGED <<backerVars, rewardVars, late, goal, raced, disturbed>>
  BY DEF ReadTracked
<1>3. /\ CallInv(c) /\ PayoutInv(c) /\ AccountsInv
      /\ Lonely(c) /\ mishaps[c] = {} => Precision * goal[c] <= Room(tracked)
      /\ pc[c] \notin {"error", "dead"} /\ c \notin late
      /\ job[c] \in Job /\ job[c].arg \in Nat /\ goal[c] \in Int
  BY <1>1, WithdrawFacts
<1>4. ~raced /\ c \notin disturbed => Precision * job[c].arg <= Room(lamports)
  BY <1>1, <1>3 DEF PayoutInv
<1>5. CASE Go(c, "checking", [job[c] EXCEPT !.state = OnChain]) /\ UNCHANGED mishaps
  <2> DEFINE j == [job[c] EXCEPT !.state = OnChain]
  <2>1. Turns(c, "checking", j)
    BY <1>5, GoTurns
  <2>2. j.kind = "withdraw" /\ j.arg = job[c].arg /\ j.state.tracked = tracked
    BY <1>3, JobFields DEF OnChain
  <2>3. Lonely(c) /\ mishaps[c] = {} => Precision * goal[c] <= Precision * tracked + Slack
    BY <1>3, FreeIsCovered
  <2> HIDE DEF j
  <2> QED
    BY <1>1, <1>2, <1>3, <1>4, <1>5, <2>1, <2>2, <2>3, WithdrawTurn
<1>6. CASE Fail(c, "check")
  <2>1. Turns(c, "error", job[c]) /\ mishaps'[c] # {}
    BY <1>6, SufferTurns DEF Fail
  <2> QED
    BY <1>1, <1>2, <1>3, <2>1, WithdrawTurn
<1> QED
  BY <1>5, <1>6 DEF ReadTracked

LEMMA CheckBalancesBooks ==
  ASSUME TypeOK, BooksInv, NEW c \in Calls, job[c].kind = "withdraw", CheckBalances(c)
  PROVE  BooksInv'
<1>1. pc[c] = "checking" /\ {"checking", "withdrawing"} \subseteq PayoutCalls
      /\ "error" \notin BoardCalls \cup PayoutCalls
  BY DEF CheckBalances, PayoutCalls, BoardCalls
<1>2. UNCHANGED <<backerVars, rewardVars, late, goal, raced, disturbed>>
  BY DEF CheckBalances
<1>3. /\ CallInv(c) /\ PayoutInv(c) /\ AccountsInv
      /\ Lonely(c) /\ mishaps[c] = {} => Precision * goal[c] <= Room(tracked)
      /\ pc[c] \notin {"error", "dead"} /\ c \notin late
      /\ job[c] \in Job /\ job[c].arg \in Nat /\ goal[c] \in Int
  BY <1>1, WithdrawFacts
<1>4. ~raced /\ c \notin disturbed => Precision * job[c].arg <= Room(lamports)
  BY <1>1, <1>3 DEF PayoutInv
<1>5. CASE Proceed(c, "withdrawing")
  <2>1. Turns(c, "withdrawing", job[c]) /\ mishaps' = mishaps
    BY <1>5, GoTurns DEF Proceed
  <2> QED
    BY <1>1, <1>2, <1>3, <1>4, <2>1, WithdrawTurn
<1>6. CASE /\ ~(job[c].arg <= job[c].state.tracked /\ job[c].arg <= lamports)
           /\ Proceed(c, "error")
  <2>1. Turns(c, "error", job[c]) /\ mishaps' = mishaps
    BY <1>6, GoTurns DEF Proceed
  <2>2. ASSUME Lonely(c), mishaps[c] = {}
        PROVE  job[c].arg > goal[c] - Dust
    <3>1. Precision * goal[c] <= Precision * job[c].state.tracked + Slack
      BY <1>1, <2>2 DEF BooksInv, CallInv, FreeInv
    <3>2. Precision * goal[c] <= Precision * lamports + Slack
      BY <1>3, <2>2, FreeIsCovered
    <3>3. job[c].state.tracked \in Int /\ lamports \in Int
      BY DEF TypeOK, Job, State
    <3>4. job[c].arg > job[c].state.tracked \/ job[c].arg > lamports
      BY <1>3, <1>6, <3>3
    <3> QED
      BY <1>3, <3>1, <3>2, <3>3, <3>4, RefusalGranted
  <2> QED
    BY <1>1, <1>2, <1>3, <2>1, <2>2, WithdrawTurn
<1>7. CASE Fail(c, "check")
  <2>1. Turns(c, "error", job[c]) /\ mishaps'[c] # {}
    BY <1>7, SufferTurns DEF Fail
  <2> QED
    BY <1>1, <1>2, <1>3, <2>1, WithdrawTurn
<1> QED
  BY <1>5, <1>6, <1>7 DEF CheckBalances

\* A payment disturbs every other withdrawal that relies on the balance.
LEMMA PayTurn ==
  ASSUME TypeOK, TypeOK', BooksInv, NEW c \in Calls, Pay(c), job[c].kind = "withdraw",
         \/ pc[c] \in PayoutCalls /\ UNCHANGED late /\ CallInv(c)'
         \/ c \in late /\ late' = late \ {c} /\ Stays(c),
         UNCHANGED <<account, deposited>>, job' = job,
         \A d \in Calls \ {c} : Stays(d)
  PROVE  BooksInv'
<1>1. /\ CallInv(c) /\ PayoutInv(c) /\ AccountsInv
      /\ c \in late => pc[c] \notin BoardCalls \cup PayoutCalls
  BY DEF BooksInv, CallInv, BoardCalls, PayoutCalls
<1>2. AccountsInv' /\ Rooms
  BY <1>1, PayBooks
<1>3. perShare' = perShare /\ (raced => raced')
      /\ disturbed' = disturbed \cup ((At({"listing"} \cup PayoutCalls) \cup late) \ {c})
  BY DEF Pay, Disturb
<1>4. ASSUME NEW d \in Calls, d # c
      PROVE  CallInv(d)'
  <2>1. /\ ~Lonely(d)' /\ (d \in late' => d \in late)
        /\ pc[d] \in {"listing"} \cup PayoutCalls \/ d \in late => d \in disturbed'
    BY <1>3, <1>4 DEF Lonely, At
  <2>2. Spares(d) /\ Remembers(d)
    BY <1>3, <2>1 DEF Spares, Remembers
  <2> QED
    BY <1>2, <1>4, <2>2, StayKeepsInv DEF BooksInv
<1>5. CASE c \in late /\ late' = late \ {c} /\ Stays(c)
  <2>1. "listing" \in BoardCalls /\ "balancing" \in BoardCalls
    BY DEF BoardCalls
  <2>2. Spares(c)
    BY <1>1, <1>5, <2>1 DEF Spares
  <2>3. Remembers(c)
    BY <1>3, <1>5 DEF Remembers, Lonely
  <2>4. CallInv(c)'
    BY <1>1, <1>2, <1>5, <2>2, <2>3, StayKeepsInv
  <2> QED
    BY <1>2, <1>4, <2>4 DEF BooksInv
<1> QED
  BY <1>2, <1>4, <1>5 DEF BooksInv

LEMMA AdminWithdrawRewardPoolBooks ==
  ASSUME TypeOK, TypeOK', BooksInv, NEW c \in Calls, job[c].kind = "withdraw",
         AdminWithdrawRewardPool(c)
  PROVE  BooksInv'
<1>1. pc[c] = "withdrawing" /\ "withdrawing" \in PayoutCalls
      /\ {"ok", "error"} \cap ({"idle"} \cup BoardCalls \cup PayoutCalls) = {}
  BY DEF AdminWithdrawRewardPool, PayoutCalls, BoardCalls
<1>2. UNCHANGED <<backerVars, goal>>
  BY DEF AdminWithdrawRewardPool
<1>3. /\ CallInv(c) /\ PayoutInv(c) /\ AccountsInv
      /\ Lonely(c) /\ mishaps[c] = {} => Precision * goal[c] <= Room(tracked)
      /\ pc[c] \notin {"error", "dead"} /\ c \notin late
      /\ job[c] \in Job /\ job[c].arg \in Nat /\ goal[c] \in Int
  BY <1>1, WithdrawFacts
<1>4. CASE Pay(c) /\ Proceed(c, "ok") /\ UNCHANGED late
  <2>1. Turns(c, "ok", job[c])
    BY <1>4, GoTurns DEF Proceed
  <2>2. CallInv(c)'
    <3>1. pc'[c] = "ok" /\ goal'[c] \in Int /\ c \notin late'
          /\ "ok" \notin {"crediting"} \cup SyncCalls
      BY <1>2, <1>3, <1>4, <2>1 DEF Turns, SyncCalls
    <3> QED
      BY <1>1, <3>1, RestKeepsInv
  <2>3. \A d \in Calls \ {c} : Stays(d)
    BY <1>2, <2>1 DEF Turns, Stays, Stands
  <2>4. job' = job
    BY <1>4 DEF Proceed, Go, TypeOK
  <2> QED
    BY <1>1, <1>2, <1>4, <2>2, <2>3, <2>4, PayTurn DEF backerVars
<1>5. CASE /\ ~Payable(c) /\ Proceed(c, "error")
           /\ UNCHANGED <<rewardVars, late, disturbed, raced>>
  <2>1. Turns(c, "error", job[c]) /\ mishaps' = mishaps
    BY <1>5, GoTurns DEF Proceed
  <2>2. ASSUME Lonely(c), mishaps[c] = {}
        PROVE  job[c].arg > goal[c] - Dust
    <3>1. Precision * goal[c] <= Precision * tracked + Slack
          /\ Precision * goal[c] <= Precision * lamports + Slack
      BY <1>3, <2>2, FreeIsCovered
    <3>2. tracked \in Int /\ lamports \in Int
      BY DEF TypeOK
    <3>3. job[c].arg > tracked \/ job[c].arg > lamports
      BY <1>3, <1>5, <3>2 DEF Payable
    <3> QED
      BY <1>3, <3>1, <3>2, <3>3, RefusalGranted
  <2> QED
    BY <1>1, <1>2, <1>3, <1>5, <2>1, <2>2, WithdrawTurn
<1>6. CASE /\ Fail(c, "withdraw")
           /\ late' = late \cup {c} /\ UNCHANGED <<rewardVars, disturbed, raced>>
  <2>1. Turns(c, "error", job[c]) /\ mishaps'[c] # {}
    BY <1>6, SufferTurns DEF Fail
  <2>2. ~raced /\ c \notin disturbed => Precision * job[c].arg <= Room(lamports)
    BY <1>1, <1>3 DEF PayoutInv
  <2> QED
    BY <1>1, <1>2, <1>3, <1>6, <2>1, <2>2, WithdrawTurn
<1> QED
  BY <1>4, <1>5, <1>6 DEF AdminWithdrawRewardPool

-----------------------------------------------------------------------------
(* Backers, late instructions and crashes keep the books *)

\* A backer changes what is earned, and room is never lost.
LEMMA BackersBooks ==
  ASSUME TypeOK, TypeOK', BooksInv, NEW w \in Backers, ChangeDeposit(w) \/ Claim(w)
  PROVE  BooksInv'
<1>1. /\ AccountsInv' /\ Rooms
      /\ Room(lamports) <= Room(lamports)' /\ Room(tracked) <= Room(tracked)'
  BY ChangeDepositBooks, ClaimBooks DEF BooksInv
<1>2. UNCHANGED <<pc, job, late, mishaps, goal, raced, perShare>>
      /\ disturbed \subseteq disturbed'
      /\ (lamports' = lamports \/ At({"listing"}) \subseteq disturbed')
  BY DEF ChangeDeposit, Claim, callVars, rewardVars, Disturb
<1>3. ASSUME NEW d \in Calls
      PROVE  CallInv(d)'
  <2>1. Stays(d) /\ Remembers(d)
    BY <1>2 DEF Stays, Stands, Remembers, Lonely
  <2>2. Spares(d)
    BY <1>1, <1>2 DEF Spares, At
  <2> QED
    BY <1>1, <2>1, <2>2, StayKeepsInv DEF BooksInv
<1> QED
  BY <1>1, <1>3 DEF BooksInv

LEMMA LateLandingBooks ==
  ASSUME TypeOK, TypeOK', BooksInv, NEW c \in Calls, LateLanding(c)
  PROVE  BooksInv'
<1>1. /\ c \in late /\ late' = late \ {c} /\ job' = job
      /\ UNCHANGED <<account, deposited, pc, goal, mishaps>>
  BY DEF LateLanding, backerVars
<1>2. \A d \in Calls : Stays(d)
  BY <1>1 DEF Stays, Stands
<1>3. CASE job[c].kind = "credit" /\ Credit(c) /\ UNCHANGED raced
  BY <1>1, <1>2, <1>3, CreditTurn
<1>4. CASE job[c].kind = "withdraw" /\ Pay(c)
  BY <1>1, <1>2, <1>4, PayTurn
<1> QED
  BY <1>3, <1>4 DEF LateLanding

\* Nothing is known of the calls that a crash ends, but of payments that may
\* still land.
LEMMA CrashBooks ==
  ASSUME TypeOK, BooksInv, Crash
  PROVE  BooksInv'
<1>1. UNCHANGED <<account, deposited, rewardVars, raced, job, goal, disturbed>>
  BY DEF Crash, backerVars
<1>2. /\ AccountsInv' /\ Rooms
      /\ Room(lamports)' = Room(lamports) /\ Room(tracked)' = Room(tracked)
  BY <1>1, QuietBooks DEF BooksInv
<1>3. /\ "withdrawing" \in PayoutCalls /\ "dead" \notin BoardCalls \cup PayoutCalls
      /\ "dead" \notin {"idle", "error", "crediting", "balancing", "listing"} \cup SyncCalls
  BY DEF BoardCalls, PayoutCalls, SyncCalls
<1>4. {"crediting", "withdrawing"} \subseteq Active /\ {"error", "dead"} \cap Active = {}
  BY DEF Active, PayoutCalls, SyncCalls, BoardCalls
<1>5. ASSUME NEW d \in Calls
      PROVE  CallInv(d)'
  <2>1. CASE pc[d] \in Active
    <3>1. pc'[d] = "dead" /\ mishaps'[d] # {}
      BY <2>1 DEF Crash, At
    <3>2. d \in late' => pc[d] \in {"crediting", "withdrawing"}
      BY <1>4, <2>1 DEF Crash, At, BooksInv, CallInv
    <3>3. PayoutInv(d)'
      <4> SUFFICES ASSUME job[d].kind = "withdraw", d \notin disturbed, ~raced, d \in late'
                   PROVE  Precision * job[d].arg <= Room(lamports)
        BY <1>1, <1>2, <1>3, <3>1 DEF PayoutInv
      <4>1. pc[d] \in PayoutCalls
        BY <1>3, <3>2 DEF BooksInv, CallInv
      <4> QED
        BY <4>1 DEF BooksInv, CallInv, PayoutInv
    <3>4. FreeInv(d)' /\ Granted(d)'
      BY <3>1 DEF FreeInv, Granted
    <3> QED
      BY <1>1, <1>3, <3>1, <3>3, <3>4 DEF BooksInv, CallInv
  <2>2. CASE pc[d] \notin Active
    <3>1. Stays(d)
      BY <1>1, <2>2 DEF Crash, At, Stays, Stands
    <3>2. Remembers(d)
      BY <1>1, <1>4, <2>2 DEF Crash, At, Remembers, Lonely
    <3>3. Spares(d)
      BY <1>1, <1>2 DEF Spares, Rooms, rewardVars
    <3> QED
      BY <1>2, <3>1, <3>2, <3>3, StayKeepsInv DEF BooksInv
  <2> QED
    BY <2>1, <2>2
<1> QED
  BY <1>2, <1>5 DEF BooksInv

-----------------------------------------------------------------------------
(* The theorems *)

\* The invariant holds in the beginning: nothing is in flight and all is zero.
LEMMA InitInv == Init => TableInv
<1> SUFFICES ASSUME Init PROVE TableInv
  OBVIOUS
<1>1. [deposit |-> 0, debt |-> 0, pending |-> 0] \in Account /\ NoJob \in Job /\ Zero \in State
  BY DEF Account, NoJob, Job, Zero, State
<1>2. "idle" \in Label /\ "idle" \notin SyncCalls \cup BoardCalls \cup PayoutCalls
  BY DEF Label, SyncCalls, BoardCalls, PayoutCalls
<1>3. TypeOK
  <2>1. account \in [Backers -> Account] /\ pool \in State
    BY <1>1 DEF Init
  <2>2. pc \in [Calls -> Label] /\ job \in [Calls -> Job]
    BY <1>1, <1>2 DEF Init
  <2>3. DOMAIN goal = Calls /\ mishaps \in [Calls -> SUBSET Mishap]
    BY DEF Init
  <2>4. lamports \in Nat
    BY RewardAssumption DEF Init
  <2>5. raced \in BOOLEAN /\ overlapped \in BOOLEAN
    BY DEF Init
  <2>6. moves \in Nat /\ deposited \in Int /\ perShare \in Nat /\ tracked \in Nat
    BY DEF Init
  <2>7. late \subseteq Calls /\ disturbed \subseteq Calls
    BY DEF Init
  <2> QED
    BY <2>1, <2>2, <2>3, <2>4, <2>5, <2>6, <2>7 DEF TypeOK
<1>4. \A c \in Calls : pc[c] = "idle" /\ job[c].kind = "none"
  BY DEF Init, NoJob
<1>5. SyncInv
  BY <1>2, <1>4 DEF Init, SyncInv, At, Zero, SyncCalls
<1> QED
  BY <1>2, <1>3, <1>4, <1>5 DEF TableInv

\* Every step keeps the invariant.
LEMMA NextKeepsInv == TableInv /\ [Next]_vars => TableInv'
<1> SUFFICES ASSUME TableInv, [Next]_vars PROVE TableInv'
  OBVIOUS
<1>1. CASE UNCHANGED vars
  <2>1. UNCHANGED <<account, moves, deposited, perShare, tracked, lamports, pool, pc, job,
                    late, mishaps, goal, disturbed, raced, overlapped>>
    BY <1>1 DEF vars, backerVars, rewardVars, callVars
  <2> QED
    BY <2>1 DEF TableInv, TypeOK, Orderly, SyncInv, CreditInv, At
<1>2. ASSUME NEW c \in Calls, Request(c)
      PROVE  TableInv'
  BY <1>2, CreditFeeKeepsInv, SyncPoolStateKeepsInv, AdminWithdrawKeepsInv DEF Request
<1>3. ASSUME NEW c \in Calls, Step(c)
      PROVE  TableInv'
  BY <1>3, CreditFeeToPoolKeepsInv, GetPoolStateKeepsInv, SyncPoolStateFromChainKeepsInv,
     ReadPoolStateKeepsInv, ReadBalanceKeepsInv, GetLeaderboardKeepsInv,
     ReadTrackedKeepsInv, CheckBalancesKeepsInv, AdminWithdrawRewardPoolKeepsInv DEF Step
<1> QED
  BY <1>1, <1>2, <1>3, LateLandingKeepsInv, ChangeDepositKeepsInv, ClaimKeepsInv,
     CrashKeepsInv DEF Next

\* In the beginning nothing was deposited, earned or asked for.
LEMMA InitBooks == Init => BooksInv
<1> SUFFICES ASSUME Init PROVE BooksInv
  OBVIOUS
<1>1. \A w \in Backers : account[w] = [deposit |-> 0, debt |-> 0, pending |-> 0]
  BY DEF Init
<1>2. perShare = 0 /\ tracked = 0 /\ deposited = 0 /\ lamports = Reserve
      /\ late = {} /\ disturbed = {} /\ raced = FALSE
  BY DEF Init
<1>3. Precision \in Nat \ {0} /\ Reserve \in Nat /\ IsFiniteSet(Backers)
      /\ Cardinality(Backers) \in Nat
  BY RewardAssumption, FS_CardinalityType
<1>4. SumFunction([w \in Backers |-> account[w].deposit]) = 0
  <2> DEFINE D == [w \in Backers |-> account[w].deposit]
  <2>1. D \in [Backers -> Int] /\ \A w \in Backers : D[w] = 0
    BY <1>1
  <2> HIDE DEF D
  <2>2. SumFunction(D) = 0 * Cardinality(Backers)
    BY <1>3, <2>1, SumConstant
  <2>3. SumFunction(D) = 0
    BY <1>3, <2>2
  <2> QED
    BY <2>3 DEF D
<1>5. TotalEarned = 0
  <2> DEFINE E == [w \in Backers |-> Earned(account[w])]
  <2>1. E \in [Backers -> Int] /\ \A w \in Backers : E[w] = 0
    BY <1>1, <1>2, <1>3 DEF Earned
  <2> HIDE DEF E
  <2>2. SumFunction(E) = 0 * Cardinality(Backers)
    BY <1>3, <2>1, SumConstant
  <2>3. SumFunction(E) = 0
    BY <1>3, <2>2
  <2> QED
    BY <2>3 DEF E, TotalEarned
<1>6. Slack \in Nat /\ Precision * Reserve \in Nat
  <2>1. Precision - 1 \in Nat
    BY <1>3
  <2> QED
    BY <1>3, <2>1 DEF Slack
<1>7. Room(lamports) >= 0
  BY <1>2, <1>5, <1>6 DEF Room
<1>8. AccountsInv
  BY <1>1, <1>2, <1>3, <1>4, <1>7 DEF AccountsInv
<1>9. ASSUME NEW c \in Calls
      PROVE  CallInv(c)
  <2>1. pc[c] = "idle" /\ job[c].kind = "none" /\ goal[c] = 0
    BY DEF Init, NoJob
  <2> QED
    BY <1>2, <2>1 DEF CallInv, PayoutInv, FreeInv, Granted, Lonely
<1> QED
  BY <1>8, <1>9 DEF BooksInv

\* Every step keeps the books.
LEMMA NextKeepsBooks == IInv /\ TableInv' /\ [Next]_vars => BooksInv'
<1> SUFFICES ASSUME IInv, TableInv', [Next]_vars PROVE BooksInv'
  OBVIOUS
<1>1. TypeOK /\ TypeOK' /\ BooksInv
      /\ \A c \in Calls : pc[c] \in BoardCalls \cup PayoutCalls => job[c].kind = "withdraw"
  BY DEF IInv, TableInv
<1>2. CASE UNCHANGED vars
  <2>1. UNCHANGED <<account, moves, deposited, perShare, tracked, lamports, pool, pc, job,
                    late, mishaps, goal, disturbed, raced, overlapped>>
    BY <1>2 DEF vars, backerVars, rewardVars, callVars
  <2>2. /\ AccountsInv' /\ Rooms
        /\ Room(lamports)' = Room(lamports) /\ Room(tracked)' = Room(tracked)
    BY <1>1, <2>1, QuietBooks DEF BooksInv, rewardVars
  <2>3. ASSUME NEW d \in Calls
        PROVE  CallInv(d)'
    <3>1. Stays(d) /\ Remembers(d)
      BY <2>1 DEF Stays, Stands, Remembers, Lonely
    <3>2. Spares(d)
      BY <2>1, <2>2 DEF Spares, Rooms
    <3> QED
      BY <1>1, <2>2, <3>1, <3>2, StayKeepsInv DEF BooksInv
  <2> QED
    BY <2>2, <2>3 DEF BooksInv
<1>3. ASSUME NEW c \in Calls, Request(c)
      PROVE  BooksInv'
  BY <1>1, <1>3, CreditFeeBooks, SyncPoolStateBooks, AdminWithdrawBooks DEF Request
<1>4. ASSUME NEW c \in Calls, Step(c)
      PROVE  BooksInv'
  <2>1. CASE CreditFeeToPool(c) \/ GetPoolState(c) \/ SyncPoolStateFromChain(c)
    BY <1>1, <2>1, CreditFeeToPoolBooks, SyncBooks
  <2>2. CASE ReadPoolState(c) \/ ReadBalance(c) \/ GetLeaderboard(c)
    <3>1. job[c].kind = "withdraw"
      BY <1>1, <2>2 DEF ReadPoolState, ReadBalance, GetLeaderboard, BoardCalls
    <3> QED
      BY <1>1, <2>2, <3>1, ReadPoolStateBooks, ReadBalanceBooks, GetLeaderboardBooks
  <2>3. CASE ReadTracked(c) \/ CheckBalances(c) \/ AdminWithdrawRewardPool(c)
    <3>1. job[c].kind = "withdraw"
      BY <1>1, <2>3 DEF ReadTracked, CheckBalances, AdminWithdrawRewardPool, PayoutCalls
    <3> QED
      BY <1>1, <2>3, <3>1, ReadTrackedBooks, CheckBalancesBooks, AdminWithdrawRewardPoolBooks
  <2> QED
    BY <1>4, <2>1, <2>2, <2>3 DEF Step
<1> QED
  BY <1>1, <1>2, <1>3, <1>4, LateLandingBooks, BackersBooks, CrashBooks DEF Next

\* The strengthening that the other theorems rest on.
THEOREM Invariance == Spec => []IInv
<1>1. Init => IInv
  BY InitInv, InitBooks DEF IInv
<1>2. IInv /\ [Next]_vars => IInv'
  BY NextKeepsInv, NextKeepsBooks DEF IInv
<1> QED
  BY <1>1, <1>2, PTL DEF Spec

\* Backers can be paid: unless a withdrawal was paid out whose reads did not fit
\* together, the account holds what backers may claim, up to one unit for each
\* backer but one, for any number of backers, requests, claims and credits.
THEOREM BackersCovered == Spec => []ClaimsCovered
<1>1. ASSUME IInv, ~raced
      PROVE  Owed <= lamports + Dust
  <2>1. /\ Owed \in Int /\ TotalEarned \in Int /\ Slack \in Nat
        /\ Precision * Owed <= TotalEarned
    BY <1>1, OwedIsFloor DEF IInv, TableInv, BooksInv
  <2>2. lamports \in Nat /\ Precision \in Nat
    BY <1>1, RewardAssumption DEF IInv, TableInv, TypeOK
  <2>3. Precision * lamports \in Int /\ Precision * Owed \in Int
    BY <2>1, <2>2
  <2>4. Precision * lamports + Slack - TotalEarned >= 0
    BY <1>1 DEF IInv, BooksInv, AccountsInv, Room
  <2>5. Precision * Owed <= Precision * lamports + Slack
    BY <2>1, <2>3, <2>4
  <2> QED
    BY <2>1, <2>2, <2>5, DustIsSlack
<1>2. IInv => ClaimsCovered
  BY <1>1 DEF ClaimsCovered
<1> QED
  BY <1>2, Invariance, PTL

\* The only withdrawal that is asked for is refused only after a mishap, when
\* its reads did not fit together, or when it asks for more than was free.
THEOREM ExcessGranted == Spec => []ExcessIsGranted
<1>1. IInv => ExcessIsGranted
  BY DEF IInv, BooksInv, CallInv, ExcessIsGranted
<1> QED
  BY <1>1, Invariance, PTL

\* The variables keep their types: no balance and no share becomes negative,
\* whatever lands late.
THEOREM TypeCorrectness == Spec => []TypeOK
<1>1. IInv => TypeOK
  BY DEF IInv, TableInv
<1> QED
  BY <1>1, Invariance, PTL

\* A credit that is answered with success is in the pool table.
THEOREM CreditsRecorded == Spec => []CreditIsRecorded
<1>1. IInv => CreditIsRecorded
  BY DEF IInv, TableInv, CreditIsRecorded, CreditInv, TypeOK, State
<1> QED
  BY <1>1, Invariance, PTL

\* The pool table never goes back, unless two syncs overlapped or a struct
\* could not be fetched.
THEOREM TableNeverBack == Spec => TableFollowsChain
<1>1. ASSUME TableInv, [Next]_vars, Orderly
      PROVE  UNCHANGED vars \/ pool'.perShare >= pool.perShare
  <2>1. pool.perShare \in Nat /\ SyncInv
    BY <1>1 DEF TableInv, TypeOK, State
  <2>2. CASE pool' = pool
    BY <2>1, <2>2
  <2>3. ASSUME NEW c \in Calls, SyncPoolStateFromChain(c)
        PROVE  pool' = pool \/ pool'.perShare >= pool.perShare
    <3>1. pc[c] = "poolWriting" /\ (pool' = job[c].state \/ pool' = pool)
      BY <2>3 DEF SyncPoolStateFromChain
    <3>2. pool.perShare <= job[c].state.perShare /\ job[c].state.perShare \in Nat
      BY <1>1, <2>1, <3>1 DEF SyncInv, At, TableInv, TypeOK, Job, State
    <3> QED
      BY <2>1, <3>1, <3>2
  <2>4. Next => pool' = pool \/ \E c \in Calls : SyncPoolStateFromChain(c)
    BY DEF Next, Request, Step, CreditFee, SyncPoolState, AdminWithdraw, CreditFeeToPool,
       GetPoolState, ReadPoolState, ReadBalance, GetLeaderboard, ReadTracked, CheckBalances,
       AdminWithdrawRewardPool, LateLanding, ChangeDeposit, Claim, Crash
  <2> QED
    BY <1>1, <2>2, <2>3, <2>4
<1>2. IInv /\ [Next]_vars => [Orderly => pool'.perShare >= pool.perShare]_vars
  BY <1>1 DEF IInv
<1> QED
  BY <1>2, Invariance, PTL DEF Spec, TableFollowsChain
=============================================================================
