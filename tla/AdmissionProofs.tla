------------------------- MODULE AdmissionProofs -------------------------
(* What is quoted is positive, the verification of a payment is sound and  *)
(* accepts an exact one, and IInv is an invariant of Admission, whatever   *)
(* the requests, users and programs.  A step concerns one call; each part  *)
(* of IInv reads few variables, so it has a lemma of its own on the steps  *)
(* that leave those alone.                                                 *)
EXTENDS Admission, FiniteSetTheorems, SequenceTheorems, TLAPS

-----------------------------------------------------------------------------
(* Fees *)

\* A share of an amount, rounded up, is no less than the share, and positive
\* when the amount is.
LEMMA PerThousandBounds ==
  ASSUME NEW k \in {1, 5, 10}, NEW a \in Nat
  PROVE  /\ PerThousand(k, a) \in Nat
         /\ k * a <= 1000 * PerThousand(k, a)
         /\ a > 0 => PerThousand(k, a) > 0
  BY SMTT(30) DEF PerThousand

\* Every amount that is quoted is a natural number, and positive when the rent
\* is: the test of createDeployRequest for amounts of zero never refuses a
\* request that names what it was quoted.  The two pools together get the total
\* that the user is quoted.
THEOREM SharesPositive ==
  ASSUME NEW rent \in Nat
  PROVE  /\ CalculateTotalPayment(rent) \in Nat
         /\ Breakdown(rent) \in [Amounts -> Nat]
         /\ PoolShare(Breakdown(rent)) \in [Pools -> Nat]
         /\ rent > 0 => /\ \A amount \in Amounts : Breakdown(rent)[amount] > 0
                        /\ \A pool \in Pools : PoolShare(Breakdown(rent))[pool] > 0
         /\ CalculateTotalPayment(rent) =
              PoolShare(Breakdown(rent)).reward + PoolShare(Breakdown(rent)).platform
<1> DEFINE a == PerThousand(1, rent)  b == PerThousand(5, rent)  d == PerThousand(10, rent)
<1>1. /\ a \in Nat /\ b \in Nat /\ d \in Nat
      /\ rent > 0 => a > 0 /\ b > 0 /\ d > 0
  BY PerThousandBounds
<1>2. /\ CalculateTotalPayment(rent) = b + a + d * 1
      /\ Breakdown(rent) = [service |-> b, platform |-> a, monthly |-> d, months |-> 1, cost |-> rent]
      /\ PoolShare(Breakdown(rent)) = [reward |-> d * 1 + b, platform |-> a]
  BY DEF CalculateTotalPayment, Breakdown, PoolShare, CalculateServiceFee,
     CalculateDeploymentPlatformFee, CalculateMonthlyFee, InitialMonths
<1> HIDE DEF a, b, d
<1>3. \A pool \in Pools : pool = "reward" \/ pool = "platform"
  BY DEF Pools
<1>4. /\ Breakdown(rent) \in [Amounts -> Nat]
      /\ rent > 0 => \A amount \in Amounts : Breakdown(rent)[amount] > 0
  BY <1>1, <1>2 DEF Amounts
<1> QED
  BY <1>1, <1>2, <1>3, <1>4 DEF Pools

\* Whatever the size, the estimate that stands in for the cluster's answer,
\* with the reserve, is no less than the rent the cluster asks for.
THEOREM EstimateCoversRent ==
  ASSUME NEW bytes \in Nat
  PROVE  \A r \in Estimates(bytes) : r \in Nat /\ r + RentBuffer >= ClusterRent(bytes)
  BY RentBufferAssumption DEF Estimates, CalculateRentExemption, ClusterRent, EstimateGap

-----------------------------------------------------------------------------
(* Payments *)

\* The number of due recipients.
LEMMA DueBound ==
  ASSUME NEW share \in [Pools -> Int]
  PROVE  /\ Due(share) \subseteq Pools
         /\ Cardinality(Due(share)) \in Nat
         /\ Cardinality(Due(share)) <= 2
         /\ \A pool : Due(share) \subseteq {pool} => Cardinality(Due(share)) <= 1
         /\ Due(share) = {} => Cardinality(Due(share)) = 0
<1>1. Due(share) \subseteq Pools
  BY DEF Due
<1>2. IsFiniteSet(Pools) /\ Cardinality(Pools) = 2
  <2>1. Pools = {"reward"} \cup {"platform"}
    BY DEF Pools
  <2>2. IsFiniteSet({"reward"}) /\ Cardinality({"reward"}) = 1
    BY FS_Singleton
  <2>3. Cardinality({"reward"} \cup {"platform"}) = 2 /\ IsFiniteSet({"reward"} \cup {"platform"})
    BY <2>2, FS_AddElement
  <2> QED
    BY <2>1, <2>3
<1>3. ASSUME NEW pool, Due(share) \subseteq {pool} PROVE Cardinality(Due(share)) <= 1
  <2>1. IsFiniteSet({pool}) /\ Cardinality({pool}) = 1
    BY FS_Singleton
  <2> QED
    BY <1>3, <2>1, FS_Subset
<1>4. Due(share) = {} => Cardinality(Due(share)) = 0
  BY FS_EmptySet
<1> QED
  BY <1>1, <1>2, <1>3, <1>4, FS_Subset, FS_CardinalityType

\* What a request owes the pools is a pair of integers.  One that passes the
\* first test of createDeployRequest owes the reward pool something.
LEMMA ShareTypes ==
  ASSUME NEW c \in Calls, job[c] \in Job
  PROVE  /\ Share(c) \in [Pools -> Int]
         /\ Positive(c) => "reward" \in Due(Share(c))
<1> DEFINE service == job[c].fees["service"]
           monthly == job[c].fees["monthly"]
           months  == job[c].fees["months"]
<1>1. /\ service \in Int /\ monthly \in Int /\ months \in Int
      /\ job[c].fees["platform"] \in Int
  BY DEF Job, Amounts
<1>2. Share(c) = [reward |-> monthly * months + service, platform |-> job[c].fees["platform"]]
  BY DEF Share, PoolShare
<1>3. Positive(c) => service > 0 /\ monthly > 0 /\ months > 0
  BY DEF Positive
<1> HIDE DEF service, monthly, months
<1>4. monthly * months \in Int
  BY <1>1
<1>5. monthly > 0 /\ months > 0 => monthly * months > 0
  BY <1>1
<1> QED
  BY <1>1, <1>2, <1>3, <1>4, <1>5 DEF Pools, Due

\* A verified transaction holds, for each pool that is due something, a
\* transfer of the payer that is not short of it by more than the tolerance.
THEOREM VerifiedCovers ==
  ASSUME NEW c \in Calls, TypeOK, job[c].sig \in Sigs, Verified(c)
  PROVE  Settled(c)
<1> DEFINE ts == payment[job[c].sig].transfers
<1>1. job[c] \in Job /\ payment[job[c].sig] \in Payment
  BY DEF TypeOK
<1>2. ts \in Seq(Transfer) /\ Share(c) \in [Pools -> Int]
  BY <1>1, ShareTypes DEF Payment
<1>3. ASSUME NEW pool \in Due(Share(c)) PROVE Covered(c, pool)
  <2>1. Paid(ts, job[c].user, pool, Share(c)[pool])
    BY DEF Verified, VerifyMultipleTransfers
  <2>2. PICK i \in DOMAIN ts :
          /\ ts[i].from = job[c].user /\ ts[i].to = pool
          /\ Near(ts[i].amount, Share(c)[pool])
    BY <2>1 DEF Paid, IsFirst, Between
  <2> QED
    BY <2>2 DEF Covered, Near
<1> QED
  BY <1>3 DEF Settled, Verified

\* An exact payment is verified, whatever else the transaction holds.
THEOREM ExactIsVerified ==
  ASSUME NEW c \in Calls, TypeOK, job[c].sig \in Sigs, Exact(c, job[c].sig)
  PROVE  Verified(c)
<1> DEFINE ts == payment[job[c].sig].transfers
<1>1. job[c] \in Job /\ payment[job[c].sig] \in Payment
  BY DEF TypeOK
<1>2. ts \in Seq(Transfer) /\ Share(c) \in [Pools -> Int]
  BY <1>1, ShareTypes DEF Payment
<1>3. /\ Due(Share(c)) \subseteq Pools
      /\ Cardinality(Due(Share(c))) \in Nat /\ Cardinality(Due(Share(c))) <= 2
      /\ \A pool : Due(Share(c)) \subseteq {pool} => Cardinality(Due(Share(c))) <= 1
      /\ Due(Share(c)) = {} => Cardinality(Due(Share(c))) = 0
  BY <1>2, DueBound
<1>4. \A pool \in Due(Share(c)) : \E i \in DOMAIN ts :
         Between(ts, job[c].user, pool) = {i} /\ ts[i].amount = Share(c)[pool]
  BY DEF Exact
<1>5. Len(ts) \in Nat /\ DOMAIN ts = 1..Len(ts)
  BY <1>2
<1>6. ~(Len(ts) < Cardinality(Due(Share(c))))
  <2>1. CASE Due(Share(c)) = {}
    BY <1>3, <1>5, <2>1
  <2>2. CASE \E pool : Due(Share(c)) = {pool}
    <3>1. PICK pool : Due(Share(c)) = {pool}
      BY <2>2
    <3>2. Cardinality(Due(Share(c))) <= 1
      BY <1>3, <3>1
    <3>3. PICK i \in DOMAIN ts : TRUE
      BY <1>4, <3>1
    <3> QED
      BY <1>3, <1>5, <3>2, <3>3
  <2>3. CASE "reward" \in Due(Share(c)) /\ "platform" \in Due(Share(c))
    <3>1. PICK i \in DOMAIN ts : ts[i].to = "reward"
      BY <1>4, <2>3 DEF Between
    <3>2. PICK k \in DOMAIN ts : ts[k].to = "platform"
      BY <1>4, <2>3 DEF Between
    <3>3. i # k
      BY <3>1, <3>2
    <3> QED
      BY <1>3, <1>5, <3>1, <3>2, <3>3
  <2> QED
    BY <1>3, <2>1, <2>2, <2>3 DEF Pools
<1>7. ASSUME NEW pool \in Due(Share(c)) PROVE Paid(ts, job[c].user, pool, Share(c)[pool])
  <2>1. PICK i \in DOMAIN ts :
          Between(ts, job[c].user, pool) = {i} /\ ts[i].amount = Share(c)[pool]
    BY <1>4
  <2>2. i \in Int
    BY <1>2
  <2>3. IsFirst(ts, i, job[c].user, pool)
    BY <2>1, <2>2 DEF IsFirst
  <2>4. Near(ts[i].amount, Share(c)[pool])
    BY <2>1, <1>2, <1>3, ToleranceAssumption DEF Near
  <2> QED
    BY <2>3, <2>4 DEF Paid
<1> QED
  BY <1>6, <1>7 DEF Verified, VerifyMultipleTransfers, Exact

-----------------------------------------------------------------------------
(* The parts of IInv, and what a step of one call leaves of them *)

\* The parts of IInv, by the variables they are about.
Fits(c) ==
  job[c].rent > 0 /\ "dump" \notin mishaps[c] /\ c \notin grown =>
    job[c].rent >= ClusterRent(CalculateBufferAccountSize(size[job[c].program]))

QuotesHold   == \A c \in Calls : CallerInv(c) /\ QuoteInv(c) /\ Fits(c)
Admitted(c)  == row[c] # "none" /\ job[c].sig \notin Simulated => Settled(c)
PaymentsHold == \A c \in Calls : PaymentInv(c) /\ Admitted(c)
Suffices(c)  == pc[c] = "sending" /\ c \notin outspent => admin >= Needed(c)
BalancesHold == \A c \in Calls : BalanceInv(c) /\ Suffices(c)
WarningsHold == \A c \in Calls : WarningInv(c)
UpdatesHold  == (\A c \in Calls : UpdateInv(c)) /\ StatsExplained

LEMMA Parts ==
  IInv <=> TypeOK /\ QuotesHold /\ PaymentsHold /\ BalancesHold /\ WarningsHold /\ UpdatesHold
<1>1. ASSUME TypeOK, PaymentsHold, NEW c \in Calls, pc[c] \in Accepted
      PROVE  "reward" \in Due(Share(c))
  BY <1>1, ShareTypes DEF TypeOK, PaymentsHold, PaymentInv, Tested
<1>2. TypeOK /\ PaymentsHold => AdmittedIsPaid
  BY <1>1 DEF PaymentsHold, Admitted, AdmittedIsPaid
<1> QED
  BY <1>2 DEF IInv, QuotesHold, PaymentsHold, BalancesHold, WarningsHold, UpdatesHold, Fits,
     Admitted, Suffices, AdmittedIsPaid, QuoteCoversRent, BalanceSuffices

LEMMA PartsNext ==
  IInv' <=> (/\ TypeOK' /\ QuotesHold' /\ PaymentsHold'
             /\ BalancesHold' /\ WarningsHold' /\ UpdatesHold')
  BY Parts, PTL

\* A step of call c: its next label, its locals and its mishaps.
Moves(c, l, j, m) ==
  /\ pc' = [pc EXCEPT ![c] = l] /\ job' = [job EXCEPT ![c] = j]
  /\ mishaps' = [mishaps EXCEPT ![c] = m]
  /\ l \in Label /\ j \in Job /\ m \in SUBSET Mishap /\ mishaps[c] \subseteq m

LEMMA MovesEffect ==
  ASSUME TypeOK, NEW c \in Calls, NEW l, NEW j, NEW m, Moves(c, l, j, m)
  PROVE  /\ pc' \in [Calls -> Label] /\ job' \in [Calls -> Job]
         /\ mishaps' \in [Calls -> SUBSET Mishap]
         /\ pc'[c] = l /\ job'[c] = j /\ mishaps'[c] = m
         /\ l \in Label /\ j \in Job /\ mishaps[c] \subseteq m
         /\ \A d \in Calls : d # c => pc'[d] = pc[d] /\ job'[d] = job[d] /\ mishaps'[d] = mishaps[d]
  BY DEF TypeOK, Moves

LEMMA ProceedMoves ==
  ASSUME TypeOK, NEW c \in Calls, NEW l \in Label, NEW j \in Job, Proceed(c, l, j)
  PROVE  Moves(c, l, j, mishaps[c]) /\ mishaps[c] \in SUBSET Mishap
  BY DEF TypeOK, Proceed, Go, Moves

LEMMA SufferMoves ==
  ASSUME TypeOK, NEW c \in Calls, NEW l \in Label, NEW j \in Job, NEW w \in Mishap,
         Suffer(c, w, l, j)
  PROVE  Moves(c, l, j, mishaps[c] \cup {w}) /\ mishaps[c] \cup {w} \in SUBSET Mishap
<1>1. mishaps[c] \cup {w} \in SUBSET Mishap
  BY DEF TypeOK
<1> QED
  BY <1>1 DEF Suffer, Go, Moves

\* Each part survives a step of c that leaves its variables alone and keeps
\* the part of c itself.
LEMMA QuotesMove ==
  ASSUME TypeOK, QuotesHold, NEW c \in Calls, NEW l, NEW j, NEW m, Moves(c, l, j, m),
         UNCHANGED <<size, grown>>, CallerInv(c)', QuoteInv(c)', Fits(c)'
  PROVE  QuotesHold'
<1> SUFFICES ASSUME NEW d \in Calls, d # c PROVE (CallerInv(d) /\ QuoteInv(d) /\ Fits(d))'
  BY DEF QuotesHold
<1>1. pc'[d] = pc[d] /\ job'[d] = job[d] /\ mishaps'[d] = mishaps[d]
  BY MovesEffect
<1> QED
  BY <1>1 DEF QuotesHold, CallerInv, QuoteInv, Fits

LEMMA PaymentsMove ==
  ASSUME TypeOK, PaymentsHold, NEW c \in Calls, NEW l, NEW j, NEW m, Moves(c, l, j, m),
         UNCHANGED payment, \A d \in Calls : d # c => row'[d] = row[d],
         PaymentInv(c)', Admitted(c)'
  PROVE  PaymentsHold'
<1> SUFFICES ASSUME NEW d \in Calls, d # c PROVE (PaymentInv(d) /\ Admitted(d))'
  BY DEF PaymentsHold
<1>1. pc'[d] = pc[d] /\ job'[d] = job[d] /\ row'[d] = row[d]
  BY MovesEffect
<1>2. Share(d)' = Share(d)
  BY <1>1 DEF Share
<1>3. /\ Exact(d, job[d].sig)' <=> Exact(d, job[d].sig)
      /\ Settled(d)' <=> Settled(d)
  BY <1>1, <1>2 DEF Exact, Settled, Covered, Between
<1> QED
  BY <1>1, <1>3 DEF PaymentsHold, PaymentInv, Admitted, Positive

\* No request appears: what a call found remains, and suffices.
LEMMA BalanceOf ==
  ASSUME TypeOK, QuotesHold, BalancesHold, NEW d \in Calls,
         pc'[d] = pc[d], job'[d] = job[d], UNCHANGED known,
         \A q \in Programs : request'[q].status = "none" <=> request[q].status = "none",
         admin' \in Nat, admin' >= admin, d \in outspent' <=> d \in outspent
  PROVE  (BalanceInv(d) /\ Suffices(d))'
<1>1. BalanceInv(d) /\ Suffices(d)
  BY DEF BalancesHold
<1>2. CASE pc[d] \notin {"guarding", "balance", "airdropping", "sending"}
  BY <1>2 DEF BalanceInv, Suffices
<1>3. CASE pc[d] \in {"guarding", "balance", "airdropping", "sending"}
  <2>1. job[d].program \in Programs /\ job[d] \in Job /\ admin \in Nat
    BY <1>3 DEF QuotesHold, CallerInv, TypeOK
  <2>2. /\ RequestOf(d)'.status = "none" <=> RequestOf(d).status = "none"
        /\ Required(d)' = Required(d) /\ Needed(d)' = Needed(d)
    BY <2>1 DEF RequestOf, Required, Needed
  <2>3. Required(d) \in Nat /\ Needed(d) \in Nat /\ job[d].short \in Nat
    BY <2>1, AdmissionAssumption DEF Required, Needed, Job
  <2> QED
    BY <1>1, <2>1, <2>2, <2>3 DEF BalanceInv, Suffices
<1> QED
  BY <1>2, <1>3

LEMMA BalancesMove ==
  ASSUME TypeOK, QuotesHold, BalancesHold, NEW c \in Calls, NEW l, NEW j, NEW m,
         Moves(c, l, j, m), UNCHANGED known,
         \A q \in Programs : request'[q].status = "none" <=> request[q].status = "none",
         admin' \in Nat, admin' >= admin,
         \A d \in Calls : d # c => (d \in outspent' <=> d \in outspent),
         BalanceInv(c)', Suffices(c)'
  PROVE  BalancesHold'
<1>1. \A d \in Calls : d # c => pc'[d] = pc[d] /\ job'[d] = job[d]
  BY MovesEffect
<1>2. \A d \in Calls : d # c => (BalanceInv(d) /\ Suffices(d))'
  BY <1>1, BalanceOf
<1> QED
  BY <1>2 DEF BalancesHold

\* A request keeps its developer and stays held, or no warning about it stands.
LEMMA WarningOf ==
  ASSUME WarningsHold, NEW d \in Calls, pc'[d] = pc[d], job'[d] = job[d],
         d \in warned' => /\ d \in warned
                          /\ request'[job[d].program].developer = request[job[d].program].developer
                          /\ ~Released(request'[job[d].program])
  PROVE  WarningInv(d)'
  BY DEF WarningsHold, WarningInv, Mine, Released, RequestOf

LEMMA WarningsMove ==
  ASSUME TypeOK, WarningsHold, NEW c \in Calls, NEW l, NEW j, NEW m, Moves(c, l, j, m),
         UNCHANGED request,
         \A d \in Calls : d # c => (d \in warned' => d \in warned), WarningInv(c)'
  PROVE  WarningsHold'
<1>1. ASSUME NEW d \in Calls, d # c PROVE WarningInv(d)'
  <2>1. pc'[d] = pc[d] /\ job'[d] = job[d]
    BY <1>1, MovesEffect
  <2>2. d \in warned => ~Released(RequestOf(d))
    BY DEF WarningsHold, WarningInv
  <2> QED
    BY <1>1, <2>1, <2>2, WarningOf DEF RequestOf
<1> QED
  BY <1>1 DEF WarningsHold

\* The usual case: a call that has been quoted goes on with the same quote,
LEMMA QuotesStay ==
  ASSUME TypeOK, QuotesHold, NEW c \in Calls, NEW l, NEW j, NEW m, Moves(c, l, j, m),
         UNCHANGED <<size, grown>>,
         pc[c] \notin Unquoted \cup {"unquoted", "dead"},
         l \notin Unquoted \cup {"unquoted"},
         j.user = job[c].user, j.program = job[c].program, j.rent = job[c].rent
  PROVE  QuotesHold'
<1>1. pc'[c] = l /\ job'[c] = j /\ mishaps'[c] = m /\ mishaps[c] \subseteq m
  BY MovesEffect
<1>2. CallerInv(c) /\ QuoteInv(c) /\ Fits(c)
  BY DEF QuotesHold
<1>3. CallerInv(c)' /\ QuoteInv(c)'
  BY <1>1, <1>2 DEF CallerInv, QuoteInv, Unquoted
<1>4. Fits(c)'
  BY <1>1, <1>2 DEF Fits
<1> QED
  BY <1>3, <1>4, QuotesMove

\* a call that is not between its checks says nothing of the balance,
LEMMA BalancesStay ==
  ASSUME TypeOK, QuotesHold, BalancesHold, NEW c \in Calls, NEW l, NEW j, NEW m,
         Moves(c, l, j, m), UNCHANGED <<request, known, admin, outspent>>,
         l \notin {"guarding", "balance", "airdropping", "sending"}
  PROVE  BalancesHold'
<1>1. pc'[c] = l /\ admin' \in Nat /\ admin' >= admin
  BY MovesEffect DEF TypeOK
<1>2. BalanceInv(c)' /\ Suffices(c)'
  BY <1>1 DEF BalanceInv, Suffices
<1> QED
  BY <1>1, <1>2, BalancesMove

\* a warning stays where it was,
LEMMA WarningsStay ==
  ASSUME TypeOK, WarningsHold, NEW c \in Calls, NEW l, NEW j, NEW m, Moves(c, l, j, m),
         UNCHANGED <<request, warned>>,
         \/ pc[c] \notin AfterGuard
         \/ l \in AfterGuard /\ j.user = job[c].user /\ j.program = job[c].program
  PROVE  WarningsHold'
<1>1. pc'[c] = l /\ job'[c] = j
  BY MovesEffect
<1>2. WarningInv(c)'
  BY <1>1 DEF WarningsHold, WarningInv, Mine, Released, RequestOf
<1> QED
  BY <1>2, WarningsMove

\* and a call that does not update statistics disturbs none.
LEMMA UpdatesStay ==
  ASSUME TypeOK, UpdatesHold, NEW c \in Calls, NEW l, NEW j, NEW m, Moves(c, l, j, m),
         UNCHANGED <<stats, tally>>, overlapped \subseteq overlapped',
         l \notin {"statsInserting", "statsWriting"}
  PROVE  UpdatesHold'
<1>1. StatsExplained'
  BY DEF UpdatesHold, StatsExplained, AtMost
<1>2. ASSUME NEW d \in Calls PROVE UpdateInv(d)'
  <2>1. CASE d = c
    <3>1. pc'[c] = l
      BY MovesEffect
    <3> QED
      BY <2>1, <3>1 DEF UpdateInv, Updating
  <2>2. CASE d # c
    <3>1. pc'[d] = pc[d] /\ job'[d] = job[d]
      BY <2>2, MovesEffect
    <3>2. Updating(job[d].user)' \subseteq Updating(job[d].user)
      <4> SUFFICES ASSUME NEW e \in Updating(job[d].user)' PROVE e \in Updating(job[d].user)
        OBVIOUS
      <4>1. e # c /\ e \in Calls
        BY MovesEffect DEF Updating
      <4> QED
        BY <3>1, <4>1, MovesEffect DEF Updating
    <3>3. UpdateInv(d)
      BY DEF UpdatesHold
    <3> QED
      BY <3>1, <3>2, <3>3 DEF UpdateInv, AtMost
  <2> QED
    BY <2>1, <2>2
<1> QED
  BY <1>1, <1>2 DEF UpdatesHold

\* Where the amounts have not been tested, or do not matter any more.
LEMMA Untested ==
  \A l \in Unpaid \cup {"inserting", "failing", "refused", "dead", "done"} : l \notin Tested
  BY DEF Tested, Accepted, RequestCalls, StatsCalls, Unpaid, Unquoted

LEMMA PaymentsStay ==
  ASSUME TypeOK, PaymentsHold, NEW c \in Calls, NEW l, NEW j, NEW m, Moves(c, l, j, m),
         UNCHANGED payment,
         row' = row \/ \E s \in {"pending", "success", "failed"} : row' = [row EXCEPT ![c] = s],
         pc[c] \notin Unpaid \cup {"inserting", "refused", "dead"},
         l \notin Unpaid \cup {"inserting"}, l \in Tested => pc[c] \in Tested,
         j.user = job[c].user, j.rent = job[c].rent, j.fees = job[c].fees, j.sig = job[c].sig
  PROVE  PaymentsHold'
<1>1. pc'[c] = l /\ job'[c] = j
  BY MovesEffect
<1>2. PaymentInv(c) /\ Admitted(c)
  BY DEF PaymentsHold
<1>3. row'[c] # "none" /\ row[c] # "none" /\ \A d \in Calls : d # c => row'[d] = row[d]
  BY <1>2 DEF PaymentInv, TypeOK
<1>4. PaymentInv(c)'
  BY <1>1, <1>2, <1>3 DEF PaymentInv, Unpaid, Positive
<1>5. Share(c)' = Share(c)
  BY <1>1 DEF Share
<1>6. Settled(c)' <=> Settled(c)
  BY <1>1, <1>5 DEF Settled, Covered
<1>7. Admitted(c)'
  BY <1>1, <1>2, <1>3, <1>6 DEF Admitted
<1> QED
  BY <1>3, <1>4, <1>7, PaymentsMove

LEMMA PaymentsIdle ==
  ASSUME TypeOK, PaymentsHold, NEW c \in Calls, NEW l, NEW j, NEW m, Moves(c, l, j, m),
         UNCHANGED <<payment, row>>, j.tries = job[c].tries,
         pc[c] \in Unquoted, l \in Unquoted \cup {"quoted", "unquoted"}
  PROVE  PaymentsHold'
<1>1. pc'[c] = l /\ row'[c] = "none" /\ job'[c].tries = 0
  BY MovesEffect DEF PaymentsHold, PaymentInv, Unpaid
<1>2. PaymentInv(c)' /\ Admitted(c)'
  BY <1>1, Untested DEF PaymentInv, Admitted, Unpaid, Unquoted
<1> QED
  BY <1>2, PaymentsMove

\* The variables of the steps of one call that nothing else may write.
Rest == <<statsVars, size, payment, chainVars, grown, warned>>

Rows == {"none", "pending", "success", "failed"}

LEMMA TypesStay ==
  ASSUME TypeOK, NEW c \in Calls, NEW l, NEW j, NEW m, Moves(c, l, j, m),
         UNCHANGED Rest, row' \in [Calls -> Rows]
  PROVE  TypeOK'
  BY MovesEffect DEF TypeOK, Rest, Rows, statsVars, chainVars

\* What a step may do to the locals of its call.
LEMMA JobUpdates ==
  ASSUME NEW j \in Job
  PROVE  /\ \A u \in Users, p \in Programs : [j EXCEPT !.user = u, !.program = p] \in Job
         /\ \A n \in Nat : [j EXCEPT !.size = n] \in Job
         /\ \A n \in Nat : [j EXCEPT !.rent = n, !.size = 0] \in Job
         /\ \A s \in Sigs, fees \in [Amounts -> Int] : [j EXCEPT !.sig = s, !.fees = fees] \in Job
         /\ \A n \in Nat : [j EXCEPT !.tries = n] \in Job
         /\ \A b \in BOOLEAN : [j EXCEPT !.exist = b] \in Job
         /\ \A n \in Nat : [j EXCEPT !.short = n] \in Job
  BY DEF Job

LEMMA StatsUpdates ==
  ASSUME NEW j \in Job
  PROVE  /\ [j EXCEPT !.ok = TRUE] \in Job
         /\ \A s \in Stats : [j EXCEPT !.stats = s] \in Job
         /\ [j EXCEPT !.stats = NoStats] \in Job
         /\ [j EXCEPT !.stats = NoStats, !.ok = FALSE] \in Job
<1>1. NoStats \in Stats
  BY DEF NoStats, Stats
<1> HIDE DEF NoStats, Stats
<1> QED
  BY <1>1 DEF Job

\* A call whose row stands goes on with the same user, program and payment,
\* touches nothing of the others and checks nothing.
Plain(c, l, j) ==
  /\ pc[c] \in Label \ (Unpaid \cup {"inserting", "refused", "dead"})
  /\ l \in Label \ (Unpaid \cup {"inserting", "guarding", "balance", "airdropping", "sending",
                                 "statsInserting", "statsWriting"})
  /\ pc[c] \in AfterGuard => l \in AfterGuard
  /\ l \in Tested => pc[c] \in Tested
  /\ j \in Job /\ j.user = job[c].user /\ j.program = job[c].program
  /\ j.rent = job[c].rent /\ j.fees = job[c].fees /\ j.sig = job[c].sig

LEMMA PlainKeeps ==
  ASSUME IInv, NEW c \in Calls, NEW l, NEW j, NEW m, Moves(c, l, j, m), Plain(c, l, j),
         UNCHANGED Rest,
         row' = row \/ \E s \in {"pending", "success", "failed"} : row' = [row EXCEPT ![c] = s]
  PROVE  IInv'
<1>1. TypeOK /\ QuotesHold /\ PaymentsHold /\ BalancesHold /\ WarningsHold /\ UpdatesHold
  BY Parts
<1>2. /\ UNCHANGED <<stats, tally, overlapped, size, grown, payment>>
      /\ UNCHANGED <<request, known, admin, outspent, warned>>
  BY DEF Rest, statsVars, chainVars
<1>3. TypeOK'
  <2>1. row' \in [Calls -> Rows]
    BY <1>1 DEF TypeOK, Rows
  <2> QED
    BY <1>1, <2>1, TypesStay
<1>4. QuotesHold'
  BY <1>1, <1>2, QuotesStay DEF Plain, Unpaid
<1>5. PaymentsHold'
  BY <1>1, <1>2, PaymentsStay DEF Plain
<1>6. BalancesHold'
  BY <1>1, <1>2, BalancesStay DEF Plain
<1>7. WarningsHold'
  BY <1>1, <1>2, WarningsStay DEF Plain
<1>8. UpdatesHold'
  BY <1>1, <1>2, UpdatesStay DEF Plain
<1> QED
  BY <1>3, <1>4, <1>5, <1>6, <1>7, <1>8, PartsNext

-----------------------------------------------------------------------------
(* calculateCosts *)

\* A call that is being quoted has no row, no request and no statistics yet.
LEMMA QuoteKeeps ==
  ASSUME IInv, NEW c \in Calls, NEW l, NEW j, NEW m, Moves(c, l, j, m),
         pc[c] \in Unquoted, l \in Unquoted \cup {"quoted", "unquoted"}, UNCHANGED <<row, Rest>>,
         j.tries = job[c].tries, CallerInv(c)', QuoteInv(c)', Fits(c)'
  PROVE  IInv'
<1>1. TypeOK /\ QuotesHold /\ PaymentsHold /\ BalancesHold /\ WarningsHold /\ UpdatesHold
  BY Parts
<1>2. /\ UNCHANGED <<stats, tally, overlapped, size, grown, payment>>
      /\ UNCHANGED <<request, known, admin, outspent, warned>>
  BY DEF Rest, statsVars, chainVars
<1>3. TypeOK'
  BY <1>1, TypesStay DEF TypeOK, Rows
<1>4. QuotesHold'
  BY <1>1, <1>2, QuotesMove
<1>5. PaymentsHold'
  BY <1>1, <1>2, PaymentsIdle
<1>6. l \notin {"guarding", "balance", "airdropping", "sending", "statsInserting", "statsWriting"}
  BY DEF Unquoted
<1>7. BalancesHold'
  BY <1>1, <1>2, <1>6, BalancesStay
<1>8. WarningsHold'
  BY <1>1, <1>2, WarningsStay DEF Unquoted, AfterGuard
<1>9. UpdatesHold'
  BY <1>1, <1>2, <1>6, UpdatesStay
<1> QED
  BY <1>3, <1>4, <1>5, <1>7, <1>8, <1>9, PartsNext

LEMMA LabelsKnown == Active \cup Ended \cup {"idle", "quoted"} \subseteq Label
  BY DEF Label

LEMMA CalculateCostsKeeps ==
  ASSUME IInv, NEW c \in Calls, CalculateCosts(c)
  PROVE  IInv'
<1>1. TypeOK /\ job[c] \in Job /\ pc[c] = "idle" /\ QuoteInv(c)
  BY DEF IInv, TypeOK, CalculateCosts
<1>2. PICK u \in Users, p \in Programs :
        Proceed(c, "verifying", [job[c] EXCEPT !.user = u, !.program = p])
  BY DEF CalculateCosts
<1> DEFINE j == [job[c] EXCEPT !.user = u, !.program = p]
<1>3. j \in Job /\ j.user = u /\ j.program = p /\ j.rent = job[c].rent
      /\ j.tries = job[c].tries
  BY <1>1, JobUpdates DEF Job
<1>4. job[c].rent = 0
  BY <1>1 DEF QuoteInv, Unquoted
<1> HIDE DEF j
<1>5. Moves(c, "verifying", j, mishaps[c])
  BY <1>1, <1>2, <1>3, ProceedMoves DEF Label, Active, QuoteCalls, j
<1>6. pc'[c] = "verifying" /\ job'[c] = j
  BY <1>1, <1>5, MovesEffect
<1>7. CallerInv(c)' /\ QuoteInv(c)' /\ Fits(c)'
  BY <1>3, <1>4, <1>6 DEF CallerInv, QuoteInv, Fits, Unquoted
<1>8. UNCHANGED <<row, Rest>>
  BY DEF CalculateCosts, Rest
<1> QED
  BY <1>1, <1>3, <1>5, <1>7, <1>8, QuoteKeeps DEF Unquoted

LEMMA VerifyProgramKeeps ==
  ASSUME IInv, NEW c \in Calls, VerifyProgram(c)
  PROVE  IInv'
<1>1. TypeOK /\ job[c] \in Job /\ pc[c] = "verifying" /\ QuoteInv(c) /\ CallerInv(c)
  BY DEF IInv, TypeOK, VerifyProgram
<1>2. PICK l \in {"dumping", "unquoted"} : \E m : Moves(c, l, job[c], m)
  BY <1>1, ProceedMoves, SufferMoves
     DEF VerifyProgram, Label, Active, QuoteCalls, Ended, Mishap
<1>3. PICK m : Moves(c, l, job[c], m)
  BY <1>2
<1>4. pc'[c] = l /\ job'[c] = job[c]
  BY <1>1, <1>3, MovesEffect
<1>5. job[c].rent = 0
  BY <1>1 DEF QuoteInv, Unquoted
<1>6. CallerInv(c)' /\ QuoteInv(c)' /\ Fits(c)'
  BY <1>1, <1>2, <1>4, <1>5 DEF CallerInv, QuoteInv, Fits, Unquoted
<1>7. UNCHANGED <<row, Rest>>
  BY DEF VerifyProgram, Rest
<1> QED
  BY <1>1, <1>2, <1>3, <1>6, <1>7, QuoteKeeps DEF Unquoted

LEMMA DumpProgramKeeps ==
  ASSUME IInv, NEW c \in Calls, DumpProgram(c)
  PROVE  IInv'
<1>1. TypeOK /\ job[c] \in Job /\ pc[c] = "dumping" /\ QuoteInv(c) /\ CallerInv(c)
  BY DEF IInv, TypeOK, DumpProgram
<1>2. job[c].rent = 0 /\ job[c].program \in Programs
  BY <1>1 DEF QuoteInv, CallerInv, Unquoted
<1>3. size[job[c].program] \in Nat /\ AccountSize \in Nat
  BY <1>1, <1>2, AdmissionAssumption DEF TypeOK
<1>4. PICK n \in Nat, m \in SUBSET Mishap :
        /\ Moves(c, "rating", [job[c] EXCEPT !.size = n], m)
        /\ "dump" \notin m => n = size[job[c].program]
  <2>1. [job[c] EXCEPT !.size = size[job[c].program]] \in Job
        /\ [job[c] EXCEPT !.size = AccountSize] \in Job
    BY <1>1, <1>3, JobUpdates
  <2>2. "rating" \in Label /\ "dump" \in Mishap
    BY DEF Label, Active, QuoteCalls, Mishap
  <2>3. CASE Proceed(c, "rating", [job[c] EXCEPT !.size = size[job[c].program]])
    <3>1. Moves(c, "rating", [job[c] EXCEPT !.size = size[job[c].program]], mishaps[c])
        /\ mishaps[c] \in SUBSET Mishap
      BY <1>1, <2>1, <2>2, <2>3, ProceedMoves
    <3> QED
      BY <1>3, <3>1
  <2>4. CASE Suffer(c, "dump", "rating", [job[c] EXCEPT !.size = AccountSize])
    <3>1. Moves(c, "rating", [job[c] EXCEPT !.size = AccountSize], mishaps[c] \cup {"dump"})
        /\ mishaps[c] \cup {"dump"} \in SUBSET Mishap
      BY <1>1, <2>1, <2>2, <2>4, SufferMoves
    <3> QED
      BY <1>3, <3>1
  <2> QED
    BY <2>3, <2>4 DEF DumpProgram
<1> DEFINE j == [job[c] EXCEPT !.size = n]
<1>5. j.user = job[c].user /\ j.program = job[c].program /\ j.rent = 0 /\ j.size = n
      /\ j.tries = job[c].tries
  BY <1>1, <1>2 DEF Job
<1> HIDE DEF j
<1>6. Moves(c, "rating", j, m)
  BY <1>4 DEF j
<1>7. pc'[c] = "rating" /\ job'[c] = j /\ mishaps'[c] = m
  BY <1>1, <1>6, MovesEffect
<1>8. UNCHANGED <<row, Rest>> /\ UNCHANGED <<size, grown>>
  BY DEF DumpProgram, Rest
<1>9. CallerInv(c)' /\ QuoteInv(c)' /\ Fits(c)'
  BY <1>1, <1>4, <1>5, <1>7, <1>8 DEF CallerInv, QuoteInv, Fits, Unquoted
<1> QED
  BY <1>1, <1>5, <1>6, <1>8, <1>9, QuoteKeeps DEF Unquoted

\* What is quoted, asked for or estimated, covers the rent of its size.
LEMMA RateAccountKeeps ==
  ASSUME IInv, NEW c \in Calls, RateAccount(c)
  PROVE  IInv'
<1> DEFINE bytes == CalculateBufferAccountSize(job[c].size)
<1>1. TypeOK /\ job[c] \in Job /\ pc[c] = "rating" /\ QuoteInv(c) /\ CallerInv(c)
  BY DEF IInv, TypeOK, RateAccount
<1>2. job[c].size \in Nat /\ bytes \in Nat /\ RentBuffer \in Nat /\ RentBuffer > 0
  BY <1>1, RentBufferAssumption DEF Job, CalculateBufferAccountSize, EstimateGap
<1>3. ClusterRent(bytes) \in Nat
  BY <1>2 DEF ClusterRent
<1>4. PICK n \in Nat, m \in SUBSET Mishap :
        /\ Moves(c, "quoted", [job[c] EXCEPT !.rent = n, !.size = 0], m)
        /\ n > 0 /\ n >= ClusterRent(bytes)
  <2>1. "quoted" \in Label /\ "call" \in Mishap
    BY DEF Label, Mishap
  <2>2. CASE Proceed(c, "quoted", Quote(c, ClusterRent(bytes)))
    <3>1. ClusterRent(bytes) + RentBuffer \in Nat
      BY <1>2, <1>3
    <3>2. Quote(c, ClusterRent(bytes)) \in Job
      BY <1>1, <3>1, JobUpdates DEF Quote
    <3>3. Moves(c, "quoted", Quote(c, ClusterRent(bytes)), mishaps[c])
          /\ mishaps[c] \in SUBSET Mishap
      BY <1>1, <2>1, <2>2, <3>2, ProceedMoves
    <3>4. Quote(c, ClusterRent(bytes))
            = [job[c] EXCEPT !.rent = ClusterRent(bytes) + RentBuffer, !.size = 0]
      BY DEF Quote
    <3>5. ClusterRent(bytes) + RentBuffer > 0
          /\ ClusterRent(bytes) + RentBuffer >= ClusterRent(bytes)
      BY <1>2, <1>3
    <3> HIDE DEF bytes
    <3> QED
      BY <3>1, <3>3, <3>4, <3>5
  <2>3. ASSUME NEW r \in Estimates(bytes), Suffer(c, "call", "quoted", Quote(c, r))
        PROVE  \E n \in Nat, m \in SUBSET Mishap :
                 /\ Moves(c, "quoted", [job[c] EXCEPT !.rent = n, !.size = 0], m)
                 /\ n > 0 /\ n >= ClusterRent(bytes)
    <3>1. r \in Nat /\ r + RentBuffer >= ClusterRent(bytes)
      BY <1>2, EstimateCoversRent
    <3>2. r + RentBuffer \in Nat /\ r + RentBuffer > 0
      BY <1>2, <3>1
    <3>3. Quote(c, r) \in Job
      BY <1>1, <3>2, JobUpdates DEF Quote
    <3>4. Moves(c, "quoted", Quote(c, r), mishaps[c] \cup {"call"})
          /\ mishaps[c] \cup {"call"} \in SUBSET Mishap
      BY <1>1, <2>1, <2>3, <3>3, SufferMoves
    <3>5. Quote(c, r) = [job[c] EXCEPT !.rent = r + RentBuffer, !.size = 0]
      BY DEF Quote
    <3> HIDE DEF bytes
    <3> QED
      BY <3>1, <3>2, <3>4, <3>5
  <2> QED
    BY <2>2, <2>3 DEF RateAccount
<1> DEFINE j == [job[c] EXCEPT !.rent = n, !.size = 0]
<1>5. j.user = job[c].user /\ j.program = job[c].program /\ j.rent = n
      /\ j.tries = job[c].tries
  BY <1>1 DEF Job
<1> HIDE DEF j
<1>6. Moves(c, "quoted", j, m)
  BY <1>4 DEF j
<1>7. pc'[c] = "quoted" /\ job'[c] = j /\ mishaps'[c] = m /\ mishaps[c] \subseteq m
  BY <1>1, <1>6, MovesEffect
<1>8. UNCHANGED <<row, Rest>> /\ UNCHANGED <<size, grown>>
  BY DEF RateAccount, Rest
<1>9. CallerInv(c)' /\ QuoteInv(c)'
  BY <1>1, <1>4, <1>5, <1>7 DEF CallerInv, QuoteInv, Unquoted
<1>10. Fits(c)'
  <2> SUFFICES ASSUME "dump" \notin mishaps'[c], c \notin grown
               PROVE  n >= ClusterRent(CalculateBufferAccountSize(size[job[c].program]))
    BY <1>5, <1>7, <1>8 DEF Fits
  <2>1. job[c].size = size[job[c].program]
    BY <1>1, <1>7 DEF QuoteInv
  <2> QED
    BY <1>4, <2>1
<1> QED
  BY <1>1, <1>5, <1>6, <1>8, <1>9, <1>10, QuoteKeeps DEF Unquoted

-----------------------------------------------------------------------------
(* Steps of no call: upgrades, payments and the program *)

LEMMA QuotesSame ==
  ASSUME QuotesHold, UNCHANGED <<pc, job, mishaps, size, grown>>
  PROVE  QuotesHold'
  BY DEF QuotesHold, CallerInv, QuoteInv, Fits

LEMMA PaymentsSame ==
  ASSUME PaymentsHold, UNCHANGED <<pc, job, row, payment>>
  PROVE  PaymentsHold'
<1> SUFFICES ASSUME NEW d \in Calls PROVE (PaymentInv(d) /\ Admitted(d))'
  BY DEF PaymentsHold
<1>1. Share(d)' = Share(d)
  BY DEF Share
<1>2. (Exact(d, job[d].sig)' <=> Exact(d, job[d].sig)) /\ (Settled(d)' <=> Settled(d))
  BY <1>1 DEF Exact, Settled, Covered, Between
<1> QED
  BY <1>2 DEF PaymentsHold, PaymentInv, Admitted, Positive

LEMMA BalancesSame ==
  ASSUME BalancesHold, UNCHANGED <<pc, job, request, known, admin, outspent>>
  PROVE  BalancesHold'
  BY DEF BalancesHold, BalanceInv, Suffices, Required, Needed, RequestOf

LEMMA WarningsSame ==
  ASSUME WarningsHold, UNCHANGED <<pc, job, request, warned>>
  PROVE  WarningsHold'
  BY DEF WarningsHold, WarningInv, Mine, Released, RequestOf

LEMMA UpdatesSame ==
  ASSUME UpdatesHold, UNCHANGED <<pc, job, stats, tally, overlapped>>
  PROVE  UpdatesHold'
<1>1. \A u : Updating(u)' = Updating(u)
  BY DEF Updating
<1> QED
  BY <1>1 DEF UpdatesHold, UpdateInv, StatsExplained, AtMost

\* A program that grows marks the quotes it leaves behind.
LEMMA UpgradeKeeps ==
  ASSUME IInv, NEW p \in Programs, Upgrade(p)
  PROVE  IInv'
<1>1. TypeOK /\ QuotesHold /\ PaymentsHold /\ BalancesHold /\ WarningsHold /\ UpdatesHold
  BY Parts
<1>2. /\ UNCHANGED <<pc, job, mishaps, row, listed, stats, tally, overlapped, payment>>
      /\ UNCHANGED <<request, known, admin, outspent, warned>>
  BY DEF Upgrade, callVars, statsVars, chainVars
<1>3. PICK n \in Sizes : size' = [size EXCEPT ![p] = n]
  BY DEF Upgrade
<1>4. grown' = grown \cup (On(p) \ At({"verifying", "dumping"}))
  BY DEF Upgrade
<1>5. size' \in [Programs -> Sizes] /\ grown' \subseteq Calls
  BY <1>1, <1>3, <1>4 DEF TypeOK, On
<1>6. TypeOK'
  BY <1>1, <1>2, <1>5 DEF TypeOK
<1>7. QuotesHold'
  <2> SUFFICES ASSUME NEW d \in Calls PROVE (CallerInv(d) /\ QuoteInv(d) /\ Fits(d))'
    BY DEF QuotesHold
  <2>1. CallerInv(d) /\ QuoteInv(d) /\ Fits(d)
    BY <1>1 DEF QuotesHold
  <2>2. CASE pc[d] = "idle" \/ job[d].program # p
    <3>1. CASE pc[d] = "idle"
      <4>1. job[d].rent = 0
        BY <2>1, <3>1 DEF QuoteInv, Unquoted
      <4> QED
        BY <2>1, <1>2, <3>1, <4>1 DEF CallerInv, QuoteInv, Fits, Unquoted
    <3>2. CASE pc[d] # "idle" /\ job[d].program # p
      <4>1. size'[job[d].program] = size[job[d].program]
        BY <1>1, <1>3, <2>1, <3>2 DEF CallerInv, TypeOK
      <4> QED
        BY <1>2, <1>4, <2>1, <4>1 DEF CallerInv, QuoteInv, Fits
    <3> QED
      BY <2>2, <3>1, <3>2
  <2>3. CASE job[d].program = p /\ pc[d] \in {"verifying", "dumping"}
    <3>1. job[d].rent = 0
      BY <2>1, <2>3 DEF QuoteInv, Unquoted
    <3> QED
      BY <1>2, <2>1, <2>3, <3>1 DEF CallerInv, QuoteInv, Fits
  <2>4. CASE job[d].program = p /\ pc[d] \notin {"verifying", "dumping"}
    <3>1. d \in grown'
      BY <1>4, <2>4 DEF On, At
    <3> QED
      BY <1>2, <2>1, <3>1 DEF CallerInv, QuoteInv, Fits
  <2> QED
    BY <2>2, <2>3, <2>4
<1> QED
  BY <1>1, <1>2, <1>6, <1>7, PaymentsSame, BalancesSame, WarningsSame, UpdatesSame, PartsNext

\* What was verified or refused is a transaction that does not change.
LEMMA PaymentKeeps ==
  ASSUME IInv, NEW s \in Sigs, payment[s].status \in {"none", "sent"},
         NEW x \in Payment, payment' = [payment EXCEPT ![s] = x],
         UNCHANGED <<callVars, row, statsVars, size, chainVars, grown, warned>>
  PROVE  IInv'
<1>1. TypeOK /\ QuotesHold /\ PaymentsHold /\ BalancesHold /\ WarningsHold /\ UpdatesHold
  BY Parts
<1>2. /\ UNCHANGED <<pc, job, mishaps, row, listed, stats, tally, overlapped, size, grown>>
      /\ UNCHANGED <<request, known, admin, outspent, warned>>
  BY DEF callVars, statsVars, chainVars
<1>3. payment' \in [Sigs -> Payment]
  BY <1>1 DEF TypeOK
<1>4. TypeOK'
  BY <1>1, <1>2, <1>3 DEF TypeOK
<1>5. PaymentsHold'
  <2> SUFFICES ASSUME NEW d \in Calls PROVE (PaymentInv(d) /\ Admitted(d))'
    BY DEF PaymentsHold
  <2>1. PaymentInv(d) /\ Admitted(d)
    BY <1>1 DEF PaymentsHold
  <2>2. Share(d)' = Share(d)
    BY <1>2 DEF Share
  <2>3. CASE job[d].sig \in Sigs /\ job[d].sig # s
    <3>1. payment'[job[d].sig] = payment[job[d].sig]
      BY <1>1, <2>3 DEF TypeOK
    <3>2. /\ Exact(d, job[d].sig)' <=> Exact(d, job[d].sig)
          /\ Settled(d)' <=> Settled(d)
      BY <1>2, <2>2, <3>1 DEF Exact, Settled, Covered, Between
    <3> QED
      BY <1>2, <2>1, <3>1, <3>2 DEF PaymentInv, Admitted, Positive
  <2>4. CASE job[d].sig = s
    <3>1. ~Settled(d)
      BY <2>4 DEF Settled
    <3>2. pc[d] = "inserting" => s \in Simulated
      BY <2>1, <2>4, <3>1 DEF PaymentInv
    <3>3. row[d] # "none" => s \in Simulated
      BY <2>1, <2>4, <3>1 DEF Admitted
    <3>4. ~(pc[d] = "unpaid" /\ job[d].tries # MaxTries)
      BY <2>1, <2>4 DEF PaymentInv
    <3> QED
      BY <1>2, <2>1, <2>4, <3>2, <3>3, <3>4 DEF PaymentInv, Admitted, Positive
  <2>5. CASE job[d].sig \notin Sigs
    <3>1. row[d] = "none" /\ pc[d] \notin {"fetching", "unpaid", "inserting"}
      BY <2>1, <2>5 DEF PaymentInv
    <3> QED
      BY <1>2, <2>1, <3>1 DEF PaymentInv, Admitted, Positive
  <2> QED
    BY <2>3, <2>4, <2>5
<1> QED
  BY <1>1, <1>2, <1>4, <1>5, QuotesSame, BalancesSame, WarningsSame, UpdatesSame, PartsNext

LEMMA PayKeeps ==
  ASSUME IInv, NEW c \in Calls, NEW s \in Sigs, Pay(c, s)
  PROVE  IInv'
<1>1. TypeOK /\ job[c] \in Job
  BY DEF IInv, TypeOK
<1>2. job[c].rent \in Nat /\ job[c].user \in Users \cup {None}
  BY <1>1 DEF Job
<1> DEFINE share == PoolShare(Breakdown(job[c].rent))
<1>3. share \in [Pools -> Nat]
  BY <1>2, SharesPositive
<1>4. PICK form \in Forms :
        payment' = [payment EXCEPT ![s] = [status |-> "sent", transfers |-> Transfers(c, form)]]
  BY DEF Pay
<1>5. form \in Seq([own : BOOLEAN, pool : Pools, delta : Int])
  BY AdmissionAssumption
<1>6. DOMAIN form = 1..Len(form) /\ Len(form) \in Nat
  BY <1>5
<1>7. ASSUME NEW i \in 1..Len(form) PROVE Transfers(c, form)[i] \in Transfer
  <2>1. form[i].pool \in Pools /\ form[i].delta \in Int
    <3>1. form[i] \in [own : BOOLEAN, pool : Pools, delta : Int]
      BY <1>5, ElementOfSeq
    <3> QED
      BY <3>1
  <2>2. share[form[i].pool] + form[i].delta \in Int
    BY <1>3, <2>1
  <2> QED
    BY <1>2, <1>6, <2>1, <2>2 DEF Transfers, Transfer
<1>8. Transfers(c, form) \in Seq(Transfer)
  <2>1. Transfers(c, form) \in [1..Len(form) -> Transfer]
    BY <1>6, <1>7 DEF Transfers
  <2> QED
    BY <1>6, <2>1
<1>9. [status |-> "sent", transfers |-> Transfers(c, form)] \in Payment
  BY <1>8 DEF Payment
<1>10. UNCHANGED <<callVars, row, statsVars, size, chainVars, grown, warned>>
  BY DEF Pay
<1> QED
  BY <1>4, <1>9, <1>10, PaymentKeeps DEF Pay

LEMMA LandKeeps ==
  ASSUME IInv, NEW s \in Sigs, Land(s)
  PROVE  IInv'
<1>1. TypeOK /\ payment[s] \in Payment
  BY DEF IInv, TypeOK
<1>2. PICK r \in {"confirmed", "failed"} : payment' = [payment EXCEPT ![s].status = r]
  BY DEF Land
<1>3. [payment[s] EXCEPT !.status = r] \in Payment
  BY <1>1 DEF Payment
<1>4. payment' = [payment EXCEPT ![s] = [payment[s] EXCEPT !.status = r]]
  BY <1>2
<1>5. UNCHANGED <<callVars, row, statsVars, size, chainVars, grown, warned>>
  BY DEF Land
<1> QED
  BY <1>3, <1>4, <1>5, PaymentKeeps DEF Land

-----------------------------------------------------------------------------
(* executeDeploy, up to the row *)

LEMMA PayingKeeps ==
  ASSUME IInv, NEW c \in Calls, NEW l, NEW j, NEW m, Moves(c, l, j, m),
         pc[c] \in {"quoted", "fetching", "inserting"},
         l \in {"fetching", "unpaid", "inserting", "treasury", "failing", "refused"},
         j.user = job[c].user, j.program = job[c].program, j.rent = job[c].rent,
         UNCHANGED Rest, row' = row \/ row' = [row EXCEPT ![c] = "pending"],
         PaymentInv(c)', Admitted(c)'
  PROVE  IInv'
<1>1. TypeOK /\ QuotesHold /\ PaymentsHold /\ BalancesHold /\ WarningsHold /\ UpdatesHold
  BY Parts
<1>2. /\ UNCHANGED <<stats, tally, overlapped, size, grown, payment>>
      /\ UNCHANGED <<request, known, admin, outspent, warned>>
  BY DEF Rest, statsVars, chainVars
<1>3. row' \in [Calls -> Rows] /\ \A d \in Calls : d # c => row'[d] = row[d]
  BY <1>1 DEF TypeOK, Rows
<1>4. TypeOK'
  BY <1>1, <1>3, TypesStay
<1>5. QuotesHold'
  BY <1>1, <1>2, QuotesStay DEF Unquoted
<1>6. PaymentsHold'
  BY <1>1, <1>2, <1>3, PaymentsMove
<1>7. BalancesHold'
  BY <1>1, <1>2, BalancesStay
<1>8. WarningsHold'
  BY <1>1, <1>2, WarningsStay DEF AfterGuard
<1>9. UpdatesHold'
  BY <1>1, <1>2, UpdatesStay
<1> QED
  BY <1>4, <1>5, <1>6, <1>7, <1>8, <1>9, PartsNext

LEMMA ExecuteDeployKeeps ==
  ASSUME IInv, NEW c \in Calls, ExecuteDeploy(c)
  PROVE  IInv'
<1>1. TypeOK /\ job[c] \in Job /\ pc[c] = "quoted" /\ PaymentInv(c)
  BY DEF IInv, TypeOK, ExecuteDeploy
<1>2. row[c] = "none" /\ job[c].tries = 0
  BY <1>1 DEF PaymentInv, Unpaid
<1>3. PICK s \in Sigs, body \in Bodies :
        Proceed(c, IF s \in Simulated THEN "inserting" ELSE "fetching",
                [job[c] EXCEPT !.sig = s, !.fees = Named(c, body)])
  BY DEF ExecuteDeploy
<1>4. Named(c, body) \in [Amounts -> Int]
  <2>1. body \in [Amounts -> [quoted : BOOLEAN, delta : Int]] /\ job[c].rent \in Nat
    BY <1>1, AdmissionAssumption DEF Job
  <2>2. Breakdown(job[c].rent) \in [Amounts -> Nat]
    BY <2>1, SharesPositive
  <2>3. ASSUME NEW a \in Amounts
        PROVE  body[a].delta + (IF body[a].quoted THEN Breakdown(job[c].rent)[a] ELSE 0) \in Int
    <3>1. body[a].delta \in Int /\ Breakdown(job[c].rent)[a] \in Int
      BY <2>1, <2>2
    <3> QED
      BY <3>1
  <2> QED
    BY <2>3 DEF Named
<1> DEFINE l == IF s \in Simulated THEN "inserting" ELSE "fetching"
           j == [job[c] EXCEPT !.sig = s, !.fees = Named(c, body)]
<1>5. /\ j \in Job /\ j.user = job[c].user /\ j.program = job[c].program
      /\ j.rent = job[c].rent /\ j.tries = 0 /\ j.sig = s
  <2> DEFINE fees == Named(c, body)
  <2> HIDE DEF fees
  <2>1. [job[c] EXCEPT !.sig = s, !.fees = fees] \in Job
    BY <1>1, <1>4, JobUpdates DEF fees
  <2>2. j = [job[c] EXCEPT !.sig = s, !.fees = fees]
    BY DEF fees
  <2> QED
    BY <1>1, <1>2, <2>1, <2>2 DEF Job
<1>6. l \in {"inserting", "fetching"} /\ l \in Label /\ (l = "inserting" => s \in Simulated)
  BY DEF Label, Active
<1>7. Proceed(c, l, j)
  BY <1>3
<1> HIDE DEF l, j
<1>8. Moves(c, l, j, mishaps[c])
  BY <1>1, <1>5, <1>6, <1>7, ProceedMoves
<1>9. pc'[c] = l /\ job'[c] = j
  BY <1>1, <1>8, MovesEffect
<1>10. UNCHANGED row /\ UNCHANGED Rest
  BY DEF ExecuteDeploy, Rest
<1>11. 0 < MaxTries
  BY AdmissionAssumption
<1>12. PaymentInv(c)' /\ Admitted(c)'
  BY <1>2, <1>5, <1>6, <1>9, <1>10, <1>11, Untested DEF PaymentInv, Admitted, Unpaid, Unquoted
<1> QED
  BY <1>1, <1>5, <1>6, <1>8, <1>10, <1>12, PayingKeeps

\* Another try, unless it was the last.
LEMMA RetryKeeps ==
  ASSUME IInv, NEW c \in Calls, pc[c] = "fetching", Retry(c), UNCHANGED <<row, Rest>>
  PROVE  IInv'
<1>1. TypeOK /\ job[c] \in Job /\ PaymentInv(c)
  BY DEF IInv, TypeOK
<1>2. row[c] = "none" /\ job[c].sig \in Sigs /\ job[c].tries < MaxTries
  BY <1>1 DEF PaymentInv, Unpaid
<1> DEFINE n == job[c].tries + 1
           j == [job[c] EXCEPT !.tries = n]
           l == IF n < MaxTries THEN "fetching" ELSE "unpaid"
<1>3. n \in Nat /\ (n < MaxTries \/ n = MaxTries)
  BY <1>1, <1>2, AdmissionAssumption DEF Job
<1>4. /\ j \in Job /\ j.user = job[c].user /\ j.program = job[c].program
      /\ j.rent = job[c].rent /\ j.fees = job[c].fees /\ j.tries = n /\ j.sig = job[c].sig
  BY <1>1, <1>3, JobUpdates DEF Job
<1>5. Proceed(c, l, j) \/ Suffer(c, "call", l, j)
  BY <1>4 DEF Retry
<1>6. l \in {"fetching", "unpaid"} /\ l \in Label /\ "call" \in Mishap
      /\ (l = "fetching" => n < MaxTries) /\ (l = "unpaid" => n = MaxTries)
  BY <1>3 DEF Label, Active, Ended, Mishap
<1> HIDE DEF l, j, n
<1>7. PICK m : Moves(c, l, j, m)
  BY <1>1, <1>4, <1>5, <1>6, ProceedMoves, SufferMoves
<1>8. pc'[c] = l /\ job'[c] = j
  BY <1>1, <1>7, MovesEffect
<1>9. PaymentInv(c)' /\ Admitted(c)'
  BY <1>2, <1>4, <1>6, <1>8, Untested DEF PaymentInv, Admitted, Unpaid, Unquoted
<1> QED
  BY <1>4, <1>6, <1>7, <1>9, PayingKeeps

\* What is verified covers the fees; what is refused was not exact.
LEMMA VerifyPaymentKeeps ==
  ASSUME IInv, NEW c \in Calls, VerifyPayment(c)
  PROVE  IInv'
<1>1. TypeOK /\ job[c] \in Job /\ pc[c] = "fetching" /\ PaymentInv(c) /\ QuoteInv(c)
  BY DEF IInv, TypeOK, VerifyPayment
<1>2. row[c] = "none" /\ job[c].sig \in Sigs
  BY <1>1 DEF PaymentInv, Unpaid
<1>3. job[c].rent > 0
  BY <1>1 DEF QuoteInv, Unquoted
<1>4. UNCHANGED row /\ UNCHANGED Rest /\ UNCHANGED payment
  BY DEF VerifyPayment, Rest
<1>5. CASE Verified(c) /\ Proceed(c, "inserting", [job[c] EXCEPT !.tries = 0])
  <2> DEFINE j == [job[c] EXCEPT !.tries = 0]
  <2>1. /\ j \in Job /\ j.user = job[c].user /\ j.program = job[c].program
        /\ j.rent = job[c].rent /\ j.fees = job[c].fees /\ j.sig = job[c].sig
    BY <1>1, JobUpdates DEF Job
  <2> HIDE DEF j
  <2>2. Moves(c, "inserting", j, mishaps[c])
    BY <1>1, <1>5, <2>1, ProceedMoves DEF j, Label, Active
  <2>3. pc'[c] = "inserting" /\ job'[c] = j
    BY <1>1, <2>2, MovesEffect
  <2>4. Settled(c)
    BY <1>1, <1>2, <1>3, <1>5, VerifiedCovers
  <2>5. Share(c)' = Share(c)
    BY <2>1, <2>3 DEF Share
  <2>6. Settled(c)'
    BY <1>4, <2>1, <2>3, <2>4, <2>5 DEF Settled, Covered
  <2>7. PaymentInv(c)' /\ Admitted(c)'
    BY <1>2, <1>4, <2>1, <2>3, <2>6, Untested DEF PaymentInv, Admitted, Unpaid, Unquoted
  <2> QED
    BY <1>1, <1>4, <2>1, <2>2, <2>7, PayingKeeps
<1>6. CASE /\ payment[job[c].sig].status \in {"confirmed", "failed"}
           /\ ~Verified(c) /\ Proceed(c, "unpaid", job[c])
  <2>1. Moves(c, "unpaid", job[c], mishaps[c])
    BY <1>1, <1>6, ProceedMoves DEF Label, Ended
  <2>2. pc'[c] = "unpaid" /\ job'[c] = job[c]
    BY <1>1, <2>1, MovesEffect
  <2>3. ~Exact(c, job[c].sig)
    BY <1>1, <1>2, <1>6, ExactIsVerified
  <2>4. Share(c)' = Share(c)
    BY <2>2 DEF Share
  <2>5. ~Exact(c, job[c].sig)'
    BY <1>4, <2>2, <2>3, <2>4 DEF Exact, Between
  <2>6. PaymentInv(c)' /\ Admitted(c)'
    BY <1>2, <1>4, <1>6, <2>2, <2>5, Untested DEF PaymentInv, Admitted, Unpaid, Unquoted
  <2> QED
    BY <1>1, <1>4, <2>1, <2>6, PayingKeeps
<1> QED
  BY <1>1, <1>4, <1>5, <1>6, RetryKeeps DEF VerifyPayment

\* The row is inserted for what was verified.
LEMMA CreateDeploymentKeeps ==
  ASSUME IInv, NEW c \in Calls, CreateDeployment(c)
  PROVE  IInv'
<1>1. TypeOK /\ job[c] \in Job /\ pc[c] = "inserting" /\ PaymentInv(c) /\ Admitted(c)
  BY Parts DEF PaymentsHold, TypeOK, CreateDeployment
<1>2. job[c].sig \in Sigs /\ (job[c].sig \notin Simulated => Settled(c))
  BY <1>1 DEF PaymentInv
<1>3. UNCHANGED Rest /\ UNCHANGED payment
  BY DEF CreateDeployment, Rest
<1>4. PICK l \in {"treasury", "failing", "refused"}, m \in SUBSET Mishap :
        /\ Moves(c, l, job[c], m)
        /\ l = "treasury" => Positive(c)
        /\ \/ row' = [row EXCEPT ![c] = "pending"]
           \/ row' = row /\ l = "refused"
  BY <1>1, ProceedMoves, SufferMoves
     DEF CreateDeployment, SetRow, Label, Active, RequestCalls, Ended, Mishap
<1>5. pc'[c] = l /\ job'[c] = job[c]
  BY <1>1, <1>4, MovesEffect
<1>6. Share(c)' = Share(c)
  BY <1>5 DEF Share
<1>7. Settled(c)' <=> Settled(c)
  BY <1>3, <1>5, <1>6 DEF Settled, Covered
<1>8. row'[c] = "pending" \/ l = "refused"
  BY <1>1, <1>4 DEF TypeOK
<1>9. PaymentInv(c)' /\ Admitted(c)'
  BY <1>2, <1>4, <1>5, <1>7, <1>8, Untested DEF PaymentInv, Admitted, Unpaid, Unquoted, Positive
<1> QED
  BY <1>1, <1>3, <1>4, <1>9, PayingKeeps

-----------------------------------------------------------------------------
(* createDeployRequest *)

\* Some steps of a call whose row stands only fail, record, or look.
LEMMA PlainRequestKeeps ==
  ASSUME IInv, NEW c \in Calls, FetchTreasury(c) \/ RecordRequest(c) \/ FailRequest(c)
  PROVE  IInv'
<1>1. TypeOK /\ job[c] \in Job /\ pc[c] \in {"treasury", "recording", "failing"}
  BY DEF IInv, TypeOK, FetchTreasury, RecordRequest, FailRequest
<1>2. UNCHANGED Rest
  BY DEF FetchTreasury, RecordRequest, FailRequest, Rest
<1>3. /\ {"existence", "failing", "running", "refused"} \subseteq Label
      /\ "call" \in Mishap
  BY DEF Label, Active, RequestCalls, Ended, Mishap
<1>4. PICK l \in {"existence", "failing", "running", "refused"}, m \in SUBSET Mishap :
        /\ Moves(c, l, job[c], m)
        /\ row' \in {row, [row EXCEPT ![c] = "failed"]}
        /\ pc[c] = "failing" => l = "refused"
  <2>1. CASE FetchTreasury(c)
    <3>1. PICK l \in {"existence", "failing"} :
            Proceed(c, l, job[c]) \/ Suffer(c, "call", l, job[c])
      BY <2>1 DEF FetchTreasury
    <3>2. pc[c] # "failing" /\ row' = row
      BY <2>1 DEF FetchTreasury
    <3>3. \E m \in SUBSET Mishap : Moves(c, l, job[c], m)
      BY <1>1, <1>3, <3>1, ProceedMoves, SufferMoves
    <3>4. l \in {"existence", "failing", "running", "refused"}
      BY <3>1
    <3> QED
      BY <3>2, <3>3, <3>4
  <2>2. CASE RecordRequest(c)
    <3>1. pc[c] # "failing" /\ row' = row
      BY <2>2 DEF RecordRequest
    <3> QED
      BY <1>1, <1>3, <2>2, <3>1, ProceedMoves, SufferMoves DEF RecordRequest
  <2>3. CASE FailRequest(c)
    BY <1>1, <1>3, <2>3, ProceedMoves, SufferMoves DEF FailRequest, SetRow
  <2> QED
    BY <2>1, <2>2, <2>3
<1>5. Plain(c, l, job[c])
  BY <1>1, <1>3, <1>4, Untested DEF Plain, Tested, Accepted, Label, Active, RequestCalls, AfterGuard, Unpaid, Unquoted
<1> QED
  BY <1>2, <1>4, <1>5, PlainKeeps

\* The others change neither the row nor what was quoted and paid.
LEMMA RequestKeeps ==
  ASSUME IInv, NEW c \in Calls, NEW l, NEW j, NEW m, Moves(c, l, j, m),
         pc[c] \in {"existence", "guarding", "balance", "airdropping", "sending", "running",
                    "deploying"},
         l \in {"guarding", "balance", "airdropping", "sending", "failing", "recording",
                "deploying", "marking", "statsReading"},
         j.user = job[c].user, j.program = job[c].program, j.rent = job[c].rent, j.fees = job[c].fees,
         j.sig = job[c].sig, UNCHANGED <<row, statsVars, size, payment, grown>>,
         request' \in [Programs -> Request], known' \subseteq Users, admin' \in Nat,
         outspent' \subseteq Calls, warned' \subseteq Calls, BalancesHold', WarningsHold'
  PROVE  IInv'
<1>1. TypeOK /\ QuotesHold /\ PaymentsHold /\ UpdatesHold
  BY Parts
<1>2. UNCHANGED <<listed, stats, tally, overlapped, size, grown, payment>>
  BY DEF statsVars
<1>3. TypeOK'
  BY <1>1, <1>2, MovesEffect DEF TypeOK
<1>4. QuotesHold'
  BY <1>1, <1>2, QuotesStay DEF Unquoted
<1>5. PaymentsHold'
  <2>1. l \in Tested => pc[c] \in Tested
    BY DEF Tested, Accepted, RequestCalls, StatsCalls
  <2> QED
    BY <1>1, <1>2, <2>1, PaymentsStay DEF Unpaid, Unquoted
<1>6. UpdatesHold'
  BY <1>1, <1>2, UpdatesStay
<1> QED
  BY <1>3, <1>4, <1>5, <1>6, PartsNext

\* What was found to exist, exists.
LEMMA CheckExistenceKeeps ==
  ASSUME IInv, NEW c \in Calls, CheckExistence(c)
  PROVE  IInv'
<1> DEFINE found == RequestOf(c).status # "none"
           b == found /\ job[c].user \in known
           l == IF found THEN "guarding" ELSE "balance"
           j == [job[c] EXCEPT !.exist = b]
<1>1. TypeOK /\ job[c] \in Job /\ pc[c] = "existence" /\ QuotesHold /\ BalancesHold /\ WarningsHold
  BY Parts DEF TypeOK, CheckExistence
<1>2. UNCHANGED <<row, statsVars, size, payment, chainVars, grown, warned>>
  BY DEF CheckExistence
<1>3. UNCHANGED <<request, known, admin, outspent, warned>>
  BY <1>2 DEF chainVars
<1>4. /\ request' \in [Programs -> Request] /\ known' \subseteq Users /\ admin' \in Nat
      /\ outspent' \subseteq Calls /\ warned' \subseteq Calls /\ admin' >= admin
  BY <1>1, <1>3 DEF TypeOK
<1>5. /\ {"guarding", "balance", "failing"} \subseteq Label
      /\ "call" \in Mishap
  BY DEF Label, Active, RequestCalls, Mishap
<1>6. CASE Suffer(c, "call", "failing", job[c])
  <2>1. PICK m : Moves(c, "failing", job[c], m)
    BY <1>1, <1>5, <1>6, SufferMoves
  <2>2. BalancesHold'
    BY <1>1, <1>3, <2>1, BalancesStay
  <2>3. WarningsHold'
    BY <1>1, <1>3, <2>1, WarningsStay DEF AfterGuard
  <2> QED
    BY <1>1, <1>2, <1>4, <2>1, <2>2, <2>3, RequestKeeps
<1>7. CASE Proceed(c, l, j)
  <2>1. b \in BOOLEAN /\ (b => found /\ job[c].user \in known)
    OBVIOUS
  <2> HIDE DEF b
  <2>2. /\ j \in Job /\ j.user = job[c].user /\ j.program = job[c].program
        /\ j.rent = job[c].rent /\ j.fees = job[c].fees /\ j.sig = job[c].sig /\ j.exist = b
    BY <1>1, <2>1, JobUpdates DEF Job
  <2>3. l \in {"guarding", "balance"} /\ l \in Label /\ (l = "guarding" => found)
    BY <1>5
  <2> HIDE DEF l, j
  <2>4. Moves(c, l, j, mishaps[c])
    BY <1>1, <1>7, <2>2, <2>3, ProceedMoves
  <2>5. pc'[c] = l /\ job'[c] = j
    BY <1>1, <2>4, MovesEffect
  <2>6. BalanceInv(c)' /\ Suffices(c)'
    BY <1>3, <2>1, <2>2, <2>3, <2>5 DEF BalanceInv, Suffices, RequestOf
  <2>7. BalancesHold'
    BY <1>1, <1>3, <1>4, <2>4, <2>6, BalancesMove
  <2>8. WarningsHold'
    BY <1>1, <1>3, <2>2, <2>4, WarningsStay DEF AfterGuard
  <2> QED
    BY <1>1, <1>2, <1>4, <2>2, <2>3, <2>4, <2>7, <2>8, RequestKeeps
<1> QED
  BY <1>6, <1>7 DEF CheckExistence

\* The warning is about a request that somebody else holds.
LEMMA GuardRequestKeeps ==
  ASSUME IInv, NEW c \in Calls, GuardRequest(c)
  PROVE  IInv'
<1>1. /\ TypeOK /\ job[c] \in Job /\ pc[c] = "guarding"
      /\ QuotesHold /\ BalancesHold /\ WarningsHold
  BY Parts DEF TypeOK, GuardRequest
<1>2. UNCHANGED <<row, statsVars, size, payment, chainVars, grown>>
  BY DEF GuardRequest
<1>3. UNCHANGED <<request, known, admin, outspent>>
  BY <1>2 DEF chainVars
<1>4. PICK m : Moves(c, "balance", job[c], m)
  BY <1>1, ProceedMoves, SufferMoves DEF GuardRequest, Label, Active, RequestCalls, Mishap
<1>5. pc'[c] = "balance" /\ job'[c] = job[c]
  BY <1>1, <1>4, MovesEffect
<1>6. /\ \A d \in Calls : d # c => (d \in warned' => d \in warned)
      /\ warned' \subseteq Calls
      /\ c \in warned' => c \in warned \/ ~(Mine(c) \/ CanReset(RequestOf(c)))
  BY <1>1 DEF GuardRequest, TypeOK
<1>7. /\ request' \in [Programs -> Request] /\ known' \subseteq Users /\ admin' \in Nat
      /\ outspent' \subseteq Calls /\ admin' >= admin
  BY <1>1, <1>3 DEF TypeOK
<1>8. BalanceInv(c) /\ RequestOf(c).status # "none"
  BY <1>1 DEF BalancesHold, BalanceInv
<1>9. BalanceInv(c)' /\ Suffices(c)'
  BY <1>1, <1>3, <1>5, <1>8 DEF BalanceInv, Suffices, RequestOf
<1>10. BalancesHold'
  BY <1>1, <1>3, <1>4, <1>7, <1>9, BalancesMove
<1>11. WarningInv(c)'
  BY <1>1, <1>3, <1>5, <1>6, <1>8
     DEF WarningsHold, WarningInv, AfterGuard, Mine, Released, CanReset, RequestOf
<1>12. WarningsHold'
  BY <1>1, <1>3, <1>4, <1>6, <1>11, WarningsMove
<1> QED
  BY <1>1, <1>2, <1>4, <1>6, <1>7, <1>10, <1>12, RequestKeeps

\* What is required covers what is needed, as long as what was found is there.
LEMMA RequiredCovers ==
  ASSUME NEW c \in Calls, job[c] \in Job,
         job[c].exist => RequestOf(c).status # "none" /\ job[c].user \in known
  PROVE  Required(c) \in Nat /\ Needed(c) \in Nat /\ Needed(c) <= Required(c)
  BY AdmissionAssumption DEF Required, Needed

LEMMA CheckBalanceKeeps ==
  ASSUME IInv, NEW c \in Calls, CheckBalance(c)
  PROVE  IInv'
<1>1. /\ TypeOK /\ job[c] \in Job /\ pc[c] = "balance" /\ admin \in Nat
      /\ QuotesHold /\ BalancesHold /\ WarningsHold /\ BalanceInv(c)
  BY Parts DEF TypeOK, CheckBalance, BalancesHold
<1>2. /\ UNCHANGED <<row, statsVars, size, payment, request, known, admin, grown, warned>>
      /\ outspent' = outspent \ {c}
  BY DEF CheckBalance
<1>3. job[c].exist => RequestOf(c).status # "none" /\ job[c].user \in known
  BY <1>1 DEF BalanceInv
<1>4. Required(c) \in Nat /\ Needed(c) \in Nat /\ Needed(c) <= Required(c)
  BY <1>1, <1>3, RequiredCovers
<1>5. {"sending", "airdropping", "failing"} \subseteq Label /\ "call" \in Mishap
  BY DEF Label, Active, RequestCalls, Mishap
<1>6. PICK l \in {"sending", "airdropping", "failing"}, n \in Nat, m \in SUBSET Mishap :
        /\ Moves(c, l, [job[c] EXCEPT !.short = n], m)
        /\ l = "sending" => admin >= Required(c)
        /\ l = "airdropping" => admin + n >= Required(c)
  <2>1. job[c].short \in Nat /\ [job[c] EXCEPT !.short = job[c].short] = job[c]
    BY <1>1 DEF Job
  <2>2. CASE admin >= Required(c) /\ Proceed(c, "sending", job[c])
    <3>1. Moves(c, "sending", job[c], mishaps[c])
        /\ mishaps[c] \in SUBSET Mishap
      BY <1>1, <1>5, <2>2, ProceedMoves
    <3> QED
      BY <2>1, <2>2, <3>1
  <2>3. CASE /\ admin < Required(c)
             /\ Proceed(c, "airdropping", [job[c] EXCEPT !.short = Required(c) - admin])
    <3>1. Required(c) - admin \in Nat /\ admin + (Required(c) - admin) >= Required(c)
      BY <1>1, <1>4, <2>3
    <3>2. [job[c] EXCEPT !.short = Required(c) - admin] \in Job
      BY <1>1, <3>1, JobUpdates
    <3>3. Moves(c, "airdropping", [job[c] EXCEPT !.short = Required(c) - admin], mishaps[c])
          /\ mishaps[c] \in SUBSET Mishap
      BY <1>1, <1>5, <2>3, <3>2, ProceedMoves
    <3> QED
      BY <3>1, <3>3
  <2>4. CASE Suffer(c, "call", "failing", job[c])
    <3>1. Moves(c, "failing", job[c], mishaps[c] \cup {"call"})
        /\ mishaps[c] \cup {"call"} \in SUBSET Mishap
      BY <1>1, <1>5, <2>4, SufferMoves
    <3> QED
      BY <2>1, <3>1
  <2> QED
    BY <2>2, <2>3, <2>4 DEF CheckBalance
<1> DEFINE j == [job[c] EXCEPT !.short = n]
<1>7. /\ j.user = job[c].user /\ j.program = job[c].program /\ j.rent = job[c].rent /\ j.fees = job[c].fees
      /\ j.sig = job[c].sig /\ j.exist = job[c].exist /\ j.short = n
  BY <1>1 DEF Job
<1> HIDE DEF j
<1>8. Moves(c, l, j, m)
  BY <1>6 DEF j
<1>9. pc'[c] = l /\ job'[c] = j
  BY <1>1, <1>8, MovesEffect
<1>10. Required(c)' = Required(c) /\ Needed(c)' = Needed(c) /\ RequestOf(c)' = RequestOf(c)
  BY <1>2, <1>7, <1>9 DEF Required, Needed, RequestOf
<1>11. BalanceInv(c)' /\ Suffices(c)'
  BY <1>1, <1>2, <1>3, <1>4, <1>6, <1>7, <1>9, <1>10 DEF BalanceInv, Suffices
<1>12. BalancesHold'
  BY <1>1, <1>2, <1>8, <1>11, BalancesMove
<1>13. WarningsHold'
  BY <1>1, <1>2, <1>7, <1>8, WarningsStay DEF AfterGuard
<1>14. /\ request' \in [Programs -> Request] /\ known' \subseteq Users /\ admin' \in Nat
       /\ outspent' \subseteq Calls /\ warned' \subseteq Calls
  BY <1>1, <1>2 DEF TypeOK
<1> QED
  BY <1>1, <1>2, <1>7, <1>8, <1>12, <1>13, <1>14, RequestKeeps

\* An airdrop brings what was missing, and takes nothing from the others.
LEMMA RequestAirdropKeeps ==
  ASSUME IInv, NEW c \in Calls, RequestAirdrop(c)
  PROVE  IInv'
<1> DEFINE j == [job[c] EXCEPT !.short = 0]
           n == job[c].short + AirdropMargin
           k == IF n < MinAirdrop THEN MinAirdrop ELSE n
<1>1. /\ TypeOK /\ job[c] \in Job /\ pc[c] = "airdropping" /\ admin \in Nat
      /\ QuotesHold /\ BalancesHold /\ WarningsHold /\ BalanceInv(c)
  BY Parts DEF TypeOK, RequestAirdrop, BalancesHold
<1>2. UNCHANGED <<row, statsVars, size, payment, request, known, outspent, grown, warned>>
  BY DEF RequestAirdrop
<1>3. job[c].exist => RequestOf(c).status # "none" /\ job[c].user \in known
  BY <1>1 DEF BalanceInv
<1>4. Required(c) \in Nat /\ Needed(c) \in Nat /\ Needed(c) <= Required(c)
  BY <1>1, <1>3, RequiredCovers
<1>5. /\ j \in Job /\ j.user = job[c].user /\ j.program = job[c].program
      /\ j.rent = job[c].rent /\ j.fees = job[c].fees /\ j.sig = job[c].sig /\ j.exist = job[c].exist
  BY <1>1, JobUpdates DEF Job
<1>6. k \in Nat /\ k >= job[c].short /\ job[c].short \in Nat
  BY <1>1, AdmissionAssumption DEF Job
<1>7. /\ {"sending", "failing"} \subseteq Label /\ "call" \in Mishap
  BY DEF Label, Active, RequestCalls, Mishap
<1>8. \/ admin' = admin + k /\ (Proceed(c, "sending", j) \/ Suffer(c, "call", "failing", j))
      \/ admin' = admin /\ Proceed(c, "failing", j)
  BY DEF RequestAirdrop
<1> HIDE DEF j, k, n
<1>9. PICK l \in {"sending", "failing"}, m \in SUBSET Mishap :
        /\ Moves(c, l, j, m)
        /\ \/ admin' = admin + k
           \/ admin' = admin /\ l = "failing"
  BY <1>1, <1>5, <1>7, <1>8, ProceedMoves, SufferMoves
<1>10. pc'[c] = l /\ job'[c] = j
  BY <1>1, <1>9, MovesEffect
<1>11. admin' \in Nat /\ admin' >= admin
  BY <1>1, <1>6, <1>9
<1>12. Required(c)' = Required(c) /\ Needed(c)' = Needed(c) /\ RequestOf(c)' = RequestOf(c)
  BY <1>2, <1>5, <1>10 DEF Required, Needed, RequestOf
<1>13. l = "sending" /\ c \notin outspent => admin' >= Required(c)
  BY <1>1, <1>4, <1>6, <1>9 DEF BalanceInv
<1>14. BalanceInv(c)' /\ Suffices(c)'
  BY <1>2, <1>3, <1>4, <1>5, <1>9, <1>10, <1>11, <1>12, <1>13 DEF BalanceInv, Suffices
<1>15. BalancesHold'
  BY <1>1, <1>2, <1>9, <1>11, <1>14, BalancesMove
<1>16. WarningsHold'
  BY <1>1, <1>2, <1>5, <1>9, WarningsStay DEF AfterGuard
<1>17. /\ request' \in [Programs -> Request] /\ known' \subseteq Users
       /\ outspent' \subseteq Calls /\ warned' \subseteq Calls
  BY <1>1, <1>2 DEF TypeOK
<1> QED
  BY <1>1, <1>2, <1>5, <1>9, <1>11, <1>15, <1>16, <1>17, RequestKeeps

\* What an accepted request changes of the chain.
LEMMA AcceptEffect ==
  ASSUME TypeOK, QuotesHold, WarningsHold, NEW c \in Calls, pc[c] = "sending", AcceptRequest(c)
  PROVE  /\ request' \in [Programs -> Request] /\ known' \subseteq Users
         /\ known \subseteq known' /\ admin' \in Nat
         /\ outspent' \subseteq Calls /\ warned' \subseteq warned
         /\ \A d \in Calls : pc[d] \in {"airdropping", "sending"} /\ d # c => d \in outspent'
         /\ \A q \in Programs : request[q].status # "none" => request'[q].status # "none"
         /\ c \notin warned
         /\ \A d \in warned' : /\ request'[job[d].program] = request[job[d].program]
<1> DEFINE p == job[c].program
<1>1. p \in Programs /\ job[c].user \in Users /\ job[c] \in Job /\ request[p] \in Request
  BY DEF QuotesHold, CallerInv, TypeOK
<1>2. PICK s \in {"pending"} \cup (IF Mine(c) THEN {RequestOf(c).status} \cap {"funded"} ELSE {}) :
        /\ request' = [request EXCEPT ![p] = [status |-> s, developer |-> job[c].user]]
        /\ warned' = IF s = "pending" THEN warned \ (On(p) \ {c}) ELSE warned
  BY DEF AcceptRequest
<1>3. s \in {"pending", "funded"} /\ (s = "funded" => Mine(c) /\ RequestOf(c).status = "funded")
  BY <1>2
<1>4. request' \in [Programs -> Request]
  <2>1. [status |-> s, developer |-> job[c].user] \in Request
    BY <1>1, <1>3 DEF Request
  <2> QED
    BY <1>1, <1>2, <2>1 DEF TypeOK
<1>5. Needed(c) \in Nat /\ admin \in Nat
  BY AdmissionAssumption DEF Needed, TypeOK
<1>6. known' \subseteq Users /\ known \subseteq known' /\ admin' \in Nat
  BY <1>1, <1>5 DEF AcceptRequest, TypeOK
<1>7. /\ outspent' \subseteq Calls /\ warned' \subseteq warned
      /\ \A d \in Calls : pc[d] \in {"airdropping", "sending"} /\ d # c => d \in outspent'
  BY <1>2 DEF AcceptRequest, TypeOK, At
<1>8. \A q \in Programs : request[q].status # "none" => request'[q].status # "none"
  BY <1>1, <1>2, <1>3 DEF TypeOK
<1>9. c \notin warned
  BY DEF AcceptRequest, WarningsHold, WarningInv
<1>10. ASSUME NEW d \in warned' PROVE request'[job[d].program] = request[job[d].program]
  <2>1. d \in warned /\ d # c /\ d \in Calls
    BY <1>7, <1>9 DEF TypeOK
  <2>2. job[d].program \in Programs
    BY <2>1 DEF WarningsHold, WarningInv, AfterGuard, QuotesHold, CallerInv
  <2>3. CASE job[d].program # p
    BY <1>2, <2>2, <2>3 DEF TypeOK
  <2>4. CASE job[d].program = p
    <3>1. s = "funded"
      BY <1>2, <1>3, <2>1, <2>4 DEF On
    <3>2. request[p].status = "funded" /\ request[p].developer = job[c].user
      BY <1>3, <3>1 DEF Mine, RequestOf
    <3>3. request[p] = [status |-> "funded", developer |-> job[c].user]
      BY <1>1, <3>2 DEF Request
    <3> QED
      BY <1>1, <1>2, <2>4, <3>1, <3>3 DEF TypeOK
  <2> QED
    BY <2>3, <2>4
<1> QED
  BY <1>4, <1>6, <1>7, <1>8, <1>9, <1>10

\* Whoever relied on the balance is marked; whoever was warned is refused.
LEMMA CreateDeployRequestKeeps ==
  ASSUME IInv, NEW c \in Calls, CreateDeployRequest(c)
  PROVE  IInv'
<1>1. /\ TypeOK /\ job[c] \in Job /\ pc[c] = "sending"
      /\ QuotesHold /\ BalancesHold /\ WarningsHold
  BY Parts DEF TypeOK, CreateDeployRequest
<1>2. UNCHANGED <<row, statsVars, size, payment, grown>>
  BY DEF CreateDeployRequest
<1>3. {"recording", "failing"} \subseteq Label /\ "call" \in Mishap
  BY DEF Label, Active, RequestCalls, Mishap
<1>4. CASE AcceptRequest(c) /\ (Proceed(c, "recording", job[c]) \/ Suffer(c, "call", "failing", job[c]))
  <2>1. PICK l \in {"recording", "failing"}, m \in SUBSET Mishap : Moves(c, l, job[c], m)
    BY <1>1, <1>3, <1>4, ProceedMoves, SufferMoves
  <2>2. /\ pc'[c] = l /\ job'[c] = job[c]
        /\ \A d \in Calls : d # c => pc'[d] = pc[d] /\ job'[d] = job[d]
    BY <1>1, <2>1, MovesEffect
  <2>3. BalancesHold'
    <3> SUFFICES ASSUME NEW d \in Calls PROVE (BalanceInv(d) /\ Suffices(d))'
      BY DEF BalancesHold
    <3>1. CASE pc'[d] \notin {"guarding", "balance", "airdropping", "sending"}
      BY <3>1 DEF BalanceInv, Suffices
    <3>2. CASE pc'[d] \in {"guarding", "balance", "airdropping", "sending"}
      <4>1. d # c /\ pc'[d] = pc[d] /\ job'[d] = job[d]
        BY <2>1, <2>2, <3>2
      <4>2. job[d].program \in Programs /\ BalanceInv(d)
        BY <1>1, <3>2, <4>1 DEF QuotesHold, CallerInv, BalancesHold
      <4>3. pc[d] \in {"airdropping", "sending"} => d \in outspent'
        BY <1>1, <1>4, <4>1, AcceptEffect
      <4>4. RequestOf(d).status # "none" => RequestOf(d)'.status # "none"
        BY <1>1, <1>4, <4>1, <4>2, AcceptEffect DEF RequestOf
      <4>5. job[d].user \in known => job'[d].user \in known'
        BY <1>1, <1>4, <4>1, AcceptEffect
      <4> QED
        BY <4>1, <4>2, <4>3, <4>4, <4>5 DEF BalanceInv, Suffices
    <3> QED
      BY <3>1, <3>2
  <2>4. WarningsHold'
    <3> SUFFICES ASSUME NEW d \in Calls, d \in warned' PROVE WarningInv(d)'
      BY DEF WarningsHold, WarningInv
    <3>1. d # c /\ d \in warned /\ request'[job[d].program] = request[job[d].program]
      BY <1>1, <1>4, AcceptEffect
    <3>2. ~Released(RequestOf(d))
      BY <1>1, <3>1 DEF WarningsHold, WarningInv
    <3> QED
      BY <1>1, <2>2, <3>1, <3>2, WarningOf DEF RequestOf
  <2>5. warned' \subseteq Calls
    BY <1>1, <1>4, AcceptEffect DEF TypeOK
  <2> QED
    BY <1>1, <1>2, <1>4, <2>1, <2>3, <2>4, <2>5, AcceptEffect, RequestKeeps
<1>5. CASE /\ Proceed(c, "failing", job[c]) \/ Suffer(c, "call", "failing", job[c])
           /\ UNCHANGED <<chainVars, warned>>
  <2>1. PICK m \in SUBSET Mishap : Moves(c, "failing", job[c], m)
    BY <1>1, <1>3, <1>5, ProceedMoves, SufferMoves
  <2>2. UNCHANGED <<request, known, admin, outspent, warned>>
    BY <1>5 DEF chainVars
  <2>3. BalancesHold'
    BY <1>1, <2>1, <2>2, BalancesStay
  <2>4. WarningsHold'
    BY <1>1, <2>1, <2>2, WarningsStay DEF AfterGuard
  <2>5. /\ request' \in [Programs -> Request] /\ known' \subseteq Users /\ admin' \in Nat
        /\ outspent' \subseteq Calls /\ warned' \subseteq Calls
    BY <1>1, <2>2 DEF TypeOK
  <2> QED
    BY <1>1, <1>2, <2>1, <2>3, <2>4, <2>5, RequestKeeps
<1> QED
  BY <1>4, <1>5 DEF CreateDeployRequest

-----------------------------------------------------------------------------
(* The run, and the clock *)

\* A request that is on chain changes its status, its developer stays.
StatusChange ==
  \E p \in Programs, s \in {"funded", "active", "expired", "failed"} :
    /\ request[p].status # "none"
    /\ request' = [request EXCEPT ![p].status = s]
    /\ warned' = IF Released(request'[p]) THEN warned \ On(p) ELSE warned
    /\ UNCHANGED <<known, admin, outspent>>

LEMMA StatusEffect ==
  ASSUME TypeOK, QuotesHold, WarningsHold, StatusChange
  PROVE  /\ request' \in [Programs -> Request] /\ known' \subseteq Users
         /\ admin' \in Nat /\ admin' >= admin
         /\ outspent' \subseteq Calls /\ warned' \subseteq warned /\ warned' \subseteq Calls
         /\ \A q \in Programs : request'[q].status = "none" <=> request[q].status = "none"
         /\ \A d \in warned' :
              /\ request'[job[d].program].developer = request[job[d].program].developer
              /\ ~Released(request'[job[d].program])
<1>1. PICK p \in Programs, s \in {"funded", "active", "expired", "failed"} :
        /\ request[p].status # "none"
        /\ request' = [request EXCEPT ![p].status = s]
        /\ warned' = IF Released(request'[p]) THEN warned \ On(p) ELSE warned
        /\ UNCHANGED <<known, admin, outspent>>
  BY DEF StatusChange
<1>2. request[p] \in Request
  BY DEF TypeOK
<1>3. /\ request'[p].status = s /\ request'[p].developer = request[p].developer
      /\ request'[p] \in Request
      /\ \A q \in Programs : q # p => request'[q] = request[q]
      /\ request' \in [Programs -> Request]
  BY <1>1, <1>2 DEF TypeOK, Request
<1>4. \A q \in Programs : request'[q].status = "none" <=> request[q].status = "none"
  BY <1>1, <1>3
<1>5. ASSUME NEW d \in warned'
      PROVE  /\ request'[job[d].program].developer = request[job[d].program].developer
             /\ ~Released(request'[job[d].program])
  <2>1. d \in warned /\ d \in Calls
    BY <1>1 DEF TypeOK
  <2>2. job[d].program \in Programs /\ ~Released(request[job[d].program])
    BY <2>1 DEF WarningsHold, WarningInv, AfterGuard, QuotesHold, CallerInv, RequestOf
  <2>3. CASE job[d].program = p
    BY <1>1, <1>3, <2>1, <2>3 DEF On
  <2>4. CASE job[d].program # p
    BY <1>3, <2>2, <2>4
  <2> QED
    BY <2>3, <2>4
<1> QED
  BY <1>1, <1>3, <1>4, <1>5 DEF TypeOK

LEMMA ExpireSubscriptionKeeps ==
  ASSUME IInv, NEW p \in Programs, ExpireSubscription(p)
  PROVE  IInv'
<1>1. TypeOK /\ QuotesHold /\ PaymentsHold /\ BalancesHold /\ WarningsHold /\ UpdatesHold
  BY Parts
<1>2. /\ UNCHANGED <<pc, job, mishaps, row, listed, stats, tally, overlapped>>
      /\ UNCHANGED <<size, payment, known, admin, outspent, grown>>
  BY DEF ExpireSubscription, callVars, statsVars
<1>3. StatusChange
  BY <1>2 DEF ExpireSubscription, SetRequest, StatusChange
<1>4. TypeOK'
  BY <1>1, <1>2, <1>3, StatusEffect DEF TypeOK
<1>5. BalancesHold'
  BY <1>1, <1>2, <1>3, StatusEffect, BalanceOf DEF BalancesHold
<1>6. WarningsHold'
  BY <1>1, <1>2, <1>3, StatusEffect, WarningOf DEF WarningsHold
<1> QED
  BY <1>1, <1>2, <1>4, <1>5, <1>6, QuotesSame, PaymentsSame, UpdatesSame, PartsNext

\* A run moves its own request along.
LEMMA RunKeeps ==
  ASSUME IInv, NEW c \in Calls, FundRun(c) \/ EndRun(c)
  PROVE  IInv'
<1>1. /\ TypeOK /\ job[c] \in Job /\ pc[c] \in {"running", "deploying"}
      /\ QuotesHold /\ BalancesHold /\ WarningsHold /\ job[c].program \in Programs
  BY Parts DEF TypeOK, FundRun, EndRun, QuotesHold, CallerInv
<1>2. UNCHANGED <<row, statsVars, size, payment, known, admin, outspent, grown>>
  BY DEF FundRun, EndRun
<1>3. {"deploying", "marking", "statsReading"} \subseteq Label
  BY DEF Label, Active, StatsCalls
<1>4. PICK l \in {"deploying", "marking", "statsReading"} : Proceed(c, l, job[c])
  BY DEF FundRun, EndRun
<1>5. Moves(c, l, job[c], mishaps[c])
  BY <1>1, <1>3, <1>4, ProceedMoves
<1>6. StatusChange \/ UNCHANGED <<request, warned>>
  <2>1. CASE FundRun(c)
    <3>1. CASE /\ RequestOf(c).status = "pending" /\ UNCHANGED warned
               /\ request' = [request EXCEPT ![job[c].program].status = "funded"]
      <4>1. ~Released(request'[job[c].program])
        BY <1>1, <3>1 DEF Released, TypeOK, Request
      <4> QED
        BY <1>1, <1>2, <3>1, <4>1 DEF StatusChange, RequestOf
    <3> QED
      BY <2>1, <3>1 DEF FundRun
  <2>2. CASE EndRun(c)
    BY <1>1, <1>2, <2>2 DEF EndRun, Confirm, SetRequest, StatusChange, RequestOf
  <2> QED
    BY <2>1, <2>2
<1>7. CASE StatusChange
  <2>1. pc'[c] = l /\ \A d \in Calls : d # c => pc'[d] = pc[d] /\ job'[d] = job[d]
    BY <1>1, <1>5, MovesEffect
  <2>2. BalanceInv(c)' /\ Suffices(c)'
    BY <2>1 DEF BalanceInv, Suffices
  <2>3. BalancesHold'
    BY <1>1, <1>2, <1>5, <1>7, <2>2, StatusEffect, BalancesMove
  <2>4. c \notin warned
    BY <1>1 DEF WarningsHold, WarningInv, AfterGuard
  <2>5. \A d \in Calls : d # c => WarningInv(d)'
    BY <1>1, <1>7, <2>1, StatusEffect, WarningOf
  <2>6. WarningInv(c)'
    BY <1>1, <1>7, <2>4, StatusEffect DEF WarningInv
  <2>7. WarningsHold'
    BY <2>5, <2>6 DEF WarningsHold
  <2> QED
    BY <1>1, <1>2, <1>5, <1>7, <2>3, <2>7, StatusEffect, RequestKeeps
<1>8. CASE UNCHANGED <<request, warned>>
  <2>1. BalancesHold'
    BY <1>1, <1>2, <1>5, <1>8, BalancesStay
  <2>2. WarningsHold'
    BY <1>1, <1>5, <1>8, WarningsStay DEF AfterGuard
  <2>3. /\ request' \in [Programs -> Request] /\ known' \subseteq Users /\ admin' \in Nat
        /\ outspent' \subseteq Calls /\ warned' \subseteq Calls
    BY <1>1, <1>2, <1>8 DEF TypeOK
  <2> QED
    BY <1>1, <1>2, <1>5, <2>1, <2>2, <2>3, RequestKeeps
<1> QED
  BY <1>6, <1>7, <1>8

LEMMA MarkKeeps ==
  ASSUME IInv, NEW c \in Calls, MarkSuccess(c) \/ MarkFailed(c)
  PROVE  IInv'
<1>1. TypeOK /\ job[c] \in Job /\ pc[c] \in {"marking", "markingLast"}
  BY DEF IInv, TypeOK, MarkSuccess, MarkFailed
<1>2. UNCHANGED Rest
  BY DEF MarkSuccess, MarkFailed, Rest
<1>3. {"statsReading", "done"} \subseteq Label /\ "call" \in Mishap
  BY DEF Label, Active, StatsCalls, Ended, Mishap
<1> DEFINE k == [job[c] EXCEPT !.ok = TRUE]
<1>4. /\ k \in Job /\ k.user = job[c].user /\ k.program = job[c].program
      /\ k.rent = job[c].rent /\ k.fees = job[c].fees /\ k.sig = job[c].sig
  BY <1>1, StatsUpdates DEF Job
<1>5. \E l \in {"statsReading", "done"}, j \in {job[c], k} :
        /\ Proceed(c, l, j) \/ Suffer(c, "call", l, j)
        /\ row' = row \/ \E s \in {"success", "failed"} : row' = [row EXCEPT ![c] = s]
  BY DEF MarkSuccess, MarkFailed, SetRow
<1> HIDE DEF k
<1>6. PICK l \in {"statsReading", "done"}, j \in {job[c], k} :
        /\ Proceed(c, l, j) \/ Suffer(c, "call", l, j)
        /\ row' = row \/ \E s \in {"success", "failed"} : row' = [row EXCEPT ![c] = s]
  BY <1>5
<1>7. PICK m : Moves(c, l, j, m)
  BY <1>1, <1>3, <1>4, <1>6, ProceedMoves, SufferMoves
<1>8. Plain(c, l, j)
  BY <1>1, <1>3, <1>4, Untested
     DEF Plain, Tested, Accepted, Label, Active, AfterGuard, Unpaid, Unquoted
<1> QED
  BY <1>2, <1>6, <1>7, <1>8, PlainKeeps

-----------------------------------------------------------------------------
(* updateUserStats *)

LEMMA AtMostFields ==
  ASSUME NEW s, NEW t
  PROVE  AtMost(s, t) <=> /\ s.total <= t.total /\ s.ok <= t.ok
                          /\ s.failed <= t.failed /\ s.fees <= t.fees
  BY DEF AtMost

LEMMA CountedFields ==
  ASSUME NEW s \in Stats, NEW c \in Calls, job[c] \in Job, Positive(c)
  PROVE  /\ Counted(s, c) \in Stats
         /\ AtMost(s, Counted(s, c))
         /\ s.total = s.ok + s.failed => Counted(s, c).total = Counted(s, c).ok + Counted(s, c).failed
         /\ \A t \in Stats : AtMost(s, t) => AtMost(Counted(s, c), Counted(t, c))
<1> DEFINE fee == job[c].fees["service"]
<1>1. fee \in Nat
  BY DEF Job, Amounts, Positive
<1> HIDE DEF fee
<1>2. \A t \in Stats :
        /\ Counted(t, c).total = t.total + 1
        /\ Counted(t, c).ok = t.ok + (IF job[c].ok THEN 1 ELSE 0)
        /\ Counted(t, c).failed = t.failed + (IF job[c].ok THEN 0 ELSE 1)
        /\ Counted(t, c).fees = t.fees + (IF job[c].ok THEN fee ELSE 0)
        /\ Counted(t, c) \in Stats
  BY <1>1 DEF Counted, Stats, fee
<1>3. \A t \in Stats : t.total \in Nat /\ t.ok \in Nat /\ t.failed \in Nat /\ t.fees \in Nat
  BY DEF Stats
<1>4. AtMost(s, Counted(s, c))
  BY <1>1, <1>2, <1>3, AtMostFields
<1>5. s.total = s.ok + s.failed => Counted(s, c).total = Counted(s, c).ok + Counted(s, c).failed
  BY <1>2, <1>3
<1>6. ASSUME NEW t \in Stats, AtMost(s, t) PROVE AtMost(Counted(s, c), Counted(t, c))
  <2>1. s.total <= t.total /\ s.ok <= t.ok /\ s.failed <= t.failed /\ s.fees <= t.fees
    BY <1>6, AtMostFields
  <2> QED
    BY <1>1, <1>2, <1>3, <2>1, AtMostFields
<1> QED
  BY <1>2, <1>4, <1>5, <1>6

LEMMA AtMostTransitive ==
  ASSUME NEW r \in Stats, NEW s \in Stats, NEW t \in Stats, AtMost(r, s), AtMost(s, t)
  PROVE  AtMost(r, t)
<1>1. \A x \in Stats : x.total \in Nat /\ x.ok \in Nat /\ x.failed \in Nat /\ x.fees \in Nat
  BY DEF Stats
<1> QED
  BY <1>1, AtMostFields

\* A step of an update changes nothing but the statistics.
LEMMA StatsKeeps ==
  ASSUME IInv, NEW c \in Calls, NEW l, NEW j, NEW m, Moves(c, l, j, m),
         pc[c] \in StatsCalls, l \in StatsCalls \cup {"done", "markingLast"},
         j.user = job[c].user, j.program = job[c].program, j.rent = job[c].rent, j.fees = job[c].fees,
         j.sig = job[c].sig, UNCHANGED <<row, size, payment, chainVars, grown, warned>>,
         listed' \subseteq Users, stats' \in [Users -> Stats], tally' \in [Users -> Stats],
         overlapped' \subseteq Users, UpdatesHold'
  PROVE  IInv'
<1>1. TypeOK /\ QuotesHold /\ PaymentsHold /\ BalancesHold /\ WarningsHold
  BY Parts
<1>2. UNCHANGED <<request, known, admin, outspent, warned, size, grown, payment, row>>
  BY DEF chainVars
<1>3. TypeOK'
  BY <1>1, <1>2, MovesEffect DEF TypeOK
<1>4. QuotesHold'
  BY <1>1, <1>2, QuotesStay DEF Unquoted, StatsCalls
<1>5. PaymentsHold'
  BY <1>1, <1>2, PaymentsStay DEF Unpaid, Unquoted, StatsCalls, Tested, Accepted
<1>6. BalancesHold'
  BY <1>1, <1>2, BalancesStay DEF StatsCalls
<1>7. WarningsHold'
  BY <1>1, <1>2, WarningsStay DEF AfterGuard, StatsCalls
<1> QED
  BY <1>3, <1>4, <1>5, <1>6, <1>7, PartsNext

\* A read that finds another update under way marks the user.
LEMMA ReadStatsKeeps ==
  ASSUME IInv, NEW c \in Calls, ReadStats(c)
  PROVE  IInv'
<1> DEFINE u == job[c].user
           j == [job[c] EXCEPT !.stats = stats[u]]
           l == IF u \in listed THEN "statsWriting" ELSE "statsInserting"
<1>1. TypeOK /\ job[c] \in Job /\ pc[c] = "statsReading" /\ u \in Users /\ UpdatesHold
  BY Parts DEF TypeOK, ReadStats, QuotesHold, CallerInv
<1>2. /\ UNCHANGED <<row, size, payment, chainVars, grown, warned>>
      /\ UNCHANGED <<listed, stats, tally>>
      /\ overlapped' = IF Updating(u) = {} THEN overlapped ELSE overlapped \cup {u}
  BY DEF ReadStats
<1>3. /\ listed' \subseteq Users /\ stats' \in [Users -> Stats] /\ tally' \in [Users -> Stats]
      /\ overlapped' \subseteq Users /\ overlapped \subseteq overlapped'
  BY <1>1, <1>2 DEF TypeOK
<1>4. /\ StatsCalls \cup {"done", "markingLast"} \subseteq Label /\ "call" \in Mishap
      /\ {"statsReading", "statsInserting", "statsWriting"} = StatsCalls
  BY DEF Label, Active, StatsCalls, Ended, Mishap
<1>5. CASE Suffer(c, "call", AfterCount(c), job[c])
  <2>1. AfterCount(c) \in {"done", "markingLast"}
    BY DEF AfterCount
  <2>2. PICK m : Moves(c, AfterCount(c), job[c], m)
    BY <1>1, <1>4, <1>5, <2>1, SufferMoves
  <2>3. UpdatesHold'
    BY <1>1, <1>2, <1>3, <2>1, <2>2, UpdatesStay
  <2> QED
    BY <1>1, <1>2, <1>3, <1>4, <2>1, <2>2, <2>3, StatsKeeps
<1>6. CASE Proceed(c, l, j)
  <2>1. stats[u] \in Stats
    BY <1>1 DEF TypeOK
  <2>2. /\ j \in Job /\ j.user = u /\ j.program = job[c].program
        /\ j.rent = job[c].rent /\ j.fees = job[c].fees /\ j.sig = job[c].sig /\ j.stats = stats[u]
    BY <1>1, <2>1, StatsUpdates DEF Job
  <2>3. l \in {"statsWriting", "statsInserting"} /\ l \in Label
    BY <1>4
  <2> HIDE DEF l, j
  <2>4. Moves(c, l, j, mishaps[c])
    BY <1>1, <1>6, <2>2, <2>3, ProceedMoves
  <2>5. /\ pc'[c] = l /\ job'[c] = j
        /\ \A d \in Calls : d # c => pc'[d] = pc[d] /\ job'[d] = job[d]
    BY <1>1, <2>4, MovesEffect
  <2>6. StatsExplained'
    BY <1>1, <1>2, <1>3 DEF UpdatesHold, StatsExplained, AtMost
  <2>7. \A w : w # u => Updating(w)' = Updating(w)
    BY <1>1, <2>2, <2>5 DEF Updating
  <2>8. Updating(u)' = Updating(u) \cup {c}
    BY <1>1, <2>2, <2>3, <2>5 DEF Updating
  <2>9. ASSUME NEW d \in Calls PROVE UpdateInv(d)'
    <3>1. CASE d = c
      <4>1. stats[u].total = stats[u].ok + stats[u].failed /\ AtMost(stats[u], tally[u])
        BY <1>1 DEF UpdatesHold, StatsExplained
      <4>2. u \notin overlapped' => Updating(u)' = {c}
        BY <1>2, <2>8
      <4> QED
        BY <1>2, <2>2, <2>5, <3>1, <4>1, <4>2 DEF UpdateInv, AtMost
    <3>2. CASE d # c /\ job[d].user # u
      BY <1>1, <1>2, <2>5, <2>7, <3>2 DEF UpdatesHold, UpdateInv, AtMost
    <3>3. CASE d # c /\ job[d].user = u
      <4>1. d \in Updating(u)' => d \in Updating(u) /\ u \in overlapped'
        BY <1>2, <2>8, <3>3
      <4>2. UpdateInv(d) /\ job'[d] = job[d] /\ UNCHANGED <<stats, tally>>
        BY <1>1, <1>2, <2>5, <3>3 DEF UpdatesHold
      <4>3. CASE d \in Updating(u)'
        <5>1. /\ job[d].stats.total = job[d].stats.ok + job[d].stats.failed
              /\ AtMost(job[d].stats, tally[u])
          BY <3>3, <4>1, <4>2, <4>3 DEF UpdateInv
        <5>2. AtMost(job'[d].stats, tally'[u])
          BY <4>2, <5>1
        <5>3. job'[d].user = u /\ u' = u
          BY <2>2, <2>5, <3>3, <4>2
        <5> QED
          BY <4>1, <4>2, <4>3, <5>1, <5>2, <5>3 DEF UpdateInv, AtMost
      <4>4. CASE d \notin Updating(u)'
        BY <2>2, <2>5, <3>3, <4>2, <4>4 DEF UpdateInv
      <4> QED
        BY <4>3, <4>4
    <3> QED
      BY <3>1, <3>2, <3>3
  <2>10. UpdatesHold'
    BY <2>6, <2>9 DEF UpdatesHold
  <2> QED
    BY <1>1, <1>2, <1>3, <1>4, <2>2, <2>3, <2>4, <2>10, StatsKeeps
<1> QED
  BY <1>5, <1>6 DEF ReadStats

\* An insert counts nothing.
LEMMA CreateUserStatsKeeps ==
  ASSUME IInv, NEW c \in Calls, CreateUserStats(c)
  PROVE  IInv'
<1>1. /\ TypeOK /\ job[c] \in Job /\ pc[c] = "statsInserting" /\ job[c].user \in Users
      /\ UpdatesHold
  BY Parts DEF TypeOK, CreateUserStats, QuotesHold, CallerInv
<1>2. /\ UNCHANGED <<row, size, payment, chainVars, grown, warned>>
      /\ UNCHANGED <<stats, tally, overlapped>> /\ listed' \subseteq Users
  BY <1>1 DEF CreateUserStats, TypeOK
<1>3. /\ stats' \in [Users -> Stats] /\ tally' \in [Users -> Stats] /\ overlapped' \subseteq Users
  BY <1>1, <1>2 DEF TypeOK
<1>4. /\ {"statsReading", "statsWriting", "markingLast"} \subseteq Label /\ "call" \in Mishap
      /\ "statsInserting" \in StatsCalls
      /\ {"statsReading", "statsWriting", "markingLast"} \subseteq StatsCalls \cup {"markingLast"}
  BY DEF Label, Active, StatsCalls, Mishap
<1>5. CASE Proceed(c, "statsWriting", job[c])
  <2>1. Moves(c, "statsWriting", job[c], mishaps[c])
    BY <1>1, <1>4, <1>5, ProceedMoves
  <2>2. pc'[c] = "statsWriting" /\ \A d \in Calls : job'[d] = job[d] /\ (d # c => pc'[d] = pc[d])
    BY <1>1, <2>1, MovesEffect
  <2>3. \A w : Updating(w)' = Updating(w)
    BY <1>1, <2>2 DEF Updating
  <2>4. UpdatesHold'
    BY <1>1, <1>2, <2>2, <2>3 DEF UpdatesHold, UpdateInv, StatsExplained, AtMost
  <2> QED
    BY <1>1, <1>2, <1>3, <1>4, <2>1, <2>4, StatsKeeps
<1>6. CASE Proceed(c, CountAgain(c), Uncounted(c)) \/ Suffer(c, "call", CountAgain(c), Uncounted(c))
  <2> DEFINE l == CountAgain(c)
             j == Uncounted(c)
  <2>1. l \in {"statsReading", "markingLast"}
    BY DEF CountAgain
  <2>2. /\ j \in Job /\ j.user = job[c].user /\ j.program = job[c].program
        /\ j.rent = job[c].rent /\ j.fees = job[c].fees /\ j.sig = job[c].sig
    BY <1>1, StatsUpdates DEF Uncounted, Job
  <2> HIDE DEF l, j
  <2>3. Proceed(c, l, j) \/ Suffer(c, "call", l, j)
    BY <1>6 DEF l, j
  <2>4. PICK m : Moves(c, l, j, m)
    BY <1>1, <1>4, <2>1, <2>2, <2>3, ProceedMoves, SufferMoves
  <2>5. UpdatesHold'
    BY <1>1, <1>2, <2>1, <2>4, UpdatesStay
  <2> QED
    BY <1>1, <1>2, <1>3, <1>4, <2>1, <2>2, <2>4, <2>5, StatsKeeps
<1> QED
  BY <1>5, <1>6 DEF CreateUserStats

\* What is written is what was read and one more: no more than was counted.
LEMMA WriteEffect ==
  ASSUME TypeOK, QuotesHold, PaymentsHold, UpdatesHold, NEW c \in Calls, NEW l, NEW j, NEW m,
         Moves(c, l, j, m), pc[c] = "statsWriting", job[c].user \in Users, l \notin {"statsInserting", "statsWriting"},
         WriteUserStats(c), UNCHANGED overlapped
  PROVE  /\ stats' \in [Users -> Stats] /\ tally' \in [Users -> Stats] /\ UpdatesHold'
<1> DEFINE u == job[c].user
<1>1. /\ stats' = [stats EXCEPT ![u] = Counted(job[c].stats, c)]
      /\ tally' = [tally EXCEPT ![u] = Counted(tally[u], c)]
  BY DEF WriteUserStats
<1>2. /\ job[c] \in Job /\ job[c].stats \in Stats /\ tally[u] \in Stats
      /\ stats \in [Users -> Stats] /\ tally \in [Users -> Stats] /\ Positive(c)
  BY DEF TypeOK, Job, PaymentsHold, PaymentInv, Tested, Accepted, StatsCalls
<1>3. Counted(job[c].stats, c) \in Stats /\ Counted(tally[u], c) \in Stats
  BY <1>2, CountedFields
<1>4. stats' \in [Users -> Stats] /\ tally' \in [Users -> Stats]
  BY <1>1, <1>2, <1>3
<1>5. /\ stats'[u] = Counted(job[c].stats, c) /\ tally'[u] = Counted(tally[u], c)
      /\ \A w \in Users : w # u => stats'[w] = stats[w] /\ tally'[w] = tally[w]
  BY <1>1, <1>2
<1>6. c \in Updating(u)
  BY DEF Updating
<1>7. /\ job[c].stats.total = job[c].stats.ok + job[c].stats.failed
      /\ AtMost(job[c].stats, tally[u])
      /\ u \notin overlapped => job[c].stats = stats[u] /\ Updating(u) = {c}
  BY <1>6 DEF UpdatesHold, UpdateInv
<1>8. StatsExplained'
  <2> SUFFICES ASSUME NEW w \in Users
               PROVE  /\ stats'[w].total = stats'[w].ok + stats'[w].failed
                      /\ AtMost(stats'[w], tally'[w])
                      /\ w \notin overlapped => stats'[w] = tally'[w]
    BY DEF StatsExplained, AtMost
  <2>1. CASE w = u
    <3>1. u \notin overlapped => stats[u] = tally[u]
      BY DEF UpdatesHold, StatsExplained
    <3> QED
      BY <1>2, <1>5, <1>7, <2>1, <3>1, CountedFields
  <2>2. CASE w # u
    BY <1>5, <2>2 DEF UpdatesHold, StatsExplained
  <2> QED
    BY <2>1, <2>2
<1>9. ASSUME NEW d \in Calls, d \in Updating(job[d].user)' PROVE UpdateInv(d)'
  <2>1. d # c /\ pc'[d] = pc[d] /\ job'[d] = job[d]
    BY <1>9, MovesEffect DEF Updating
  <2>2. d \in Updating(job[d].user)
    BY <1>9, <2>1 DEF Updating
  <2>3. /\ job[d].stats.total = job[d].stats.ok + job[d].stats.failed
        /\ AtMost(job[d].stats, tally[job[d].user])
        /\ job[d].user \notin overlapped =>
             job[d].stats = stats[job[d].user] /\ Updating(job[d].user) = {d}
    BY <2>2 DEF UpdatesHold, UpdateInv
  <2>4. job[d].stats \in Stats
    BY DEF TypeOK, Job
  <2>5. CASE job[d].user = u
    <3>1. u \in overlapped
      BY <1>6, <2>1, <2>3, <2>5
    <3>2. AtMost(tally[u], tally'[u])
      BY <1>2, <1>5, CountedFields
    <3>3. AtMost(job[d].stats, tally'[u])
      BY <1>2, <1>3, <1>5, <2>3, <2>4, <2>5, <3>2, AtMostTransitive
    <3> QED
      BY <2>1, <2>3, <2>5, <3>1, <3>3 DEF UpdateInv, AtMost
  <2>6. CASE job[d].user # u
    <3>1. job[d].user \in Users
      BY <2>2 DEF QuotesHold, CallerInv, Updating
    <3>2. stats'[job[d].user] = stats[job[d].user] /\ tally'[job[d].user] = tally[job[d].user]
      BY <1>5, <2>6, <3>1
    <3>3. Updating(job[d].user)' \subseteq Updating(job[d].user)
      BY <2>1, MovesEffect DEF Updating
    <3> QED
      BY <1>9, <2>1, <2>3, <3>2, <3>3 DEF UpdateInv, AtMost
  <2> QED
    BY <2>5, <2>6
<1> QED
  BY <1>4, <1>8, <1>9 DEF UpdatesHold, UpdateInv

LEMMA UpdateUserStatsKeeps ==
  ASSUME IInv, NEW c \in Calls, UpdateUserStats(c)
  PROVE  IInv'
<1> DEFINE l == AfterCount(c)
           j == Forget(c)
<1>1. /\ TypeOK /\ job[c] \in Job /\ pc[c] = "statsWriting" /\ job[c].user \in Users
      /\ QuotesHold /\ PaymentsHold /\ UpdatesHold
  BY Parts DEF TypeOK, UpdateUserStats, QuotesHold, CallerInv
<1>2. /\ UNCHANGED <<row, size, payment, chainVars, grown, warned>>
      /\ UNCHANGED <<listed, overlapped>>
      /\ listed' \subseteq Users /\ overlapped' \subseteq Users
  BY <1>1 DEF UpdateUserStats, TypeOK
<1>3. l \in {"done", "markingLast"}
  BY DEF AfterCount
<1>4. {"done", "markingLast"} \subseteq Label /\ "call" \in Mishap /\ "statsWriting" \in StatsCalls
  BY DEF Label, Active, StatsCalls, Ended, Mishap
<1>5. /\ j \in Job /\ j.user = job[c].user /\ j.program = job[c].program
      /\ j.rent = job[c].rent /\ j.fees = job[c].fees /\ j.sig = job[c].sig
  BY <1>1, StatsUpdates DEF Forget, Job
<1>6. /\ Proceed(c, l, j) \/ Suffer(c, "call", l, j)
      /\ WriteUserStats(c) \/ UNCHANGED <<stats, tally>>
  BY DEF UpdateUserStats
<1> HIDE DEF l, j
<1>7. PICK m : Moves(c, l, j, m)
  BY <1>1, <1>3, <1>4, <1>5, <1>6, ProceedMoves, SufferMoves
<1>8. /\ stats' \in [Users -> Stats] /\ tally' \in [Users -> Stats] /\ UpdatesHold'
  <2>1. CASE WriteUserStats(c)
    BY <1>1, <1>2, <1>3, <1>7, <2>1, WriteEffect
  <2>2. CASE UNCHANGED <<stats, tally>>
    BY <1>1, <1>2, <1>3, <1>7, <2>2, UpdatesStay DEF TypeOK
  <2> QED
    BY <1>6, <2>1, <2>2
<1> QED
  BY <1>1, <1>2, <1>3, <1>4, <1>5, <1>7, <1>8, StatsKeeps

-----------------------------------------------------------------------------
(* The invariant *)

\* A crash ends every call that is under way.
LEMMA CrashKeeps ==
  ASSUME IInv, Crash
  PROVE  IInv'
<1>1. TypeOK /\ QuotesHold /\ PaymentsHold /\ BalancesHold /\ WarningsHold /\ UpdatesHold
  BY Parts
<1>2. /\ UNCHANGED <<job, row, listed, stats, tally, overlapped, size, payment>>
      /\ UNCHANGED <<request, known, admin, outspent, grown, warned>>
  BY DEF Crash, statsVars, chainVars
<1>3. ASSUME NEW d \in Calls
      PROVE  /\ pc'[d] = pc[d] \/ pc'[d] = "dead"
             /\ pc[d] \in Active => pc'[d] = "dead"
             /\ mishaps[d] \subseteq mishaps'[d]
             /\ pc'[d] # "dead" => mishaps'[d] = mishaps[d]
             /\ pc'[d] \in Label /\ mishaps'[d] \in SUBSET Mishap
  BY <1>1 DEF Crash, TypeOK, Label, Ended, Mishap
<1>4. TypeOK'
  <2>1. /\ pc' \in [Calls -> Label] /\ mishaps' \in [Calls -> SUBSET Mishap]
    <3>1. DOMAIN pc' = Calls /\ DOMAIN mishaps' = Calls
      BY DEF Crash
    <3>2. /\ pc' = [d \in Calls |-> pc'[d]]
          /\ mishaps' = [d \in Calls |-> mishaps'[d]]
      BY DEF Crash
    <3> QED
      BY <1>3, <3>2
  <2> QED
    BY <1>1, <1>2, <2>1 DEF TypeOK
<1>5. ASSUME NEW d \in Calls PROVE (CallerInv(d) /\ QuoteInv(d) /\ Fits(d))'
  <2>1. CallerInv(d) /\ QuoteInv(d) /\ Fits(d)
    BY <1>1 DEF QuotesHold
  <2>2. CASE pc'[d] = "dead"
    <3>1. pc[d] # "idle" \/ pc[d] = "dead"
      BY <2>2 DEF Crash, Active, QuoteCalls, RequestCalls, StatsCalls
    <3> QED
      BY <1>2, <1>3, <2>1, <2>2, <3>1 DEF CallerInv, QuoteInv, Fits, Unquoted
  <2>3. CASE pc'[d] # "dead"
    BY <1>2, <1>3, <2>1, <2>3 DEF CallerInv, QuoteInv, Fits
  <2> QED
    BY <2>2, <2>3
<1>6. ASSUME NEW d \in Calls PROVE (PaymentInv(d) /\ Admitted(d))'
  <2>1. PaymentInv(d) /\ Admitted(d)
    BY <1>1 DEF PaymentsHold
  <2>2. Share(d)' = Share(d)
    BY <1>2 DEF Share
  <2>3. /\ Exact(d, job[d].sig)' <=> Exact(d, job[d].sig)
        /\ Settled(d)' <=> Settled(d)
    BY <1>2, <2>2 DEF Exact, Settled, Covered, Between
  <2> QED
    BY <1>2, <1>3, <2>1, <2>3, Untested DEF PaymentInv, Admitted, Unpaid, Unquoted, Positive
<1>7. ASSUME NEW d \in Calls PROVE (BalanceInv(d) /\ Suffices(d))'
  <2>1. Required(d)' = Required(d) /\ Needed(d)' = Needed(d) /\ RequestOf(d)' = RequestOf(d)
    BY <1>2 DEF Required, Needed, RequestOf
  <2> QED
    BY <1>1, <1>2, <1>3, <2>1 DEF BalancesHold, BalanceInv, Suffices
<1>8. ASSUME NEW d \in Calls PROVE WarningInv(d)'
  BY <1>1, <1>2, <1>3 DEF WarningsHold, WarningInv, Mine, Released, RequestOf, AfterGuard
<1>9. \A u : Updating(u)' = {}
  BY <1>3 DEF Updating, Active, StatsCalls
<1>10. UpdatesHold'
  BY <1>1, <1>2, <1>9 DEF UpdatesHold, UpdateInv, StatsExplained, AtMost
<1> QED
  BY <1>4, <1>5, <1>6, <1>7, <1>8, <1>10, PartsNext
     DEF QuotesHold, PaymentsHold, BalancesHold, WarningsHold

LEMMA InitHolds == Init => IInv
<1> SUFFICES ASSUME Init PROVE IInv
  OBVIOUS
<1>1. NoStats \in Stats /\ NoJob \in Job /\ NoRequest \in Request
  <2>1. NoStats \in Stats
    BY DEF NoStats, Stats
  <2>2. NoJob \in Job
    BY <2>1 DEF NoJob, NoFees, Job
  <2> QED
    BY <2>1, <2>2 DEF NoRequest, Request
<1>2. [status |-> "none", transfers |-> <<>>] \in Payment
  BY DEF Payment
<1>3. TypeOK
  <2>1. pc \in [Calls -> Label] /\ job \in [Calls -> Job] /\ mishaps \in [Calls -> SUBSET Mishap]
    BY <1>1 DEF Init, Label
  <2>2. stats \in [Users -> Stats] /\ tally \in [Users -> Stats]
    BY <1>1 DEF Init
  <2>3. payment \in [Sigs -> Payment]
    BY <1>2 DEF Init
  <2>4. request \in [Programs -> Request] /\ admin \in Nat
    BY <1>1, AdmissionAssumption DEF Init
  <2>5. row \in [Calls -> {"none", "pending", "success", "failed"}]
    BY DEF Init
  <2> QED
    BY <2>1, <2>2, <2>3, <2>4, <2>5 DEF Init, TypeOK
<1>4. ASSUME NEW c \in Calls
      PROVE  /\ pc[c] = "idle" /\ row[c] = "none" /\ c \notin warned
             /\ job[c].rent = 0 /\ job[c].tries = 0
  BY DEF Init, NoJob
<1>5. QuotesHold
  BY <1>4 DEF QuotesHold, CallerInv, QuoteInv, Fits, Unquoted
<1>6. PaymentsHold
  BY <1>4, Untested DEF PaymentsHold, PaymentInv, Admitted, Unpaid, Unquoted
<1>7. BalancesHold /\ WarningsHold
  BY <1>4 DEF BalancesHold, BalanceInv, Suffices, WarningsHold, WarningInv
<1>8. StatsExplained
  BY DEF Init, StatsExplained, AtMost, NoStats
<1>9. UpdatesHold
  BY <1>4, <1>8 DEF UpdatesHold, UpdateInv, Updating
<1> QED
  BY <1>3, <1>5, <1>6, <1>7, <1>9, Parts

LEMMA NextKeeps == IInv /\ [Next]_vars => IInv'
<1> SUFFICES ASSUME IInv, [Next]_vars PROVE IInv'
  OBVIOUS
<1>1. CASE UNCHANGED vars
  <2>1. TypeOK /\ QuotesHold /\ PaymentsHold /\ BalancesHold /\ WarningsHold /\ UpdatesHold
    BY Parts
  <2>2. /\ UNCHANGED <<pc, job, mishaps, row, listed, stats, tally, overlapped, size, payment>>
        /\ UNCHANGED <<request, known, admin, outspent, grown, warned>>
    BY <1>1 DEF vars, callVars, statsVars, chainVars
  <2>3. TypeOK'
    BY <2>1, <2>2 DEF TypeOK
  <2> QED
    BY <2>1, <2>2, <2>3, QuotesSame, PaymentsSame, BalancesSame, WarningsSame, UpdatesSame,
       PartsNext
<1>2. ASSUME NEW c \in Calls, QuoteStep(c) \/ PaymentStep(c) PROVE IInv'
  BY <1>2, VerifyProgramKeeps, DumpProgramKeeps, RateAccountKeeps, VerifyPaymentKeeps,
     CreateDeploymentKeeps DEF QuoteStep, PaymentStep
<1>3. ASSUME NEW c \in Calls, RequestStep(c) PROVE IInv'
  BY <1>3, PlainRequestKeeps, CheckExistenceKeeps, GuardRequestKeeps, CheckBalanceKeeps,
     RequestAirdropKeeps, CreateDeployRequestKeeps DEF RequestStep
<1>4. ASSUME NEW c \in Calls, RunStep(c) \/ StatsStep(c) PROVE IInv'
  BY <1>4, RunKeeps, MarkKeeps, ReadStatsKeeps, CreateUserStatsKeeps, UpdateUserStatsKeeps
     DEF RunStep, StatsStep
<1>5. ASSUME NEW c \in Calls, UserStep(c) PROVE IInv'
  BY <1>5, CalculateCostsKeeps, ExecuteDeployKeeps, PayKeeps DEF UserStep
<1> QED
  BY <1>1, <1>2, <1>3, <1>4, <1>5, LandKeeps, UpgradeKeeps, ExpireSubscriptionKeeps, CrashKeeps
     DEF Next, Step

\* IInv, what the parts of every request say of its quote, its payment, its
\* request on chain and its statistics, always holds.
THEOREM Invariance == Spec => []IInv
  BY InitHolds, NextKeeps, PTL DEF Spec

\* The variables keep their types.
THEOREM TypeCorrectness == Spec => []TypeOK
<1>1. IInv => TypeOK
  BY DEF IInv
<1> QED
  BY <1>1, Invariance, PTL

\* No row without a confirmed payment of what its request names for each pool,
\* up to the tolerance; and who is accepted on chain owes the reward pool.
THEOREM AdmittedIsPaidHolds == Spec => []AdmittedIsPaid
<1>1. IInv => AdmittedIsPaid
  BY DEF IInv
<1> QED
  BY <1>1, Invariance, PTL

\* An exact payment is refused only if no try found it.
THEOREM HonestPaymentHolds == Spec => []HonestPaymentAccepted
<1>1. IInv => HonestPaymentAccepted
  BY DEF IInv, PaymentInv, HonestPaymentAccepted
<1> QED
  BY <1>1, Invariance, PTL

\* A quote covers the rent of the account of the program that was dumped.
THEOREM QuoteCoversRentHolds == Spec => []QuoteCoversRent
<1>1. IInv => QuoteCoversRent
  BY DEF IInv
<1> QED
  BY <1>1, Invariance, PTL

\* A request is sent with the lamports it needs, unless another one took them.
THEOREM BalanceSufficesHolds == Spec => []BalanceSuffices
<1>1. IInv => BalanceSuffices
  BY DEF IInv
<1> QED
  BY <1>1, Invariance, PTL

\* Statistics add up, and lose increments only to an overlap.
THEOREM StatsExplainedHolds == Spec => []StatsExplained
<1>1. IInv => StatsExplained
  BY DEF IInv
<1> QED
  BY <1>1, Invariance, PTL

\* The swallowed error for another developer's request lets nobody through.
THEOREM WarnedIsRefusedHolds == Spec => []WarnedIsRefused
<1>1. IInv => WarnedIsRefused
  <2>1. AfterGuard \cap Accepted = {}
    BY DEF AfterGuard, Accepted, StatsCalls
  <2> QED
    BY <2>1 DEF IInv, TypeOK, WarningInv, WarnedIsRefused
<1> QED
  BY <1>1, Invariance, PTL
=============================================================================
