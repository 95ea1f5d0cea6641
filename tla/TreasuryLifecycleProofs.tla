--------------------- MODULE TreasuryLifecycleProofs ---------------------
(* IInv is an invariant of TreasuryLifecycle for any number of start-ups,  *)
(* scripts and stakes. A step concerns one call; ResetInv and StakeInv of  *)
(* every other call survive it because what they say of the account only   *)
(* stops holding when that call is marked as raced, or the account closed. *)
EXTENDS TreasuryLifecycle, TLAPS

\* The kinds of calls are disjoint, so a label tells the kind of its call.
LEMMA Kinds ==
    /\ \A b \in Backends : b \notin Resets /\ b \notin Closes /\ b \notin Stakers
    /\ \A r \in Resets : r \notin Closes /\ r \notin Stakers
    /\ \A c \in Closes : c \notin Stakers
    /\ Backends \subseteq Calls /\ Resets \subseteq Calls
    /\ Closes \subseteq Calls /\ Stakers \subseteq Calls
  BY KindsAssumption DEF Calls, Stakers

\* A step of one call that changes nothing but its label and its answer.
Moves(c, l, o) == /\ pc' = [pc EXCEPT ![c] = l]
                  /\ outcome' = [outcome EXCEPT ![c] = o]
                  /\ l \in Labels(c) /\ o \in Outcomes

LEMMA LabelsKnown ==
  \A c \in Calls : Labels(c) \subseteq
      {"idle", "ensure", "initialize", "funds", "close", "reinit",
       "fetch", "report", "verify", "done"}
  BY DEF Labels

\* Moves keeps the types of the labels and the answers.
LEMMA MovesTyped ==
  ASSUME TypeOK, NEW c \in Calls, NEW l, NEW o, Moves(c, l, o)
  PROVE  /\ pc' \in [Calls -> {"idle", "ensure", "initialize", "funds", "close",
                               "reinit", "fetch", "report", "verify", "done"}]
         /\ \A d \in Calls : pc'[d] \in Labels(d)
         /\ outcome' \in [Calls -> Outcomes]
         /\ pc'[c] = l /\ outcome'[c] = o
         /\ \A d \in Calls : d # c => pc'[d] = pc[d] /\ outcome'[d] = outcome[d]
  BY LabelsKnown DEF TypeOK, Moves

\* A quiet step keeps the invariant if it keeps the part of its own call.
LEMMA QuietKeeps ==
  ASSUME IInv, NEW c \in Calls, NEW l, NEW o, Moves(c, l, o), Quiet,
         c \in Resets => ResetInv(c)',
         c \in Stakers => StakeInv(c)'
  PROVE  IInv'
<1>1. TypeOK'
  BY MovesTyped DEF IInv, TypeOK, Quiet
<1>2. HuskInv' /\ DepositsSurvive'
  BY DEF IInv, HuskInv, DepositsSurvive, Quiet
<1>3. ASSUME NEW r \in Resets PROVE ResetInv(r)'
  BY MovesTyped, Kinds DEF IInv, ResetInv, Quiet
<1>4. ASSUME NEW s \in Stakers PROVE StakeInv(s)'
  BY MovesTyped, Kinds DEF IInv, StakeInv, Excused, Quiet
<1> QED
  BY <1>1, <1>2, <1>3, <1>4 DEF IInv

LEMMA GoesMoves ==
  ASSUME TypeOK, NEW c \in Calls, NEW l \in Labels(c), Goes(c, l)
  PROVE  Moves(c, l, outcome[c])
  BY DEF TypeOK, Goes, Moves

LEMMA EndsMoves ==
  ASSUME NEW c \in Calls, NEW o \in Outcomes, Ends(c, o)
  PROVE  Moves(c, "done", o)
  BY DEF Ends, Moves, Labels

\* A start-up keeps the invariant where it only looks.
LEMMA QuietBoot ==
  ASSUME IInv, NEW b \in Calls,
         \/ VerifyProgramDeployed(b)
         \/ EnsureTreasuryPoolInitialized(b)
         \/ EnsureTreasuryHasFunds(b)
  PROVE  IInv'
<1>1. b \in Backends /\ b \notin Resets /\ b \notin Stakers /\ TypeOK
  BY Kinds DEF IInv, TypeOK, Labels, Calls, VerifyProgramDeployed,
     EnsureTreasuryPoolInitialized, EnsureTreasuryHasFunds
<1>2. "ensure" \in Labels(b) /\ "funds" \in Labels(b) /\ "initialize" \in Labels(b)
  BY <1>1 DEF Labels
<1>3. Quiet
  BY DEF VerifyProgramDeployed, EnsureTreasuryPoolInitialized, EnsureTreasuryHasFunds
<1>4. \E l, o : Moves(b, l, o)
  <2>1. \/ \E l \in Labels(b) : Goes(b, l)
        \/ \E o \in Outcomes : Ends(b, o)
    BY <1>2 DEF Outcomes, VerifyProgramDeployed, EnsureTreasuryPoolInitialized,
       EnsureTreasuryHasFunds
  <2> QED
    BY <2>1, <1>1, GoesMoves, EndsMoves
<1> QED
  BY <1>1, <1>3, <1>4, QuietKeeps

\* So does a script: a reset that its test lets through has not seen a pool.
LEMMA QuietScript ==
  ASSUME IInv, NEW c \in Calls,
         \/ LookBeforeReset(c)
         \/ LookBeforeClose(c)
         \/ ReportClosed(c)
         \/ FetchAfterReset(c)
  PROVE  IInv'
<1>1. c \in Resets \cup Closes /\ c \notin Stakers /\ TypeOK
  BY Kinds DEF IInv, TypeOK, Labels, Calls, LookBeforeReset, LookBeforeClose,
     ReportClosed, FetchAfterReset
<1>2. Quiet
  BY DEF LookBeforeReset, LookBeforeClose, ReportClosed, FetchAfterReset
<1>3. CASE LookBeforeReset(c)
  <2>1. c \in Resets /\ "reinit" \in Labels(c) /\ "close" \in Labels(c)
    BY <1>3, Kinds DEF LookBeforeReset, Labels
  <2>2. CASE ~Exists /\ Goes(c, "reinit")
    <3>1. Moves(c, "reinit", outcome[c])
      BY <2>1, <2>2, <1>1, GoesMoves
    <3>2. ResetInv(c)'
      BY <2>2, <1>2 DEF ResetInv, Exists, IsPool, Quiet
    <3> QED
      BY <3>1, <3>2, <1>1, <1>2, QuietKeeps
  <2>3. CASE Exists /\ NeedsReset(account) /\ Goes(c, "close")
    <3>1. Moves(c, "close", outcome[c])
      BY <2>1, <2>3, <1>1, GoesMoves
    <3>2. ResetInv(c)'
      BY <2>3, <1>2 DEF ResetInv, NeedsReset, IsPool, Quiet
    <3> QED
      BY <3>1, <3>2, <1>1, <1>2, QuietKeeps
  <2>4. CASE Ends(c, "notNeeded")
    <3>1. Moves(c, "done", "notNeeded")
      BY <2>4, EndsMoves DEF Outcomes
    <3>2. ResetInv(c)'
      BY <3>1, <1>1, MovesTyped DEF ResetInv
    <3> QED
      BY <3>1, <3>2, <1>1, <1>2, QuietKeeps
  <2> QED
    BY <1>3, <2>2, <2>3, <2>4 DEF LookBeforeReset
<1>4. CASE LookBeforeClose(c) \/ ReportClosed(c)
  <2>1. c \in Closes /\ c \notin Resets /\ "close" \in Labels(c)
    BY <1>1, <1>4, Kinds DEF LookBeforeClose, ReportClosed, Labels, IInv, TypeOK
  <2>2. \/ \E l \in Labels(c) : Goes(c, l)
        \/ \E o \in Outcomes : Ends(c, o)
    BY <2>1, <1>4 DEF Outcomes, LookBeforeClose, ReportClosed
  <2> QED
    BY <2>1, <2>2, <1>1, <1>2, GoesMoves, EndsMoves, QuietKeeps
<1>5. CASE FetchAfterReset(c)
  <2>1. PICK o \in Outcomes : Ends(c, o)
    BY <1>5 DEF FetchAfterReset, Outcomes
  <2>2. Moves(c, "done", o)
    BY <2>1, EndsMoves
  <2>3. ResetInv(c)'
    BY <2>2, <1>1, MovesTyped DEF ResetInv
  <2> QED
    BY <2>2, <2>3, <1>1, <1>2, QuietKeeps
<1> QED
  BY <1>3, <1>4, <1>5

\* A stake of the service that is read back as failed has a reason; the script
\* does not read back.
LEMMA QuietStake ==
  ASSUME IInv, NEW s \in Calls, VerifyStake(s)
  PROVE  IInv'
<1>1. s \in Stakers /\ s \notin Resets /\ TypeOK /\ StakeInv(s)
  BY Kinds DEF IInv, TypeOK, Labels, Calls, VerifyStake
<1>2. PICK o \in Outcomes :
         Ends(s, o) /\ (o = "failed" => ~IsPool(account) /\ s \notin StakeScripts)
  BY DEF VerifyStake, Outcomes
<1>3. Moves(s, "done", o)
  BY <1>2, EndsMoves
<1>4. pc'[s] = "done" /\ outcome'[s] = o
  BY <1>1, <1>3, MovesTyped
<1>5. StakeInv(s)'
  BY <1>1, <1>2, <1>4 DEF StakeInv, Excused, Stakers, VerifyStake, Quiet
<1> QED
  BY <1>1, <1>3, <1>5, QuietKeeps DEF VerifyStake

\* A start-up that creates the pool marks every reset that has looked.
LEMMA InitializeKeeps ==
  ASSUME IInv, NEW b \in Calls, InitializeTreasuryPool(b)
  PROVE  IInv'
<1>1. b \in Backends /\ b \notin Resets /\ b \notin Stakers /\ TypeOK
  BY Kinds DEF IInv, TypeOK, Labels, Calls, InitializeTreasuryPool
<1>2. CASE Exists /\ Ends(b, "up") /\ UNCHANGED <<account, raced>>
  <2>1. Moves(b, "done", "up") /\ Quiet
    BY <1>2, EndsMoves DEF Outcomes, InitializeTreasuryPool, Quiet
  <2> QED
    BY <2>1, <1>1, QuietKeeps
<1>3. CASE ~Exists /\ account' = Empty("pool", "new") /\ Opens(b) /\ Goes(b, "funds")
  <2>1. Moves(b, "funds", outcome[b])
    BY <1>1, <1>3, GoesMoves DEF Labels
  <2>2. TypeOK'
    BY <1>1, <1>3, <2>1, MovesTyped
       DEF TypeOK, InitializeTreasuryPool, Empty, Accounts, Opens
  <2>3. HuskInv' /\ DepositsSurvive'
    BY <1>3 DEF IInv, HuskInv, DepositsSurvive, InitializeTreasuryPool, Empty
  <2>4. ASSUME NEW r \in Resets PROVE ResetInv(r)'
    <3>1. r \in Calls /\ r # b /\ pc'[r] = pc[r]
      BY <1>1, <2>1, MovesTyped, Kinds
    <3> QED
      BY <1>3, <3>1 DEF ResetInv, Opens
  <2>5. ASSUME NEW s \in Stakers PROVE StakeInv(s)'
    BY <1>1, <1>3, <2>1, MovesTyped, Kinds
       DEF IInv, StakeInv, Excused, IsPool, Empty, InitializeTreasuryPool
  <2> QED
    BY <2>2, <2>3, <2>4, <2>5 DEF IInv
<1> QED
  BY <1>2, <1>3 DEF InitializeTreasuryPool

\* What a close or a reinitialisation wipes is accounted for.
LEMMA WipesKeeps ==
  ASSUME IInv, NEW c \in Resets \cup Closes, Wipes(c),
         c \in Resets => ResetInv(c) /\ pc[c] \in {"close", "reinit"}
  PROVE  DepositsSurvive' /\ wipes' \subseteq [by: {"close", "reset"}, raced: BOOLEAN]
<1>1. c \in Calls /\ raced[c] \in BOOLEAN
  BY Kinds DEF IInv, TypeOK
<1>2. IsPool(account) => c \in Closes \/ raced[c] = TRUE
  BY <1>1 DEF ResetInv
<1> QED
  BY <1>1, <1>2 DEF IInv, TypeOK, DepositsSurvive, Wipes

\* A close leaves no pool to any reset.
LEMMA CloseKeeps ==
  ASSUME IInv, NEW c \in Calls, CloseTreasuryPool(c)
  PROVE  IInv'
<1>1. c \in Resets \cup Closes /\ c \notin Stakers /\ TypeOK /\ pc[c] = "close"
  BY Kinds DEF IInv, TypeOK, Labels, Calls, CloseTreasuryPool
<1>2. CASE ~Exists /\ Ends(c, "failed") /\ UNCHANGED <<account, wipes, closed>>
  <2>1. Moves(c, "done", "failed") /\ Quiet
    BY <1>2, EndsMoves DEF Outcomes, CloseTreasuryPool, Quiet
  <2>2. ResetInv(c)'
    BY <2>1, <1>1, MovesTyped DEF ResetInv
  <2> QED
    BY <2>1, <2>2, <1>1, QuietKeeps
<1>3. CASE /\ account' \in {Absent, Empty("husk", account.layout)}
           /\ Wipes(c)
           /\ closed' = TRUE
           /\ Goes(c, IF c \in Closes THEN "report" ELSE "reinit")
  <2>1. \E l \in Labels(c) : Goes(c, l)
    BY <1>1, <1>3, Kinds DEF Labels
  <2>2. PICK l : Moves(c, l, outcome[c])
    BY <1>1, <2>1, GoesMoves
  <2>3. account' \in Accounts /\ ~IsPool(account')
    BY <1>1, <1>3 DEF TypeOK, Accounts, Absent, Empty, IsPool
  <2>4. c \in Resets => ResetInv(c)
    BY DEF IInv
  <2>5. DepositsSurvive' /\ wipes' \subseteq [by: {"close", "reset"}, raced: BOOLEAN]
    BY <1>1, <1>3, <2>4, WipesKeeps
  <2>6. TypeOK'
    BY <1>1, <1>3, <2>2, <2>3, <2>5, MovesTyped DEF TypeOK, CloseTreasuryPool
  <2>7. HuskInv'
    BY <1>3 DEF HuskInv
  <2>8. \A r \in Resets : ResetInv(r)'
    BY <2>3 DEF ResetInv
  <2>9. ASSUME NEW s \in Stakers PROVE StakeInv(s)'
    BY <1>1, <1>3, <2>2, MovesTyped, Kinds DEF IInv, StakeInv, Excused, CloseTreasuryPool
  <2> QED
    BY <2>5, <2>6, <2>7, <2>8, <2>9 DEF IInv
<1> QED
  BY <1>2, <1>3 DEF CloseTreasuryPool

\* A reset that creates the pool marks every other one that has looked.
LEMMA ReinitializeKeeps ==
  ASSUME IInv, NEW c \in Calls, ReinitializeTreasuryPool(c)
  PROVE  IInv'
<1>1. c \in Resets /\ c \notin Stakers /\ TypeOK /\ pc[c] = "reinit" /\ ResetInv(c)
  BY Kinds DEF IInv, TypeOK, Labels, Calls, ReinitializeTreasuryPool
<1>2. CASE Ends(c, "inUse") /\ UNCHANGED <<account, raced, wipes>>
  <2>1. Moves(c, "done", "inUse") /\ Quiet
    BY <1>2, EndsMoves DEF Outcomes, ReinitializeTreasuryPool, Quiet
  <2>2. ResetInv(c)'
    BY <2>1, <1>1, MovesTyped DEF ResetInv
  <2> QED
    BY <2>1, <2>2, <1>1, QuietKeeps
<1>3. CASE /\ account' = Empty("pool", "new")
           /\ Opens(c)
           /\ Wipes(c)
           /\ Goes(c, "fetch")
  <2>1. Moves(c, "fetch", outcome[c])
    BY <1>1, <1>3, Kinds, GoesMoves DEF Labels
  <2>2. DepositsSurvive' /\ wipes' \subseteq [by: {"close", "reset"}, raced: BOOLEAN]
    BY <1>1, <1>3, WipesKeeps
  <2>3. TypeOK'
    BY <1>1, <1>3, <2>1, <2>2, MovesTyped
       DEF TypeOK, ReinitializeTreasuryPool, Empty, Accounts, Opens
  <2>4. HuskInv'
    BY <1>3 DEF HuskInv, Empty
  <2>5. ASSUME NEW r \in Resets PROVE ResetInv(r)'
    <3>1. r \in Calls /\ (r # c => pc'[r] = pc[r]) /\ pc'[c] = "fetch"
      BY <1>1, <2>1, MovesTyped, Kinds
    <3> QED
      BY <1>3, <3>1 DEF ResetInv, Opens
  <2>6. ASSUME NEW s \in Stakers PROVE StakeInv(s)'
    BY <1>1, <1>3, <2>1, MovesTyped, Kinds
       DEF IInv, StakeInv, Excused, IsPool, Empty, ReinitializeTreasuryPool
  <2> QED
    BY <2>2, <2>3, <2>4, <2>5, <2>6 DEF IInv
<1> QED
  BY <1>2, <1>3 DEF ReinitializeTreasuryPool

\* A stake goes into a pool, which only grows; into an account that cannot be
\* read, which is noted; or it makes a pool under every reset that has looked.
LEMMA StakeSolKeeps ==
  ASSUME IInv, NEW s \in Calls, StakeSol(s)
  PROVE  IInv'
<1>1. s \in Stakers /\ s \notin Resets /\ TypeOK /\ StakeInv(s) /\ pc[s] = "idle"
  BY Kinds DEF IInv, StakeSol
<1>2. CASE Ends(s, "failed") /\ UNCHANGED <<account, raced, landed, unread>>
  <2>1. Moves(s, "done", "failed") /\ Quiet
    BY <1>2, EndsMoves DEF Outcomes, StakeSol, Quiet
  <2>2. StakeInv(s)'
    BY <2>1, <1>1, MovesTyped DEF StakeInv, Excused, Quiet
  <2> QED
    BY <2>1, <2>2, <1>1, QuietKeeps
<1>3. CASE /\ Deposit(s)
           /\ landed' = [landed EXCEPT ![s] = @ + 1]
           /\ Goes(s, "verify")
  <2>1. Moves(s, "verify", outcome[s])
    BY <1>1, <1>3, Kinds, GoesMoves DEF Labels
  <2>2. landed' \in [Stakers -> Nat] /\ unread' \subseteq Stakes /\ unread \subseteq unread'
    BY <1>1, <1>3 DEF TypeOK, Deposit
  <2>3. account' \in Accounts /\ (IsPool(account) => IsPool(account'))
    BY <1>1, <1>3 DEF TypeOK, Accounts, IsPool, Deposit, Deposited, Empty
  <2>4. s \in Stakes => IsPool(account') \/ s \in unread'
    BY <1>1, <1>3 DEF TypeOK, Accounts, IsPool, Deposit, Deposited, Empty
  <2>5. account'.state = "husk" => account.state = "husk"
    BY <1>1, <1>3 DEF TypeOK, Accounts, IsPool, Deposit, Deposited, Empty
  <2>6. raced' \in [Calls -> BOOLEAN]
    BY <1>1, <1>3 DEF TypeOK, Deposit, Opens
  <2>7. TypeOK'
    BY <1>1, <2>1, <2>2, <2>3, <2>6, MovesTyped DEF TypeOK, StakeSol
  <2>8. HuskInv' /\ DepositsSurvive'
    BY <2>5 DEF IInv, HuskInv, DepositsSurvive, StakeSol
  <2>9. ASSUME NEW r \in Resets PROVE ResetInv(r)'
    <3>1. r \in Calls /\ r # s /\ pc'[r] = pc[r] /\ ResetInv(r)
      BY <1>1, <2>1, MovesTyped, Kinds DEF IInv
    <3>2. CASE Opens(s)
      BY <3>1, <3>2 DEF ResetInv, Opens
    <3>3. CASE UNCHANGED raced /\ (IsPool(account') => IsPool(account))
      BY <3>1, <3>3 DEF ResetInv
    <3> QED
      BY <1>3, <3>2, <3>3 DEF Deposit
  <2>10. ASSUME NEW t \in Stakers PROVE StakeInv(t)'
    <3>1. CASE t = s
      <4>1. landed[s] \in Nat /\ landed'[s] = landed[s] + 1 /\ mishaps \in Nat
        BY <1>1, <1>3, BoundsAssumption DEF TypeOK
      <4>2. landed[s] > 0 => Excused(s)
        BY <1>1 DEF StakeInv
      <4>3. pc'[s] = "verify" /\ UNCHANGED <<mishaps, closed>>
        BY <1>1, <2>1, MovesTyped DEF StakeSol
      <4>4. Excused(s) => Excused(s)'
        BY <2>2, <4>3 DEF Excused
      <4>5. landed'[s] > 0 /\ (landed'[s] > 1 => landed[s] > 0)
        BY <4>1
      <4> QED
        BY <3>1, <4>2, <4>3, <4>4, <4>5, <2>4 DEF StakeInv
    <3>2. CASE t # s
      <4>1. pc'[t] = pc[t] /\ outcome'[t] = outcome[t] /\ landed'[t] = landed[t]
        BY <1>1, <1>3, <3>2, <2>1, MovesTyped, Kinds DEF TypeOK
      <4> QED
        BY <4>1, <2>2, <2>3 DEF IInv, StakeInv, Excused, StakeSol
    <3> QED
      BY <3>1, <3>2
  <2> QED
    BY <2>7, <2>8, <2>9, <2>10 DEF IInv
<1> QED
  BY <1>2, <1>3 DEF StakeSol

\* A mishap is a reason to fail.
LEMMA LoseKeeps ==
  ASSUME IInv, NEW c \in Calls, Lose(c)
  PROVE  IInv'
<1>1. PICK o \in Outcomes : Ends(c, o)
  BY DEF Lose, Outcomes
<1>2. Moves(c, "done", o) /\ TypeOK
  BY <1>1, EndsMoves DEF IInv
<1>3. mishaps' \in 0..MaxMishaps /\ mishaps' > 0 /\ mishaps \in Nat
  BY <1>2, BoundsAssumption DEF Lose, TypeOK
<1>4. TypeOK'
  BY <1>2, <1>3, MovesTyped DEF TypeOK, Lose
<1>5. HuskInv' /\ DepositsSurvive'
  BY DEF IInv, HuskInv, DepositsSurvive, Lose
<1>6. ASSUME NEW r \in Resets PROVE ResetInv(r)'
  BY <1>2, MovesTyped, Kinds DEF IInv, ResetInv, Lose
<1>7. ASSUME NEW s \in Stakers PROVE StakeInv(s)'
  BY <1>2, <1>3, MovesTyped, Kinds DEF IInv, StakeInv, Excused, Lose
<1> QED
  BY <1>4, <1>5, <1>6, <1>7 DEF IInv

\* A call that starts again has looked at nothing yet.
LEMMA RunAgainKeeps ==
  ASSUME IInv, NEW c \in Calls, RunAgain(c)
  PROVE  IInv'
<1>1. Moves(c, "idle", "none") /\ TypeOK
  BY DEF IInv, RunAgain, Moves, Labels, Outcomes
<1>2. TypeOK'
  BY <1>1, MovesTyped DEF TypeOK, RunAgain
<1>3. HuskInv' /\ DepositsSurvive'
  BY DEF IInv, HuskInv, DepositsSurvive, RunAgain
<1>4. ASSUME NEW r \in Resets PROVE ResetInv(r)'
  <2>1. r \in Calls /\ (r # c => pc'[r] = pc[r] /\ raced'[r] = raced[r]) /\ pc'[c] = "idle"
    BY <1>1, MovesTyped, Kinds DEF RunAgain, TypeOK
  <2> QED
    BY <2>1 DEF IInv, ResetInv, RunAgain
<1>5. ASSUME NEW s \in Stakers PROVE StakeInv(s)'
  BY <1>1, MovesTyped, Kinds DEF IInv, StakeInv, Excused, RunAgain
<1> QED
  BY <1>2, <1>3, <1>4, <1>5 DEF IInv

LEMMA InitHolds == Init => IInv
<1> SUFFICES ASSUME Init PROVE IInv
  OBVIOUS
<1>1. account \in Accounts /\ account.state # "husk"
  BY DEF Init, Accounts, Absent, Empty
<1>2. TypeOK
  <2>1. \A c \in Calls : pc[c] = "idle" /\ "idle" \in Labels(c)
    BY DEF Init, Labels
  <2>2. outcome \in [Calls -> Outcomes] /\ raced \in [Calls -> BOOLEAN]
    BY DEF Init, Outcomes
  <2>3. landed \in [Stakers -> Nat] /\ mishaps \in 0..MaxMishaps
    BY BoundsAssumption DEF Init
  <2>4. pc \in [Calls -> {"idle", "ensure", "initialize", "funds", "close", "reinit",
                         "fetch", "report", "verify", "done"}]
    BY DEF Init
  <2> QED
    BY <1>1, <2>1, <2>2, <2>3, <2>4 DEF Init, TypeOK
<1>3. \A r \in Resets : ResetInv(r)
  BY Kinds DEF Init, ResetInv
<1>4. \A s \in Stakers : StakeInv(s)
  BY Kinds DEF Init, StakeInv
<1> QED
  BY <1>1, <1>2, <1>3, <1>4 DEF IInv, HuskInv, DepositsSurvive, Init

LEMMA NextKeeps == IInv /\ [Next]_vars => IInv'
<1> SUFFICES ASSUME IInv, [Next]_vars PROVE IInv'
  OBVIOUS
<1>1. CASE UNCHANGED vars
  BY <1>1 DEF IInv, TypeOK, HuskInv, DepositsSurvive, ResetInv, StakeInv, Excused, vars
<1>2. ASSUME NEW c \in Calls, Boot(c) PROVE IInv'
  BY <1>2, QuietBoot, InitializeKeeps DEF Boot
<1>3. ASSUME NEW c \in Calls, Script(c) PROVE IInv'
  BY <1>3, QuietScript, CloseKeeps, ReinitializeKeeps DEF Script
<1>4. ASSUME NEW c \in Calls, Stake(c) PROVE IInv'
  BY <1>4, StakeSolKeeps, QuietStake DEF Stake
<1> QED
  BY <1>1, <1>2, <1>3, <1>4, LoseKeeps, RunAgainKeeps DEF Next

\* IInv always holds: a reset about to act has seen no pool unless it was
\* overtaken, and a stake of the service on its way back is in a readable pool
\* unless the pool was closed or it went into an account of another layout.
THEOREM Invariance == Spec => []IInv
  BY InitHolds, NextKeeps, PTL DEF Spec

\* Each call stays on its own path, and every variable keeps its type.
THEOREM TypeCorrectness == Spec => []TypeOK
<1>1. IInv => TypeOK
  BY DEF IInv
<1> QED
  BY <1>1, Invariance, PTL

\* Deposits of a readable pool are wiped by nobody but the close script and
\* resets that were overtaken (reset-treasury-pool.ts, the size test).
THEOREM DepositsSurviveHolds == Spec => []DepositsSurvive
<1>1. IInv => DepositsSurvive
  BY DEF IInv
<1> QED
  BY <1>1, Invariance, PTL

\* A repeated stake lands twice only after a failure or, of stakeSolToTreasury,
\* after a close or after it landed in an account that cannot be read back.
THEOREM DoubleStakeHolds == Spec => []DoubleStakeExplained
<1>1. IInv => DoubleStakeExplained
  BY DEF IInv, StakeInv, DoubleStakeExplained
<1> QED
  BY <1>1, Invariance, PTL

\* While a husk of the new layout is there and no reset is past its look,
\* no reset gets past its look.
LEMMA NoResetGoesOn ==
  ASSUME TypeOK, Next, Stranded, NEW r \in Resets
  PROVE  pc'[r] \notin {"close", "reinit"}
<1>1. r \in Calls /\ pc[r] \notin {"close", "reinit"} /\ Exists /\ ~NeedsReset(account)
  BY Kinds DEF Stranded, Exists, NeedsReset
<1>2. PICK c \in Calls : Boot(c) \/ Script(c) \/ Stake(c) \/ Lose(c) \/ RunAgain(c)
  BY DEF Next
<1>3. CASE c # r
  BY <1>1, <1>2, <1>3
     DEF TypeOK, Goes, Ends, Boot, VerifyProgramDeployed, EnsureTreasuryPoolInitialized,
     InitializeTreasuryPool, EnsureTreasuryHasFunds, Script, LookBeforeReset,
     LookBeforeClose, CloseTreasuryPool, ReportClosed, ReinitializeTreasuryPool,
     FetchAfterReset, Stake, StakeSol, VerifyStake, Lose, RunAgain
<1>4. CASE c = r
  <2>1. r \notin Backends /\ r \notin Closes /\ r \notin Stakers /\ pc[r] \in {"idle", "fetch", "done"}
    BY <1>1, Kinds DEF TypeOK, Labels
  <2>2. LookBeforeReset(r) \/ FetchAfterReset(r) \/ Lose(r) \/ RunAgain(r)
    BY <1>2, <1>4, <2>1 DEF Boot, VerifyProgramDeployed, EnsureTreasuryPoolInitialized,
       InitializeTreasuryPool, EnsureTreasuryHasFunds, Script, LookBeforeClose,
       CloseTreasuryPool, ReportClosed, ReinitializeTreasuryPool, Stake, StakeSol, VerifyStake
  <2> QED
    BY <1>1, <2>2 DEF TypeOK, LookBeforeReset, FetchAfterReset, Lose, RunAgain, Goes, Ends
<1> QED
  BY <1>3, <1>4

\* A step leaves such a husk as it is, or removes it, or is a stake that lands.
LEMMA HuskStep ==
  ASSUME TypeOK, Next, Stranded
  PROVE  Stranded' \/ account'.state = "absent" \/ landed' # landed
<1>1. account.state = "husk" /\ account.layout = "new" /\ Exists /\ ~IsPool(account)
  BY DEF Stranded, Exists, IsPool
<1>2. PICK c \in Calls : Boot(c) \/ Script(c) \/ Stake(c) \/ Lose(c) \/ RunAgain(c)
  BY DEF Next
<1>3. CASE CloseTreasuryPool(c)
  BY <1>1, <1>3, NoResetGoesOn DEF CloseTreasuryPool, Absent, Empty, Stranded
<1>4. ~ReinitializeTreasuryPool(c)
  BY Kinds DEF TypeOK, Labels, Calls, ReinitializeTreasuryPool, Stranded
<1>5. CASE StakeSol(c)
  <2>1. CASE landed' = [landed EXCEPT ![c] = @ + 1]
    <3>1. c \in Stakers /\ landed \in [Stakers -> Nat]
      BY <1>5 DEF TypeOK, StakeSol
    <3>2. landed'[c] = landed[c] + 1 /\ landed[c] \in Nat
      BY <2>1, <3>1
    <3> QED
      BY <3>2
  <2>2. CASE UNCHANGED account
    BY <1>1, <2>2, NoResetGoesOn DEF Stranded
  <2> QED
    BY <1>5, <2>1, <2>2 DEF StakeSol
<1>6. CASE ~CloseTreasuryPool(c) /\ ~StakeSol(c)
  <2>1. UNCHANGED account
    BY <1>1, <1>2, <1>4, <1>6
       DEF Boot, VerifyProgramDeployed, EnsureTreasuryPoolInitialized,
       InitializeTreasuryPool, EnsureTreasuryHasFunds, Script, LookBeforeReset,
       LookBeforeClose, ReportClosed, FetchAfterReset, Stake, VerifyStake,
       Lose, RunAgain, Quiet
  <2> QED
    BY <1>1, <2>1, NoResetGoesOn DEF Stranded
<1> QED
  BY <1>3, <1>5, <1>6

\* What the close script leaves of a pool of the new layout, if it is not
\* removed, is not brought back by a start-up or a reset, although
\* close-treasury-pool.ts names the reset script as the next step. Only a stake
\* that the chain takes there may make a pool of it.
THEOREM HuskStaysHolds == Spec => HuskStays
<1>1. TypeOK /\ [Next]_vars => [Stranded => Stranded' \/ account'.state = "absent" \/ landed' # landed]_vars
  BY HuskStep
<1> QED
  BY <1>1, TypeCorrectness, PTL DEF Spec, HuskStays
=============================================================================
