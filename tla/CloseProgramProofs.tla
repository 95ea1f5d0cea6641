------------------------- MODULE CloseProgramProofs ---------------------------
(***************************************************************************)
(* CloseProgram keeps IInv, and what follows from it, for every set of     *)
(* calls and deployments and every value of the constants.                 *)
(*                                                                         *)
(* Most actions move one call and leave the row, the program and the files *)
(* alone (MoveKeeps); the others leave the CLI (LeaveKeeps), close the     *)
(* program (CloseKeeps), mark the row, or belong to the deployment's run   *)
(* (AsideKeeps).                                                           *)
(*                                                                         *)
(* SeenInv, in a part of its own, needs one more lemma per action: a step  *)
(* of one call is Gentle to what the others have seen (FrameSees,          *)
(* AsideSees), and leaves the call itself with what its next label says.   *)
(***************************************************************************)
EXTENDS CloseProgram, TLAPS

\* The labels a call may move between without touching the row, the program,
\* the files or the request.
Allowed(from, new, l) ==
  /\ from \in Awaiting /\ l \in Awaiting \cup {"error"}
  /\ l \in BeforeClose => from \in BeforeClose
  /\ l \in CliCalls \cup {"signing"} <=> from \in CliCalls \cup {"signing"}
  /\ l \in Closed => from \in Closed
  /\ from \in AfterClose => l \in AfterClose \/ new \cap {"measure", "record"} # {}

LEMMA Moved ==
  ASSUME IInv, NEW c \in Calls, NEW new \in SUBSET Mishap, NEW l \in Label, Suffer(c, new, l)
  PROVE  /\ pc' \in [Calls -> Label] /\ mishaps' \in [Calls -> SUBSET Mishap]
         /\ pc'[c] = l /\ mishaps'[c] = mishaps[c] \cup new
         /\ \A e \in Calls \ {c} : pc'[e] = pc[e] /\ mishaps'[e] = mishaps[e]
  BY DEF IInv, TypeOK, Suffer

LEMMA MoveKeeps ==
  ASSUME IInv, TypeOK', NEW c \in Calls, NEW new \in SUBSET Mishap, NEW l \in Label,
         Suffer(c, new, l),
         \/ Allowed(pc[c], new, l)
         \/ pc[c] = "cliRunning" /\ l = "signing" /\ c \in senders,
         UNCHANGED <<status, tail, program, senders, keyFile, stamp, request>>,
         lateSweeps' \subseteq lateSweeps \cup {c}
  PROVE  IInv'
<1>1. /\ pc'[c] = l /\ mishaps'[c] = mishaps[c] \cup new
      /\ \A e \in Calls \ {c} : pc'[e] = pc[e] /\ mishaps'[e] = mishaps[e]
  BY Moved
<1>2. ASSUME NEW e \in Calls PROVE CallInv(e)'
  <2>1. CallInv(e) BY DEF IInv
  <2>2. CASE e = c
    BY <1>1, <2>1, <2>2
    DEF CallInv, Allowed, Target, Closed, AfterClose, BeforeClose, CliCalls, Awaiting
  <2>3. CASE e # c BY <1>1, <2>1, <2>3 DEF CallInv, Target
  <2> QED BY <2>2, <2>3
<1>4. ClosedIsGone'
  BY DEF IInv, ClosedIsGone
<1>5. KeyFilesRemoved'
  BY <1>1 DEF IInv, KeyFilesRemoved, Allowed, CliCalls
<1>6. UnrecordedOnlyByMishap'
  BY <1>1 DEF IInv, UnrecordedOnlyByMishap, Allowed, Target, AfterClose
<1> QED BY <1>2, <1>4, <1>5, <1>6 DEF IInv

LEMMA CloseFacts ==
  ASSUME IInv, NEW c \in Calls, pc[c] # "idle", CloseOnChain(Target(c))
  PROVE  /\ \A d \in Deployments : program'[d] = IF d = Target(c) THEN 0 ELSE program[d]
         /\ Target(c) \in Deployments /\ program[Target(c)] > 0
         /\ senders \subseteq senders'
         /\ \A e \in senders' \ senders :
              pc[e] \in {"cliRunning", "orphan"} /\ program'[Target(e)] = 0
         /\ pc[c] \in {"cliRunning", "orphan"} => c \in senders'
  BY DEF CloseOnChain, CanClose, IInv, TypeOK, CallInv

\* Leaving the CLI with an error, or with a program that is known to be closed.
LEMMA LeaveKeeps ==
  ASSUME IInv, TypeOK', NEW c \in Calls, NEW new \in SUBSET Mishap,
         NEW l \in {"error", "measuring"}, LeaveCli(c, l, new),
         IF l = "error" THEN pc[c] \in CliCalls ELSE pc[c] = "signing",
         UNCHANGED <<status, tail, stamp, request, lateSweeps>>,
         \/ UNCHANGED <<program, senders>>
         \/ CloseOnChain(Target(c)) /\ "cli" \in new
  PROVE  IInv'
<1> PICK n \in SUBSET Mishap :
         /\ Suffer(c, n, l) /\ new \subseteq n
         /\ \/ keyFile' = [keyFile EXCEPT ![stamp[c]] = None]
            \/ UNCHANGED keyFile /\ "unlink" \in n
  <2>1. CASE Suffer(c, new, l) /\ keyFile' = [keyFile EXCEPT ![stamp[c]] = None]
    BY <2>1
  <2>2. CASE Suffer(c, new \cup {"unlink"}, l) /\ UNCHANGED keyFile
    <3>1. new \cup {"unlink"} \in SUBSET Mishap BY DEF Mishap
    <3> QED BY <2>2, <3>1
  <2> QED BY <2>1, <2>2 DEF LeaveCli
<1>1. /\ pc'[c] = l /\ mishaps'[c] = mishaps[c] \cup n
      /\ \A e \in Calls \ {c} : pc'[e] = pc[e] /\ mishaps'[e] = mishaps[e]
  BY Moved DEF Label, Answers, Awaiting, AfterClose
<1>2. /\ \A d \in Deployments : program'[d] = program[d] \/ program'[d] = 0
      /\ senders \subseteq senders'
      /\ \A e \in senders' \ senders :
           pc[e] \in {"cliRunning", "orphan"} /\ program'[Target(e)] = 0
  <2>1. CASE UNCHANGED <<program, senders>> BY <2>1 DEF IInv, TypeOK
  <2>2. CASE CloseOnChain(Target(c)) /\ "cli" \in new
    BY <2>2, CloseFacts DEF CliCalls
  <2> QED BY <2>1, <2>2
<1>3. ASSUME NEW e \in Calls PROVE CallInv(e)'
  <2>1. CallInv(e) BY DEF IInv
  <2>2. CASE e = c
    BY <1>1, <1>2, <2>1, <2>2
    DEF CallInv, Target, Closed, AfterClose, BeforeClose, CliCalls
  <2>3. CASE e # c
    BY <1>1, <1>2, <2>1, <2>3
    DEF CallInv, Target, Closed, AfterClose
  <2> QED BY <2>2, <2>3
<1>5. ClosedIsGone'
  BY <1>2 DEF IInv, ClosedIsGone
<1>6. KeyFilesRemoved'
  <2> SUFFICES ASSUME NEW s \in Stamps, keyFile'[s] # None
               PROVE  \E e \in Calls : /\ stamp[e] = s
                        /\ \/ pc'[e] \in CliCalls \cup {"signing"}
                           \/ mishaps'[e] \cap {"crash", "unlink"} # {}
    BY DEF KeyFilesRemoved
  <2>1. keyFile[s] # None /\ (stamp[c] = s => "unlink" \in n)
    BY DEF IInv, TypeOK
  <2>2. PICK e \in Calls : /\ stamp[e] = s
                           /\ \/ pc[e] \in CliCalls \cup {"signing"}
                              \/ mishaps[e] \cap {"crash", "unlink"} # {}
    BY <2>1 DEF IInv, KeyFilesRemoved
  <2>3. CASE e = c BY <1>1, <2>1, <2>2, <2>3
  <2>4. CASE e # c BY <1>1, <2>2, <2>4
  <2> QED BY <2>3, <2>4
<1>7. UnrecordedOnlyByMishap'
  <2> SUFFICES ASSUME NEW d \in Deployments, status[d] = "success", program'[d] = 0
               PROVE  \E e \in Calls : /\ Target(e) = d
                        /\ \/ pc'[e] \in AfterClose
                           \/ mishaps'[e] \cap {"cli", "measure", "record", "crash"} # {}
    BY DEF UnrecordedOnlyByMishap, Target
  <2>1. CASE program[d] = 0
    <3>1. PICK e \in Calls : /\ Target(e) = d
              /\ \/ pc[e] \in AfterClose
                 \/ mishaps[e] \cap {"cli", "measure", "record", "crash"} # {}
      BY <2>1 DEF IInv, UnrecordedOnlyByMishap
    <3>2. pc'[e] \in AfterClose \/ mishaps'[e] \cap {"cli", "measure", "record", "crash"} # {}
      BY <1>1, <3>1 DEF AfterClose, CliCalls
    <3> QED BY <3>1, <3>2
  <2>2. CASE program[d] # 0
    <3>1. CloseOnChain(Target(c)) /\ "cli" \in new BY <2>2
    <3>2. Target(c) = d
      BY <2>2, <3>1 DEF IInv, TypeOK, CloseOnChain, Target
    <3>3. "cli" \in mishaps'[c] BY <1>1, <3>1
    <3> QED BY <3>2, <3>3
  <2> QED BY <2>1, <2>2
<1> QED BY <1>3, <1>5, <1>6, <1>7 DEF IInv

\* The program of c's target goes, and c knows or will never tell.
LEMMA CloseKeeps ==
  ASSUME IInv, TypeOK', NEW c \in Calls, CloseOnChain(Target(c)),
         \/ pc[c] = "cliRunning" /\ Proceed(c, "signing")
         \/ pc[c] = "orphan" /\ Proceed(c, "dead"),
         UNCHANGED <<status, tail, keyFile, stamp, request, lateSweeps>>
  PROVE  IInv'
<1>1. /\ pc'[c] \in {"signing", "dead"} /\ mishaps'[c] = mishaps[c]
      /\ pc'[c] = "signing" => pc[c] = "cliRunning"
      /\ pc'[c] = "dead" => pc[c] = "orphan"
      /\ \A e \in Calls \ {c} : pc'[e] = pc[e] /\ mishaps'[e] = mishaps[e]
  BY DEF Proceed, Suffer, IInv, TypeOK
<1>2. /\ Target(c) \in Deployments /\ program[Target(c)] > 0
      /\ c \in senders' /\ senders \subseteq senders'
      /\ \A e \in senders' \ senders :
           pc[e] \in {"cliRunning", "orphan"} /\ program'[Target(e)] = 0
  BY CloseFacts
<1>3. /\ program'[Target(c)] = 0
      /\ \A d \in Deployments : d # Target(c) => program'[d] = program[d]
  BY <1>2, CloseFacts
<1>5. ASSUME NEW e \in Calls PROVE CallInv(e)'
  <2>1. CallInv(e) BY DEF IInv
  <2>2. CASE e = c
    BY <1>1, <1>2, <1>3, <2>1, <2>2
    DEF CallInv, Target, Closed, AfterClose, BeforeClose, CliCalls
  <2>3. CASE e # c
    BY <1>1, <1>2, <1>3, <2>1, <2>3
    DEF CallInv, Target, Closed, AfterClose
  <2> QED BY <2>2, <2>3
<1>7. ClosedIsGone'
  BY <1>3 DEF IInv, ClosedIsGone
<1>8. KeyFilesRemoved'
  BY <1>1 DEF IInv, KeyFilesRemoved, CliCalls
<1>9. UnrecordedOnlyByMishap'
  <2> SUFFICES ASSUME NEW d \in Deployments, status[d] = "success", program'[d] = 0
               PROVE  \E e \in Calls : /\ Target(e) = d
                        /\ \/ pc'[e] \in AfterClose
                           \/ mishaps'[e] \cap {"cli", "measure", "record", "crash"} # {}
    BY DEF UnrecordedOnlyByMishap, Target
  <2>1. CASE d = Target(c)
    BY <1>1, <2>1 DEF IInv, CallInv, AfterClose
  <2>2. CASE d # Target(c)
    BY <1>1, <1>3, <2>2 DEF IInv, UnrecordedOnlyByMishap, Target
  <2> QED BY <2>1, <2>2
<1> QED BY <1>5, <1>7, <1>8, <1>9 DEF IInv

\* The row of a gone program is marked.
LEMMA RecordClosedKeeps ==
  ASSUME IInv, NEW c \in Calls, RecordClosed(c)
  PROVE  IInv'
<1> PICK l \in {"ok", "error"}, n \in SUBSET {"record"} :
         /\ Suffer(c, n, l)
         /\ \/ status' = [status EXCEPT ![Target(c)] = "closed"] /\ (l = "error" => n # {})
            \/ UNCHANGED status /\ l = "error" /\ "record" \in n
  BY DEF RecordClosed, Proceed, Throw
<1>1. /\ pc'[c] = l /\ mishaps'[c] = mishaps[c] \cup n
      /\ \A e \in Calls \ {c} : pc'[e] = pc[e] /\ mishaps'[e] = mishaps[e]
  BY DEF Suffer, IInv, TypeOK
<1>2. /\ pc[c] = "recording" /\ Target(c) \in Deployments /\ program[Target(c)] = 0
      /\ UNCHANGED <<tail, keyFile, stamp, program, senders, request, lateSweeps>>
  BY DEF RecordClosed, IInv, CallInv, Closed, AfterClose, fileVars, chainVars, callVars
<1>3. \A d \in Deployments : status'[d] = status[d] \/ (status'[d] = "closed" /\ d = Target(c))
  BY DEF IInv, TypeOK
<1>4. l = "ok" => status'[Target(c)] = "closed"
  BY <1>2 DEF IInv, TypeOK
<1>10. TypeOK'
  <2>1. l \in Label /\ n \in SUBSET Mishap BY DEF Label, Answers, Mishap
  <2>2. status' \in [Deployments -> {"success", "failed", "closed"}]
    BY DEF IInv, TypeOK
  <2>3. UNCHANGED <<walletFile, keyFile, stamp, program, senders, wallet, admin, treasury, request,
                    transfer, lateSweeps, tail, crashes>>
    BY DEF RecordClosed, fileVars, chainVars, callVars
  <2> QED BY <2>1, <2>2, <2>3, Moved DEF IInv, TypeOK
<1>5. ASSUME NEW e \in Calls PROVE CallInv(e)'
  <2>1. CallInv(e) BY DEF IInv
  <2>2. CASE e = c
    BY <1>1, <1>2, <1>4, <2>1, <2>2
    DEF CallInv, Target, Closed, AfterClose, BeforeClose, CliCalls
  <2>3. CASE e # c
    BY <1>1, <1>2, <1>3, <2>1, <2>3 DEF CallInv, Target
  <2> QED BY <2>2, <2>3
<1>7. ClosedIsGone'
  BY <1>2, <1>3 DEF IInv, ClosedIsGone
<1>8. KeyFilesRemoved'
  BY <1>1, <1>2 DEF IInv, KeyFilesRemoved, CliCalls
<1>9. UnrecordedOnlyByMishap'
  <2> SUFFICES ASSUME NEW d \in Deployments, status'[d] = "success", program[d] = 0
               PROVE  \E e \in Calls : /\ Target(e) = d
                        /\ \/ pc'[e] \in AfterClose
                           \/ mishaps'[e] \cap {"cli", "measure", "record", "crash"} # {}
    BY <1>2 DEF UnrecordedOnlyByMishap, Target
  <2>1. status[d] = "success" BY <1>3
  <2>2. PICK e \in Calls : /\ Target(e) = d
              /\ \/ pc[e] \in AfterClose
                 \/ mishaps[e] \cap {"cli", "measure", "record", "crash"} # {}
    BY <2>1 DEF IInv, UnrecordedOnlyByMishap
  <2>3. CASE e = c
    <3>1. n # {} BY <1>2, <1>4, <2>2, <2>3
    <3> QED BY <1>1, <2>2, <2>3, <3>1
  <2>4. CASE e # c BY <1>1, <2>2, <2>4
  <2> QED BY <2>3, <2>4
<1> QED BY <1>5, <1>7, <1>8, <1>9, <1>10 DEF IInv

-----------------------------------------------------------------------------
(* One lemma per action. *)

LEMMA ReadRowKeeps ==
  ASSUME IInv, NEW c \in Calls, ReadRow(c)
  PROVE  IInv'
<1> PICK d \in Deployments, u \in Users, l \in {"probing", "error"}, n \in SUBSET {"read"} :
         request' = [request EXCEPT ![c] = [deployment |-> d, user |-> u]] /\ Suffer(c, n, l)
  BY DEF ReadRow, Proceed, Raise, Throw
<1>1. /\ pc[c] = "idle" /\ pc'[c] = l /\ mishaps'[c] = mishaps[c] \cup n
      /\ \A e \in Calls \ {c} : pc'[e] = pc[e] /\ mishaps'[e] = mishaps[e]
  BY DEF ReadRow, Suffer, IInv, TypeOK
<1>2. UNCHANGED <<status, tail, walletFile, keyFile, stamp, program, senders, wallet, admin,
                  treasury, transfer, lateSweeps, crashes>>
  BY DEF ReadRow, rowVars, fileVars, chainVars, callVars
<1>3. /\ Target(c)' = d
      /\ \A e \in Calls \ {c} : Target(e)' = Target(e)
  BY DEF Target, IInv, TypeOK
<1>4. TypeOK'
  <2>1. pc' \in [Calls -> Label] /\ mishaps' \in [Calls -> SUBSET Mishap]
    BY DEF Suffer, IInv, TypeOK, Label, Awaiting, BeforeClose, Answers, Mishap
  <2>2. request' \in [Calls -> [deployment : Deployments \cup {None}, user : Users \cup {None}]]
    BY DEF IInv, TypeOK
  <2> QED BY <1>2, <2>1, <2>2 DEF IInv, TypeOK
<1>5. ASSUME NEW e \in Calls PROVE CallInv(e)'
  <2>1. CallInv(e) BY DEF IInv
  <2>2. CASE e = c
    BY <1>1, <1>2, <1>3, <2>1, <2>2 DEF CallInv, Closed, AfterClose, BeforeClose, CliCalls
  <2>3. CASE e # c BY <1>1, <1>2, <1>3, <2>1, <2>3 DEF CallInv
  <2> QED BY <2>2, <2>3
<1>7. ClosedIsGone'
  BY <1>2 DEF IInv, ClosedIsGone
<1>8. KeyFilesRemoved'
  BY <1>1, <1>2 DEF IInv, KeyFilesRemoved, CliCalls
<1>9. UnrecordedOnlyByMishap'
  <2> SUFFICES ASSUME NEW x \in Deployments, status[x] = "success", program[x] = 0
               PROVE  \E e \in Calls : /\ Target(e)' = x
                        /\ \/ pc'[e] \in AfterClose
                           \/ mishaps'[e] \cap {"cli", "measure", "record", "crash"} # {}
    BY <1>2 DEF UnrecordedOnlyByMishap
  <2>1. PICK e \in Calls : /\ Target(e) = x
              /\ \/ pc[e] \in AfterClose
                 \/ mishaps[e] \cap {"cli", "measure", "record", "crash"} # {}
    BY DEF IInv, UnrecordedOnlyByMishap
  <2>2. e # c BY <1>1, <2>1 DEF IInv, CallInv, AfterClose
  <2> QED BY <1>1, <1>3, <2>1, <2>2
<1> QED BY <1>4, <1>5, <1>7, <1>8, <1>9 DEF IInv

LEMMA ProbeProgramKeeps ==
  ASSUME IInv, NEW c \in Calls, ProbeProgram(c)
  PROVE  IInv'
<1> PICK l \in {"weighing", "error"}, n \in SUBSET {"probe"} : Suffer(c, n, l)
  BY DEF ProbeProgram, Proceed, Raise, Throw
<1>1. /\ pc[c] = "probing"
      /\ UNCHANGED <<status, tail, walletFile, keyFile, stamp, program, senders, wallet, admin,
                  treasury, request, transfer, lateSweeps, crashes>>
  BY DEF ProbeProgram, rowVars, fileVars, chainVars, callVars
<1>2. l \in Label /\ n \in SUBSET Mishap
  BY DEF Label, Awaiting, BeforeClose, AfterClose, Answers, Mishap
<1>3. Target(c) \in Deployments
  BY <1>1 DEF IInv, CallInv
<1>5. TypeOK'
  BY <1>1, <1>2, Moved DEF IInv, TypeOK
<1>6. Allowed(pc[c], n, l)
  BY <1>1 DEF Allowed, Awaiting, BeforeClose, CliCalls, AfterClose, Closed
<1>7. lateSweeps' \subseteq lateSweeps \cup {c}
  BY <1>1
<1> QED BY <1>1, <1>2, <1>5, <1>6, <1>7, MoveKeeps

LEMMA WeighWalletKeeps ==
  ASSUME IInv, NEW c \in Calls, WeighWallet(c)
  PROVE  IInv'
<1> PICK l \in {"preparing", "asking", "error"}, n \in SUBSET {"balance"} : Suffer(c, n, l)
  BY DEF WeighWallet, Proceed, Throw
<1>1. /\ pc[c] = "weighing"
      /\ UNCHANGED <<status, tail, walletFile, keyFile, stamp, program, senders, wallet, admin,
                  treasury, request, lateSweeps, crashes>>
  BY DEF WeighWallet, rowVars, fileVars, chainVars, callVars
<1>2. l \in Label /\ n \in SUBSET Mishap
  BY DEF Label, Awaiting, BeforeClose, AfterClose, Answers, Mishap
<1>3. Target(c) \in Deployments
  BY <1>1 DEF IInv, CallInv
<1>4. transfer' \in [Calls \cup Deployments -> Nat]
  BY <1>1, <1>3, CloseAssumption DEF WeighWallet, Note, IInv, TypeOK
<1>5. TypeOK'
  BY <1>1, <1>2, <1>4, Moved DEF IInv, TypeOK
<1>6. Allowed(pc[c], n, l)
  BY <1>1 DEF Allowed, Awaiting, BeforeClose, CliCalls, AfterClose, Closed
<1>7. lateSweeps' \subseteq lateSweeps \cup {c}
  BY <1>1
<1> QED BY <1>1, <1>2, <1>5, <1>6, <1>7, MoveKeeps

LEMMA AskAdminKeeps ==
  ASSUME IInv, NEW c \in Calls, AskAdmin(c)
  PROVE  IInv'
<1> PICK l \in {"advancing", "error"}, n \in SUBSET {"balance"} : Suffer(c, n, l)
  BY DEF AskAdmin, Proceed, Raise, Throw
<1>1. /\ pc[c] = "asking"
      /\ UNCHANGED <<status, tail, walletFile, keyFile, stamp, program, senders, wallet, admin,
                  treasury, request, transfer, lateSweeps, crashes>>
  BY DEF AskAdmin, rowVars, fileVars, chainVars, callVars
<1>2. l \in Label /\ n \in SUBSET Mishap
  BY DEF Label, Awaiting, BeforeClose, AfterClose, Answers, Mishap
<1>5. TypeOK'
  BY <1>1, <1>2, Moved DEF IInv, TypeOK
<1>6. Allowed(pc[c], n, l)
  BY <1>1 DEF Allowed, Awaiting, BeforeClose, CliCalls, AfterClose, Closed
<1>7. lateSweeps' \subseteq lateSweeps \cup {c}
  BY <1>1
<1> QED BY <1>1, <1>2, <1>5, <1>6, <1>7, MoveKeeps

LEMMA AdvanceFeesKeeps ==
  ASSUME IInv, NEW c \in Calls, AdvanceFees(c)
  PROVE  IInv'
<1> PICK l \in {"reweighing", "error"}, n \in SUBSET {"advance"} : Suffer(c, n, l)
  BY DEF AdvanceFees, Proceed, Raise, Throw
<1>1. /\ pc[c] = "advancing"
      /\ UNCHANGED <<status, tail, walletFile, keyFile, stamp, program, senders, treasury,
                  request, transfer, lateSweeps, crashes>>
  BY DEF AdvanceFees, rowVars, fileVars, chainVars, callVars
<1>2. l \in Label /\ n \in SUBSET Mishap
  BY DEF Label, Awaiting, BeforeClose, AfterClose, Answers, Mishap
<1>3. Target(c) \in Deployments
  BY <1>1 DEF IInv, CallInv
<1>4. admin' \in Nat /\ wallet' \in [Deployments -> Nat]
  BY <1>1, <1>3, CloseAssumption DEF AdvanceFees, Note, IInv, TypeOK
<1>5. TypeOK'
  BY <1>1, <1>2, <1>4, Moved DEF IInv, TypeOK
<1>6. Allowed(pc[c], n, l)
  BY <1>1 DEF Allowed, Awaiting, BeforeClose, CliCalls, AfterClose, Closed
<1>7. lateSweeps' \subseteq lateSweeps \cup {c}
  BY <1>1
<1> QED BY <1>1, <1>2, <1>5, <1>6, <1>7, MoveKeeps

LEMMA ReweighWalletKeeps ==
  ASSUME IInv, NEW c \in Calls, ReweighWallet(c)
  PROVE  IInv'
<1> PICK l \in {"preparing", "error"}, n \in SUBSET {"balance"} : Suffer(c, n, l)
  BY DEF ReweighWallet, Proceed, Throw
<1>1. /\ pc[c] = "reweighing"
      /\ UNCHANGED <<status, tail, walletFile, keyFile, stamp, program, senders, wallet, admin,
                  treasury, request, transfer, lateSweeps, crashes>>
  BY DEF ReweighWallet, rowVars, fileVars, chainVars, callVars
<1>2. l \in Label /\ n \in SUBSET Mishap
  BY DEF Label, Awaiting, BeforeClose, AfterClose, Answers, Mishap
<1>5. TypeOK'
  BY <1>1, <1>2, Moved DEF IInv, TypeOK
<1>6. Allowed(pc[c], n, l)
  BY <1>1 DEF Allowed, Awaiting, BeforeClose, CliCalls, AfterClose, Closed
<1>7. lateSweeps' \subseteq lateSweeps \cup {c}
  BY <1>1
<1> QED BY <1>1, <1>2, <1>5, <1>6, <1>7, MoveKeeps

LEMMA MeasureWalletKeeps ==
  ASSUME IInv, NEW c \in Calls, MeasureWallet(c)
  PROVE  IInv'
<1> PICK l \in {"sweepWeighing", "recording", "error"}, n \in SUBSET {"measure"} :
         Suffer(c, n, l) /\ (l = "error" => "measure" \in n)
  BY DEF MeasureWallet, Proceed, Throw
<1>1. /\ pc[c] = "measuring"
      /\ UNCHANGED <<status, tail, walletFile, keyFile, stamp, program, senders, wallet, admin,
                  treasury, request, transfer, lateSweeps, crashes>>
  BY DEF MeasureWallet, rowVars, fileVars, chainVars, callVars
<1>2. l \in Label /\ n \in SUBSET Mishap
  BY DEF Label, Awaiting, BeforeClose, AfterClose, Answers, Mishap
<1>5. TypeOK'
  BY <1>1, <1>2, Moved DEF IInv, TypeOK
<1>6. Allowed(pc[c], n, l)
  BY <1>1 DEF Allowed, Awaiting, BeforeClose, CliCalls, AfterClose, Closed
<1>7. lateSweeps' \subseteq lateSweeps \cup {c}
  BY <1>1
<1> QED BY <1>1, <1>2, <1>5, <1>6, <1>7, MoveKeeps

LEMMA WeighSweepKeeps ==
  ASSUME IInv, NEW c \in Calls, WeighSweep(c)
  PROVE  IInv'
<1> PICK l \in {"sweeping", "recording"}, n \in SUBSET {"sweep"} : Suffer(c, n, l)
  BY DEF WeighSweep, Proceed
<1>1. /\ pc[c] = "sweepWeighing"
      /\ UNCHANGED <<status, tail, walletFile, keyFile, stamp, program, senders, wallet, admin,
                  treasury, request, lateSweeps, crashes>>
  BY DEF WeighSweep, rowVars, fileVars, chainVars, callVars
<1>2. l \in Label /\ n \in SUBSET Mishap
  BY DEF Label, Awaiting, BeforeClose, AfterClose, Answers, Mishap
<1>3. Target(c) \in Deployments
  BY <1>1 DEF IInv, CallInv
<1>4. transfer' \in [Calls \cup Deployments -> Nat]
  BY <1>1, <1>3, CloseAssumption DEF WeighSweep, Note, IInv, TypeOK
<1>5. TypeOK'
  BY <1>1, <1>2, <1>4, Moved DEF IInv, TypeOK
<1>6. Allowed(pc[c], n, l)
  BY <1>1 DEF Allowed, Awaiting, BeforeClose, CliCalls, AfterClose, Closed
<1>7. lateSweeps' \subseteq lateSweeps \cup {c}
  BY <1>1
<1> QED BY <1>1, <1>2, <1>5, <1>6, <1>7, MoveKeeps

LEMMA SweepWalletKeeps ==
  ASSUME IInv, NEW c \in Calls, SweepWallet(c)
  PROVE  IInv'
<1> PICK l \in {"recording"}, n \in SUBSET {"sweep"} : Suffer(c, n, l)
  BY DEF SweepWallet, Proceed
<1>1. /\ pc[c] = "sweeping"
      /\ UNCHANGED <<status, tail, walletFile, keyFile, stamp, program, senders, admin, request,
                  transfer, crashes>>
  BY DEF SweepWallet, rowVars, fileVars, chainVars, callVars
<1>2. l \in Label /\ n \in SUBSET Mishap
  BY DEF Label, Awaiting, BeforeClose, AfterClose, Answers, Mishap
<1>3. Target(c) \in Deployments
  BY <1>1 DEF IInv, CallInv
<1>4. /\ wallet' \in [Deployments -> Nat] /\ treasury' \in Nat
      /\ lateSweeps' \in SUBSET Calls
  <2>1. transfer[c] \in Nat /\ wallet[Target(c)] \in Nat /\ treasury \in Nat
    BY <1>3 DEF IInv, TypeOK
  <2>2. lateSweeps' \in SUBSET Calls BY DEF SweepWallet, IInv, TypeOK
  <2>4. wallet' \in [Deployments -> Nat] /\ treasury' \in Nat
    BY <2>1, CloseAssumption DEF SweepWallet, Transfer, IInv, TypeOK
  <2> QED BY <2>2, <2>4
<1>5. TypeOK'
  BY <1>1, <1>2, <1>4, Moved DEF IInv, TypeOK
<1>6. Allowed(pc[c], n, l)
  BY <1>1 DEF Allowed, Awaiting, BeforeClose, CliCalls, AfterClose, Closed
<1>7. lateSweeps' \subseteq lateSweeps \cup {c}
  BY DEF SweepWallet
<1> QED BY <1>1, <1>2, <1>5, <1>6, <1>7, MoveKeeps

LEMMA WriteKeyFileKeeps ==
  ASSUME IInv, NEW c \in Calls, WriteKeyFile(c)
  PROVE  IInv'
<1>1. /\ pc[c] = "preparing"
      /\ UNCHANGED <<status, tail, walletFile, program, senders, wallet, admin, treasury,
                  request, transfer, lateSweeps, crashes>>
  BY DEF WriteKeyFile, rowVars, chainVars, callVars
<1>2. Target(c) \in Deployments /\ stamp[c] = None
  BY <1>1 DEF IInv, CallInv, BeforeClose
<1>3. CASE Throw(c, "keyFile") /\ UNCHANGED <<stamp, keyFile>>
  <2>1. "error" \in Label /\ {"keyFile"} \in SUBSET Mishap
    BY DEF Label, Answers, Mishap
  <2>2. Suffer(c, {"keyFile"}, "error") BY <1>3 DEF Throw
  <2>3. TypeOK'
    BY <1>1, <1>3, <2>1, <2>2, Moved DEF IInv, TypeOK
  <2>4. Allowed(pc[c], {"keyFile"}, "error")
    BY <1>1 DEF Allowed, Awaiting, BeforeClose, CliCalls, AfterClose, Closed
  <2> QED BY <1>1, <1>3, <2>1, <2>2, <2>3, <2>4, MoveKeeps
<1>4. CASE \E s \in Stamps : /\ stamp' = [stamp EXCEPT ![c] = s]
                             /\ keyFile' = [keyFile EXCEPT ![s] = Target(c)]
                             /\ Proceed(c, "cliStarting")
  <2> PICK s \in Stamps : /\ stamp' = [stamp EXCEPT ![c] = s]
                          /\ keyFile' = [keyFile EXCEPT ![s] = Target(c)]
                          /\ Proceed(c, "cliStarting")
    BY <1>4
  <2>1. /\ pc'[c] = "cliStarting" /\ mishaps'[c] = mishaps[c] /\ stamp'[c] = s
        /\ \A e \in Calls \ {c} :
             pc'[e] = pc[e] /\ mishaps'[e] = mishaps[e] /\ stamp'[e] = stamp[e]
    BY DEF Proceed, Suffer, IInv, TypeOK
  <2>2. TypeOK'
    <3>1. pc' \in [Calls -> Label] /\ mishaps' \in [Calls -> SUBSET Mishap]
      BY DEF Proceed, Suffer, IInv, TypeOK, Label, Awaiting, CliCalls
    <3>2. stamp' \in [Calls -> Stamps \cup {None}] /\ keyFile' \in [Stamps -> Deployments \cup {None}]
      BY <1>2 DEF IInv, TypeOK
    <3> QED BY <1>1, <3>1, <3>2 DEF IInv, TypeOK
  <2>3. ASSUME NEW e \in Calls PROVE CallInv(e)'
    <3>1. CallInv(e) BY DEF IInv
    <3>2. CASE e = c
      BY <1>1, <1>2, <2>1, <3>1, <3>2
      DEF CallInv, Target, Closed, AfterClose, BeforeClose, CliCalls
    <3>3. CASE e # c BY <1>1, <2>1, <3>1, <3>3 DEF CallInv, Target
    <3> QED BY <3>2, <3>3
  <2>5. ClosedIsGone'
    BY <1>1 DEF IInv, ClosedIsGone
  <2>6. KeyFilesRemoved'
    <3> SUFFICES ASSUME NEW t \in Stamps, keyFile'[t] # None
                 PROVE  \E e \in Calls : /\ stamp'[e] = t
                          /\ \/ pc'[e] \in CliCalls \cup {"signing"}
                             \/ mishaps'[e] \cap {"crash", "unlink"} # {}
      BY DEF KeyFilesRemoved
    <3>1. CASE t = s BY <2>1, <3>1 DEF CliCalls
    <3>2. CASE t # s
      <4>1. keyFile[t] # None BY <3>2 DEF IInv, TypeOK
      <4>2. PICK e \in Calls : /\ stamp[e] = t
                               /\ \/ pc[e] \in CliCalls \cup {"signing"}
                                  \/ mishaps[e] \cap {"crash", "unlink"} # {}
        BY <4>1 DEF IInv, KeyFilesRemoved
      <4>3. e # c BY <1>2, <4>2, CloseAssumption
      <4> QED BY <2>1, <4>2, <4>3
    <3> QED BY <3>1, <3>2
  <2>7. UnrecordedOnlyByMishap'
    BY <1>1, <2>1 DEF IInv, UnrecordedOnlyByMishap, Target, AfterClose
  <2> QED BY <2>2, <2>3, <2>5, <2>6, <2>7 DEF IInv
<1> QED BY <1>3, <1>4 DEF WriteKeyFile

LEMMA LeaveTypes ==
  ASSUME IInv, NEW c \in Calls, NEW new \in SUBSET Mishap, NEW l \in Label,
         LeaveCli(c, l, new), pc[c] \in CliCalls \cup {"signing"}
  PROVE  /\ pc' \in [Calls -> Label] /\ mishaps' \in [Calls -> SUBSET Mishap]
         /\ keyFile' \in [Stamps -> Deployments \cup {None}]
<1>1. new \cup {"unlink"} \in SUBSET Mishap BY DEF Mishap
<1>2. CASE Suffer(c, new, l) /\ keyFile' = [keyFile EXCEPT ![stamp[c]] = None]
  BY <1>2, Moved DEF IInv, TypeOK
<1>3. CASE Suffer(c, new \cup {"unlink"}, l) /\ UNCHANGED keyFile
  BY <1>1, <1>3, Moved DEF IInv, TypeOK
<1> QED BY <1>2, <1>3 DEF LeaveCli

LEMMA StartCliKeeps ==
  ASSUME IInv, NEW c \in Calls, StartCli(c)
  PROVE  IInv'
<1>1. /\ pc[c] = "cliStarting"
      /\ UNCHANGED <<status, tail, walletFile, stamp, program, senders, wallet, admin, treasury,
                  request, transfer, lateSweeps, crashes>>
  BY DEF StartCli, rowVars, chainVars, callVars
<1>2. CASE Proceed(c, "cliRunning") /\ UNCHANGED keyFile
  <2>1. "cliRunning" \in Label /\ {} \in SUBSET Mishap
    BY DEF Label, Awaiting, CliCalls
  <2>2. Suffer(c, {}, "cliRunning") BY <1>2 DEF Proceed
  <2>3. TypeOK'
    BY <1>1, <1>2, <2>1, <2>2, Moved DEF IInv, TypeOK
  <2>4. Allowed(pc[c], {}, "cliRunning")
    BY <1>1 DEF Allowed, Awaiting, BeforeClose, CliCalls, AfterClose, Closed
  <2> QED BY <1>1, <1>2, <2>1, <2>2, <2>3, <2>4, MoveKeeps
<1>3. ASSUME NEW new \in SUBSET {"cli"}, LeaveCli(c, "error", new) PROVE IInv'
  <2>1. "error" \in Label /\ new \in SUBSET Mishap BY DEF Label, Answers, Mishap
  <2>2. pc[c] \in CliCalls BY <1>1 DEF CliCalls
  <2>3. TypeOK'
    BY <1>1, <1>3, <2>1, <2>2, LeaveTypes DEF IInv, TypeOK
  <2> QED BY <1>1, <1>3, <2>1, <2>2, <2>3, LeaveKeeps
<1> QED BY <1>2, <1>3 DEF StartCli

LEMMA CloseTypes ==
  ASSUME IInv, NEW c \in Calls, pc[c] # "idle", CloseOnChain(Target(c))
  PROVE  /\ program' \in [Deployments -> {0, Rent}] /\ wallet' \in [Deployments -> Nat]
         /\ senders' \subseteq Calls
<1>1. Target(c) \in Deployments BY DEF IInv, CallInv
<1>2. program[Target(c)] \in Nat /\ wallet[Target(c)] \in Nat
  BY <1>1, CloseAssumption DEF IInv, TypeOK
<1> QED BY <1>1, <1>2, CloseAssumption DEF CloseOnChain, CanClose, IInv, TypeOK

LEMMA EndCliKeeps ==
  ASSUME IInv, NEW c \in Calls, EndCli(c)
  PROVE  IInv'
<1>1. /\ pc[c] = "cliRunning"
      /\ UNCHANGED <<status, tail, walletFile, stamp, admin, treasury, request,
                  transfer, lateSweeps, crashes>>
  BY DEF EndCli, rowVars, callVars
<1>2. /\ program' \in [Deployments -> {0, Rent}] /\ wallet' \in [Deployments -> Nat]
      /\ senders' \subseteq Calls
  BY <1>1, CloseTypes DEF EndCli, IInv, TypeOK
<1>3. CASE CloseOnChain(Target(c)) /\ Proceed(c, "signing") /\ UNCHANGED keyFile
  <2>1. "signing" \in Label /\ {} \in SUBSET Mishap BY DEF Label, Awaiting, AfterClose
  <2>2. Suffer(c, {}, "signing") BY <1>3 DEF Proceed
  <2>3. TypeOK'
    BY <1>1, <1>2, <1>3, <2>1, <2>2, Moved DEF IInv, TypeOK
  <2> QED BY <1>1, <1>3, <2>3, CloseKeeps
<1>4. ASSUME NEW new \in SUBSET {"cli"}, LeaveCli(c, "error", new),
             \/ UNCHANGED <<program, senders>>
             \/ CloseOnChain(Target(c)) /\ "cli" \in new
      PROVE  IInv'
  <2>1. "error" \in Label /\ new \in SUBSET Mishap BY DEF Label, Answers, Mishap
  <2>2. pc[c] \in CliCalls BY <1>1 DEF CliCalls
  <2>3. TypeOK'
    BY <1>1, <1>2, <1>4, <2>1, <2>2, LeaveTypes DEF IInv, TypeOK
  <2> QED BY <1>1, <1>4, <2>1, <2>2, <2>3, LeaveKeeps
<1>5. CASE /\ UNCHANGED <<program, senders, wallet>> /\ UNCHANGED keyFile
           /\ c \in senders /\ Proceed(c, "signing")
  <2>1. "signing" \in Label /\ {} \in SUBSET Mishap BY DEF Label, Awaiting, AfterClose
  <2>2. Suffer(c, {}, "signing") BY <1>5 DEF Proceed
  <2>3. TypeOK'
    BY <1>1, <1>2, <1>5, <2>1, <2>2, Moved DEF IInv, TypeOK
  <2> QED BY <1>1, <1>5, <2>1, <2>2, <2>3, MoveKeeps
<1> QED BY <1>3, <1>4, <1>5 DEF EndCli

LEMMA FindSignatureKeeps ==
  ASSUME IInv, NEW c \in Calls, FindSignature(c)
  PROVE  IInv'
<1>1. /\ pc[c] = "signing" /\ LeaveCli(c, "measuring", {})
      /\ UNCHANGED <<status, tail, walletFile, stamp, program, senders, wallet, admin, treasury,
                  request, transfer, lateSweeps, crashes>>
  BY DEF FindSignature, rowVars, chainVars, callVars
<1>2. "measuring" \in Label /\ {} \in SUBSET Mishap BY DEF Label, Awaiting, AfterClose
<1>3. TypeOK'
  BY <1>1, <1>2, LeaveTypes DEF IInv, TypeOK
<1> QED BY <1>1, <1>2, <1>3, LeaveKeeps

LEMMA OrphanEndsKeeps ==
  ASSUME IInv, NEW c \in Calls, OrphanEnds(c)
  PROVE  IInv'
<1>1. /\ pc[c] = "orphan" /\ Proceed(c, "dead") /\ Suffer(c, {}, "dead")
      /\ UNCHANGED <<status, tail, walletFile, keyFile, stamp, admin, treasury,
                  request, transfer, lateSweeps, crashes>>
  BY DEF OrphanEnds, Proceed, rowVars, fileVars, callVars
<1>2. "dead" \in Label /\ {} \in SUBSET Mishap BY DEF Label
<1>3. /\ program' \in [Deployments -> {0, Rent}] /\ wallet' \in [Deployments -> Nat]
      /\ senders' \subseteq Calls
  BY <1>1, CloseTypes DEF OrphanEnds, IInv, TypeOK
<1>4. TypeOK'
  BY <1>1, <1>2, <1>3, Moved DEF IInv, TypeOK
<1>5. CASE CloseOnChain(Target(c))
  BY <1>1, <1>4, <1>5, CloseKeeps
<1>6. CASE UNCHANGED <<program, senders, wallet>>
  <2>1. /\ pc'[c] = "dead" /\ mishaps' = mishaps
        /\ \A e \in Calls \ {c} : pc'[e] = pc[e]
    BY <1>1, <1>2, Moved DEF IInv, TypeOK, Suffer
  <2>2. \A e \in Calls : CallInv(e)'
    BY <1>1, <1>6, <2>1
    DEF IInv, CallInv, Target, Closed, AfterClose, BeforeClose, CliCalls
  <2>4. ClosedIsGone' /\ KeyFilesRemoved'
    BY <1>1, <1>6, <2>1 DEF IInv, ClosedIsGone, KeyFilesRemoved, CliCalls
  <2>5. UnrecordedOnlyByMishap'
    BY <1>1, <1>6, <2>1 DEF IInv, UnrecordedOnlyByMishap, Target, AfterClose
  <2> QED BY <1>4, <2>2, <2>4, <2>5 DEF IInv
<1> QED BY <1>5, <1>6 DEF OrphanEnds

\* Steps that move no call and no file, and change the row only to failed.
LEMMA AsideKeeps ==
  ASSUME IInv, TypeOK',
         UNCHANGED <<keyFile, stamp, program, senders, request, pc, mishaps>>,
         lateSweeps' \subseteq lateSweeps,
         \A d \in Deployments :
           /\ status'[d] = status[d] \/ (status'[d] = "failed" /\ tail'[d] = "failed")
           /\ tail[d] = "failed" => tail'[d] = "failed"
  PROVE  IInv'
<1>1. ASSUME NEW c \in Calls PROVE CallInv(c)'
  BY DEF IInv, CallInv, Target, Closed, AfterClose
<1>2. KeyFilesRemoved'
  BY DEF IInv, KeyFilesRemoved
<1>3. ClosedIsGone'
  BY DEF IInv, ClosedIsGone
<1>4. UnrecordedOnlyByMishap'
  BY DEF IInv, UnrecordedOnlyByMishap, Target
<1> QED BY <1>1, <1>2, <1>3, <1>4 DEF IInv

LEMMA TransferTypes ==
  ASSUME IInv, NEW x \in Calls \cup Deployments, NEW d \in Deployments, Transfer(x, d)
  PROVE  wallet' \in [Deployments -> Nat] /\ treasury' \in Nat
<1>1. wallet[d] \in Nat /\ transfer[x] \in Nat /\ TxFee \in Nat
  BY CloseAssumption DEF IInv, TypeOK
<1> QED BY <1>1 DEF Transfer, IInv, TypeOK

LEMMA LateSweepKeeps ==
  ASSUME IInv, NEW c \in Calls, LateSweep(c)
  PROVE  IInv'
<1>1. UNCHANGED <<status, tail, walletFile, keyFile, stamp, program, senders, admin, request,
                  transfer, crashes, pc, mishaps>>
  BY DEF LateSweep, rowVars, fileVars
<1>2. Target(c) \in Deployments
  BY DEF LateSweep, IInv, TypeOK, CallInv
<1>3. wallet' \in [Deployments -> Nat] /\ treasury' \in Nat
  BY <1>2, TransferTypes DEF LateSweep, IInv, TypeOK
<1>4. TypeOK' /\ lateSweeps' \subseteq lateSweeps BY <1>1, <1>3 DEF LateSweep, IInv, TypeOK
<1> QED BY <1>1, <1>4, AsideKeeps

LEMMA RunKeeps ==
  ASSUME IInv, NEW d \in Deployments, RunStep(d)
  PROVE  IInv'
<1>1. CASE RunCounts(d)
  <2>1. /\ UNCHANGED <<status, walletFile, keyFile, stamp, program, senders, wallet, admin,
                     treasury, request, transfer, lateSweeps, crashes, pc,
                     mishaps>>
        /\ tail' \in [Deployments -> TailLabel]
        /\ tail[d] # "failed" /\ \A e \in Deployments \ {d} : tail'[e] = tail[e]
    BY <1>1 DEF RunCounts, Tail, TailLabel, fileVars, chainVars, callVars, IInv, TypeOK
  <2>2. TypeOK' BY <2>1 DEF IInv, TypeOK
  <2> QED BY <2>1, <2>2, AsideKeeps
<1>2. CASE RunWeighs(d)
  <2>1. /\ UNCHANGED <<status, walletFile, keyFile, stamp, program, senders, wallet, admin,
                     treasury, request, lateSweeps, crashes, pc, mishaps>>
        /\ tail' \in [Deployments -> TailLabel]
        /\ tail[d] # "failed" /\ \A e \in Deployments \ {d} : tail'[e] = tail[e]
    BY <1>2 DEF RunWeighs, Tail, TailLabel, fileVars, chainVars, IInv, TypeOK
  <2>2. transfer' \in [Calls \cup Deployments -> Nat]
    <3>1. wallet[d] \in Nat /\ TxFee \in Nat BY CloseAssumption DEF IInv, TypeOK
    <3> QED BY <1>2, <3>1 DEF RunWeighs, Note, IInv, TypeOK
  <2>3. TypeOK' BY <2>1, <2>2 DEF IInv, TypeOK
  <2> QED BY <2>1, <2>3, AsideKeeps
<1>3. CASE RunSweeps(d)
  <2>1. /\ UNCHANGED <<status, walletFile, keyFile, stamp, program, senders, admin, request,
                     transfer, lateSweeps, crashes, pc, mishaps>>
        /\ tail' \in [Deployments -> TailLabel]
        /\ tail[d] # "failed" /\ \A e \in Deployments \ {d} : tail'[e] = tail[e]
    BY <1>3 DEF RunSweeps, Tail, TailLabel, fileVars, callVars, IInv, TypeOK
  <2>2. wallet' \in [Deployments -> Nat] /\ treasury' \in Nat
    BY <1>3, TransferTypes DEF RunSweeps, IInv, TypeOK
  <2>3. TypeOK' BY <2>1, <2>2 DEF IInv, TypeOK
  <2> QED BY <2>1, <2>3, AsideKeeps
<1>4. CASE RunMarks(d)
  <2>1. UNCHANGED <<walletFile, keyFile, stamp, program, senders, wallet, admin, treasury,
                     request, transfer, lateSweeps, crashes, pc, mishaps>>
    BY <1>4 DEF RunMarks, fileVars, chainVars, callVars
  <2>2. /\ tail' \in [Deployments -> TailLabel]
        /\ status' \in [Deployments -> {"success", "failed", "closed"}]
        /\ tail[d] # "failed" /\ (status'[d] = status[d] \/ (status'[d] = "failed" /\ tail'[d] = "failed"))
        /\ \A e \in Deployments \ {d} : tail'[e] = tail[e] /\ status'[e] = status[e]
    BY <1>4 DEF RunMarks, Tail, TailLabel, IInv, TypeOK
  <2>3. TypeOK' BY <2>1, <2>2 DEF IInv, TypeOK
  <2> QED BY <2>1, <2>2, <2>3, AsideKeeps
<1> QED BY <1>1, <1>2, <1>3, <1>4 DEF RunStep

LEMMA CrashKeeps ==
  ASSUME IInv, Crash
  PROVE  IInv'
<1>1. UNCHANGED <<status, walletFile, keyFile, stamp, program, senders, wallet, admin,
                  treasury, request, transfer, lateSweeps>>
  BY DEF Crash, fileVars, chainVars, callVars
<1>2. \A c \in Calls :
        /\ pc'[c] = AfterCrash(pc[c])
        /\ mishaps'[c] = IF pc[c] \in Awaiting THEN mishaps[c] \cup {"crash"} ELSE mishaps[c]
  BY DEF Crash
<1>3. \A d \in Deployments : tail'[d] = AfterTailCrash(tail[d])
  BY DEF Crash
<1>4. TypeOK'
  <2>1. \A c \in Calls : pc'[c] \in Label /\ mishaps'[c] \in SUBSET Mishap
    <3> TAKE c \in Calls
    <3>1. pc[c] \in Label /\ mishaps[c] \in SUBSET Mishap /\ "crash" \in Mishap
      BY DEF IInv, TypeOK, Mishap
    <3>2. AfterCrash(pc[c]) \in {"orphan", "dead", pc[c]} BY DEF AfterCrash
    <3> QED BY <1>2, <3>1, <3>2 DEF Label
  <2>2. pc' \in [Calls -> Label] /\ mishaps' \in [Calls -> SUBSET Mishap]
    BY <2>1 DEF Crash
  <2>3. \A d \in Deployments : tail'[d] \in TailLabel
    BY <1>3 DEF IInv, TypeOK, AfterTailCrash, TailLabel
  <2>4. tail' \in [Deployments -> TailLabel] BY <2>3 DEF Crash
  <2>5. crashes' \in 0 .. MaxCrashes BY CloseAssumption DEF Crash, IInv, TypeOK
  <2> QED BY <1>1, <2>2, <2>4, <2>5 DEF IInv, TypeOK
<1>5. \A c \in Calls :
        /\ pc'[c] \notin Awaiting /\ mishaps[c] \subseteq mishaps'[c]
        /\ pc[c] \in Awaiting => "crash" \in mishaps'[c] /\ pc'[c] \in {"dead", "orphan"}
        /\ pc[c] \notin Awaiting => pc'[c] = pc[c] /\ mishaps'[c] = mishaps[c]
  BY <1>2 DEF AfterCrash, Awaiting, BeforeClose, CliCalls, AfterClose
<1>6. ASSUME NEW c \in Calls PROVE CallInv(c)'
  <2>1. CallInv(c) BY DEF IInv
  <2>2. CASE pc[c] \in Awaiting
    BY <1>1, <1>5, <2>1, <2>2
    DEF CallInv, Target, Closed, Awaiting, AfterClose, BeforeClose, CliCalls
  <2>3. CASE pc[c] \notin Awaiting
    <3>1. \A d \in Deployments : tail[d] = "failed" => tail'[d] = "failed"
      BY <1>3 DEF AfterTailCrash
    <3> QED BY <1>1, <1>5, <2>1, <2>3, <3>1 DEF CallInv, Target
  <2> QED BY <2>2, <2>3
<1>8. ClosedIsGone'
  BY <1>1 DEF IInv, ClosedIsGone
<1>9. KeyFilesRemoved'
  BY <1>1, <1>5 DEF IInv, KeyFilesRemoved, Awaiting, AfterClose
<1>10. UnrecordedOnlyByMishap'
  BY <1>1, <1>5 DEF IInv, UnrecordedOnlyByMishap, Target, Awaiting
<1> QED BY <1>4, <1>6, <1>8, <1>9, <1>10 DEF IInv

-----------------------------------------------------------------------------
LEMMA InitHolds == Init => IInv
<1> SUFFICES ASSUME Init PROVE IInv OBVIOUS
<1> USE CloseAssumption
<1>1. TypeOK
  <2>1. "idle" \in Label /\ {"counting", "over"} \subseteq TailLabel BY DEF Label, TailLabel
  <2>2. /\ status \in [Deployments -> {"success", "failed", "closed"}]
        /\ tail \in [Deployments -> TailLabel]
    BY <2>1 DEF Init
  <2>5. /\ wallet \in [Deployments -> Nat] /\ admin \in Nat /\ treasury \in Nat
    BY DEF Init
  <2>3. /\ transfer \in [Calls \cup Deployments -> Nat]
        /\ crashes \in 0 .. MaxCrashes
    BY DEF Init
  <2>4. /\ keyFile \in [Stamps -> Deployments \cup {None}]
        /\ request \in [Calls -> [deployment : Deployments \cup {None}, user : Users \cup {None}]]
        /\ stamp \in [Calls -> Stamps \cup {None}]
        /\ mishaps \in [Calls -> SUBSET Mishap]
    BY DEF Init
  <2> QED BY <2>1, <2>2, <2>3, <2>4, <2>5 DEF Init, TypeOK
<1>2. \A c \in Calls : CallInv(c)
  BY DEF Init, CallInv, BeforeClose, CliCalls, Closed, AfterClose
<1>4. ClosedIsGone /\ KeyFilesRemoved BY DEF Init, ClosedIsGone, KeyFilesRemoved
<1>5. UnrecordedOnlyByMishap BY DEF Init, UnrecordedOnlyByMishap
<1> QED BY <1>1, <1>2, <1>4, <1>5 DEF IInv

LEMMA StepKeeps == IInv /\ [Next]_vars => IInv'
<1> SUFFICES ASSUME IInv, [Next]_vars PROVE IInv' OBVIOUS
<1>1. CASE UNCHANGED vars
  <2>1. UNCHANGED <<status, tail, walletFile, keyFile, stamp, program, senders, wallet, admin,
                    treasury, request, transfer, lateSweeps, crashes, pc,
                    mishaps>>
    BY <1>1 DEF vars, rowVars, fileVars, chainVars, callVars
  <2>2. TypeOK' BY <2>1 DEF IInv, TypeOK
  <2> QED BY <2>1, <2>2, AsideKeeps
<1>2. ASSUME NEW c \in Calls, ReadRow(c) \/ Step(c) \/ LateSweep(c) PROVE IInv'
  <2>1. CASE FundStep(c)
    BY <2>1, ProbeProgramKeeps, WeighWalletKeeps, AskAdminKeeps, AdvanceFeesKeeps,
       ReweighWalletKeeps DEF FundStep
  <2>2. CASE CliStep(c)
    BY <2>2, WriteKeyFileKeeps, StartCliKeeps, EndCliKeeps, FindSignatureKeeps DEF CliStep
  <2>3. CASE ReturnStep(c)
    BY <2>3, MeasureWalletKeeps, WeighSweepKeeps, SweepWalletKeeps, RecordClosedKeeps DEF ReturnStep
  <2> QED BY <1>2, <2>1, <2>2, <2>3, ReadRowKeeps, OrphanEndsKeeps, LateSweepKeeps DEF Step
<1>3. CASE \E d \in Deployments : RunStep(d) BY <1>3, RunKeeps
<1> QED BY <1>1, <1>2, <1>3, CrashKeeps DEF Next

\* IInv holds in every reachable state, whatever calls overlap.
THEOREM Invariance == Spec => []IInv
<1>1. Init => IInv BY InitHolds
<1>2. IInv /\ [Next]_vars => IInv' BY StepKeeps
<1> QED BY <1>1, <1>2, PTL DEF Spec

\* All state keeps its types; no balance is ever negative.
THEOREM TypeCorrectness == Spec => []TypeOK
<1>1. IInv => TypeOK BY DEF IInv
<1> QED BY <1>1, Invariance, PTL

\* Any number of calls, crashes and timeouts: a closed row's program is gone.
THEOREM ClosedIsGoneHolds == Spec => []ClosedIsGone
<1>1. IInv => ClosedIsGone BY DEF IInv
<1> QED BY <1>1, Invariance, PTL

\* Of any number of overlapping calls only those succeed whose CLIs ran while
\* the program was closed, and the row records it.
THEOREM OkIsBackedAndRecordedHolds == Spec => []OkIsBackedAndRecorded
<1>1. IInv => OkIsBackedAndRecorded
  BY DEF IInv, CallInv, OkIsBackedAndRecorded, Closed
<1> QED BY <1>1, Invariance, PTL

\* Whatever names the key files get, none outlives its call without a mishap.
THEOREM KeyFilesRemovedHolds == Spec => []KeyFilesRemoved
<1>1. IInv => KeyFilesRemoved BY DEF IInv
<1> QED BY <1>1, Invariance, PTL

\* Only a mishap of the CLI or after it leaves a closed program unrecorded.
THEOREM UnrecordedHolds == Spec => []UnrecordedOnlyByMishap
<1>1. IInv => UnrecordedOnlyByMishap BY DEF IInv
<1> QED BY <1>1, Invariance, PTL

-----------------------------------------------------------------------------
(* What a call saw is still true when it acts on it: SeenInv.               *)

\* No step reopens a row, gives a program back, or takes lamports from the
\* wallet of a live program but a run that is no longer quiet.
Gentle ==
  /\ UNCHANGED walletFile /\ admin' <= admin
  /\ \A d \in Deployments :
       /\ status'[d] = "success" => status[d] = "success"
       /\ program'[d] = program[d] \/ program'[d] = 0
       /\ Quiet(d)' => Quiet(d)
       /\ program'[d] > 0 /\ Quiet(d)' => wallet'[d] >= wallet[d]

\* What Seen(e) reads is unchanged, or changed in a way it allows.
Untouched(e) ==
  /\ pc'[e] = pc[e] /\ mishaps'[e] = mishaps[e] /\ request'[e] = request[e]
  /\ transfer'[e] = transfer[e] /\ stamp'[e] = stamp[e]
  /\ e \in lateSweeps' => e \in lateSweeps
  /\ pc[e] = "cliStarting" =>
       keyFile'[stamp[e]] = keyFile[stamp[e]] \/ SharesStamp(e)'
  /\ SharesStamp(e) => SharesStamp(e)'
  /\ pc[e] # "idle" =>
       /\ \/ wallet'[Target(e)] = wallet[Target(e)]
          \/ ~Quiet(Target(e))'
          \/ \E f \in Calls \ {e} : Target(f)' = Target(e)
       /\ \A f \in Calls : Target(f) = Target(e) => Target(f)' = Target(e)

LEMMA ExcusedStays ==
  ASSUME IInv, IInv', Gentle, NEW e \in Calls, Target(e) \in Deployments, Excused(e),
         request'[e] = request[e], SharesStamp(e) => SharesStamp(e)'
  PROVE  Excused(e)'
<1> DEFINE d == Target(e)
           r == request[e]
<1>1. /\ Target(e)' = d /\ request'[e] = r /\ r.deployment = d
      /\ status'[d] = "success" => status[d] = "success"
      /\ program'[d] = program[d] \/ program'[d] = 0
      /\ Quiet(d)' => Quiet(d)
  BY DEF Gentle, Target
<1>2. CASE ~Closable(r)
  <2>1. ~Closable(request[e])' BY <1>1, <1>2 DEF Closable, Gentle
  <2> QED BY <2>1 DEF Excused
<1>3. CASE program[d] = 0 BY <1>1, <1>3 DEF Excused
<1>4. CASE ~Quiet(d) BY <1>1, <1>4 DEF Excused
<1>5. CASE SharesStamp(e) BY <1>5 DEF Excused
<1>6. CASE admin < MinBalance + Extra + TxFee
  <2>1. MinBalance + Extra + TxFee \in Nat BY CloseAssumption
  <2>2. admin' < MinBalance + Extra + TxFee
    BY <1>6, <2>1 DEF Gentle, IInv, TypeOK
  <2> QED BY <2>2 DEF Excused
<1> QED BY <1>2, <1>3, <1>4, <1>5, <1>6 DEF Excused

LEMMA FrameSees ==
  ASSUME IInv, IInv', Gentle, NEW e \in Calls, Seen(e), Untouched(e)
  PROVE  Seen(e)'
<1> DEFINE d == Target(e)
<1>1. /\ Target(e)' = d /\ (pc[e] # "idle" => d \in Deployments)
      /\ e \in lateSweeps => pc[e] # "idle"
  BY DEF Untouched, Target, IInv, CallInv
<1>2. CASE pc[e] = "idle"
  BY <1>1, <1>2 DEF Seen, TopUpInv, KeyInv, SweepInv, ErrorInv, Untouched, CliCalls
<1>3. CASE pc[e] # "idle"
  <2>1. /\ program'[d] = program[d] \/ program'[d] = 0
        /\ Quiet(d)' => Quiet(d)
        /\ program'[d] > 0 /\ Quiet(d)' => wallet'[d] >= wallet[d]
    BY <1>1, <1>3 DEF Gentle
  <2>2. /\ wallet[d] \in Nat /\ wallet'[d] \in Nat /\ transfer[e] \in Nat
        /\ MinBalance \in Nat
    BY <1>1, <1>3, CloseAssumption DEF IInv, TypeOK
  <2>3. TopUpInv(e)'
    BY <1>1, <2>1, <2>2 DEF Seen, TopUpInv, Untouched
  <2>4. KeyInv(e)'
    BY <1>1 DEF Seen, KeyInv, Untouched
  <2>5. SweepInv(e)'
    BY <1>1, <1>3, <2>1 DEF Seen, SweepInv, Untouched
  <2>6. ErrorInv(e)'
    BY <1>1, <1>3, ExcusedStays DEF Seen, ErrorInv, Untouched
  <2> QED BY <2>3, <2>4, <2>5, <2>6 DEF Seen
<1> QED BY <1>2, <1>3

\* c moves, the files and the wallets of other deployments stay.
Aside(c) ==
  /\ \A e \in Calls \ {c} :
       /\ pc'[e] = pc[e] /\ mishaps'[e] = mishaps[e] /\ request'[e] = request[e]
       /\ transfer'[e] = transfer[e] /\ stamp'[e] = stamp[e]
       /\ e \in lateSweeps' => e \in lateSweeps
  /\ pc[c] # "idle" => request'[c] = request[c]
  /\ stamp[c] # None => stamp'[c] = stamp[c]
  /\ \A s \in Stamps : keyFile'[s] = keyFile[s] \/ s = stamp'[c]
  /\ \A d \in Deployments : wallet'[d] = wallet[d] \/ d = Target(c)'

LEMMA AsideSees ==
  ASSUME IInv, IInv', SeenInv, Gentle, NEW c \in Calls, Aside(c), Seen(c)'
  PROVE  SeenInv'
<1> SUFFICES ASSUME NEW e \in Calls \ {c} PROVE Untouched(e)
  BY FrameSees DEF SeenInv
<1>1. \A f \in Calls : stamp[f] # None => stamp'[f] = stamp[f]
  BY DEF Aside
<1>2. SharesStamp(e) => SharesStamp(e)'
  BY <1>1 DEF SharesStamp
<1>3. pc[e] = "cliStarting" => keyFile'[stamp[e]] = keyFile[stamp[e]] \/ SharesStamp(e)'
  <2> SUFFICES ASSUME pc[e] = "cliStarting", keyFile'[stamp[e]] # keyFile[stamp[e]]
               PROVE  SharesStamp(e)'
    OBVIOUS
  <2>1. stamp[e] \in Stamps /\ stamp[e] # None
    BY CloseAssumption DEF IInv, CallInv, CliCalls
  <2>2. stamp'[c] = stamp'[e] /\ stamp'[e] # None BY <2>1 DEF Aside
  <2> QED BY <2>2 DEF SharesStamp
<1>4. ASSUME pc[e] # "idle"
      PROVE  /\ \/ wallet'[Target(e)] = wallet[Target(e)]
                \/ \E f \in Calls \ {e} : Target(f)' = Target(e)
             /\ \A f \in Calls : Target(f) = Target(e) => Target(f)' = Target(e)
  <2>1. Target(e) \in Deployments BY <1>4 DEF IInv, CallInv
  <2>2. \A f \in Calls : pc[f] = "idle" => Target(f) # Target(e)
    BY <2>1, CloseAssumption DEF SeenInv, Seen, SweepInv
  <2>3. \A f \in Calls : pc[f] # "idle" => Target(f)' = Target(f)
    BY DEF Aside, Target
  <2> QED BY <2>1, <2>2, <2>3 DEF Aside
<1> QED BY <1>2, <1>3, <1>4 DEF Untouched, Aside

\* c learns something, or leaves the CLI, and the chain and the row stay.
LEMMA LookSees ==
  ASSUME IInv, IInv', SeenInv, NEW c \in Calls, Seen(c)',
         \A e \in Calls \ {c} : pc'[e] = pc[e] /\ mishaps'[e] = mishaps[e],
         UNCHANGED <<status, tail, walletFile, stamp, program, wallet, admin, request,
                     lateSweeps>>,
         \A e \in Calls \ {c} : transfer'[e] = transfer[e],
         \A s \in Stamps : keyFile'[s] = keyFile[s] \/ s = stamp[c]
  PROVE  SeenInv'
<1>1. Gentle
  BY DEF Gentle, Quiet, IInv, TypeOK
<1>2. Aside(c)
  BY DEF Aside
<1> QED BY <1>1, <1>2, AsideSees

LEMMA ProbeProgramSees ==
  ASSUME IInv, IInv', SeenInv, NEW c \in Calls, ProbeProgram(c)
  PROVE  SeenInv'
<1> PICK l \in {"weighing", "error"}, n \in SUBSET {"probe"} :
         /\ Suffer(c, n, l)
         /\ l = "error" /\ n = {} => program[Target(c)] = 0
  BY DEF ProbeProgram, Proceed, Raise, Throw
<1>1. /\ pc'[c] = l /\ mishaps'[c] = mishaps[c] \cup n
      /\ \A e \in Calls \ {c} : pc'[e] = pc[e] /\ mishaps'[e] = mishaps[e]
  BY DEF Suffer, IInv, TypeOK
<1>2. UNCHANGED <<status, tail, walletFile, keyFile, stamp, program, wallet, admin,
                  request, transfer, lateSweeps>>
  BY DEF ProbeProgram, rowVars, fileVars, chainVars
<1>3. Target(c)' = Target(c) BY <1>2 DEF Target
<1>4. Seen(c) BY DEF SeenInv
<1>5. Seen(c)'
  BY <1>1, <1>2, <1>3, <1>4
  DEF Seen, TopUpInv, KeyInv, SweepInv, ErrorInv, Excused, CliCalls
<1> QED BY <1>1, <1>2, <1>5, LookSees

LEMMA WeighWalletSees ==
  ASSUME IInv, IInv', SeenInv, NEW c \in Calls, WeighWallet(c)
  PROVE  SeenInv'
<1> DEFINE balance == wallet[Target(c)]
<1> PICK l \in {"preparing", "asking", "error"}, n \in SUBSET {"balance"} :
         /\ Suffer(c, n, l)
         /\ l = "preparing" => balance >= MinBalance
         /\ l = "asking" => balance < MinBalance /\ Note(c, MinBalance - balance + Extra)
         /\ l # "asking" => UNCHANGED transfer
         /\ l = "error" => n # {}
  BY DEF WeighWallet, Proceed, Throw
<1>1. /\ pc'[c] = l /\ mishaps'[c] = mishaps[c] \cup n
      /\ \A e \in Calls \ {c} : pc'[e] = pc[e] /\ mishaps'[e] = mishaps[e]
  BY DEF Suffer, IInv, TypeOK
<1>2. pc[c] = "weighing"
      /\ UNCHANGED <<status, tail, walletFile, keyFile, stamp, program, wallet, admin,
                     request, lateSweeps>>
  BY DEF WeighWallet, rowVars, fileVars, chainVars
<1>3. Target(c)' = Target(c) /\ Target(c) \in Deployments
  BY <1>2 DEF Target, IInv, CallInv
<1>4. \A e \in Calls \ {c} : transfer'[e] = transfer[e]
  BY DEF Note, IInv, TypeOK
<1>5. balance \in Nat /\ MinBalance \in Nat /\ Extra \in Nat
  BY <1>3, CloseAssumption DEF IInv, TypeOK
<1>6. l = "asking" => transfer'[c] = MinBalance - balance + Extra
  BY DEF Note, IInv, TypeOK
<1>7. TopUpInv(c)'
  <2>1. l = "asking" => /\ transfer'[c] <= MinBalance + Extra
                        /\ balance + transfer'[c] >= MinBalance
    BY <1>5, <1>6
  <2> QED BY <1>1, <1>2, <1>3, <2>1 DEF TopUpInv, CliCalls
<1>8. Seen(c)'
  BY <1>1, <1>2, <1>3, <1>7 DEF SeenInv, Seen, KeyInv, SweepInv, ErrorInv
<1> QED BY <1>1, <1>2, <1>4, <1>8, LookSees

LEMMA AskAdminSees ==
  ASSUME IInv, IInv', SeenInv, NEW c \in Calls, AskAdmin(c)
  PROVE  SeenInv'
<1> PICK l \in {"advancing", "error"}, n \in SUBSET {"balance"} :
         /\ Suffer(c, n, l)
         /\ l = "error" /\ n = {} => admin < transfer[c]
  BY DEF AskAdmin, Proceed, Raise, Throw
<1>1. /\ pc'[c] = l /\ mishaps'[c] = mishaps[c] \cup n
      /\ \A e \in Calls \ {c} : pc'[e] = pc[e] /\ mishaps'[e] = mishaps[e]
  BY DEF Suffer, IInv, TypeOK
<1>2. /\ pc[c] = "asking"
      /\ UNCHANGED <<status, tail, walletFile, keyFile, stamp, program, wallet, admin,
                     request, transfer, lateSweeps>>
  BY DEF AskAdmin, rowVars, fileVars, chainVars, callVars
<1>3. Target(c)' = Target(c) BY <1>2 DEF Target
<1>4. Seen(c) BY DEF SeenInv
<1>5. admin < transfer[c] => admin < MinBalance + Extra + TxFee
  BY <1>2, <1>4, CloseAssumption DEF Seen, TopUpInv, IInv, TypeOK
<1>6. ErrorInv(c)'
  BY <1>1, <1>2, <1>5 DEF ErrorInv, Excused
<1>7. Seen(c)'
  BY <1>1, <1>2, <1>3, <1>4, <1>6
  DEF Seen, TopUpInv, KeyInv, SweepInv, CliCalls, Quiet
<1> QED BY <1>1, <1>2, <1>7, LookSees

LEMMA AdvanceFeesSees ==
  ASSUME IInv, IInv', SeenInv, NEW c \in Calls, AdvanceFees(c)
  PROVE  SeenInv'
<1> DEFINE d == Target(c)
<1>1. /\ transfer[c] \in Nat /\ TxFee \in Nat /\ admin \in Nat
      /\ MinBalance \in Nat /\ Extra \in Nat
      /\ \A x \in Deployments : wallet[x] \in Nat
  BY CloseAssumption DEF IInv, TypeOK
<1> PICK l \in {"reweighing", "error"}, n \in SUBSET {"advance"} :
         /\ Suffer(c, n, l)
         /\ l = "error" /\ n = {} => admin < transfer[c] + TxFee
         /\ \/ /\ admin >= transfer[c] + TxFee
               /\ admin' = admin - transfer[c] - TxFee
               /\ wallet' = [wallet EXCEPT ![d] = @ + transfer[c]]
            \/ l = "error" /\ UNCHANGED <<admin, wallet>>
  BY <1>1 DEF AdvanceFees, Proceed, Raise, Throw
<1>2. /\ pc'[c] = l /\ mishaps'[c] = mishaps[c] \cup n
      /\ \A e \in Calls \ {c} : pc'[e] = pc[e] /\ mishaps'[e] = mishaps[e]
  BY DEF Suffer, IInv, TypeOK
<1>3. /\ pc[c] = "advancing"
      /\ UNCHANGED <<status, tail, walletFile, keyFile, stamp, program, request, transfer,
                     lateSweeps>>
  BY DEF AdvanceFees, rowVars, fileVars, callVars
<1>4. Target(c)' = d /\ d \in Deployments
  BY <1>3 DEF Target, IInv, CallInv
<1>5. Seen(c) BY DEF SeenInv
<1>6. admin' <= admin BY <1>1
<1>7. /\ wallet'[d] \in {wallet[d], wallet[d] + transfer[c]}
      /\ l = "reweighing" => wallet'[d] = wallet[d] + transfer[c]
      /\ \A x \in Deployments \ {d} : wallet'[x] = wallet[x]
  BY <1>4 DEF IInv, TypeOK
<1>8. Gentle
  <2>1. \A x \in Deployments : wallet'[x] >= wallet[x] BY <1>4, <1>1, <1>7
  <2> QED BY <1>3, <1>6, <2>1 DEF Gentle, Quiet
<1>9. Aside(c)
  BY <1>2, <1>3, <1>4, <1>7 DEF Aside
<1>10. ErrorInv(c)'
  <2>1. l = "error" /\ n = {} => admin' < MinBalance + Extra + TxFee
    BY <1>3, <1>5, <1>1, <1>6 DEF Seen, TopUpInv
  <2> QED BY <1>2, <2>1 DEF ErrorInv, Excused
<1>11. TopUpInv(c)'
  BY <1>2, <1>3, <1>4, <1>5, <1>7 DEF Seen, TopUpInv, CliCalls, Quiet
<1>12. Seen(c)'
  BY <1>2, <1>3, <1>4, <1>5, <1>10, <1>11 DEF Seen, KeyInv, SweepInv
<1> QED BY <1>8, <1>9, <1>12, AsideSees

LEMMA ReweighWalletSees ==
  ASSUME IInv, IInv', SeenInv, NEW c \in Calls, ReweighWallet(c)
  PROVE  SeenInv'
<1> PICK l \in {"preparing", "error"}, n \in SUBSET {"balance"} :
         Suffer(c, n, l) /\ (l = "error" => n # {})
  BY DEF ReweighWallet, Proceed, Throw
<1>1. /\ pc'[c] = l /\ mishaps'[c] = mishaps[c] \cup n
      /\ \A e \in Calls \ {c} : pc'[e] = pc[e] /\ mishaps'[e] = mishaps[e]
  BY DEF Suffer, IInv, TypeOK
<1>2. /\ pc[c] = "reweighing"
      /\ UNCHANGED <<status, tail, walletFile, keyFile, stamp, program, wallet, admin,
                     request, transfer, lateSweeps>>
  BY DEF ReweighWallet, rowVars, fileVars, chainVars, callVars
<1>3. Target(c)' = Target(c) BY <1>2 DEF Target
<1>4. Seen(c) BY DEF SeenInv
<1>5. Seen(c)'
  BY <1>1, <1>2, <1>3, <1>4
  DEF Seen, TopUpInv, KeyInv, SweepInv, ErrorInv, CliCalls, Quiet
<1> QED BY <1>1, <1>2, <1>5, LookSees

LEMMA WriteKeyFileSees ==
  ASSUME IInv, IInv', SeenInv, NEW c \in Calls, WriteKeyFile(c)
  PROVE  SeenInv'
<1>1. /\ pc[c] = "preparing"
      /\ UNCHANGED <<status, tail, walletFile, program, wallet, admin, request, transfer,
                     lateSweeps>>
  BY DEF WriteKeyFile, rowVars, chainVars, callVars
<1>2. Target(c)' = Target(c) /\ stamp[c] = None
  BY <1>1 DEF Target, IInv, CallInv, BeforeClose
<1>3. Seen(c) BY DEF SeenInv
<1>4. Gentle BY <1>1 DEF Gentle, Quiet, IInv, TypeOK
<1>5. CASE \E s \in Stamps : /\ stamp' = [stamp EXCEPT ![c] = s]
                             /\ keyFile' = [keyFile EXCEPT ![s] = Target(c)]
                             /\ Proceed(c, "cliStarting")
  <2> PICK s \in Stamps : /\ stamp' = [stamp EXCEPT ![c] = s]
                          /\ keyFile' = [keyFile EXCEPT ![s] = Target(c)]
                          /\ Proceed(c, "cliStarting")
    BY <1>5
  <2>1. /\ pc'[c] = "cliStarting" /\ mishaps'[c] = mishaps[c]
        /\ \A e \in Calls \ {c} : pc'[e] = pc[e] /\ mishaps'[e] = mishaps[e]
    BY DEF Proceed, Suffer, IInv, TypeOK
  <2>2. /\ stamp'[c] = s /\ keyFile'[s] = Target(c)
        /\ \A e \in Calls \ {c} : stamp'[e] = stamp[e]
        /\ \A x \in Stamps \ {s} : keyFile'[x] = keyFile[x]
    BY DEF IInv, TypeOK
  <2>3. Aside(c) BY <1>1, <1>2, <2>1, <2>2 DEF Aside
  <2>4. Seen(c)'
    BY <1>1, <1>2, <1>3, <2>1, <2>2
    DEF Seen, TopUpInv, KeyInv, SweepInv, ErrorInv, CliCalls, Quiet
  <2> QED BY <1>4, <2>3, <2>4, AsideSees
<1>6. CASE Throw(c, "keyFile") /\ UNCHANGED <<stamp, keyFile>>
  <2>1. /\ pc'[c] = "error" /\ mishaps'[c] = mishaps[c] \cup {"keyFile"}
        /\ \A e \in Calls \ {c} : pc'[e] = pc[e] /\ mishaps'[e] = mishaps[e]
    BY <1>6 DEF Throw, Suffer, IInv, TypeOK
  <2>2. Seen(c)'
    BY <1>1, <1>2, <1>3, <1>6, <2>1
    DEF Seen, TopUpInv, KeyInv, SweepInv, ErrorInv, CliCalls
  <2> QED BY <1>1, <1>6, <2>1, <2>2, LookSees
<1> QED BY <1>5, <1>6 DEF WriteKeyFile

\* The finally block takes c to l and touches no key file but its own.
LEMMA Leaves ==
  ASSUME IInv, NEW c \in Calls, NEW l, NEW new \in SUBSET Mishap, LeaveCli(c, l, new)
  PROVE  /\ pc'[c] = l
         /\ \A m \in mishaps[c] \cup new : m \in mishaps'[c]
         /\ \A e \in Calls \ {c} : pc'[e] = pc[e] /\ mishaps'[e] = mishaps[e]
         /\ \A s \in Stamps : keyFile'[s] = keyFile[s] \/ s = stamp[c]
<1>1. CASE Suffer(c, new, l) /\ keyFile' = [keyFile EXCEPT ![stamp[c]] = None]
  BY <1>1 DEF Suffer, IInv, TypeOK
<1>2. CASE Suffer(c, new \cup {"unlink"}, l) /\ UNCHANGED keyFile
  BY <1>2 DEF Suffer, IInv, TypeOK
<1> QED BY <1>1, <1>2 DEF LeaveCli

\* A wallet that was topped up is only short of the fee with an excuse.
LEMMA ShortIsExcused ==
  ASSUME IInv, NEW c \in Calls, Seen(c), pc[c] \in CliCalls, ~(wallet[Target(c)] >= TxFee)
  PROVE  Excused(c)
<1> DEFINE d == Target(c)
<1>1. d \in Deployments BY DEF IInv, CallInv, CliCalls
<1>2. wallet[d] \in Nat /\ program[d] \in {0, Rent} BY <1>1 DEF IInv, TypeOK
<1>3. Rent > 0 /\ MinBalance \in Nat /\ TxFee \in Nat /\ TxFee <= MinBalance
  BY CloseAssumption
<1>4. ~(program[d] > 0 /\ Quiet(d))
  BY <1>2, <1>3 DEF Seen, TopUpInv, CliCalls
<1>5. program[d] = 0 \/ ~Quiet(d) BY <1>2, <1>3, <1>4
<1> QED BY <1>5 DEF Excused

LEMMA StartCliSees ==
  ASSUME IInv, IInv', SeenInv, NEW c \in Calls, StartCli(c)
  PROVE  SeenInv'
<1> DEFINE d == Target(c)
           usable == keyFile[stamp[c]] = d /\ wallet[d] >= TxFee
<1>1. /\ pc[c] = "cliStarting"
      /\ UNCHANGED <<status, tail, walletFile, stamp, program, wallet, admin, request,
                     transfer, lateSweeps>>
  BY DEF StartCli, rowVars, chainVars, callVars
<1>2. Target(c)' = d /\ d \in Deployments
  BY <1>1 DEF Target, IInv, CallInv
<1>3. Seen(c) BY DEF SeenInv
<1>4. CASE usable /\ Proceed(c, "cliRunning") /\ UNCHANGED keyFile
  <2>1. /\ pc'[c] = "cliRunning" /\ mishaps'[c] = mishaps[c]
        /\ \A e \in Calls \ {c} : pc'[e] = pc[e] /\ mishaps'[e] = mishaps[e]
    BY <1>4 DEF Proceed, Suffer, IInv, TypeOK
  <2>2. Seen(c)'
    BY <1>1, <1>2, <1>3, <2>1
    DEF Seen, TopUpInv, KeyInv, SweepInv, ErrorInv, CliCalls, Quiet
  <2> QED BY <1>1, <1>4, <2>1, <2>2, LookSees
<1>5. ASSUME NEW new \in SUBSET {"cli"}, LeaveCli(c, "error", new), new = {} => ~usable
      PROVE  SeenInv'
  <2>1. new \in SUBSET Mishap BY DEF Mishap
  <2>2. /\ pc'[c] = "error" /\ \A m \in mishaps[c] \cup new : m \in mishaps'[c]
        /\ \A e \in Calls \ {c} : pc'[e] = pc[e] /\ mishaps'[e] = mishaps[e]
        /\ \A s \in Stamps : keyFile'[s] = keyFile[s] \/ s = stamp[c]
    BY <1>5, <2>1, Leaves
  <2>3. ~usable => Excused(c)
    <3>1. CASE keyFile[stamp[c]] # d
      BY <1>1, <1>3, <3>1 DEF Seen, KeyInv, Excused
    <3>2. CASE ~(wallet[d] >= TxFee)
      BY <1>1, <1>3, <3>2, ShortIsExcused DEF CliCalls
    <3> QED BY <3>1, <3>2
  <2>4. Excused(c) => Excused(c)'
    BY <1>1, <1>2 DEF Excused, Closable, Quiet, SharesStamp
  <2>5. ErrorInv(c)'
    BY <1>5, <2>2, <2>3, <2>4 DEF ErrorInv
  <2>6. Seen(c)'
    BY <1>1, <1>2, <1>3, <2>2, <2>5 DEF Seen, TopUpInv, KeyInv, SweepInv, CliCalls
  <2> QED BY <1>1, <2>2, <2>6, LookSees
<1> QED BY <1>4, <1>5 DEF StartCli

LEMMA FindSignatureSees ==
  ASSUME IInv, IInv', SeenInv, NEW c \in Calls, FindSignature(c)
  PROVE  SeenInv'
<1>1. UNCHANGED <<status, tail, walletFile, stamp, program, wallet, admin, request,
                  transfer, lateSweeps>>
  BY DEF FindSignature, rowVars, chainVars, callVars
<1>2. Target(c)' = Target(c) /\ pc[c] = "signing"
  BY <1>1 DEF Target, FindSignature
<1>3. /\ pc'[c] = "measuring" /\ \A m \in mishaps[c] : m \in mishaps'[c]
      /\ \A e \in Calls \ {c} : pc'[e] = pc[e] /\ mishaps'[e] = mishaps[e]
      /\ \A s \in Stamps : keyFile'[s] = keyFile[s] \/ s = stamp[c]
  BY Leaves DEF FindSignature
<1>4. Seen(c) BY DEF SeenInv
<1>5. Seen(c)'
  BY <1>1, <1>2, <1>3, <1>4
  DEF Seen, TopUpInv, KeyInv, SweepInv, ErrorInv, CliCalls
<1> QED BY <1>1, <1>3, <1>5, LookSees

LEMMA MeasureWalletSees ==
  ASSUME IInv, IInv', SeenInv, NEW c \in Calls, MeasureWallet(c)
  PROVE  SeenInv'
<1>1. /\ pc[c] = "measuring"
      /\ UNCHANGED <<status, tail, walletFile, keyFile, stamp, program, wallet, admin,
                     request, transfer, lateSweeps>>
  BY DEF MeasureWallet, rowVars, fileVars, chainVars, callVars
<1>2. Target(c)' = Target(c) /\ Target(c) \in Deployments
  BY <1>1 DEF Target, IInv, CallInv
<1>3. wallet[Target(c)] \in Nat /\ Keep \in Nat
  BY <1>2, CloseAssumption DEF IInv, TypeOK
<1> PICK l \in {"sweepWeighing", "recording", "error"}, n \in SUBSET {"measure"} :
         /\ Suffer(c, n, l)
         /\ l = "recording" => ~(wallet[Target(c)] > Keep)
         /\ l = "error" => n # {}
  BY DEF MeasureWallet, Proceed, Throw
<1>4. /\ pc'[c] = l /\ mishaps'[c] = mishaps[c] \cup n
      /\ \A e \in Calls \ {c} : pc'[e] = pc[e] /\ mishaps'[e] = mishaps[e]
  BY DEF Suffer, IInv, TypeOK
<1>5. Seen(c) BY DEF SeenInv
<1>6. Seen(c)'
  BY <1>1, <1>2, <1>3, <1>4, <1>5
  DEF Seen, TopUpInv, KeyInv, SweepInv, ErrorInv, CliCalls
<1> QED BY <1>1, <1>4, <1>6, LookSees

LEMMA WeighSweepSees ==
  ASSUME IInv, IInv', SeenInv, NEW c \in Calls, WeighSweep(c)
  PROVE  SeenInv'
<1> DEFINE amount == wallet[Target(c)] - Keep
<1>1. /\ pc[c] = "sweepWeighing"
      /\ UNCHANGED <<status, tail, walletFile, keyFile, stamp, program, wallet, admin,
                     request, lateSweeps>>
  BY DEF WeighSweep, rowVars, fileVars, chainVars
<1>2. Target(c)' = Target(c) /\ Target(c) \in Deployments
  BY <1>1 DEF Target, IInv, CallInv, AfterClose
<1>3. wallet[Target(c)] \in Nat /\ Keep \in Nat
  BY <1>2, CloseAssumption DEF IInv, TypeOK
<1> PICK l \in {"sweeping", "recording"}, n \in SUBSET {"sweep"} :
         /\ Suffer(c, n, l)
         /\ l = "sweeping" => Note(c, amount)
         /\ l = "recording" => UNCHANGED transfer /\ (n = {} => amount <= 0)
  BY DEF WeighSweep, Proceed
<1>4. /\ pc'[c] = l /\ mishaps'[c] = mishaps[c] \cup n
      /\ \A e \in Calls \ {c} : pc'[e] = pc[e] /\ mishaps'[e] = mishaps[e]
  BY DEF Suffer, IInv, TypeOK
<1>5. \A e \in Calls \ {c} : transfer'[e] = transfer[e]
  BY DEF Note, IInv, TypeOK
<1>6. /\ l = "sweeping" => wallet[Target(c)] = transfer'[c] + Keep
      /\ l = "recording" /\ n = {} => wallet[Target(c)] <= Keep
  BY <1>3 DEF Note, IInv, TypeOK
<1>7. SweepInv(c)'
  BY <1>1, <1>2, <1>4, <1>6 DEF SeenInv, Seen, SweepInv
<1>8. Seen(c)'
  BY <1>4, <1>7 DEF Seen, TopUpInv, KeyInv, ErrorInv, CliCalls
<1> QED BY <1>1, <1>4, <1>5, <1>8, LookSees

LEMMA CloseGentle ==
  ASSUME IInv, NEW d \in Deployments, CloseOnChain(d),
         UNCHANGED <<status, tail, walletFile, admin>>
  PROVE  /\ Gentle /\ program'[d] = 0
         /\ \A x \in Deployments \ {d} : wallet'[x] = wallet[x]
<1>1. /\ program'[d] = 0
      /\ \A x \in Deployments \ {d} : program'[x] = program[x] /\ wallet'[x] = wallet[x]
  BY DEF CloseOnChain, IInv, TypeOK
<1>2. /\ admin \in Nat /\ \A x \in Deployments : wallet[x] \in Nat BY DEF IInv, TypeOK
<1>3. admin' <= admin BY <1>2
<1>4. ASSUME NEW x \in Deployments, program'[x] > 0 PROVE wallet'[x] >= wallet[x]
  BY <1>1, <1>2, <1>4
<1> QED BY <1>1, <1>3, <1>4 DEF Gentle, Quiet

LEMMA EndCliSees ==
  ASSUME IInv, IInv', SeenInv, NEW c \in Calls, EndCli(c)
  PROVE  SeenInv'
<1> DEFINE d == Target(c)
<1>1. /\ pc[c] = "cliRunning"
      /\ UNCHANGED <<status, tail, walletFile, stamp, admin, request, transfer, lateSweeps>>
  BY DEF EndCli, rowVars, callVars
<1>2. Target(c)' = d /\ d \in Deployments
  BY <1>1 DEF Target, IInv, CallInv
<1>3. Seen(c) BY DEF SeenInv
<1>4. CASE CloseOnChain(d) /\ Proceed(c, "signing") /\ UNCHANGED keyFile
  <2>1. /\ pc'[c] = "signing" /\ mishaps'[c] = mishaps[c]
        /\ \A e \in Calls \ {c} : pc'[e] = pc[e] /\ mishaps'[e] = mishaps[e]
    BY <1>4 DEF Proceed, Suffer, IInv, TypeOK
  <2>2. /\ Gentle /\ program'[d] = 0
        /\ \A x \in Deployments \ {d} : wallet'[x] = wallet[x]
    BY <1>1, <1>2, <1>4, CloseGentle
  <2>3. Aside(c) BY <1>1, <1>2, <1>4, <2>1, <2>2 DEF Aside
  <2>4. Seen(c)'
    BY <1>1, <1>2, <1>3, <2>1, <2>2
    DEF Seen, TopUpInv, KeyInv, SweepInv, ErrorInv, CliCalls
  <2> QED BY <2>2, <2>3, <2>4, AsideSees
<1>5. ASSUME CloseOnChain(d), LeaveCli(c, "error", {"cli"}) PROVE SeenInv'
  <2>1. /\ pc'[c] = "error" /\ \A m \in mishaps[c] \cup {"cli"} : m \in mishaps'[c]
        /\ \A e \in Calls \ {c} : pc'[e] = pc[e] /\ mishaps'[e] = mishaps[e]
        /\ \A s \in Stamps : keyFile'[s] = keyFile[s] \/ s = stamp[c]
    BY <1>5, Leaves DEF Mishap
  <2>2. /\ Gentle /\ program'[d] = 0
        /\ \A x \in Deployments \ {d} : wallet'[x] = wallet[x]
    BY <1>1, <1>2, <1>5, CloseGentle
  <2>3. Aside(c) BY <1>1, <1>2, <2>1, <2>2 DEF Aside
  <2>4. Seen(c)'
    BY <1>1, <1>2, <1>3, <2>1, <2>2
    DEF Seen, TopUpInv, KeyInv, SweepInv, ErrorInv, CliCalls
  <2> QED BY <2>2, <2>3, <2>4, AsideSees
<1>6. ASSUME NEW new \in SUBSET {"cli"}, LeaveCli(c, "error", new),
             new = {} => ~CanClose(d), UNCHANGED <<program, wallet>>
      PROVE  SeenInv'
  <2>1. /\ pc'[c] = "error" /\ \A m \in mishaps[c] \cup new : m \in mishaps'[c]
        /\ \A e \in Calls \ {c} : pc'[e] = pc[e] /\ mishaps'[e] = mishaps[e]
        /\ \A s \in Stamps : keyFile'[s] = keyFile[s] \/ s = stamp[c]
    <3>1. new \in SUBSET Mishap BY DEF Mishap
    <3> QED BY <1>6, <3>1, Leaves
  <2>2. ~CanClose(d) => Excused(c)
    <3>1. program[d] \in {0, Rent} /\ Rent > 0
      BY <1>2, CloseAssumption DEF IInv, TypeOK
    <3>2. CASE ~(program[d] > 0) BY <3>1, <3>2 DEF Excused
    <3>3. CASE ~(wallet[d] >= TxFee)
      BY <1>1, <1>3, <3>3, ShortIsExcused DEF CliCalls
    <3> QED BY <3>2, <3>3 DEF CanClose
  <2>3. Excused(c) => Excused(c)'
    BY <1>1, <1>2, <1>6 DEF Excused, Closable, Quiet, SharesStamp
  <2>4. ErrorInv(c)'
    BY <1>6, <2>1, <2>2, <2>3 DEF ErrorInv
  <2>5. Seen(c)'
    BY <1>1, <1>2, <1>3, <1>6, <2>1, <2>4 DEF Seen, TopUpInv, KeyInv, SweepInv, CliCalls
  <2> QED BY <1>1, <1>6, <2>1, <2>5, LookSees
<1>7. CASE UNCHANGED <<program, wallet>> /\ Proceed(c, "signing") /\ UNCHANGED keyFile
  <2>1. /\ pc'[c] = "signing" /\ mishaps'[c] = mishaps[c]
        /\ \A e \in Calls \ {c} : pc'[e] = pc[e] /\ mishaps'[e] = mishaps[e]
    BY <1>7 DEF Proceed, Suffer, IInv, TypeOK
  <2>2. Seen(c)'
    BY <1>1, <1>2, <1>3, <1>7, <2>1
    DEF Seen, TopUpInv, KeyInv, SweepInv, ErrorInv, CliCalls
  <2> QED BY <1>1, <1>7, <2>1, <2>2, LookSees
<1> QED BY <1>4, <1>5, <1>6, <1>7 DEF EndCli

LEMMA OrphanEndsSees ==
  ASSUME IInv, IInv', SeenInv, NEW c \in Calls, OrphanEnds(c)
  PROVE  SeenInv'
<1> DEFINE d == Target(c)
<1>1. /\ pc[c] = "orphan"
      /\ UNCHANGED <<status, tail, walletFile, keyFile, stamp, admin, request, transfer,
                     lateSweeps>>
  BY DEF OrphanEnds, rowVars, fileVars, callVars
<1>2. Target(c)' = d /\ d \in Deployments
  BY <1>1 DEF Target, IInv, CallInv
<1>3. /\ pc'[c] = "dead" /\ mishaps'[c] = mishaps[c]
      /\ \A e \in Calls \ {c} : pc'[e] = pc[e] /\ mishaps'[e] = mishaps[e]
  BY DEF OrphanEnds, Proceed, Suffer, IInv, TypeOK
<1>4. Seen(c) BY DEF SeenInv
<1>5. CASE CloseOnChain(d)
  <2>1. /\ Gentle /\ program'[d] = 0
        /\ \A x \in Deployments \ {d} : wallet'[x] = wallet[x]
    BY <1>1, <1>2, <1>5, CloseGentle
  <2>2. Aside(c) BY <1>1, <1>2, <1>3, <2>1 DEF Aside
  <2>3. Seen(c)'
    BY <1>1, <1>2, <1>3, <1>4, <2>1
    DEF Seen, TopUpInv, KeyInv, SweepInv, ErrorInv, CliCalls
  <2> QED BY <2>1, <2>2, <2>3, AsideSees
<1>6. CASE UNCHANGED <<program, wallet>>
  <2>1. Seen(c)'
    BY <1>1, <1>2, <1>3, <1>4, <1>6
    DEF Seen, TopUpInv, KeyInv, SweepInv, ErrorInv, CliCalls
  <2> QED BY <1>1, <1>3, <1>6, <2>1, LookSees
<1> QED BY <1>5, <1>6 DEF OrphanEnds

\* A wallet is only swept when its program is gone, or by its own run.
LEMMA TransferGentle ==
  ASSUME IInv, NEW d \in Deployments, NEW x \in Calls \cup Deployments, Transfer(x, d),
         program[d] = 0, UNCHANGED <<status, tail, walletFile, admin, program>>
  PROVE  /\ Gentle /\ wallet'[d] = wallet[d] - transfer[x] - TxFee
         /\ \A e \in Deployments \ {d} : wallet'[e] = wallet[e]
<1>1. /\ wallet'[d] = wallet[d] - transfer[x] - TxFee
      /\ \A e \in Deployments \ {d} : wallet'[e] = wallet[e]
  BY DEF Transfer, IInv, TypeOK
<1>2. /\ admin \in Nat /\ \A e \in Deployments : wallet[e] \in Nat BY DEF IInv, TypeOK
<1>3. admin' <= admin BY <1>2
<1>4. ASSUME NEW e \in Deployments, program'[e] > 0 PROVE wallet'[e] >= wallet[e]
  BY <1>1, <1>2, <1>4
<1> QED BY <1>1, <1>3, <1>4 DEF Gentle, Quiet

LEMMA SweepWalletSees ==
  ASSUME IInv, IInv', SeenInv, NEW c \in Calls, SweepWallet(c)
  PROVE  SeenInv'
<1> DEFINE d == Target(c)
<1>1. /\ pc[c] = "sweeping"
      /\ UNCHANGED <<status, tail, walletFile, keyFile, stamp, program, admin, request,
                     transfer>>
  BY DEF SweepWallet, rowVars, fileVars
<1>2. Target(c)' = d /\ d \in Deployments /\ program[d] = 0
  BY <1>1 DEF Target, IInv, CallInv, Closed, AfterClose
<1>3. wallet[d] \in Nat /\ transfer[c] \in Nat /\ Keep \in Nat /\ TxFee \in Nat /\ TxFee <= Keep
  BY <1>2, CloseAssumption DEF IInv, TypeOK
<1> PICK n \in SUBSET {"sweep"} :
         /\ Suffer(c, n, "recording")
         /\ lateSweeps' \in {lateSweeps, lateSweeps \cup {c}}
         /\ c \in lateSweeps' => c \in lateSweeps \/ "sweep" \in n
         /\ \/ Transfer(c, d)
            \/ /\ UNCHANGED <<wallet, treasury>>
               /\ n = {} => wallet[d] < transfer[c] + TxFee
  BY DEF SweepWallet, Proceed
<1>4. /\ pc'[c] = "recording" /\ mishaps'[c] = mishaps[c] \cup n
      /\ \A e \in Calls \ {c} : pc'[e] = pc[e] /\ mishaps'[e] = mishaps[e]
  BY DEF Suffer, IInv, TypeOK
<1>5. Seen(c) BY DEF SeenInv
<1>6. /\ Gentle /\ \A x \in Deployments \ {d} : wallet'[x] = wallet[x]
      /\ \/ wallet'[d] = wallet[d] - transfer[c] - TxFee
         \/ wallet'[d] = wallet[d] /\ (n = {} => wallet[d] < transfer[c] + TxFee)
  <2>1. CASE Transfer(c, d) BY <1>1, <1>2, <2>1, TransferGentle
  <2>2. CASE UNCHANGED wallet /\ (n = {} => wallet[d] < transfer[c] + TxFee)
    BY <1>1, <2>2 DEF Gentle, Quiet, IInv, TypeOK
  <2> QED BY <2>1, <2>2
<1>7. Aside(c) BY <1>1, <1>2, <1>4, <1>6 DEF Aside
<1>8. SweepInv(c)'
  <2>1. wallet[d] = transfer[c] + Keep /\ n = {} => wallet'[d] <= Keep
    BY <1>3, <1>6
  <2>2. (\A e \in Calls \ {c} : Target(e)' # d) => \A e \in Calls \ {c} : Target(e) # d
    BY <1>1 DEF Target
  <2> QED BY <1>1, <1>2, <1>4, <1>5, <2>1, <2>2 DEF Seen, SweepInv, Quiet
<1>9. Seen(c)'
  BY <1>4, <1>8 DEF Seen, TopUpInv, KeyInv, ErrorInv, CliCalls
<1> QED BY <1>6, <1>7, <1>9, AsideSees

LEMMA LateSweepSees ==
  ASSUME IInv, IInv', SeenInv, NEW c \in Calls, LateSweep(c)
  PROVE  SeenInv'
<1> DEFINE d == Target(c)
<1>1. /\ c \in lateSweeps /\ lateSweeps' = lateSweeps \ {c}
      /\ UNCHANGED <<status, tail, walletFile, keyFile, stamp, program, admin, request,
                     transfer, pc, mishaps>>
  BY DEF LateSweep, rowVars, fileVars
<1>2. Seen(c) BY DEF SeenInv
<1>3. /\ Target(c)' = d /\ d \in Deployments /\ program[d] = 0
      /\ pc[c] # "idle" /\ "sweep" \in mishaps[c]
  BY <1>1, <1>2 DEF Target, IInv, CallInv, Seen, SweepInv
<1>4. /\ Gentle /\ \A x \in Deployments \ {d} : wallet'[x] = wallet[x]
  BY <1>1, <1>3, TransferGentle DEF LateSweep
<1>5. Aside(c) BY <1>1, <1>3, <1>4 DEF Aside
<1>6. TopUpInv(c)'
  <2>1. ~(program'[d] > 0) BY <1>1, <1>3
  <2> QED BY <1>1, <1>2, <1>3, <2>1 DEF Seen, TopUpInv
<1>7. KeyInv(c)' BY <1>1, <1>2, <1>3 DEF Seen, KeyInv, SharesStamp
<1>8. SweepInv(c)' /\ ErrorInv(c)'
  BY <1>1, <1>2, <1>3 DEF Seen, SweepInv, ErrorInv
<1> QED BY <1>4, <1>5, <1>6, <1>7, <1>8, AsideSees DEF Seen

LEMMA RecordClosedSees ==
  ASSUME IInv, IInv', SeenInv, NEW c \in Calls, RecordClosed(c)
  PROVE  SeenInv'
<1> DEFINE d == Target(c)
<1>1. /\ pc[c] = "recording"
      /\ UNCHANGED <<tail, walletFile, keyFile, stamp, program, wallet, admin, request,
                     transfer, lateSweeps>>
  BY DEF RecordClosed, fileVars, chainVars, callVars
<1>2. Target(c)' = d BY <1>1 DEF Target
<1> PICK l \in {"ok", "error"}, n \in SUBSET {"record"} :
         Suffer(c, n, l) /\ (l = "error" => n # {})
  BY DEF RecordClosed, Proceed, Throw
<1>3. /\ pc'[c] = l /\ mishaps'[c] = mishaps[c] \cup n
      /\ \A e \in Calls \ {c} : pc'[e] = pc[e] /\ mishaps'[e] = mishaps[e]
  BY DEF Suffer, IInv, TypeOK
<1>4. Seen(c) BY DEF SeenInv
<1>5. \A x \in Deployments : status'[x] = "success" => status[x] = "success"
  BY DEF RecordClosed, IInv, TypeOK
<1>6. Gentle BY <1>1, <1>5 DEF Gentle, Quiet, IInv, TypeOK
<1>7. Aside(c) BY <1>1, <1>3 DEF Aside
<1>8. SweepInv(c)'
  <2>1. (\A e \in Calls \ {c} : Target(e)' # d) => \A e \in Calls \ {c} : Target(e) # d
    BY <1>1 DEF Target
  <2> QED BY <1>1, <1>2, <1>3, <1>4, <2>1 DEF Seen, SweepInv, Quiet
<1>9. Seen(c)'
  BY <1>3, <1>8 DEF Seen, TopUpInv, KeyInv, ErrorInv, CliCalls
<1> QED BY <1>6, <1>7, <1>9, AsideSees

LEMMA ReadRowSees ==
  ASSUME IInv, IInv', SeenInv, NEW c \in Calls, ReadRow(c)
  PROVE  SeenInv'
<1> PICK r \in [deployment : Deployments, user : Users], l \in {"probing", "error"},
         n \in SUBSET {"read"} :
         /\ request' = [request EXCEPT ![c] = r] /\ Suffer(c, n, l)
         /\ l = "error" /\ n = {} => ~Closable(r)
  BY DEF ReadRow, Proceed, Raise, Throw
<1>1. /\ pc[c] = "idle"
      /\ UNCHANGED <<status, tail, walletFile, keyFile, stamp, program, wallet, admin,
                     transfer, lateSweeps>>
  BY DEF ReadRow, rowVars, fileVars, chainVars, callVars
<1>2. /\ pc'[c] = l /\ mishaps'[c] = mishaps[c] \cup n
      /\ \A e \in Calls \ {c} : pc'[e] = pc[e] /\ mishaps'[e] = mishaps[e]
  BY DEF Suffer, IInv, TypeOK
<1>3. request'[c] = r /\ \A e \in Calls \ {c} : request'[e] = request[e]
  BY DEF IInv, TypeOK
<1>4. Gentle BY <1>1 DEF Gentle, Quiet, IInv, TypeOK
<1>5. Aside(c) BY <1>1, <1>2, <1>3 DEF Aside
<1>6. c \notin lateSweeps' BY <1>1 DEF IInv, CallInv
<1>7. ErrorInv(c)'
  <2>1. ~Closable(r) => ~Closable(request[c])'
    BY <1>1, <1>3 DEF Closable
  <2> QED BY <1>2, <2>1 DEF ErrorInv, Excused
<1>8. Seen(c)'
  BY <1>2, <1>6, <1>7 DEF Seen, TopUpInv, KeyInv, SweepInv, CliCalls
<1> QED BY <1>4, <1>5, <1>8, AsideSees

LEMMA RunSees ==
  ASSUME IInv, IInv', SeenInv, NEW d \in Deployments, RunStep(d)
  PROVE  SeenInv'
<1>1. UNCHANGED <<walletFile, keyFile, stamp, program, admin, request, pc, lateSweeps,
                  mishaps>>
  BY DEF RunStep, RunCounts, RunWeighs, RunSweeps, RunMarks, fileVars, chainVars, callVars
<1>2. \A e \in Calls : transfer'[e] = transfer[e]
  BY CloseAssumption
  DEF RunStep, RunCounts, RunWeighs, RunSweeps, RunMarks, Note, callVars, IInv, TypeOK
<1>3. \A x \in Deployments : status'[x] = "success" => status[x] = "success"
  BY DEF RunStep, RunCounts, RunWeighs, RunSweeps, RunMarks, IInv, TypeOK
<1>4. \A x \in Deployments : Quiet(x)' => Quiet(x)
  BY DEF RunStep, RunCounts, RunWeighs, RunSweeps, RunMarks, Tail, Quiet, IInv, TypeOK
<1>5. \A x \in Deployments : wallet'[x] = wallet[x] \/ ~Quiet(x)'
  BY DEF RunStep, RunCounts, RunWeighs, RunSweeps, RunMarks, Transfer, Tail, Quiet,
         chainVars, IInv, TypeOK
<1>6. Gentle
  <2>1. admin' <= admin /\ \A x \in Deployments : wallet[x] >= wallet[x]
    BY <1>1 DEF IInv, TypeOK
  <2> QED BY <1>1, <1>3, <1>4, <1>5, <2>1 DEF Gentle
<1>7. ASSUME NEW e \in Calls PROVE Untouched(e)
  <2>1. pc[e] # "idle" => Target(e) \in Deployments BY DEF IInv, CallInv
  <2> QED BY <1>1, <1>2, <1>5, <2>1 DEF Untouched, SharesStamp, Target
<1> QED BY <1>6, <1>7, FrameSees DEF SeenInv

LEMMA CrashSees ==
  ASSUME IInv, IInv', SeenInv, Crash
  PROVE  SeenInv'
<1>1. UNCHANGED <<status, walletFile, keyFile, stamp, program, wallet, admin, request,
                  transfer, lateSweeps>>
  BY DEF Crash, fileVars, chainVars, callVars
<1>2. \A x \in Deployments : Quiet(x)' => Quiet(x)
  BY DEF Crash, AfterTailCrash, Quiet
<1>3. Gentle
  <2>1. admin' <= admin /\ \A x \in Deployments : wallet[x] >= wallet[x]
    BY <1>1 DEF IInv, TypeOK
  <2> QED BY <1>1, <1>2, <2>1 DEF Gentle
<1> SUFFICES ASSUME NEW e \in Calls PROVE Seen(e)' BY DEF SeenInv
<1>4. CASE pc[e] \in Awaiting
  <2>1. pc'[e] \in {"dead", "orphan"} /\ mishaps'[e] = mishaps[e] \cup {"crash"}
    BY <1>4 DEF Crash, AfterCrash
  <2> QED BY <1>1, <2>1 DEF SeenInv, Seen, TopUpInv, KeyInv, SweepInv, ErrorInv,
                            CliCalls, Target
<1>5. CASE pc[e] \notin Awaiting
  <2>1. pc'[e] = pc[e] /\ mishaps'[e] = mishaps[e]
    BY <1>5 DEF Crash, AfterCrash, Awaiting, CliCalls
  <2>2. Untouched(e) BY <1>1, <2>1 DEF Untouched, SharesStamp, Target
  <2> QED BY <1>3, <2>2, FrameSees DEF SeenInv
<1> QED BY <1>4, <1>5

LEMMA InitSees == Init => SeenInv
<1> SUFFICES ASSUME Init, NEW c \in Calls PROVE Seen(c) BY DEF SeenInv
<1>1. pc[c] = "idle" /\ Target(c) = None /\ c \notin lateSweeps BY DEF Init, Target
<1> QED BY <1>1 DEF Seen, TopUpInv, KeyInv, SweepInv, ErrorInv, CliCalls

LEMMA NextSees == IInv /\ IInv' /\ SeenInv /\ [Next]_vars => SeenInv'
<1> SUFFICES ASSUME IInv, IInv', SeenInv, [Next]_vars PROVE SeenInv' OBVIOUS
<1>1. CASE UNCHANGED vars
  <2>1. UNCHANGED <<status, tail, walletFile, keyFile, stamp, program, wallet, admin,
                    request, transfer, lateSweeps, pc, mishaps>>
    BY <1>1 DEF vars, rowVars, fileVars, chainVars, callVars
  <2>2. Gentle BY <2>1 DEF Gentle, Quiet, IInv, TypeOK
  <2>3. \A e \in Calls : Untouched(e)
    BY <2>1 DEF Untouched, SharesStamp, Target
  <2> QED BY <2>2, <2>3, FrameSees DEF SeenInv
<1>2. ASSUME NEW c \in Calls, ReadRow(c) \/ Step(c) \/ LateSweep(c) PROVE SeenInv'
  <2>1. CASE FundStep(c)
    BY <2>1, ProbeProgramSees, WeighWalletSees, AskAdminSees, AdvanceFeesSees,
       ReweighWalletSees DEF FundStep
  <2>2. CASE CliStep(c)
    BY <2>2, WriteKeyFileSees, StartCliSees, EndCliSees, FindSignatureSees DEF CliStep
  <2>3. CASE ReturnStep(c)
    BY <2>3, MeasureWalletSees, WeighSweepSees, SweepWalletSees, RecordClosedSees
    DEF ReturnStep
  <2> QED BY <1>2, <2>1, <2>2, <2>3, ReadRowSees, OrphanEndsSees, LateSweepSees DEF Step
<1>3. CASE \E d \in Deployments : RunStep(d) BY <1>3, RunSees
<1> QED BY <1>1, <1>2, <1>3, CrashSees DEF Next

\* What a call of closeProgram saw of the wallet, the key file and the admin's
\* purse holds when it acts on it, and what excuses an error lasts.
THEOREM FullInvariance == Spec => []FullInv
<1>1. Init => SeenInv BY InitSees
<1>2. IInv /\ IInv' /\ SeenInv /\ [Next]_vars => SeenInv' BY NextSees
<1> QED BY <1>1, <1>2, Invariance, PTL DEF Spec, FullInv

\* Whatever other calls, runs and crashes come between its awaits, the owner's
\* call for a live program is refused only by a mishap or for a stated reason.
THEOREM RefusalHolds == Spec => []RefusalIsExplained
<1>1. FullInv => RefusalIsExplained
  <2> SUFFICES ASSUME SeenInv, NEW c \in Calls, pc[c] = "error", mishaps[c] = {},
                      Closable(request[c]), program[Target(c)] > 0,
                      admin >= MinBalance + Extra + TxFee, Quiet(Target(c)),
                      ~SharesStamp(c), IInv
               PROVE  FALSE
    BY DEF FullInv, RefusalIsExplained, Quiet, SharesStamp
  <2>1. Excused(c) BY DEF SeenInv, Seen, ErrorInv
  <2>2. program[Target(c)] # 0 OBVIOUS
  <2>3. ~(admin < MinBalance + Extra + TxFee)
    BY CloseAssumption DEF IInv, TypeOK
  <2> QED BY <2>1, <2>2, <2>3 DEF Excused
<1> QED BY <1>1, FullInvariance, PTL

\* A successful call that met no mishap and had its deployment to itself swept
\* the wallet down to what is kept, however many calls served other programs.
THEOREM CleanCloseHolds == Spec => []CleanCloseReturnsAll
<1>1. FullInv => CleanCloseReturnsAll
  BY DEF FullInv, SeenInv, Seen, SweepInv, Quiet, CleanCloseReturnsAll
<1> QED BY <1>1, FullInvariance, PTL

-----------------------------------------------------------------------------
(* Every step is a step of ProgramCustody or leaves the custody alone. *)

Live(d) == program[d] > 0
Holds(d) == program[d] + wallet[d]

CustodyStep == [Custody!CustodyNext]_(Custody!custodyVars)

LEMMA QuietStep ==
  ASSUME UNCHANGED <<program, wallet, admin, treasury, status>>
  PROVE  CustodyStep
  BY DEF CustodyStep, Custody!custodyVars

LEMMA Balances ==
  ASSUME IInv, NEW d \in Deployments
  PROVE  wallet[d] \in Nat /\ program[d] \in Nat /\ Holds(d) \in Nat /\ TxFee \in Nat
  BY CloseAssumption DEF IInv, TypeOK, Holds

LEMMA LendStep ==
  ASSUME IInv, NEW c \in Calls, AdvanceFees(c), NEW d \in Deployments, d = Target(c)
  PROVE  CustodyStep
<1>1. UNCHANGED <<program, treasury, status>>
  BY DEF AdvanceFees, rowVars
<1>2. CASE UNCHANGED <<admin, wallet>> BY <1>1, <1>2, QuietStep
<1>3. CASE /\ admin >= transfer[c] + TxFee
           /\ admin' = admin - transfer[c] - TxFee
           /\ wallet' = [wallet EXCEPT ![d] = @ + transfer[c]]
  <2>1. transfer[c] \in Nat /\ TxFee \in Nat /\ admin \in Nat
    BY CloseAssumption DEF IInv, TypeOK
  <2>2. transfer[c] \in 0 .. admin /\ TxFee \in 0 .. admin - transfer[c]
    BY <1>3, <2>1
  <2>3. [e \in Deployments |-> program[e] + wallet[e]]' =
          [[e \in Deployments |-> program[e] + wallet[e]] EXCEPT ![d] = @ + transfer[c]]
    <3>1. \A e \in Deployments :
            Holds(e)' = IF e = d THEN Holds(e) + transfer[c] ELSE Holds(e)
      BY <1>1, <1>3, <2>1, Balances DEF Holds, IInv, TypeOK
    <3> QED BY <1>1, <3>1 DEF Holds
  <2>4. Custody!Lend(d) BY <1>1, <1>3, <2>2, <2>3 DEF Custody!Lend
  <2> QED BY <2>4 DEF CustodyStep, Custody!CustodyNext
<1> QED BY <1>2, <1>3 DEF AdvanceFees

LEMMA ReclaimStep ==
  ASSUME IInv, NEW d \in Deployments, CloseOnChain(d), UNCHANGED <<admin, treasury, status>>
  PROVE  CustodyStep
<1>1. program[d] > 0 /\ wallet[d] >= TxFee BY DEF CloseOnChain, CanClose
<1>2. TxFee \in 0 .. Holds(d) BY <1>1, Balances DEF Holds
<1>3. \A e \in Deployments :
        /\ Holds(e)' = IF e = d THEN Holds(e) - TxFee ELSE Holds(e)
        /\ Live(e)' = IF e = d THEN FALSE ELSE Live(e)
  <2>1. /\ program'[d] = 0 /\ wallet'[d] = wallet[d] + program[d] - TxFee
        /\ \A e \in Deployments \ {d} : program'[e] = program[e] /\ wallet'[e] = wallet[e]
    BY DEF CloseOnChain, IInv, TypeOK
  <2>2. program'[d] + wallet'[d] = program[d] + wallet[d] - TxFee BY <2>1, Balances
  <2>3. \A e \in Deployments : Holds(e)' = IF e = d THEN Holds(e) - TxFee ELSE Holds(e)
    <3>1. Holds(d)' = Holds(d) - TxFee BY <2>1, <2>2, Balances DEF Holds
    <3>2. \A e \in Deployments \ {d} : Holds(e)' = Holds(e) BY <2>1 DEF Holds
    <3> QED BY <3>1, <3>2
  <2>4. Live(d)' = FALSE BY <2>1 DEF Live
  <2>5. \A e \in Deployments \ {d} : Live(e)' = Live(e) BY <2>1 DEF Live
  <2> QED BY <2>3, <2>4, <2>5
<1>4. [e \in Deployments |-> Holds(e)]' = [[e \in Deployments |-> Holds(e)] EXCEPT ![d] = @ - TxFee]
  BY <1>3
<1>5. [e \in Deployments |-> Live(e)]' = [[e \in Deployments |-> Live(e)] EXCEPT ![d] = FALSE]
  BY <1>3
<1>6. Custody!Reclaim(d) BY <1>1, <1>2, <1>4, <1>5 DEF Custody!Reclaim, Holds, Live
<1> QED BY <1>6 DEF CustodyStep, Custody!CustodyNext

LEMMA GiveBackStep ==
  ASSUME IInv, NEW d \in Deployments, NEW x \in Calls \cup Deployments, Transfer(x, d),
         UNCHANGED <<program, admin, status>>
  PROVE  CustodyStep
<1> DEFINE back == transfer[x]
<1>1. back \in Nat /\ wallet[d] >= back + TxFee BY DEF Transfer, IInv, TypeOK
<1>2. back \in 0 .. Holds(d) /\ TxFee \in 0 .. Holds(d) - back
  BY <1>1, Balances DEF Holds
<1>3. \A e \in Deployments : Holds(e)' = IF e = d THEN Holds(e) - back - TxFee ELSE Holds(e)
  BY <1>1, Balances DEF Transfer, Holds, IInv, TypeOK
<1>4. [e \in Deployments |-> Holds(e)]' =
        [[e \in Deployments |-> Holds(e)] EXCEPT ![d] = @ - back - TxFee]
  BY <1>3
<1>5. program[d] > 0 => Holds(d) - back - TxFee >= Rent
  BY <1>1, Balances, CloseAssumption DEF Holds, IInv, TypeOK
<1>6. treasury' = treasury + back BY DEF Transfer
<1> HIDE DEF back
<1>7. Custody!Return(d)
  BY <1>2, <1>4, <1>5, <1>6 DEF Custody!Return, Holds
<1> QED BY <1>7 DEF CustodyStep, Custody!CustodyNext

LEMMA RowStep ==
  ASSUME IInv, NEW d \in Deployments, UNCHANGED <<program, wallet, admin, treasury>>,
         \/ status' = [status EXCEPT ![d] = "failed"]
         \/ status' = [status EXCEPT ![d] = "closed"] /\ program[d] = 0
  PROVE  CustodyStep
<1>1. CASE status' = [status EXCEPT ![d] = "failed"]
  BY <1>1 DEF CustodyStep, Custody!CustodyNext, Custody!DeclareFailed
<1>2. CASE status' = [status EXCEPT ![d] = "closed"] /\ program[d] = 0
  <2>1. ~[e \in Deployments |-> program[e] > 0][d]
    <3>1. [e \in Deployments |-> program[e] > 0][d] = (program[d] > 0) OBVIOUS
    <3>2. ~(program[d] > 0) BY <1>2
    <3> QED BY <3>1, <3>2
  <2>2. Custody!DeclareClosed(d) BY <1>2, <2>1 DEF Custody!DeclareClosed
  <2> QED BY <2>2 DEF CustodyStep, Custody!CustodyNext
<1> QED BY <1>1, <1>2

LEMMA NextMaps ==
  ASSUME IInv, [Next]_vars
  PROVE  CustodyStep
<1> USE DEF rowVars, fileVars, chainVars, callVars
<1>1. ASSUME NEW c \in Calls, ReadRow(c) \/ Step(c) \/ LateSweep(c) PROVE CustodyStep
  <2>1. CASE ReadRow(c) BY <2>1, QuietStep DEF ReadRow
  <2>2. CASE FundStep(c)
    <3>1. CASE AdvanceFees(c)
      <4>1. Target(c) \in Deployments BY <3>1 DEF AdvanceFees, IInv, CallInv
      <4> QED BY <3>1, <4>1, LendStep
    <3> QED BY <2>2, <3>1, QuietStep
        DEF FundStep, ProbeProgram, WeighWallet, AskAdmin, ReweighWallet
  <2>3. CASE CliStep(c)
    <3>1. CASE WriteKeyFile(c) \/ StartCli(c) \/ FindSignature(c)
      BY <3>1, QuietStep DEF WriteKeyFile, StartCli, FindSignature
    <3>2. CASE EndCli(c)
      <4>1. Target(c) \in Deployments BY <3>2 DEF EndCli, IInv, CallInv
      <4> QED BY <3>2, <4>1, QuietStep, ReclaimStep DEF EndCli
    <3> QED BY <2>3, <3>1, <3>2 DEF CliStep
  <2>4. CASE ReturnStep(c)
    <3>1. CASE MeasureWallet(c) \/ WeighSweep(c)
      BY <3>1, QuietStep DEF MeasureWallet, WeighSweep
    <3>2. CASE SweepWallet(c)
      <4>1. Target(c) \in Deployments BY <3>2 DEF SweepWallet, IInv, CallInv
      <4> QED BY <3>2, <4>1, QuietStep, GiveBackStep DEF SweepWallet
    <3>3. CASE RecordClosed(c)
      <4>1. Target(c) \in Deployments /\ program[Target(c)] = 0
        BY <3>3 DEF RecordClosed, IInv, CallInv, Closed, AfterClose
      <4> QED BY <3>3, <4>1, QuietStep, RowStep DEF RecordClosed
    <3> QED BY <2>4, <3>1, <3>2, <3>3 DEF ReturnStep
  <2>5. CASE OrphanEnds(c)
    <3>1. Target(c) \in Deployments BY <2>5 DEF OrphanEnds, IInv, CallInv
    <3> QED BY <2>5, <3>1, QuietStep, ReclaimStep DEF OrphanEnds
  <2>6. CASE LateSweep(c)
    <3>1. Target(c) \in Deployments BY <2>6 DEF LateSweep, IInv, TypeOK, CallInv
    <3> QED BY <2>6, <3>1, GiveBackStep DEF LateSweep
  <2> QED BY <1>1, <2>1, <2>2, <2>3, <2>4, <2>5, <2>6 DEF Step
<1>2. ASSUME NEW d \in Deployments, RunStep(d) PROVE CustodyStep
  <2>1. CASE RunCounts(d) \/ RunWeighs(d)
    BY <2>1, QuietStep DEF RunCounts, RunWeighs
  <2>2. CASE RunSweeps(d)
    BY <2>2, QuietStep, GiveBackStep DEF RunSweeps
  <2>3. CASE RunMarks(d)
    BY <2>3, QuietStep, RowStep DEF RunMarks
  <2> QED BY <1>2, <2>1, <2>2, <2>3 DEF RunStep
<1>3. CASE Crash BY <1>3, QuietStep DEF Crash
<1>4. CASE UNCHANGED vars BY <1>4, QuietStep DEF vars
<1> QED BY <1>1, <1>2, <1>3, <1>4 DEF Next

\* Closing implements the custody: lamports leave a deployment only for the
\* treasury, and only a program that is gone is called closed.
THEOREM Refinement == Spec => ImplementsCustody
<1>1. Init => Custody!CustodyInit
  <2> SUFFICES ASSUME Init PROVE Custody!CustodyInit OBVIOUS
  <2>1. \A d \in Deployments : program[d] \in {0, Rent} /\ wallet[d] \in Leftover
    BY DEF Init
  <2>2. \A d \in Deployments :
          program[d] + wallet[d] >= IF program[d] > 0 THEN Rent ELSE 0
    <3> TAKE d \in Deployments
    <3>1. wallet[d] \in Nat /\ Rent \in Nat \ {0} BY <2>1, CloseAssumption
    <3>2. CASE program[d] = 0 BY <3>1, <3>2
    <3>3. CASE program[d] = Rent BY <3>1, <3>3
    <3> QED BY <2>1, <3>2, <3>3
  <2>3. \A d \in Deployments : status[d] = "success" => program[d] > 0
    <3>1. Rent > 0 BY CloseAssumption
    <3> QED BY <3>1 DEF Init
  <2>4. status \in [Deployments -> {"success", "failed"}] /\ admin = InitialAdmin /\ treasury = 0
    BY DEF Init
  <2> DEFINE L == [d \in Deployments |-> program[d] > 0]
             H == [d \in Deployments |-> program[d] + wallet[d]]
  <2>5. L \in [Deployments -> BOOLEAN] OBVIOUS
  <2>6. \A d \in Deployments : L[d] = (program[d] > 0) /\ H[d] = program[d] + wallet[d]
    OBVIOUS
  <2>7. /\ \A d \in Deployments : H[d] >= IF L[d] THEN Rent ELSE 0
        /\ \A d \in Deployments : status[d] = "success" => L[d]
    <3> HIDE DEF L, H
    <3> QED BY <2>2, <2>3, <2>6
  <2> QED BY <2>4, <2>5, <2>7 DEF Custody!CustodyInit
<1>2. IInv /\ [Next]_vars => [Custody!CustodyNext]_(Custody!custodyVars)
  BY NextMaps DEF CustodyStep
<1> QED BY <1>1, <1>2, Invariance, PTL DEF Spec, ImplementsCustody, Custody!CustodySpec
=============================================================================
