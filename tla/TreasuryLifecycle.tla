------------------------- MODULE TreasuryLifecycle -------------------------
(* The life of the treasury pool account: the start-up of a backend, which   *)
(* creates the account when it is absent, and the operator's scripts that     *)
(* close it, replace an account of the old struct layout, and stake into it.  *)
(* None of them locks the account, and each acts on what it read earlier.     *)
(* Every step of a call is one round trip to the cluster, so a failing or     *)
(* dying call (Lose) ends between any two of them. The on-chain program is    *)
(* external: its instructions are modelled by the results the code handles.   *)
EXTENDS Naturals

CONSTANTS Backends,       \* start-ups of a backend
          Resets,         \* runs of reset-treasury-pool.ts
          Closes,         \* runs of close-treasury-pool.ts
          Stakes,         \* stakes through stakeSolToTreasury
          StakeScripts,   \* stakes through stake-to-treasury.ts
          MaxLandings,    \* bound on how often the same stake lands
          MaxMishaps      \* bound on failed round trips and dying processes

Stakers == Stakes \cup StakeScripts
Calls == Backends \cup Resets \cup Closes \cup Stakers

ASSUME KindsAssumption ==
    /\ Backends \cap (Resets \cup Closes \cup Stakers) = {}
    /\ Resets \cap (Closes \cup Stakers) = {}
    /\ Closes \cap Stakers = {}
    /\ Stakes \cap StakeScripts = {}
ASSUME BoundsAssumption == MaxLandings \in Nat /\ MaxMishaps \in Nat

VARIABLES account,    \* the treasury pool account on the cluster
          pc,         \* where each call is
          outcome,    \* what each call last reported
          raced,      \* another call created a pool after this reset looked
          wipes,      \* how deposits of a pool of the new layout were wiped
          landed,     \* stakes that landed, per staker
          unread,     \* stakes of the service that landed in an unreadable account
          closed,     \* some close transaction has landed
          mishaps     \* failures so far

vars == <<account, pc, outcome, raced, wipes, landed, unread, closed, mishaps>>

-----------------------------------------------------------------------------
(* The account. A closed account may stay as a husk: rent-exempt, of the same *)
(* size, without a pool in it.                                                *)

Accounts == [state: {"absent", "husk", "pool"}, layout: {"old", "new"}, deposits: Nat]
Empty(state, layout) == [state |-> state, layout |-> layout, deposits |-> 0]
Absent == Empty("absent", "new")

Exists == account.state # "absent"
IsPool(a) == a.state = "pool" /\ a.layout = "new"     \* one that fetch can read

NeedsResetAlways(a) == TRUE

\* The reset script's test: fewer than 200 bytes.
NeedsReset(a) == a.layout = "old"

-----------------------------------------------------------------------------
Goes(c, label) == /\ pc' = [pc EXCEPT ![c] = label]
                  /\ UNCHANGED outcome
Ends(c, o) == /\ pc' = [pc EXCEPT ![c] = "done"]
              /\ outcome' = [outcome EXCEPT ![c] = o]
Quiet == UNCHANGED <<account, raced, wipes, landed, unread, closed, mishaps>>

\* A pool comes into being under every reset that has already looked.
Opens(c) == raced' = [d \in Calls |-> \/ raced[d]
                                      \/ d \in Resets \ {c} /\ pc[d] \in {"close", "reinit"}]
Wipes(c) == wipes' = IF IsPool(account) /\ account.deposits > 0
                     THEN wipes \cup {[by |-> IF c \in Closes THEN "close" ELSE "reset",
                                       raced |-> raced[c]]}
                     ELSE wipes

-----------------------------------------------------------------------------
(* A backend starts (ProgramService.onModuleInit). Nothing that goes wrong    *)
(* with the treasury keeps it from starting.                                  *)

VerifyProgramDeployed(b) ==
    /\ pc[b] = "idle" /\ b \in Backends
    /\ \/ Goes(b, "ensure")
       \/ Ends(b, "up")      \* not deployed, or not executable
    /\ Quiet

EnsureTreasuryPoolInitialized(b) ==
    /\ pc[b] = "ensure"
    /\ Goes(b, IF Exists THEN "funds" ELSE "initialize")
    /\ Quiet

\* The chain refuses to initialise an account that exists; the error is
\* caught in verifyProgramDeployed.
InitializeTreasuryPool(b) ==
    /\ pc[b] = "initialize"
    /\ \/ /\ ~Exists
          /\ account' = Empty("pool", "new")
          /\ Opens(b)
          /\ Goes(b, "funds")
       \/ /\ Exists
          /\ Ends(b, "up")
          /\ UNCHANGED <<account, raced>>
    /\ UNCHANGED <<wipes, landed, unread, closed, mishaps>>

\* Reads the size and the funds, and only warns of what it finds.
EnsureTreasuryHasFunds(b) ==
    /\ pc[b] = "funds"
    /\ Ends(b, "up")
    /\ Quiet

-----------------------------------------------------------------------------
(* reset-treasury-pool.ts and close-treasury-pool.ts.                         *)

LookBeforeReset(r) ==
    /\ pc[r] = "idle" /\ r \in Resets
    /\ \/ ~Exists /\ Goes(r, "reinit")
       \/ Exists /\ NeedsReset(account) /\ Goes(r, "close")
       \/ Exists /\ ~NeedsReset(account) /\ Ends(r, "notNeeded")
    /\ Quiet

LookBeforeClose(c) ==
    /\ pc[c] = "idle" /\ c \in Closes
    /\ \/ Exists /\ Goes(c, "close")
       \/ ~Exists /\ Ends(c, "notNeeded")
    /\ Quiet

\* close_treasury_pool takes any account that exists, also one that does not
\* deserialise, and removes it or leaves a husk.
CloseTreasuryPool(c) ==
    /\ pc[c] = "close"
    /\ \/ /\ Exists
          /\ account' \in {Absent, Empty("husk", account.layout)}
          /\ Wipes(c)
          /\ closed' = TRUE
          /\ Goes(c, IF c \in Closes THEN "report" ELSE "reinit")
       \/ /\ ~Exists
          /\ Ends(c, "failed")
          /\ UNCHANGED <<account, wipes, closed>>
    /\ UNCHANGED <<raced, landed, unread, mishaps>>

ReportClosed(c) ==
    /\ pc[c] = "report"
    /\ Ends(c, "closed")
    /\ Quiet

\* reinitialize_treasury_pool works when the account exists; of a pool the
\* chain may also say "already in use", which the script only logs.
ReinitializeTreasuryPool(r) ==
    /\ pc[r] = "reinit"
    /\ \/ /\ account' = Empty("pool", "new")
          /\ Opens(r)
          /\ Wipes(r)
          /\ Goes(r, "fetch")
       \/ /\ account.state = "pool"
          /\ Ends(r, "inUse")
          /\ UNCHANGED <<account, raced, wipes>>
    /\ UNCHANGED <<landed, unread, closed, mishaps>>

FetchAfterReset(r) ==
    /\ pc[r] = "fetch"
    /\ Ends(r, IF IsPool(account) THEN "reset" ELSE "failed")
    /\ Quiet

-----------------------------------------------------------------------------
(* A stake: the transaction, its confirmation, the pool read back. The        *)
(* service treats an unreadable pool as a failed stake, the script does not.  *)

Deposited(a) == [a EXCEPT !.deposits = @ + 1]

\* stake_sol takes the treasury pool as an unchecked account, so that it can
\* handle the old layout: what cannot be read there may take the SOL and stay
\* as it is, or become a pool of the new layout.
Deposit(s) ==
    \/ /\ IsPool(account)
       /\ account' = Deposited(account)
       /\ UNCHANGED <<raced, unread>>
    \/ /\ Exists /\ ~IsPool(account)
       /\ unread' = unread \cup ({s} \cap Stakes)
       /\ UNCHANGED <<account, raced>>
    \/ /\ ~IsPool(account)
       /\ account' = Deposited(Empty("pool", "new"))
       /\ Opens(s)
       /\ UNCHANGED unread

\* It may also be refused, whatever is there.
StakeSol(s) ==
    /\ pc[s] = "idle" /\ s \in Stakers
    /\ \/ /\ landed[s] < MaxLandings
          /\ Deposit(s)
          /\ landed' = [landed EXCEPT ![s] = @ + 1]
          /\ Goes(s, "verify")
       \/ /\ Ends(s, "failed")
          /\ UNCHANGED <<account, raced, landed, unread>>
    /\ UNCHANGED <<wipes, closed, mishaps>>

VerifyStake(s) ==
    /\ pc[s] = "verify"
    /\ Ends(s, IF IsPool(account) \/ s \in StakeScripts THEN "staked" ELSE "failed")
    /\ Quiet

-----------------------------------------------------------------------------
(* The surroundings.                                                          *)

\* A round trip fails, or the process dies. A transaction sent before has landed.
Lose(c) ==
    /\ pc[c] \notin {"idle", "done"}
    /\ mishaps < MaxMishaps
    /\ mishaps' = mishaps + 1
    /\ Ends(c, IF c \in Backends THEN "up" ELSE "failed")
    /\ UNCHANGED <<account, raced, wipes, landed, unread, closed>>

\* A backend is restarted, a script run again; a stake is repeated when it failed.
RunAgain(c) ==
    /\ pc[c] = "done"
    /\ c \in Stakers => outcome[c] = "failed"
    /\ pc' = [pc EXCEPT ![c] = "idle"]
    /\ outcome' = [outcome EXCEPT ![c] = "none"]
    /\ raced' = [raced EXCEPT ![c] = FALSE]
    /\ UNCHANGED <<account, wipes, landed, unread, closed, mishaps>>

Boot(b) == \/ VerifyProgramDeployed(b)
           \/ EnsureTreasuryPoolInitialized(b)
           \/ InitializeTreasuryPool(b)
           \/ EnsureTreasuryHasFunds(b)

Script(c) == \/ LookBeforeReset(c)
             \/ LookBeforeClose(c)
             \/ CloseTreasuryPool(c)
             \/ ReportClosed(c)
             \/ ReinitializeTreasuryPool(c)
             \/ FetchAfterReset(c)

Stake(s) == StakeSol(s) \/ VerifyStake(s)

\* An account of the old layout may hold deposits; the new code never reads them.
Init == /\ account \in {Absent, Empty("pool", "old"), Empty("pool", "new")}
        /\ pc = [c \in Calls |-> "idle"]
        /\ outcome = [c \in Calls |-> "none"]
        /\ raced = [c \in Calls |-> FALSE]
        /\ wipes = {}
        /\ landed = [s \in Stakers |-> 0]
        /\ unread = {}
        /\ closed = FALSE
        /\ mishaps = 0

Next == \E c \in Calls : Boot(c) \/ Script(c) \/ Stake(c) \/ Lose(c) \/ RunAgain(c)

Spec == Init /\ [][Next]_vars

-----------------------------------------------------------------------------
(* Properties.                                                                *)

Labels(c) == IF c \in Backends THEN {"idle", "ensure", "initialize", "funds", "done"}
             ELSE IF c \in Resets THEN {"idle", "close", "reinit", "fetch", "done"}
             ELSE IF c \in Closes THEN {"idle", "close", "report", "done"}
             ELSE {"idle", "verify", "done"}
Outcomes == {"none", "up", "notNeeded", "failed", "closed", "inUse", "reset", "staked"}

\* Every variable keeps its type, and each call stays on its own path.
TypeOK ==
    /\ account \in Accounts
    /\ pc \in [Calls -> {"idle", "ensure", "initialize", "funds", "close", "reinit",
                         "fetch", "report", "verify", "done"}]
    /\ \A c \in Calls : pc[c] \in Labels(c)
    /\ outcome \in [Calls -> Outcomes]
    /\ raced \in [Calls -> BOOLEAN]
    /\ wipes \subseteq [by: {"close", "reset"}, raced: BOOLEAN]
    /\ landed \in [Stakers -> Nat]
    /\ unread \subseteq Stakes
    /\ closed \in BOOLEAN
    /\ mishaps \in 0..MaxMishaps

\* Deposits of a pool that the current code can read are wiped only by the
\* close script, or by a reset under which another call created that pool
\* after it had looked: the size test of reset-treasury-pool.ts protects every
\* other pool.
DepositsSurvive == \A w \in wipes : w.by = "close" \/ w.raced

\* Why a stake that landed may be reported as failed: something went wrong, or
\* stakeSolToTreasury could not read the pool back, because it was closed
\* meanwhile or because the stake landed in an account the backend cannot read.
\* The script reports a stake whose pool it cannot read as done.
Excused(s) == mishaps > 0 \/ (s \in Stakes /\ closed) \/ s \in unread

\* A stake that is repeated lands twice only for one of these reasons.
DoubleStakeExplained == \A s \in Stakers : landed[s] > 1 => Excused(s)

\* A closed account of the new layout that stays as a husk is not brought back
\* by what is there to create or reset the pool: once no reset is under way, no
\* start-up and no run of the reset script makes a pool of it, and only removing
\* the account leads out, or a stake that the chain takes.
Stranded == /\ account.state = "husk" /\ account.layout = "new"
            /\ \A r \in Resets : pc[r] \notin {"close", "reinit"}
HuskStays == [][Stranded => Stranded' \/ account'.state = "absent" \/ landed' # landed]_vars

-----------------------------------------------------------------------------
(* The invariant that implies them.                                           *)

\* A reset acts on an account that its test admits, unless somebody interfered.
ResetInv(r) == pc[r] \in {"close", "reinit"} /\ ~raced[r] => ~IsPool(account)

\* A stake on its way back is in a readable pool, or has a reason not to be, and
\* one that is tried again although it landed had a reason to fail.
StakeInv(s) ==
    /\ pc[s] = "verify" => landed[s] > 0
    /\ pc[s] = "verify" /\ s \in Stakes => closed \/ IsPool(account) \/ s \in unread
    /\ landed[s] > 1 => Excused(s)
    /\ landed[s] > 0 /\ pc[s] # "verify" /\ (pc[s] = "idle" \/ outcome[s] = "failed")
          => Excused(s)

HuskInv == account.state = "husk" => closed

IInv == /\ TypeOK
        /\ HuskInv
        /\ DepositsSurvive
        /\ \A r \in Resets : ResetInv(r)
        /\ \A s \in Stakers : StakeInv(s)
=============================================================================
