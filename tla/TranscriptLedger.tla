-------------------------- MODULE TranscriptLedger --------------------------
(***************************************************************************)
(* The Postgres ledger of Supadata transcript requests and the service     *)
(* loop that uses it: ClaimYouTubeTranscriptRequest (one transaction under *)
(* a per-owner advisory lock), the provider call, and                      *)
(* CompleteYouTubeTranscriptRequest.  Workers are the refreshes that run   *)
(* at the same time (API process, worker process, command line); any of    *)
(* them may fail or crash between two steps.  One owner: the lock, the     *)
(* count and the primary key are all per owner.                            *)
(***************************************************************************)
EXTENDS Integers, FiniteSets

CONSTANTS
  Workers,        \* concurrent refreshes of the owner
  Videos,         \* playlist videos
  MonthlyLimit,   \* SUPADATA_MONTHLY_REQUEST_LIMIT
  LastMonth,      \* bound: the clock shows months 1..LastMonth
  None

Months == 1 .. LastMonth

Statuses == {"claimed", "available", "missing", "blocked"}

ASSUME LimitAssumption == MonthlyLimit \in Int
ASSUME MonthAssumption == LastMonth \in Nat \ {0}
ASSUME SetsAssumption ==
  /\ IsFiniteSet(Videos)
  /\ None \notin Workers
  /\ None \notin Months
  /\ None \notin [status : Statuses, month : Months]

VARIABLES
  month,      \* the database clock, by the month
  row,        \* youtube_transcript_requests: committed row of a video, or None
  lock,       \* holder of the advisory lock, or None
  pc,         \* where each worker is
  video,      \* the video a worker is handling
  txMonth,    \* now() of its claim transaction: the time the transaction began
  outcome,    \* transcript status the provider call gave it
  requests    \* history: provider calls made for each video

vars == <<month, row, lock, pc, video, txMonth, outcome, requests>>

ledgerVars == <<row, lock>>
workerVars == <<video, txMonth, outcome>>

Steps == {"idle", "lock", "insert", "commit", "refused", "request", "complete"}

InTransaction == {"insert", "commit", "refused"}

TypeOK ==
  /\ month \in Months
  /\ row \in [Videos -> [status : Statuses, month : Months] \cup {None}]
  /\ lock \in Workers \cup {None}
  /\ pc \in [Workers -> Steps]
  /\ video \in [Workers -> Videos \cup {None}]
  /\ \A w \in Workers : pc[w] # "idle" => video[w] \in Videos
  /\ txMonth \in [Workers -> Months]
  /\ outcome \in [Workers -> Statuses]
  /\ requests \in [Videos -> Nat]

Init ==
  /\ month = 1
  /\ row = [v \in Videos |-> None]
  /\ lock = None
  /\ pc = [w \in Workers |-> "idle"]
  /\ video = [w \in Workers |-> None]
  /\ txMonth = [w \in Workers |-> 1]
  /\ outcome = [w \in Workers |-> "claimed"]
  /\ requests = [v \in Videos |-> 0]

-----------------------------------------------------------------------------

\* Rows attempted in month m.
AttemptedIn(m) == {v \in Videos : row[v] # None /\ row[v].month = m}

\* The WHERE clause of the claiming insert, for a transaction begun in month m.
BudgetLeft(m) ==
  /\ MonthlyLimit > 0
  /\ Cardinality(AttemptedIn(m)) < MonthlyLimit

\* The unique index makes an insert wait for another uncommitted one of its key.
NoConcurrentInsert(w) ==
  \A o \in Workers \ {w} : ~(pc[o] = "commit" /\ video[o] = video[w])

Goto(w, step) == pc' = [pc EXCEPT ![w] = step]

\* Ending a transaction, by commit or rollback, releases its advisory lock.
ReleaseLock(w) == lock' = IF lock = w THEN None ELSE lock

\* Mistaken versions of the steps below, kept to show that each property can
\* fail: a claim without the advisory lock, an insert that ignores the primary
\* key, one that ignores the ceiling, a commit that keeps a session-level lock,
\* and a completion that writes an empty status.
AcquireLockUnguarded(w) ==
  /\ pc[w] = "lock"
  /\ Goto(w, "insert")
  /\ lock' = w
  /\ UNCHANGED <<month, row, workerVars, requests>>

InsertClaimOverwrites(w) ==
  /\ pc[w] = "insert"
  /\ Goto(w, IF BudgetLeft(txMonth[w]) THEN "commit" ELSE "refused")
  /\ UNCHANGED <<month, ledgerVars, workerVars, requests>>

InsertClaimNoBudget(w) ==
  /\ pc[w] = "insert"
  /\ Goto(w, IF row[video[w]] = None THEN "commit" ELSE "refused")
  /\ UNCHANGED <<month, ledgerVars, workerVars, requests>>

CommitClaimKeepsLock(w) ==
  /\ pc[w] = "commit"
  /\ row' = [row EXCEPT ![video[w]] = [status |-> "claimed", month |-> txMonth[w]]]
  /\ Goto(w, "request")
  /\ UNCHANGED <<month, lock, workerVars, requests>>

CompleteRequestBlank(w) ==
  /\ pc[w] = "complete"
  /\ row' = [row EXCEPT ![video[w]].status = ""]
  /\ Goto(w, "idle")
  /\ UNCHANGED <<month, lock, workerVars, requests>>

-----------------------------------------------------------------------------

\* The worker takes up a video that has no processed transcript and opens the
\* claim transaction; now() is fixed here, before the lock is waited for.
BeginClaim(w, v) ==
  /\ pc[w] = "idle"
  /\ Goto(w, "lock")
  /\ video' = [video EXCEPT ![w] = v]
  /\ txMonth' = [txMonth EXCEPT ![w] = month]
  /\ outcome' = [outcome EXCEPT ![w] = "claimed"]
  /\ UNCHANGED <<month, row, lock, requests>>

AcquireLock(w) ==
  /\ pc[w] = "lock"
  /\ lock = None
  /\ lock' = w
  /\ Goto(w, "insert")
  /\ UNCHANGED <<month, row, workerVars, requests>>

\* insert .. select .. where budget left .. on conflict do nothing
InsertClaim(w) ==
  /\ pc[w] = "insert"
  /\ NoConcurrentInsert(w)
  /\ Goto(w, IF BudgetLeft(txMonth[w]) /\ row[video[w]] = None
             THEN "commit" ELSE "refused")
  /\ UNCHANGED <<month, ledgerVars, workerVars, requests>>

CommitClaim(w) ==
  /\ pc[w] = "commit"
  /\ row' = [row EXCEPT ![video[w]] = [status |-> "claimed", month |-> txMonth[w]]]
  /\ ReleaseLock(w)
  /\ Goto(w, "request")
  /\ UNCHANGED <<month, workerVars, requests>>

\* No row came back: the transaction commits empty and the claim is refused.
CommitRefusal(w) ==
  /\ pc[w] = "refused"
  /\ ReleaseLock(w)
  /\ Goto(w, "idle")
  /\ UNCHANGED <<month, row, workerVars, requests>>

\* fetchSupadataTranscript: one provider call, whatever it answers.
RequestTranscript(w) ==
  /\ pc[w] = "request"
  /\ requests' = [requests EXCEPT ![video[w]] = @ + 1]
  /\ \E s \in Statuses \ {"claimed"} : outcome' = [outcome EXCEPT ![w] = s]
  /\ Goto(w, "complete")
  /\ UNCHANGED <<month, ledgerVars, video, txMonth>>

CompleteRequest(w) ==
  /\ pc[w] = "complete"
  /\ row' = [row EXCEPT ![video[w]].status = outcome[w]]
  /\ Goto(w, "idle")
  /\ UNCHANGED <<month, lock, workerVars, requests>>

\* A database error, a timeout of the transaction or of the refresh, or a crash
\* of the process: an open transaction rolls back, nothing else is undone.
Fail(w) ==
  /\ pc[w] # "idle"
  /\ ReleaseLock(w)
  /\ Goto(w, "idle")
  /\ UNCHANGED <<month, row, workerVars, requests>>

NextMonth ==
  /\ month < LastMonth
  /\ month' = month + 1
  /\ UNCHANGED <<ledgerVars, pc, workerVars, requests>>

WorkerStep(w) ==
  \/ AcquireLock(w)
  \/ InsertClaim(w)
  \/ CommitClaim(w)
  \/ CommitRefusal(w)
  \/ RequestTranscript(w)
  \/ CompleteRequest(w)

Next ==
  \/ \E w \in Workers :
       \/ \E v \in Videos : BeginClaim(w, v)
       \/ WorkerStep(w)
       \/ Fail(w)
  \/ NextMonth

Spec == Init /\ [][Next]_vars

\* A running process keeps taking its steps, and Postgres grants a released
\* advisory lock to its waiters in turn.
Fairness ==
  \A w \in Workers :
    /\ WF_vars(WorkerStep(w))
    /\ SF_vars(AcquireLock(w))

FairSpec == Spec /\ Fairness

-----------------------------------------------------------------------------

\* However many refreshes claim at once, across month ends and failures, no
\* month is charged more requests than the configured ceiling.
BudgetRespected ==
  \A m \in Months : AttemptedIn(m) # {} => Cardinality(AttemptedIn(m)) <= MonthlyLimit

\* The provider is never asked twice for one video, neither by two refreshes at
\* once nor by a refresh after a crash, and never for an unrecorded video.
RequestedAtMostOnce ==
  \A v \in Videos : requests[v] <= 1 /\ (requests[v] = 1 => row[v] # None)

\* Why the two hold: only the lock's holder is between its insert and its commit,
\* what its insert saw is still true when it commits, and the workers between
\* commit and completion hold distinct, claimed, not yet completed videos.
LockHeldInTransaction == \A w \in Workers : pc[w] \in InTransaction <=> lock = w

InsertStillValid ==
  \A w \in Workers : pc[w] = "commit" => BudgetLeft(txMonth[w]) /\ row[video[w]] = None

AfterClaim == {"request", "complete"}

ClaimHeld ==
  \A w \in Workers : pc[w] \in AfterClaim =>
    /\ row[video[w]] # None
    /\ row[video[w]].status = "claimed"
    /\ pc[w] = "request" => requests[video[w]] = 0
    /\ \A o \in Workers \ {w} : pc[o] \in AfterClaim => video[o] # video[w]

LedgerInv ==
  /\ TypeOK
  /\ LockHeldInTransaction
  /\ InsertStillValid
  /\ ClaimHeld
  /\ RequestedAtMostOnce
  /\ \A v \in Videos : row[v] = None => requests[v] = 0
  /\ BudgetRespected

\* A row that was completed keeps its status and its month: no later claim
\* reopens the video and no other worker completes it again.
CompletedIsFinal ==
  [][\A v \in Videos :
       (row[v] # None /\ row[v].status # "claimed") => row'[v] = row[v]]_vars

\* Every claim attempt ends: no refresh waits on the advisory lock for ever.
ClaimEnds == \A w \in Workers : (pc[w] # "idle") ~> (pc[w] = "idle")

\* The ledger implements the budget specification: a committed row is a charge.
Charged == [v \in Videos |-> IF row[v] = None THEN None ELSE row[v].month]

Budget == INSTANCE TranscriptBudget WITH charged <- Charged

ImplementsBudget == Budget!Spec
=============================================================================
