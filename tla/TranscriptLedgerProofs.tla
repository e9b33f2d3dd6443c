----------------------- MODULE TranscriptLedgerProofs -----------------------
(***************************************************************************)
(* For any number of workers, videos and months: the ledger's types, its   *)
(* monthly ceiling, the single provider call per video, and the refinement *)
(* of TranscriptBudget.                                                    *)
(***************************************************************************)
EXTENDS TranscriptLedger, FiniteSetTheorems, TLAPS

\* Committing a claim adds its video to the rows of the transaction's month and
\* leaves the rows of the other months alone.
LEMMA CommitAttempted ==
  ASSUME LedgerInv, NEW w \in Workers, CommitClaim(w), NEW m \in Months
  PROVE  /\ m # txMonth[w] => AttemptedIn(m)' = AttemptedIn(m)
         /\ m = txMonth[w] => /\ AttemptedIn(m)' = AttemptedIn(m) \cup {video[w]}
                              /\ video[w] \notin AttemptedIn(m)
<1> USE DEF LedgerInv, TypeOK
<1>1. row' = [row EXCEPT ![video[w]] = [status |-> "claimed", month |-> txMonth[w]]]
  BY DEF CommitClaim
<1>2. video[w] \in Videos /\ row[video[w]] = None /\ txMonth[w] \in Months
  BY DEF CommitClaim, InsertStillValid
<1>3. [status |-> "claimed", month |-> txMonth[w]] # None
  BY <1>2, SetsAssumption DEF Statuses
<1> QED BY <1>1, <1>2, <1>3 DEF AttemptedIn

\* A finite set of videos with room below the ceiling stays within it when one
\* video is added.
LEMMA AddOneVideo ==
  ASSUME NEW S \in SUBSET Videos, NEW v \in Videos, v \notin S,
         Cardinality(S) < MonthlyLimit
  PROVE  Cardinality(S \cup {v}) <= MonthlyLimit
<1>1. IsFiniteSet(S)
  BY FS_Subset, SetsAssumption
<1>2. Cardinality(S) \in Nat /\ Cardinality(S \cup {v}) = Cardinality(S) + 1
  BY <1>1, FS_CardinalityType, FS_AddElement
<1> QED BY <1>2, LimitAssumption

\* Completing a row replaces its status and keeps its month.
LEMMA CompletedRow ==
  ASSUME NEW r \in [status : Statuses, month : Months], NEW s \in Statuses
  PROVE  /\ [r EXCEPT !.status = s] = [status |-> s, month |-> r.month]
         /\ [status |-> s, month |-> r.month] \in [status : Statuses, month : Months]
OBVIOUS

\* The empty ledger satisfies the invariant.
LEMMA InitInv == Init => LedgerInv
<1> SUFFICES ASSUME Init PROVE LedgerInv
  OBVIOUS
<1>1. TypeOK
  BY MonthAssumption DEF Init, TypeOK, Months, Steps, Statuses
<1>2. BudgetRespected
  BY DEF Init, BudgetRespected, AttemptedIn
<1>3. LockHeldInTransaction
  BY SetsAssumption DEF Init, LockHeldInTransaction, InTransaction
<1> QED
  BY <1>1, <1>2, <1>3
  DEF Init, LedgerInv, InsertStillValid, ClaimHeld, AfterClaim, RequestedAtMostOnce

\* A step that leaves the rows, the requests and the month ceilings alone keeps
\* the parts of the invariant that speak of them.
LEMMA SameRows ==
  ASSUME LedgerInv, row' = row
  PROVE  /\ BudgetRespected'
         /\ \A m : AttemptedIn(m)' = AttemptedIn(m)
         /\ \A m : BudgetLeft(m)' = BudgetLeft(m)
BY DEF LedgerInv, BudgetRespected, AttemptedIn, BudgetLeft

\* Every step of a worker, a failure and a month end preserve the invariant.
LEMMA InvStep == LedgerInv /\ [Next]_vars => LedgerInv'
<1> SUFFICES ASSUME LedgerInv, [Next]_vars PROVE LedgerInv'
  OBVIOUS
<1> USE SetsAssumption
    DEF LedgerInv, TypeOK, Steps, InTransaction, AfterClaim, LockHeldInTransaction,
        InsertStillValid, ClaimHeld, RequestedAtMostOnce, Goto, ReleaseLock,
        ledgerVars, workerVars
<1>1. ASSUME NEW w \in Workers, NEW v \in Videos, BeginClaim(w, v) PROVE LedgerInv'
  BY <1>1, SameRows DEF BeginClaim, Statuses
<1>2. ASSUME NEW w \in Workers, AcquireLock(w) PROVE LedgerInv'
  BY <1>2, SameRows DEF AcquireLock
<1>3. ASSUME NEW w \in Workers, InsertClaim(w) PROVE LedgerInv'
  BY <1>3, SameRows DEF InsertClaim
<1>4. ASSUME NEW w \in Workers, CommitClaim(w) PROVE LedgerInv'
  <2>1. TypeOK'
    BY <1>4 DEF CommitClaim, Statuses
  <2>2. BudgetRespected'
    <3> SUFFICES ASSUME NEW m \in Months, AttemptedIn(m)' # {}
                 PROVE Cardinality(AttemptedIn(m)') <= MonthlyLimit
      BY DEF BudgetRespected
    <3>1. CASE m # txMonth[w]
      BY <3>1, <1>4, CommitAttempted DEF BudgetRespected
    <3>2. CASE m = txMonth[w]
      <4>1. Cardinality(AttemptedIn(m)) < MonthlyLimit
        BY <3>2, <1>4 DEF CommitClaim, BudgetLeft
      <4>2. AttemptedIn(m) \in SUBSET Videos /\ video[w] \in Videos
        BY <1>4 DEF AttemptedIn, CommitClaim
      <4> QED BY <3>2, <4>1, <4>2, <1>4, CommitAttempted, AddOneVideo
    <3> QED BY <3>1, <3>2
  <2>3. [status |-> "claimed", month |-> txMonth[w]] # None
    BY DEF Statuses
  <2>4. LockHeldInTransaction' /\ InsertStillValid'
    BY <1>4 DEF CommitClaim
  <2>5. ClaimHeld'
    BY <1>4, <2>3 DEF CommitClaim
  <2>6. RequestedAtMostOnce' /\ \A v \in Videos : row'[v] = None => requests'[v] = 0
    BY <1>4, <2>3 DEF CommitClaim
  <2> QED BY <2>1, <2>2, <2>4, <2>5, <2>6
<1>5. ASSUME NEW w \in Workers, CommitRefusal(w) PROVE LedgerInv'
  BY <1>5, SameRows DEF CommitRefusal
<1>6. ASSUME NEW w \in Workers, RequestTranscript(w) PROVE LedgerInv'
  BY <1>6, SameRows DEF RequestTranscript
<1>7. ASSUME NEW w \in Workers, CompleteRequest(w) PROVE LedgerInv'
  <2>1. row[video[w]] \in [status : Statuses, month : Months]
    BY <1>7 DEF CompleteRequest
  <2>2. row' = [row EXCEPT ![video[w]] = [status |-> outcome[w], month |-> row[video[w]].month]]
    <3>1. row' = [row EXCEPT ![video[w]] = [row[video[w]] EXCEPT !.status = outcome[w]]]
      BY <1>7 DEF CompleteRequest
    <3> QED BY <3>1, <2>1, CompletedRow
  <2>3. [status |-> outcome[w], month |-> row[video[w]].month]
          \in [status : Statuses, month : Months]
    BY <2>1
  <2>4. TypeOK'
    BY <1>7, <2>2, <2>3 DEF CompleteRequest
  <2>5. \A m : AttemptedIn(m)' = AttemptedIn(m)
    BY <1>7, <2>1, <2>2, <2>3 DEF AttemptedIn
  <2>6. BudgetRespected' /\ \A m : BudgetLeft(m)' = BudgetLeft(m)
    BY <2>5 DEF BudgetRespected, BudgetLeft
  <2>7. LockHeldInTransaction' /\ InsertStillValid'
    BY <1>7, <2>2, <2>3, <2>6 DEF CompleteRequest
  <2>8. ClaimHeld'
    BY <1>7, <2>2, <2>3 DEF CompleteRequest
  <2>9. RequestedAtMostOnce' /\ \A v \in Videos : row'[v] = None => requests'[v] = 0
    BY <1>7, <2>2, <2>3 DEF CompleteRequest
  <2> QED BY <2>4, <2>6, <2>7, <2>8, <2>9
<1>8. ASSUME NEW w \in Workers, Fail(w) PROVE LedgerInv'
  BY <1>8, SameRows DEF Fail
<1>9. CASE NextMonth
  BY <1>9, SameRows, MonthAssumption DEF NextMonth, Months
<1>10. CASE UNCHANGED vars
  BY <1>10, SameRows DEF vars
<1> QED
  BY <1>1, <1>2, <1>3, <1>4, <1>5, <1>6, <1>7, <1>8, <1>9, <1>10 DEF Next, WorkerStep

\* The invariant holds in every reachable state.
LEMMA Inductive == Spec => []LedgerInv
BY InitInv, InvStep, PTL DEF Spec

\* The ledger's variables keep their types: in particular a completion always
\* finds the row its claim committed.
THEOREM TypeCorrect == Spec => []TypeOK
<1>1. LedgerInv => TypeOK
  BY DEF LedgerInv
<1> QED BY Inductive, <1>1, PTL

\* The advisory lock makes the count-then-insert of a claim atomic, so no month
\* is charged beyond SUPADATA_MONTHLY_REQUEST_LIMIT by any number of refreshes.
THEOREM BudgetAlwaysRespected == Spec => []BudgetRespected
<1>1. LedgerInv => BudgetRespected
  BY DEF LedgerInv
<1> QED BY Inductive, <1>1, PTL

\* The row committed before the provider call makes the call unrepeatable: one
\* request per video over all refreshes, crashes and restarts.
THEOREM NeverRequestedTwice == Spec => []RequestedAtMostOnce
<1>1. LedgerInv => RequestedAtMostOnce
  BY DEF LedgerInv
<1> QED BY Inductive, <1>1, PTL

\* A completed row is final: only the worker that claimed a video completes it,
\* and no claim succeeds on a video that has a row.
THEOREM CompletionIsFinal == Spec => CompletedIsFinal
<1> DEFINE Kept == \A v \in Videos :
                     (row[v] # None /\ row[v].status # "claimed") => row'[v] = row[v]
<1>1. LedgerInv /\ [Next]_vars => [Kept]_vars
  <2> SUFFICES ASSUME LedgerInv, Next PROVE Kept
    OBVIOUS
  <2> USE DEF LedgerInv, TypeOK, ledgerVars
  <2>1. ASSUME NEW w \in Workers, CommitClaim(w) PROVE Kept
    BY <2>1 DEF CommitClaim, InsertStillValid
  <2>2. ASSUME NEW w \in Workers, CompleteRequest(w) PROVE Kept
    BY <2>2 DEF CompleteRequest, ClaimHeld, AfterClaim
  <2>3. CASE row' = row
    BY <2>3
  <2> QED
    BY <2>1, <2>2, <2>3
    DEF Next, WorkerStep, BeginClaim, AcquireLock, InsertClaim, CommitRefusal,
        RequestTranscript, Fail, NextMonth
<1> QED BY Inductive, <1>1, PTL DEF Spec, CompletedIsFinal

-----------------------------------------------------------------------------

\* Committed rows stand for charges in every reachable state.
LEMMA ChargedIs ==
  ASSUME LedgerInv
  PROVE  /\ \A v \in Videos : Charged[v] = None <=> row[v] = None
         /\ \A m \in Months : Budget!ChargedIn(m) = AttemptedIn(m)
BY SetsAssumption DEF LedgerInv, TypeOK, Charged, Budget!ChargedIn, AttemptedIn

\* The ledger implements TranscriptBudget: a committed claim is a charge, a
\* provider call a request, and every other step changes neither.
THEOREM LedgerImplementsBudget == Spec => ImplementsBudget
<1>1. Init => Budget!Init
  BY DEF Init, Budget!Init, Charged
<1>2. LedgerInv /\ [Next]_vars => [Budget!Next]_(Budget!budgetVars)
  <2> SUFFICES ASSUME LedgerInv, [Next]_vars
               PROVE  Budget!Next \/ UNCHANGED <<Charged, requests>>
    BY DEF Budget!budgetVars
  <2> USE DEF LedgerInv, TypeOK, ledgerVars
  <2>1. ASSUME NEW w \in Workers, CommitClaim(w) PROVE Budget!Next
    <3>1. video[w] \in Videos /\ txMonth[w] \in Months /\ row[video[w]] = None
      BY <2>1 DEF CommitClaim, InsertStillValid
    <3>2. [status |-> "claimed", month |-> txMonth[w]] # None
      BY <3>1, SetsAssumption DEF Statuses
    <3>3. Charged' = [Charged EXCEPT ![video[w]] = txMonth[w]]
      BY <2>1, <3>1, <3>2 DEF CommitClaim, Charged
    <3>4. Cardinality(Budget!ChargedIn(txMonth[w])) < MonthlyLimit
      BY <2>1, <3>1, ChargedIs DEF CommitClaim, InsertStillValid, BudgetLeft
    <3>5. Budget!Charge(video[w], txMonth[w])
      <4>1. Charged[video[w]] = None /\ requests' = requests
        BY <2>1, <3>1 DEF CommitClaim, Charged
      <4> QED BY <3>3, <3>4, <4>1 DEF Budget!Charge, Budget!Cardinality, Cardinality
    <3> QED BY <3>1, <3>5 DEF Budget!Next
  <2>2. ASSUME NEW w \in Workers, RequestTranscript(w) PROVE Budget!Next
    <3>1. video[w] \in Videos /\ row[video[w]] # None /\ requests[video[w]] = 0
      BY <2>2 DEF RequestTranscript, ClaimHeld, AfterClaim
    <3>2. Charged' = Charged
      BY <2>2 DEF RequestTranscript, Charged
    <3>3. Budget!Request(video[w])
      BY <2>2, <3>1, <3>2, ChargedIs DEF RequestTranscript, Budget!Request
    <3> QED BY <3>1, <3>3 DEF Budget!Next
  <2>3. ASSUME NEW w \in Workers, CompleteRequest(w)
        PROVE  UNCHANGED <<Charged, requests>>
    <3>1. row[video[w]] \in [status : Statuses, month : Months] /\ video[w] \in Videos
      BY <2>3 DEF CompleteRequest, ClaimHeld, AfterClaim
    <3>2. row' = [row EXCEPT ![video[w]] =
                    [status |-> outcome[w], month |-> row[video[w]].month]]
      <4>1. row' = [row EXCEPT ![video[w]] = [row[video[w]] EXCEPT !.status = outcome[w]]]
        BY <2>3 DEF CompleteRequest
      <4> QED BY <4>1, <3>1, CompletedRow
    <3>3. [status |-> outcome[w], month |-> row[video[w]].month] # None
      BY <3>1, SetsAssumption
    <3> QED BY <2>3, <3>1, <3>2, <3>3, SetsAssumption DEF CompleteRequest, Charged
  <2>4. CASE row' = row /\ requests' = requests
    BY <2>4 DEF Charged
  <2> QED
    BY <2>1, <2>2, <2>3, <2>4
    DEF Next, WorkerStep, BeginClaim, AcquireLock, InsertClaim, CommitRefusal,
        Fail, NextMonth, vars
<1> QED BY <1>1, <1>2, Inductive, PTL DEF Spec, Budget!Spec, ImplementsBudget
=============================================================================
