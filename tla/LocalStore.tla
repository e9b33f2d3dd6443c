----------------------------- MODULE LocalStore -----------------------------
(***************************************************************************)
(* The store of a deployment without a database: the latest run in one     *)
(* JSON file and the transcript requests in another.  A file is changed by *)
(* reading it, writing the whole of it to a temporary file and renaming    *)
(* that, under the mutex of the process.  Callers are the refreshes of an  *)
(* API process, one for each owner, or the worker's refresh and digest.    *)
(***************************************************************************)
EXTENDS Integers, FiniteSets

CONSTANTS
  Callers,
  OneProcess,   \* the callers are one process; otherwise each is its own
  Videos,       \* keys owner:video
  MonthlyLimit,
  LastMonth, LastRun, LastCrash,  \* bounds
  Torn,         \* what a reader sees of a file that is being written
  None

VARIABLES
  file,       \* the files as a reader finds them
  temp,       \* their .tmp: what a writer has put there so far
  mu,         \* holder of the mutex, by process
  pc, job,    \* the step and the locals of each caller
  month,
  runs,       \* runs made so far
  requested,  \* history: provider calls for a video
  deaths

vars == <<file, temp, mu, pc, job, month, runs, requested, deaths>>

Files == {"requests", "run"}
Months == 1 .. LastMonth
Claim == [month : Months, completed : BOOLEAN]
Requests == [Videos -> Claim \cup {None}]
Run == [run : 0 .. LastRun, digest : BOOLEAN]
Content == Requests \cup Run

Steps == {"idle", "read", "lock", "truncate", "write", "rename", "request"}
Kinds == {"claim", "complete", "run"}
Job == [kind : Kinds, video : Videos \cup {None}, content : Content \cup {None}]

\* A process may die, and a call fail, at any point of a rewrite: what a reader
\* finds is the whole of some content.  (Two processes share the name of a
\* temporary file, and one may rename what the other has begun to write.)
TypeOK ==
  /\ file \in [Files -> IF OneProcess THEN Content ELSE Content \cup {Torn}]
  /\ temp \in [Files -> Content \cup {Torn, None}]
  /\ mu \in [Callers -> Callers \cup {None}]
  /\ pc \in [Callers -> Steps]
  /\ job \in [Callers -> Job \cup {None}]
  /\ \A c \in Callers : pc[c] # "idle" => job[c] \in Job
  /\ month \in Months
  /\ runs \in 0 .. LastRun
  /\ requested \in [Videos -> Nat]
  /\ deaths \in 0 .. LastCrash

Init ==
  /\ file = [f \in Files |-> IF f = "run" THEN [run |-> 0, digest |-> FALSE]
                             ELSE [v \in Videos |-> None]]
  /\ temp = [f \in Files |-> None]
  /\ mu = [c \in Callers |-> None]
  /\ pc = [c \in Callers |-> "idle"]
  /\ job = [c \in Callers |-> None]
  /\ month = 1
  /\ runs = 0
  /\ requested = [v \in Videos |-> 0]
  /\ deaths = 0

-----------------------------------------------------------------------------

\* The callers of a caller's process share one mutex, kept at each of them.
Home(c) == IF OneProcess THEN Callers ELSE {c}

Lock(c) == mu' = [d \in Callers |-> IF d \in Home(c) THEN c ELSE mu[d]]

Unlock(c) == mu' = [d \in Callers |-> IF d \in Home(c) THEN None ELSE mu[d]]

Goto(c, step) == pc' = [pc EXCEPT ![c] = step]

Begin(c, step, kind, v, content) ==
  /\ job' = [job EXCEPT ![c] = [kind |-> kind, video |-> v, content |-> content]]
  /\ Goto(c, step)

Return(c) == Goto(c, "idle") /\ job' = [job EXCEPT ![c] = None]

FileOf(c) == IF job[c].kind = "run" THEN "run" ELSE "requests"

\* The count of the month's claims, for all owners.
ClaimedIn(records, m) ==
  Cardinality({v \in Videos : records[v] # None /\ records[v].month >= m})

\* Mistaken versions of the next definitions, kept to show that each property
\* can fail: a mutex nobody waits for, a claim that does not look for an earlier
\* one.
FreeAlways(c) == mu[c] \in Callers \cup {None}

MayClaimAgain(records, v) == ClaimedIn(records, month) < MonthlyLimit

Free(c) == mu[c] = None

MayClaim(records, v) ==
  records[v] = None /\ ClaimedIn(records, month) < MonthlyLimit

\* What a caller makes of the requests it has read.
Changed(c, records) ==
  LET v == job[c].video IN
    IF job[c].kind = "claim"
    THEN [records EXCEPT ![v] = [month |-> month, completed |-> FALSE]]
    ELSE [records EXCEPT ![v].completed = TRUE]

\* The requests may be changed as the caller wants; otherwise they do not
\* decode, the video has a claim, the month is full, or there is no claim to
\* complete.
Accepts(c, records) ==
  /\ records # Torn
  /\ IF job[c].kind = "claim" THEN MayClaim(records, job[c].video)
     ELSE records[job[c].video] # None

-----------------------------------------------------------------------------

\* fetchSupadataTranscript is about to spend a request on a video.
ClaimTranscript(c, v) ==
  /\ pc[c] = "idle"
  /\ Begin(c, "read", "claim", v, None)
  /\ UNCHANGED <<file, temp, mu, month, runs, requested, deaths>>

\* The mutex is taken and the file read; what is to be written is made of it.
ReadRequests(c) ==
  /\ pc[c] = "read" /\ Free(c)
  /\ Accepts(c, file["requests"])
  /\ Lock(c)
  /\ job' = [job EXCEPT ![c].content = Changed(c, file["requests"])]
  /\ Goto(c, "truncate")
  /\ UNCHANGED <<file, temp, month, runs, requested, deaths>>

Refuse(c) ==
  /\ pc[c] = "read" /\ Free(c)
  /\ ~Accepts(c, file["requests"])
  /\ Return(c)
  /\ UNCHANGED <<file, temp, mu, month, runs, requested, deaths>>

\* RunCycle saves its result, which never carries a digest.
SaveRun(c) ==
  /\ pc[c] = "idle" /\ runs < LastRun
  /\ runs' = runs + 1
  /\ Begin(c, "lock", "run", None, [run |-> runs + 1, digest |-> FALSE])
  /\ UNCHANGED <<file, temp, mu, month, requested, deaths>>

\* SaveDigest reads the run, lets go of the mutex, and saves the run with the
\* digest.  In the worker's process nothing runs beside a digest.
SaveDigest(c) ==
  /\ pc[c] = "idle" /\ Free(c)
  /\ OneProcess => \A d \in Callers : pc[d] = "idle"
  /\ file["run"] # Torn /\ file["run"].run > 0
  /\ Begin(c, "lock", "run", None, [file["run"] EXCEPT !.digest = TRUE])
  /\ UNCHANGED <<file, temp, mu, month, runs, requested, deaths>>

LockRun(c) ==
  /\ pc[c] = "lock" /\ Free(c)
  /\ Lock(c)
  /\ Goto(c, "truncate")
  /\ UNCHANGED <<file, temp, job, month, runs, requested, deaths>>

\* os.WriteFile truncates the temporary file and then fills it.
TruncateTemp(c) ==
  /\ pc[c] = "truncate"
  /\ temp' = [temp EXCEPT ![FileOf(c)] = Torn]
  /\ Goto(c, "write")
  /\ UNCHANGED <<file, mu, job, month, runs, requested, deaths>>

WriteTemp(c) ==
  /\ pc[c] = "write"
  /\ temp' = [temp EXCEPT ![FileOf(c)] = job[c].content]
  /\ Goto(c, "rename")
  /\ UNCHANGED <<file, mu, job, month, runs, requested, deaths>>

\* os.Rename moves whatever is in the temporary file.  A claim is followed by
\* the call of the provider.
Rename(c) ==
  /\ pc[c] = "rename" /\ temp[FileOf(c)] # None
  /\ file' = [file EXCEPT ![FileOf(c)] = temp[FileOf(c)]]
  /\ temp' = [temp EXCEPT ![FileOf(c)] = None]
  /\ Unlock(c)
  /\ IF job[c].kind = "claim" THEN Goto(c, "request") /\ UNCHANGED job ELSE Return(c)
  /\ UNCHANGED <<month, runs, requested, deaths>>

\* The provider answers; the claim is completed with the outcome.
RequestTranscript(c) ==
  /\ pc[c] = "request"
  /\ requested' = [requested EXCEPT ![job[c].video] = @ + 1]
  /\ Begin(c, "read", "complete", job[c].video, None)
  /\ UNCHANGED <<file, temp, mu, month, runs, deaths>>

\* A call of the file system fails, the temporary file is gone, or the context
\* has ended: the error is returned and the mutex released.
Fail(c) ==
  /\ pc[c] # "idle"
  /\ IF mu[c] = c THEN Unlock(c) ELSE UNCHANGED mu
  /\ Return(c)
  /\ UNCHANGED <<file, temp, month, runs, requested, deaths>>

\* The process of a caller dies and is started again.
Crash(c) ==
  /\ deaths < LastCrash
  /\ pc' = [d \in Callers |-> IF d \in Home(c) THEN "idle" ELSE pc[d]]
  /\ job' = [d \in Callers |-> IF d \in Home(c) THEN None ELSE job[d]]
  /\ Unlock(c)
  /\ deaths' = deaths + 1
  /\ UNCHANGED <<file, temp, month, runs, requested>>

NextMonth ==
  /\ month < LastMonth
  /\ month' = month + 1
  /\ UNCHANGED <<file, temp, mu, pc, job, runs, requested, deaths>>

CallerStep(c) ==
  \/ \E v \in Videos : ClaimTranscript(c, v)
  \/ ReadRequests(c) \/ Refuse(c) \/ RequestTranscript(c)
  \/ SaveRun(c) \/ SaveDigest(c) \/ LockRun(c)
  \/ TruncateTemp(c) \/ WriteTemp(c) \/ Rename(c)

Next ==
  \/ \E c \in Callers : CallerStep(c) \/ Fail(c) \/ Crash(c)
  \/ NextMonth

Spec == Init /\ [][Next]_vars

-----------------------------------------------------------------------------

\* The file of transcript requests keeps the promises of the ledger, like the
\* table of the Postgres store: the row of a video is its charge.
Charged ==
  IF file["requests"] = Torn THEN [v \in Videos |-> None]
  ELSE [v \in Videos |-> IF file["requests"][v] = None THEN None
                         ELSE file["requests"][v].month]

Budget == INSTANCE TranscriptBudget WITH charged <- Charged, requests <- requested

ImplementsBudget == Budget!Spec
=============================================================================
