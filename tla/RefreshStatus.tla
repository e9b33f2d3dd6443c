---------------------------- MODULE RefreshStatus ----------------------------
(***************************************************************************)
(* The progress of a refresh: Service.StartRefresh, the goroutine that     *)
(* runs the cycle, setRefreshStage, and the copy of the status in Redis    *)
(* that GET /api/knowledge-runs/refresh prefers.  The service's own record *)
(* is behind refreshMu; the writes to Redis are made outside it, those of  *)
(* the stages each in a goroutine of its own.  One API process, which may  *)
(* restart; refreshes are numbered in the order they start.                *)
(***************************************************************************)
EXTENDS Integers

CONSTANTS
  LastRefresh,  \* bound: refreshes 1..LastRefresh are started
  LastStage,    \* bound: setRefreshStage calls of a cycle
  Faults,       \* what may fail: a subset of {"redis", "crash"}
  None

Refreshes == 1 .. LastRefresh

ASSUME BoundsAssumption == LastRefresh \in Nat /\ LastStage \in Nat \ {0}
ASSUME FaultsAssumption == Faults \subseteq {"redis", "crash"}

VARIABLES
  refresh,  \* Service.refresh, or None in a fresh process
  stored,   \* Redis refresh:status, or None
  writes,   \* records the goroutines of setRefreshStage have still to write
  pc,       \* where each refresh is
  final     \* the record a refresh writes itself, first or last

vars == <<refresh, stored, writes, pc, final>>

Status ==
  [id : Refreshes, status : {"running", "completed", "failed"}, stage : 0 .. LastStage]

ASSUME NoneAssumption == None \notin Status

Stages == {"unused", "starting", "running", "finishing", "over"}

TypeOK ==
  /\ refresh \in Status \cup {None}
  /\ stored \in Status \cup {None}
  /\ writes \in SUBSET Status
  /\ pc \in [Refreshes -> Stages]
  /\ final \in [Refreshes -> Status \cup {None}]

Init ==
  /\ refresh = None
  /\ stored = None
  /\ writes = {}
  /\ pc = [i \in Refreshes |-> "unused"]
  /\ final = [i \in Refreshes |-> None]

-----------------------------------------------------------------------------

Running(status) == status # None /\ status.status = "running"

Active == {i \in Refreshes : pc[i] \in {"starting", "running"}}

NextRefresh(i) == pc[i] = "unused" /\ \A j \in 1 .. i - 1 : pc[j] # "unused"

Goto(i, stage) == pc' = [pc EXCEPT ![i] = stage]

\* writeRefreshStatusBestEffort: the error is logged and forgotten.
Store(status) ==
  \/ stored' = status
  \/ "redis" \in Faults /\ UNCHANGED stored

\* Mistaken versions of the steps below, kept to show that each property can
\* fail: a start that does not look at the running refresh, a stage named
\* "completed" taken for the end, and a failed cycle that keeps its status.
StartRefreshUnguarded(i) ==
  /\ NextRefresh(i)
  /\ refresh' = [id |-> i, status |-> "running", stage |-> 0]
  /\ final' = [final EXCEPT ![i] = refresh']
  /\ Goto(i, "starting")
  /\ UNCHANGED <<stored, writes>>

SetRefreshStageEnds(i) ==
  /\ pc[i] = "running"
  /\ refresh.stage < LastStage
  /\ refresh' = [refresh EXCEPT !.stage = @ + 1]
  /\ writes' = writes \cup {[refresh' EXCEPT !.status =
                  IF refresh'.stage = LastStage THEN "completed" ELSE @]}
  /\ UNCHANGED <<stored, pc, final>>

FinishRefreshForgetsFailure(i) ==
  /\ pc[i] = "running"
  /\ refresh.stage > 0
  /\ \E status \in {"completed", "running"} : refresh' = [refresh EXCEPT !.status = status]
  /\ final' = [final EXCEPT ![i] = refresh']
  /\ Goto(i, "finishing")
  /\ UNCHANGED <<stored, writes>>

-----------------------------------------------------------------------------

\* A request while a refresh runs only gets that refresh's status.
StartRefresh(i) ==
  /\ NextRefresh(i)
  /\ ~Running(refresh)
  /\ refresh' = [id |-> i, status |-> "running", stage |-> 0]
  /\ final' = [final EXCEPT ![i] = refresh']
  /\ Goto(i, "starting")
  /\ UNCHANGED <<stored, writes>>

\* The request writes the first status itself and then starts the goroutine.
LaunchRefresh(i) ==
  /\ pc[i] = "starting"
  /\ Store(final[i])
  /\ Goto(i, "running")
  /\ UNCHANGED <<refresh, writes, final>>

SetRefreshStage(i) ==
  /\ pc[i] = "running"
  /\ refresh.stage < LastStage
  /\ refresh' = [refresh EXCEPT !.stage = @ + 1]
  /\ writes' = writes \cup {refresh'}
  /\ UNCHANGED <<stored, pc, final>>

WriteStage(status) ==
  /\ Store(status)
  /\ writes' = writes \ {status}
  /\ UNCHANGED <<refresh, pc, final>>

\* RunCycle returned; it has passed its first stage whatever its result.
FinishRefresh(i) ==
  /\ pc[i] = "running"
  /\ refresh.stage > 0
  /\ \E status \in {"completed", "failed"} : refresh' = [refresh EXCEPT !.status = status]
  /\ final' = [final EXCEPT ![i] = refresh']
  /\ Goto(i, "finishing")
  /\ UNCHANGED <<stored, writes>>

\* The last status is written after refreshMu is released.
WriteFinal(i) ==
  /\ pc[i] = "finishing"
  /\ Store(final[i])
  /\ Goto(i, "over")
  /\ UNCHANGED <<refresh, writes, final>>

\* The process dies and starts again: Redis keeps what was written.
Restart ==
  /\ "crash" \in Faults
  /\ refresh # None
  /\ refresh' = None
  /\ writes' = {}
  /\ pc' = [i \in Refreshes |-> IF pc[i] = "unused" THEN "unused" ELSE "over"]
  /\ UNCHANGED <<stored, final>>

\* A day passes without a write.
ExpireStatus ==
  /\ stored # None
  /\ Active = {} /\ writes = {}
  /\ stored' = None
  /\ UNCHANGED <<refresh, writes, pc, final>>

RefreshStep(i) ==
  \/ LaunchRefresh(i)
  \/ SetRefreshStage(i)
  \/ FinishRefresh(i)
  \/ WriteFinal(i)

Next ==
  \/ \E i \in Refreshes : StartRefresh(i) \/ RefreshStep(i)
  \/ \E status \in writes : WriteStage(status)
  \/ Restart
  \/ ExpireStatus

Spec == Init /\ [][Next]_vars

\* Goroutines keep running, and the context of the cycle times out, so that
\* RunCycle returns.
FairSpec ==
  /\ Spec
  /\ \A i \in Refreshes : WF_vars(RefreshStep(i))
  /\ WF_vars(\E status \in writes : WriteStage(status))

-----------------------------------------------------------------------------

\* The service runs one refresh at a time, and its record is that refresh's: a
\* stage or an end is never booked on another one, even when the end of the last
\* one is still being written.
OneRefresh ==
  /\ \A i, j \in Active : i = j
  /\ Running(refresh) => refresh.id \in Active
  /\ \A i \in Active : Running(refresh) /\ refresh.id = i

\* Redis never runs ahead of the service: it shows no refresh that was not
\* started, no stage the refresh has not reached, and no end but its real one.
StoredNotAhead ==
  \A status \in writes \cup ({stored} \ {None}) :
    /\ pc[status.id] # "unused"
    /\ refresh # None => status.id <= refresh.id
    /\ refresh # None /\ status.id = refresh.id =>
         /\ status.stage <= refresh.stage
         /\ status.status # "running" => status = refresh
    /\ status.status # "running" => pc[status.id] \in {"finishing", "over"}

\* Every refresh comes to an end, after which another one can be started.
RefreshEnds == Running(refresh) ~> ~Running(refresh)
=============================================================================
