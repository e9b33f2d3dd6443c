----------------------------- MODULE GraphOutbox -----------------------------
(***************************************************************************)
(* The outbox between Postgres and Neo4j.  The transaction that saves a    *)
(* source adds an event to graph_sync_outbox; a run of cmd/graph-sync      *)
(* reads a batch of pending events, applies each to Neo4j in a transaction *)
(* of its own, and marks it.  The worker starts a run after a cycle that   *)
(* brought something new, and an operator by hand: two runs may overlap,   *)
(* and none may come.  Neo4j merges by the id of the source, so the event  *)
(* applied last decides what the graph shows of it.                        *)
(***************************************************************************)
EXTENDS Naturals, Sequences, FiniteSets

CONSTANTS
  Sources, Syncs,
  Refused,    \* events Neo4j does not take, or whose payload does not decode
  BatchSize,  \* GRAPH_SYNC_BATCH_SIZE
  LastEvent,  \* bound: events enqueued
  LastCrash   \* bound: runs that die or time out

VARIABLES
  outbox,   \* graph_sync_outbox by created_at, the time its save began
  graph,    \* Neo4j: the event last applied to a source, 0 before any
  batch,    \* the events a run has read and is not done with
  step,
  applied,  \* history: events Neo4j has taken
  failed,   \* history: events of which a run saw a failure
  crashes

vars == <<outbox, graph, batch, step, applied, failed, crashes>>

Events == 1 .. LastEvent
\* A save that has begun and is not committed is not in the table for others.  late,
\* history: a younger event was there when it was committed.
Event == [source : Sources, committed : BOOLEAN, late : BOOLEAN,
          processed : BOOLEAN, waiting : BOOLEAN]
Steps == {"apply", "processed", "failed"}

TypeOK ==
  /\ outbox \in Seq(Event) /\ Len(outbox) <= LastEvent
  /\ graph \in [Sources -> 0 .. Len(outbox)]
  /\ batch \in [Syncs -> SUBSET (1 .. Len(outbox))]
  /\ \A s \in Syncs : Cardinality(batch[s]) <= BatchSize
  /\ step \in [Syncs -> Steps]
  /\ applied \subseteq 1 .. Len(outbox) /\ failed \subseteq 1 .. Len(outbox)
  /\ crashes \in 0 .. LastCrash

Init ==
  /\ outbox = <<>>
  /\ graph = [x \in Sources |-> 0]
  /\ batch = [s \in Syncs |-> {}]
  /\ step = [s \in Syncs |-> "apply"]
  /\ applied = {}
  /\ failed = {}
  /\ crashes = 0

-----------------------------------------------------------------------------

Idle(s) == batch[s] = {}

\* Mistaken versions, kept to show that each property can fail: a batch gone through
\* from its newest event, and a failed event that is not tried again.
AtNewest(s, e, k) == e \in batch[s] /\ (\A d \in batch[s] : d <= e) /\ step[s] = k

PostponedForGood(event) == [event EXCEPT !.processed = TRUE]

\* Pending events whose available_at has come.
Available(events) ==
  {e \in 1 .. Len(events) :
     events[e].committed /\ ~events[e].processed /\ ~events[e].waiting}

\* A failure moves available_at by a minute at first and an hour at last.
Postponed(event) == [event EXCEPT !.waiting = TRUE]

\* The oldest of them, as many as a batch holds.
FirstBatch(events) ==
  {e \in Available(events) : Cardinality({d \in Available(events) : d <= e}) <= BatchSize}

\* A run goes through its batch from the oldest event.
At(s, e, k) == e \in batch[s] /\ (\A d \in batch[s] : e <= d) /\ step[s] = k

Goto(s, k) == step' = [step EXCEPT ![s] = k]

\* On to the next event of the batch.
Advance(s, e) == batch' = [batch EXCEPT ![s] = @ \ {e}] /\ Goto(s, "apply")

Apply(e) ==
  /\ graph' = [graph EXCEPT ![outbox[e].source] = e]
  /\ applied' = applied \cup {e}

-----------------------------------------------------------------------------

\* saveSourceCore commits a source and its event together; created_at is the time its
\* transaction began.  Saves overlap, and may be committed in another order.
BeginSave(x) ==
  /\ Len(outbox) < LastEvent
  /\ outbox' = Append(outbox, [source |-> x, committed |-> FALSE, late |-> FALSE,
                               processed |-> FALSE, waiting |-> FALSE])
  /\ UNCHANGED <<graph, batch, step, applied, failed, crashes>>

Enqueue(e) ==
  /\ e \in 1 .. Len(outbox) /\ ~outbox[e].committed
  /\ outbox' = [outbox EXCEPT ![e].committed = TRUE,
                              ![e].late = \E d \in e .. Len(outbox) : outbox[d].committed]
  /\ UNCHANGED <<graph, batch, step, applied, failed, crashes>>

\* A run begins: the worker's, or one started by hand.  That one begins is never owed:
\* the worker starts none after a cycle that failed or brought nothing, and nothing
\* starts one after a refresh of the API.
ReadPending(s) ==
  /\ Idle(s) /\ Available(outbox) # {}
  /\ batch' = [batch EXCEPT ![s] = FirstBatch(outbox)]
  /\ UNCHANGED <<outbox, graph, step, applied, failed, crashes>>

SyncEvent(s, e) ==
  /\ At(s, e, "apply") /\ e \notin Refused
  /\ Apply(e)
  /\ Goto(s, "processed")
  /\ UNCHANGED <<outbox, batch, failed, crashes>>

\* Neo4j fails or refuses: its transaction rolls back.
SyncFails(s, e) ==
  /\ At(s, e, "apply")
  /\ failed' = failed \cup {e}
  /\ Goto(s, "failed")
  /\ UNCHANGED <<outbox, graph, batch, applied, crashes>>

\* Neo4j commits, and the answer is lost.
SyncUnanswered(s, e) ==
  /\ At(s, e, "apply") /\ e \notin Refused
  /\ Apply(e)
  /\ failed' = failed \cup {e}
  /\ Goto(s, "failed")
  /\ UNCHANGED <<outbox, batch, crashes>>

MarkProcessed(s, e) ==
  /\ At(s, e, "processed")
  /\ outbox' = [outbox EXCEPT ![e].processed = TRUE]
  /\ Advance(s, e)
  /\ UNCHANGED <<graph, applied, failed, crashes>>

MarkFailed(s, e) ==
  /\ At(s, e, "failed")
  /\ outbox' = [outbox EXCEPT ![e] = Postponed(@)]
  /\ Advance(s, e)
  /\ UNCHANGED <<graph, applied, failed, crashes>>

\* An event that could not be marked stays as it was.
MarkLost(s, e) ==
  /\ At(s, e, "processed") \/ At(s, e, "failed")
  /\ Advance(s, e)
  /\ UNCHANGED <<outbox, graph, applied, failed, crashes>>

\* The two minutes of a run are over, or it dies: none of its calls gets through.
Crash(s) ==
  /\ ~Idle(s) /\ crashes < LastCrash
  /\ batch' = [batch EXCEPT ![s] = {}]
  /\ Goto(s, "apply")
  /\ crashes' = crashes + 1
  /\ UNCHANGED <<outbox, graph, applied, failed>>

\* available_at has come.
BackoffOver(e) ==
  /\ e \in 1 .. Len(outbox) /\ outbox[e].waiting
  /\ outbox' = [outbox EXCEPT ![e].waiting = FALSE]
  /\ UNCHANGED <<graph, batch, step, applied, failed, crashes>>

SyncStep(s) ==
  \E e \in Events :
    \/ SyncEvent(s, e) \/ SyncFails(s, e)
    \/ MarkProcessed(s, e) \/ MarkFailed(s, e) \/ MarkLost(s, e)

Next ==
  \/ \E x \in Sources : BeginSave(x)
  \/ \E s \in Syncs : ReadPending(s) \/ SyncStep(s) \/ Crash(s)
  \/ \E s \in Syncs, e \in Events : SyncUnanswered(s, e)
  \/ \E e \in Events : Enqueue(e) \/ BackoffOver(e)

Spec == Init /\ [][Next]_vars

\* A run that has begun goes through its batch, back-offs end, and outages do: an event
\* tried again and again gets through.
Fairness ==
  /\ \A s \in Syncs : WF_vars(SyncStep(s))
  /\ \A e \in Events : WF_vars(BackoffOver(e))
  /\ \A e \in Events \ Refused :
       /\ SF_vars(\E s \in Syncs : SyncEvent(s, e))
       /\ SF_vars(\E s \in Syncs : MarkProcessed(s, e))

FairSpec == Spec /\ Fairness

-----------------------------------------------------------------------------

\* While events are due, another run comes: new material keeps arriving at the worker, or
\* an operator starts runs.
RunsComeBack == []<>(Available(outbox) = {} \/ \E s \in Syncs : ~Idle(s))

\* As long as runs come back, whoever starts them, the outbox is drained once saves end
\* (at LastEvent): every event in the table that Neo4j can take has reached it and is
\* done with, although runs die, marks are lost, and refused events come back at the
\* head of the order.  Without a further run an event that failed, waits or could not be
\* marked stays where it is.
EventsReachGraph ==
  RunsComeBack =>
    []<>(\A e \in (1 .. Len(outbox)) \ Refused :
           outbox[e].committed => e \in applied /\ outbox[e].processed)

\* The graph goes back to an older event of a source only with an event that was
\* applied, or failed, before, or whose save was overtaken: but for these the order of
\* the events is the order of the graph, even where the batches of two runs overlap.
InOrderUnlessRetried ==
  [][\A x \in Sources :
       graph'[x] < graph[x] =>
         graph'[x] \in applied \cup failed \/ outbox[graph'[x]].late]_vars
=============================================================================
