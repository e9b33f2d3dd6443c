-------------------------- MODULE ReadModelPublish --------------------------
(***************************************************************************)
(* Publication of the read models: publishAppStateBestEffort, the Redis    *)
(* pipeline behind it and the Postgres snapshot, and the page load that    *)
(* falls back from Redis to the snapshot to the canonical tables and then  *)
(* publishes what it built.  A run is a version of the canonical content,  *)
(* numbered by its generation time; run 0 is the empty state before any    *)
(* refresh.  Processes are the API, the worker and the commands: each of   *)
(* them refreshes, precomputes and, the API, loads pages.                  *)
(***************************************************************************)
EXTENDS Integers, Sequences, FiniteSets

CONSTANTS
  Processes,
  LastRun,      \* bound: refreshes start runs 1..LastRun
  LastCrash,    \* bound: process deaths
  None

Runs == 0 .. LastRun

ASSUME BoundsAssumption == LastRun \in Nat /\ LastCrash \in Nat
ASSUME NoneAssumption == None \notin Runs /\ Processes \cap Runs = {}

VARIABLES
  started,    \* runs started so far
  saved,      \* runs that Postgres has
  order,      \* read_model_snapshots, oldest published_at first, by run; a
              \* process in it marks the published_at of what it has built
  complete,   \* runs whose run-scoped keys are all in Redis
  manifest,   \* current_run_id, or None
  redisUp,
  postgresUp,
  crashes,
  pc,
  run         \* the run each process works on, 0 while it has none

canonicalVars == <<started, saved>>
redisVars == <<complete, manifest>>
upVars == <<redisUp, postgresUp, crashes>>
vars == <<canonicalVars, order, redisVars, upVars, pc, run>>

Stages ==
  {"idle", "refresh", "snapshot", "canonical", "build", "save", "keys", "manifest"}

\* Types; read_model_snapshots has one row for a run.
TypeOK ==
  /\ started \in Runs
  /\ saved \in SUBSET Runs
  /\ order \in Seq(Runs \cup Processes)
  /\ \A i, j \in 1 .. Len(order) : i # j => order[i] # order[j]
  /\ complete \in SUBSET Runs
  /\ manifest \in Runs \cup {None}
  /\ redisUp \in BOOLEAN /\ postgresUp \in BOOLEAN
  /\ crashes \in 0 .. LastCrash
  /\ pc \in [Processes -> Stages]
  /\ run \in [Processes -> Runs]

Init ==
  /\ started = 0
  /\ saved = {0}
  /\ order = <<>>
  /\ complete = {}
  /\ manifest = None
  /\ redisUp = TRUE /\ postgresUp = TRUE
  /\ crashes = 0
  /\ pc = [p \in Processes |-> "idle"]
  /\ run = [p \in Processes |-> 0]

-----------------------------------------------------------------------------

\* latestRunOrderClause, for runs that have content.
Latest == CHOOSE r \in saved : \A s \in saved : s <= r

\* Where the rows of the snapshots stand in the order.
Rows == {i \in DOMAIN order : order[i] \in Runs}

\* ReadLatestReadModelSnapshot: the row with the latest published_at.
Newest ==
  IF Rows = {} THEN None ELSE order[CHOOSE i \in Rows : \A j \in Rows : j <= i]

\* The order without e, which is in it once at most.
Without(e) ==
  IF \E i \in DOMAIN order : order[i] = e
  THEN LET i == CHOOSE j \in DOMAIN order : order[j] = e
       IN SubSeq(order, 1, i - 1) \o SubSeq(order, i + 1, Len(order))
  ELSE order

\* The row of r gets the published_at of p's state.
Upserted(p, r) ==
  LET others == Without(r)
  IN [i \in 1 .. Len(others) |-> IF others[i] = p THEN r ELSE others[i]]

\* A page load finds no manifest, not all the keys of its run, or no Redis.
Miss ==
  \/ ~redisUp
  \/ manifest = None
  \/ manifest \notin complete

\* p goes on to a stage with the run r.
Goto(p, stage, r) ==
  /\ pc' = [pc EXCEPT ![p] = stage]
  /\ run' = [run EXCEPT ![p] = IF stage = "idle" THEN 0 ELSE r]

\* A failed attempt is made again, up to three times in five seconds, or given up.
RetryOrGiveUp(p) == \E stage \in {"keys", "idle"} : Goto(p, stage, run[p])

\* Mistaken versions of the steps below, kept to show that each property can
\* fail: a result published although it was not saved, a manifest flipped
\* whatever the pipeline returned, snapshots inserted without the conflict
\* clause, and a precompute that starts from the snapshot.
SaveRunIgnoresError(p) ==
  /\ pc[p] = "refresh"
  /\ saved' = IF postgresUp THEN saved \cup {run[p]} ELSE saved
  /\ Goto(p, "build", run[p])
  /\ UNCHANGED <<started, order, redisVars, upVars>>

WriteKeysIgnoresError(p) ==
  /\ pc[p] = "keys"
  /\ complete' \in {complete \cup {run[p]}} \cup (IF redisUp THEN {} ELSE {complete})
  /\ Goto(p, "manifest", run[p])
  /\ UNCHANGED <<canonicalVars, order, manifest, upVars>>

SaveSnapshotInserts(p) ==
  /\ pc[p] = "save"
  /\ order' = IF postgresUp
              THEN [i \in 1 .. Len(order) |-> IF order[i] = p THEN run[p] ELSE order[i]]
              ELSE Without(p)
  /\ Goto(p, "keys", run[p])
  /\ UNCHANGED <<canonicalVars, redisVars, upVars>>

ReadCanonicalSnapshot(p) ==
  /\ pc[p] = "canonical"
  /\ Goto(p, IF postgresUp THEN "build" ELSE "idle",
            IF Newest = None THEN Latest ELSE Newest)
  /\ UNCHANGED <<canonicalVars, order, redisVars, upVars>>

-----------------------------------------------------------------------------

\* RunCycle with new material: GeneratedAt is taken at the start.
StartRefresh(p) ==
  /\ pc[p] = "idle"
  /\ started < LastRun
  /\ started' = started + 1
  /\ Goto(p, "refresh", started')
  /\ UNCHANGED <<saved, order, redisVars, upVars>>

\* A run that was saved is published as it is, the latest or not.
SaveRun(p) ==
  /\ pc[p] = "refresh"
  /\ saved' = IF postgresUp THEN saved \cup {run[p]} ELSE saved
  /\ Goto(p, IF postgresUp THEN "build" ELSE "idle", run[p])
  /\ UNCHANGED <<started, order, redisVars, upVars>>

\* PublishReadModels: the worker after a cycle or a digest, cmd/precompute.
Precompute(p) ==
  /\ pc[p] = "idle"
  /\ Goto(p, "canonical", 0)
  /\ UNCHANGED <<canonicalVars, order, redisVars, upVars>>

\* ReadAppState, when Redis does not serve the page.
MissRedis(p) ==
  /\ pc[p] = "idle"
  /\ Miss
  /\ Goto(p, "snapshot", 0)
  /\ UNCHANGED <<canonicalVars, order, redisVars, upVars>>

\* The snapshot serves the page, or is missing too.
ReadSnapshot(p) ==
  /\ pc[p] = "snapshot"
  /\ Goto(p, IF postgresUp /\ Newest # None THEN "idle" ELSE "canonical", 0)
  /\ UNCHANGED <<canonicalVars, order, redisVars, upVars>>

\* readLatestCanonical and readDigestsCanonical; an error ends the call.
ReadCanonical(p) ==
  /\ pc[p] = "canonical"
  /\ Goto(p, IF postgresUp THEN "build" ELSE "idle", Latest)
  /\ UNCHANGED <<canonicalVars, order, redisVars, upVars>>

\* BuildAppState fixes published_at.
Build(p) ==
  /\ pc[p] = "build"
  /\ order' = Append(order, p)
  /\ Goto(p, "save", run[p])
  /\ UNCHANGED <<canonicalVars, redisVars, upVars>>

\* SaveReadModelSnapshot; its failure does not keep the state from Redis.
SaveSnapshot(p) ==
  /\ pc[p] = "save"
  /\ order' = IF postgresUp THEN Upserted(p, run[p]) ELSE Without(p)
  /\ Goto(p, "keys", run[p])
  /\ UNCHANGED <<canonicalVars, redisVars, upVars>>

\* The pipeline of the run-scoped keys is no transaction: when it fails, some or
\* all of them may have been written.
WriteKeys(p) ==
  /\ pc[p] = "keys"
  /\ \/ /\ complete' = complete \cup {run[p]}
        /\ IF redisUp THEN Goto(p, "manifest", run[p]) ELSE RetryOrGiveUp(p)
     \/ /\ ~redisUp
        /\ UNCHANGED complete
        /\ RetryOrGiveUp(p)
  /\ UNCHANGED <<canonicalVars, order, manifest, upVars>>

\* The manifest comes last; when the call fails, it may have been applied.
FlipManifest(p) ==
  /\ pc[p] = "manifest"
  /\ manifest' \in IF redisUp THEN {run[p]} ELSE {manifest, run[p]}
  /\ IF redisUp THEN Goto(p, "idle", 0) ELSE RetryOrGiveUp(p)
  /\ UNCHANGED <<canonicalVars, order, complete, upVars>>

Crash(p) ==
  /\ crashes < LastCrash
  /\ pc[p] # "idle"
  /\ crashes' = crashes + 1
  /\ order' = Without(p)
  /\ Goto(p, "idle", 0)
  /\ UNCHANGED <<canonicalVars, redisVars, redisUp, postgresUp>>

-----------------------------------------------------------------------------

\* The keys of a run expire thirty days after they were written, the manifest
\* never; no publication takes as long.
ExpireKeys(r) ==
  /\ \A p \in Processes : pc[p] = "manifest" => run[p] # r
  /\ r \in complete
  /\ complete' = complete \ {r}
  /\ UNCHANGED <<canonicalVars, order, manifest, upVars, pc, run>>

ToggleRedis ==
  /\ redisUp' = ~redisUp
  /\ UNCHANGED <<canonicalVars, order, redisVars, postgresUp, crashes, pc, run>>

TogglePostgres ==
  /\ postgresUp' = ~postgresUp
  /\ UNCHANGED <<canonicalVars, order, redisVars, redisUp, crashes, pc, run>>

Work(p) ==
  \/ SaveRun(p)
  \/ ReadSnapshot(p)
  \/ ReadCanonical(p)
  \/ Build(p)
  \/ SaveSnapshot(p)
  \/ WriteKeys(p)
  \/ FlipManifest(p)

Next ==
  \/ \E p \in Processes :
       \/ StartRefresh(p)
       \/ Precompute(p)
       \/ MissRedis(p)
       \/ Work(p)
       \/ Crash(p)
  \/ \E r \in Runs : ExpireKeys(r)
  \/ ToggleRedis
  \/ TogglePostgres

Spec == Init /\ [][Next]_vars

\* A call that was begun goes on, and some schedule keeps precomputing.
FairSpec ==
  /\ Spec
  /\ \A p \in Processes : WF_vars(Work(p))
  /\ SF_vars(\E p \in Processes : Precompute(p))

-----------------------------------------------------------------------------

\* Redis and the snapshots show nothing that Postgres has not committed, however
\* publications, refreshes, outages and deaths interleave.
PublishedIsSaved ==
  /\ manifest # None => manifest \in saved
  /\ \A i \in Rows : order[i] \in saved
  /\ complete \subseteq saved

\* The manifest is the publish boundary: it is moved only to a run whose keys are
\* all there, also by a publication that another one overtakes or repeats.
FlipsToCompleteRun ==
  [][manifest' # manifest => manifest' \in complete']_vars

\* Once runs and outages are over, Redis and the snapshots come to show the latest
\* run and keep showing it: an overtaken publication, or one of a run that was
\* never the latest, does not stay.
ReadModelsCatchUp ==
  \A r \in Runs :
    <>[](Latest = r /\ redisUp /\ postgresUp) => <>[](manifest = r /\ Newest = r)
=============================================================================
