-------------------------- MODULE DeploymentProofs --------------------------
(***************************************************************************)
(* What holds of a deployment, for every value of the constants: the graph *)
(* follows the order of the events but for retries (GraphOutbox), the edge *)
(* shows nothing older than a completed purge announced but for what       *)
(* overtook it (EdgeCache), and the file of transcript requests keeps the  *)
(* promises of TranscriptBudget (LocalStore).  For each part its inductive *)
(* invariant is proved of the steps of the part; that a step of the        *)
(* deployment is one of these, or none, joins them.                        *)
(***************************************************************************)
EXTENDS Deployment, Sequences, FiniteSetTheorems, WellFoundedInduction, TLAPS

\* A step of the deployment is a step of one part, or none, to each of them.
LEMMA PartSteps ==
  ASSUME [Next]_vars
  PROVE  [Graph!Next]_(Graph!vars) /\ [Edge!Next]_(Edge!vars) /\ [Local!Next]_(Local!vars)
BY DEF Next, GraphNext, EdgeNext, LocalNext, vars, graphVars, edgeVars, localVars,
       Graph!vars, Edge!vars, Edge!storeVars, Local!vars

-----------------------------------------------------------------------------

\* The edge cache.  The property speaks of the end of a purge; the invariant has to say of
\* a purge on its way what the batches that are done have achieved: a page of theirs has
\* been answered from Redis since, and Redis has the version that is being published.

USE DEF Edge!storeVars

\* Versions are numbers, None is no version and no answer, and every page is in a batch
\* of the purge.
EdgeSetting ==
  /\ LastVersion \in Nat /\ Edge!LastBatch \in Nat \ {0}
  /\ None \notin Edge!Versions /\ None \notin Edge!Answer
  /\ \A p \in Pages : Edge!PurgeBatchOf(p) \in 1 .. Edge!LastBatch

\* An answer of a page that came from Redis and was not overtaken by a purge.
Fresh(answer, p) ==
  answer # None /\ ~answer.late /\ ~answer.fallback =>
    /\ announced <= answer.version
    /\ pub.step = "purge" /\ Edge!PurgeBatchOf(p) < pub.batch => pub.version <= answer.version

EdgeInv ==
  /\ Edge!TypeOK
  /\ announced <= pub.version
  /\ redis # None => announced <= redis
  /\ pub.step = "purge" => redis \in {None, pub.version}
  /\ \A p \in Pages : Fresh(inFlight[p], p) /\ Fresh(edge[p], p)

-----------------------------------------------------------------------------

\* What the edge cache's proof needs of the constants.
LEMMA EdgeSettingHolds == EdgeSetting
BY BoundsAssumption, NoneAssumption, PagesAssumption DEF EdgeSetting, Edge!Versions

\* The invariant holds initially.
LEMMA EdgeInitInv == ASSUME EdgeSetting, Edge!Init PROVE EdgeInv
<1>1. Edge!TypeOK
  BY DEF EdgeSetting, Edge!Init, Edge!TypeOK, Edge!Versions, Edge!Stores
<1> QED
  BY <1>1 DEF EdgeSetting, Edge!Init, EdgeInv, Fresh, Edge!Versions

-----------------------------------------------------------------------------

\* A publication begins, writes the snapshot or Redis, or is given up.
LEMMA PublishKeepsInv ==
  ASSUME EdgeSetting, EdgeInv,
         Edge!SaveContent \/ Edge!SaveSnapshot \/ Edge!PublishRedis \/ Edge!Abandon
           \/ Edge!Precompute
  PROVE  EdgeInv'
<1> DEFINE Steps == {"idle", "snapshot", "redis", "purge"}
           PubType == [step : Steps, version : Edge!Versions, batch : 1 .. Edge!LastBatch]
<1>0. /\ pub \in PubType /\ 1 \in 1 .. Edge!LastBatch /\ pub.version \in Edge!Versions
      /\ pub.version <= pub.version /\ snapshot \in Edge!Versions
  BY DEF EdgeInv, Edge!TypeOK, EdgeSetting, Edge!Versions
<1>a. ASSUME NEW s \in Steps, Edge!Goto(s)
      PROVE  /\ pub' \in PubType /\ pub'.step = s /\ pub'.batch = 1
             /\ pub'.version = pub.version
  BY <1>0, <1>a DEF Edge!Goto
<1>b. ASSUME NEW s \in {"idle", "snapshot", "redis"}, Edge!Goto(s)
      PROVE  pub' \in PubType /\ pub'.step # "purge" /\ pub'.batch = 1
               /\ pub'.version = pub.version
  <2>1. s \in Steps /\ s # "purge"
    BY <1>b
  <2> QED
    BY <1>a, <1>b, <2>1
<1>1. /\ pub' \in PubType /\ pub'.batch = 1
      /\ pub'.version \in Edge!Versions /\ pub.version <= pub'.version
      /\ snapshot' \in Edge!Versions /\ redis' \in {redis, pub.version}
      /\ pub'.step = "purge" => redis' = pub'.version
      /\ UNCHANGED <<memo, up, inFlight, edge, announced>>
  <2>1. CASE Edge!SaveContent
    <3>1. pub' = [step |-> "snapshot", version |-> pub.version + 1, batch |-> 1]
      BY <2>1 DEF Edge!SaveContent
    <3>2. pub.version + 1 \in Edge!Versions /\ pub.version <= pub.version + 1
      BY <1>0, <2>1 DEF Edge!SaveContent, EdgeSetting, Edge!Versions
    <3>3. pub' \in PubType /\ pub'.batch = 1 /\ pub'.version = pub.version + 1
          /\ pub'.step = "snapshot"
      BY <1>0, <3>1, <3>2
    <3> QED
      BY <1>0, <2>1, <3>2, <3>3 DEF Edge!SaveContent
  <2>2. CASE Edge!SaveSnapshot
    <3>1. Edge!Goto("redis") /\ snapshot' \in {snapshot, pub.version}
          /\ UNCHANGED <<redis, memo, up, inFlight, edge, announced>>
      BY <2>2 DEF Edge!SaveSnapshot
    <3>2. pub' \in PubType /\ pub'.step # "purge" /\ pub'.batch = 1 /\ pub'.version = pub.version
      BY <1>b, <3>1
    <3> QED
      BY <1>0, <3>1, <3>2
  <2>3. CASE Edge!PublishRedis
    <3>1. /\ (Edge!Goto("purge") /\ redis' = pub.version) \/ (Edge!Goto("idle") /\ redis' = redis)
          /\ UNCHANGED <<snapshot, memo, up, inFlight, edge, announced>>
      BY <2>3 DEF Edge!PublishRedis
    <3>2. CASE Edge!Goto("purge") /\ redis' = pub.version
      BY <1>0, <1>a, <3>1, <3>2
    <3>3. CASE Edge!Goto("idle") /\ redis' = redis
      <4>1. pub' \in PubType /\ pub'.step # "purge" /\ pub'.batch = 1
              /\ pub'.version = pub.version
        BY <1>b, <3>3
      <4> QED
        BY <1>0, <3>1, <3>3, <4>1
    <3> QED
      BY <3>1, <3>2, <3>3
  <2>4. CASE Edge!Abandon \/ Edge!Precompute
    <3>1. /\ Edge!Goto("idle") \/ Edge!Goto("snapshot")
          /\ UNCHANGED <<Edge!storeVars, memo, up, inFlight, edge, announced>>
      BY <2>4 DEF Edge!Abandon, Edge!Precompute
    <3>2. pub' \in PubType /\ pub'.step # "purge" /\ pub'.batch = 1 /\ pub'.version = pub.version
      BY <1>b, <3>1
    <3> QED
      BY <1>0, <3>1, <3>2
  <2> QED
    BY <2>1, <2>2, <2>3, <2>4
<1>2. announced \in Int /\ pub.version \in Int /\ pub'.version \in Int
  BY <1>0, <1>1 DEF EdgeInv, Edge!TypeOK, Edge!Versions, EdgeSetting
<1>3. Edge!TypeOK'
  BY <1>0, <1>1, <1>2 DEF EdgeInv, Edge!TypeOK
<1>4. announced' <= pub'.version /\ (redis' # None => announced' <= redis')
  BY <1>1, <1>2 DEF EdgeInv
<1>5. \A p \in Pages : ~(Edge!PurgeBatchOf(p) < pub'.batch)
  BY <1>1 DEF EdgeSetting
<1>6. \A p \in Pages : Fresh(inFlight[p], p)' /\ Fresh(edge[p], p)'
  BY <1>1, <1>5 DEF EdgeInv, Fresh
<1> QED
  BY <1>1, <1>3, <1>4, <1>6 DEF EdgeInv

\* A batch is purged: its pages are gone, and what is on its way is late.
LEMMA PurgeKeepsInv ==
  ASSUME EdgeSetting, EdgeInv, Edge!PurgeFiles
  PROVE  EdgeInv'
<1> DEFINE b == pub.batch
           last == b >= Edge!LastBatch
<1>1. /\ pub.step = "purge"
      /\ edge' = [p \in Pages |-> IF p \in Edge!Purged(b) THEN None ELSE edge[p]]
      /\ inFlight' = [p \in Pages |->
           IF inFlight[p] = None THEN None ELSE [inFlight[p] EXCEPT !.late = TRUE]]
      /\ IF b < Edge!LastBatch
         THEN pub' = [pub EXCEPT !.batch = @ + 1] /\ UNCHANGED announced
         ELSE pub' = [pub EXCEPT !.step = "idle", !.batch = 1] /\ announced' = pub.version
      /\ UNCHANGED <<Edge!storeVars, memo, up>>
  BY DEF Edge!PurgeFiles, Edge!Goto
<1>2. /\ Edge!TypeOK
      /\ b \in 1 .. Edge!LastBatch /\ Edge!LastBatch \in Nat
      /\ announced \in Int /\ pub.version \in Int
      /\ \A p \in Pages : Edge!PurgeBatchOf(p) \in 1 .. Edge!LastBatch
      /\ None \notin Edge!Answer
  BY DEF EdgeInv, Edge!TypeOK, EdgeSetting, Edge!Versions
<1>3. \A p \in Pages :
        /\ inFlight'[p] \in Edge!Answer \cup {None}
        /\ inFlight'[p] # None => inFlight'[p].late
        /\ edge'[p] \in Edge!Answer \cup {None}
        /\ edge'[p] # None => edge'[p] = edge[p] /\ Edge!PurgeBatchOf(p) # b
  BY <1>1, <1>2 DEF Edge!TypeOK, Edge!Answer, Edge!Purged
<1>4. /\ pub' \in [step : {"idle", "snapshot", "redis", "purge"}, version : Edge!Versions,
                   batch : 1 .. Edge!LastBatch]
      /\ announced' \in Edge!Versions /\ pub'.version = pub.version
  <2>1. pub.version \in Edge!Versions /\ announced \in Edge!Versions
    BY <1>2 DEF Edge!TypeOK
  <2>2. CASE b < Edge!LastBatch
    <3>1. pub' = [pub EXCEPT !.batch = @ + 1] /\ announced' = announced
      BY <1>1, <2>2
    <3>2. b + 1 \in 1 .. Edge!LastBatch
      BY <1>2, <2>2
    <3> QED
      BY <1>2, <2>1, <3>1, <3>2 DEF Edge!TypeOK
  <2>3. CASE ~(b < Edge!LastBatch)
    <3>1. pub' = [pub EXCEPT !.step = "idle", !.batch = 1] /\ announced' = pub.version
      BY <1>1, <2>3
    <3>2. 1 \in 1 .. Edge!LastBatch
      BY <1>2
    <3> QED
      BY <1>2, <2>1, <3>1, <3>2 DEF Edge!TypeOK
  <2> QED
    BY <2>2, <2>3
<1>5. Edge!TypeOK'
  BY <1>1, <1>2, <1>3, <1>4 DEF Edge!TypeOK
<1>6. announced' <= pub'.version /\ (redis' # None => announced' <= redis')
      /\ (pub'.step = "purge" => redis' \in {None, pub'.version})
  BY <1>1, <1>2, <1>4 DEF EdgeInv
<1>7. ASSUME NEW p \in Pages, edge'[p] # None, ~edge'[p].late, ~edge'[p].fallback
      PROVE  /\ announced' <= edge'[p].version
             /\ pub'.step = "purge" /\ Edge!PurgeBatchOf(p) < pub'.batch
                  => pub'.version <= edge'[p].version
  <2>1. edge'[p] = edge[p] /\ Edge!PurgeBatchOf(p) # b
    BY <1>3, <1>7
  <2>2. /\ announced <= edge[p].version
        /\ Edge!PurgeBatchOf(p) < b => pub.version <= edge[p].version
    BY <1>1, <1>7, <2>1 DEF EdgeInv, Fresh
  <2>3. CASE b < Edge!LastBatch
    <3>1. pub'.batch = b + 1 /\ announced' = announced
      BY <1>1, <1>2, <2>3 DEF Edge!TypeOK
    <3>2. Edge!PurgeBatchOf(p) < pub'.batch => Edge!PurgeBatchOf(p) < b
      BY <1>2, <2>1, <3>1
    <3> QED
      BY <1>4, <2>1, <2>2, <3>1, <3>2
  <2>4. CASE ~(b < Edge!LastBatch)
    <3>1. pub'.step = "idle" /\ announced' = pub.version
      BY <1>1, <1>2, <2>4 DEF Edge!TypeOK
    <3>2. Edge!PurgeBatchOf(p) < b
      BY <1>2, <2>1, <2>4
    <3> QED
      BY <2>1, <2>2, <3>1, <3>2
  <2> QED
    BY <2>3, <2>4
<1>8. \A p \in Pages : Fresh(inFlight[p], p)' /\ Fresh(edge[p], p)'
  BY <1>3, <1>7 DEF Fresh
<1> QED
  BY <1>5, <1>6, <1>8 DEF EdgeInv

-----------------------------------------------------------------------------

\* A page is answered, cached, lost or dropped.
LEMMA PageKeepsInv ==
  ASSUME EdgeSetting, EdgeInv, NEW p \in Pages, Edge!PageStep(p)
  PROVE  EdgeInv'
<1>1. Edge!TypeOK /\ None \notin Edge!Answer /\ pub.version \in Int /\ announced \in Int
  BY DEF EdgeInv, Edge!TypeOK, EdgeSetting, Edge!Versions
<1>2. ASSUME NEW v, NEW fallback \in BOOLEAN, Edge!Request(p, v, fallback), v \in Edge!Versions,
             UNCHANGED <<pub, Edge!storeVars, up, edge, announced>>,
             memo' \in [Pages -> Edge!Versions \cup {None}],
             ~fallback => v = redis /\ redis # None
      PROVE  EdgeInv'
  <2> DEFINE a == [version |-> v, late |-> FALSE, fallback |-> fallback]
  <2>1. inFlight' = [inFlight EXCEPT ![p] = a]
    BY <1>2 DEF Edge!Request
  <2>2. a \in Edge!Answer /\ a.version = v /\ a.fallback = fallback
    BY <1>2 DEF Edge!Answer
  <2> HIDE DEF a
  <2>3. Fresh(a, p)
    <3>1. CASE fallback
      BY <2>2, <3>1 DEF Fresh
    <3>2. CASE ~fallback
      <4>1. v = redis /\ redis # None /\ announced <= v
        BY <1>2, <3>2 DEF EdgeInv
      <4>2. pub.step = "purge" => pub.version <= v
        BY <1>1, <4>1 DEF EdgeInv
      <4> QED
        BY <2>2, <4>1, <4>2 DEF Fresh
    <3> QED
      BY <1>2, <3>1, <3>2
  <2>4. inFlight'[p] = a /\ \A q \in Pages \ {p} : inFlight'[q] = inFlight[q]
    BY <1>1, <2>1 DEF Edge!TypeOK
  <2>5. Edge!TypeOK'
    BY <1>1, <1>2, <2>1, <2>2 DEF Edge!TypeOK
  <2> QED
    BY <1>2, <2>3, <2>4, <2>5 DEF EdgeInv, Fresh
<1>3. CASE \/ Edge!AnswerFromRedis(p) \/ Edge!AnswerFromSnapshot(p)
            \/ Edge!AnswerFromMemory(p) \/ Edge!AnswerFromTables(p)
  <2>1. CASE Edge!AnswerFromRedis(p)
    <3>1. redis \in Edge!Versions /\ redis # None /\ Edge!Request(p, redis, FALSE)
      BY <1>1, <2>1 DEF Edge!AnswerFromRedis, Edge!TypeOK
    <3> QED
      BY <1>1, <1>2, <2>1, <3>1 DEF Edge!AnswerFromRedis, Edge!TypeOK
  <2>2. CASE Edge!AnswerFromSnapshot(p)
    <3>1. snapshot \in Edge!Versions /\ Edge!Request(p, snapshot, TRUE)
      BY <1>1, <2>2 DEF Edge!AnswerFromSnapshot, Edge!TypeOK
    <3> QED
      BY <1>1, <1>2, <2>2, <3>1 DEF Edge!AnswerFromSnapshot, Edge!TypeOK
  <2>3. CASE Edge!AnswerFromMemory(p)
    <3>1. memo[p] \in Edge!Versions /\ Edge!Request(p, memo[p], TRUE)
      BY <1>1, <2>3 DEF Edge!AnswerFromMemory, Edge!TypeOK
    <3> QED
      BY <1>1, <1>2, <2>3, <3>1 DEF Edge!AnswerFromMemory, Edge!TypeOK
  <2>4. CASE Edge!AnswerFromTables(p)
    <3>1. pub.version \in Edge!Versions /\ Edge!Request(p, pub.version, TRUE)
      BY <1>1, <2>4 DEF Edge!AnswerFromTables, Edge!TypeOK
    <3> QED
      BY <1>1, <1>2, <2>4, <3>1 DEF Edge!AnswerFromTables, Edge!TypeOK
  <2> QED
    BY <1>3, <2>1, <2>2, <2>3, <2>4
<1>4. CASE Edge!MemoOver(p) \/ Edge!Put(p) \/ Edge!LosePut(p) \/ Edge!Expire(p)
  <2>1. /\ UNCHANGED <<pub, Edge!storeVars, up, announced>>
        /\ memo' \in [Pages -> Edge!Versions \cup {None}]
        /\ inFlight' \in [Pages -> Edge!Answer \cup {None}]
             /\ edge' \in [Pages -> Edge!Answer \cup {None}]
        /\ \A q \in Pages : inFlight'[q] \in {inFlight[q], None}
        /\ \A q \in Pages : edge'[q] \in {edge[q], inFlight[q], None}
    BY <1>1, <1>4 DEF Edge!MemoOver, Edge!Put, Edge!LosePut, Edge!Expire, Edge!TypeOK
  <2>2. Edge!TypeOK'
    BY <1>1, <2>1 DEF Edge!TypeOK
  <2>3. \A q \in Pages : Fresh(inFlight[q], q)' /\ Fresh(edge[q], q)'
    BY <2>1 DEF EdgeInv, Fresh
  <2> QED
    BY <2>1, <2>2, <2>3 DEF EdgeInv
<1> QED
  BY <1>3, <1>4 DEF Edge!PageStep

\* Redis is flushed, or a store goes or comes back.
LEMMA StoresKeepInv ==
  ASSUME EdgeSetting, EdgeInv, Edge!FlushRedis \/ (\E s \in Edge!Stores : Edge!Toggle(s))
         \/ UNCHANGED Edge!vars
  PROVE  EdgeInv'
<1>1. /\ UNCHANGED <<pub, snapshot, memo, inFlight, edge, announced>>
      /\ redis' \in {redis, None} /\ up' \in SUBSET Edge!Stores
  BY DEF Edge!FlushRedis, Edge!Toggle, EdgeInv, Edge!TypeOK, Edge!vars
<1>2. Edge!TypeOK'
  BY <1>1 DEF EdgeInv, Edge!TypeOK
<1> QED
  BY <1>1, <1>2 DEF EdgeInv, Fresh

-----------------------------------------------------------------------------

\* Every step keeps the invariant.
LEMMA EdgeInductive == Spec => []EdgeInv
<1>1. Init => EdgeInv
  BY EdgeSettingHolds, EdgeInitInv DEF Init
<1>2. EdgeInv /\ [Next]_vars => EdgeInv'
  BY EdgeSettingHolds, PartSteps, PublishKeepsInv, PurgeKeepsInv, PageKeepsInv, StoresKeepInv
  DEF Edge!Next
<1> QED
  BY <1>1, <1>2, PTL DEF Spec

\* After a purge that completed, the edge shows nothing older than what was published,
\* but for an answer the purge overtook and for a fallback (PurgeURLs, the Worker's
\* cache.put); for any pages a purge names and any number of versions.
THEOREM EdgeStaysFresh == Spec => []EdgeFresh
<1>1. EdgeInv => EdgeFresh
  <2> SUFFICES ASSUME EdgeInv, NEW p \in Pages, edge[p] # None, edge[p].version < announced,
                      ~edge[p].late, ~edge[p].fallback
               PROVE  FALSE
    BY DEF EdgeInv, Edge!TypeOK, Edge!Answer, EdgeFresh, Edge!EdgeFresh
  <2>1. announced <= edge[p].version
    BY DEF EdgeInv, Fresh
  <2>2. announced \in Int /\ edge[p].version \in Int
    BY EdgeSettingHolds DEF EdgeInv, Edge!TypeOK, Edge!Answer, EdgeSetting, Edge!Versions
  <2> QED
    BY <2>1, <2>2
<1> QED
  BY <1>1, EdgeInductive, PTL

HIDE DEF Edge!storeVars

-----------------------------------------------------------------------------

\* The files, with the callers in one process that may die at any point of a rewrite.
\* What a caller writes is made of what it read; the invariant says that this is still the
\* file when it is renamed.

\* The file's module counts as FiniteSets does.
LEMMA LocalCardinality == \A S : Local!Cardinality(S) = Cardinality(S)
BY DEF Local!Cardinality, Cardinality

\* One process; the bounds are numbers, and None and Torn nothing but themselves.
LocalSetting ==
  /\ OneProcess
  /\ IsFiniteSet(Videos)
  /\ MonthlyLimit \in Nat /\ LastMonth \in Nat \ {0} /\ LastRun \in Nat /\ LastCrash \in Nat
  /\ None \notin Callers \cup Videos \cup Nat \cup Local!Claim \cup Local!Content
  /\ Torn \notin Local!Content

Records == file["requests"]

Writing(c) == pc[c] \in {"truncate", "write", "rename"}

Room(m) == Cardinality({v \in Videos : Records[v] # None /\ Records[v].month = m}) < MonthlyLimit

\* What the holder of the mutex is about to write still fits the file it read.
Prepared(c) ==
  \/ job[c].kind = "run" /\ job[c].content \in Local!Run
  \/ /\ job[c].kind = "claim" /\ job[c].video \in Videos /\ Records[job[c].video] = None
     /\ \E m \in Local!Months :
          /\ Room(m)
          /\ job[c].content =
               [Records EXCEPT ![job[c].video] = [month |-> m, completed |-> FALSE]]
  \/ /\ job[c].kind = "complete" /\ job[c].video \in Videos /\ Records[job[c].video] # None
     /\ job[c].content = [Records EXCEPT ![job[c].video].completed = TRUE]

JobInv(c) ==
  /\ pc[c] = "read" => job[c].kind \in {"claim", "complete"} /\ job[c].video \in Videos
  /\ pc[c] = "lock" => job[c].kind = "run" /\ job[c].content \in Local!Run
  /\ Writing(c) => mu[c] = c /\ Prepared(c)
  /\ pc[c] = "rename" => temp[Local!FileOf(c)] = job[c].content
  /\ pc[c] = "request" => /\ job[c].video \in Videos
                          /\ Records[job[c].video] # None /\ requested[job[c].video] = 0

LocalInv ==
  /\ Local!TypeOK
  /\ Records \in Local!Requests /\ file["run"] \in Local!Run
  /\ \A c, d \in Callers : mu[c] = mu[d]
  /\ \A c \in Callers : JobInv(c)
  /\ \A c, d \in Callers :
       c # d /\ pc[c] = "request" /\ pc[d] = "request" => job[c].video # job[d].video
  /\ \A v \in Videos : requested[v] # 0 => Records[v] # None

-----------------------------------------------------------------------------

\* What is assumed of the constants is the setting of a deployment of one process.
LEMMA LocalSettingHolds == ASSUME OneProcess PROVE LocalSetting
BY BoundsAssumption, LimitAssumption, VideosAssumption, NoneAssumption DEF LocalSetting

\* The invariant holds initially.
LEMMA LocalInitInv == ASSUME LocalSetting, Local!Init PROVE LocalInv
<1>1. [v \in Videos |-> None] \in Local!Requests /\ [run |-> 0, digest |-> FALSE] \in Local!Run
  BY DEF LocalSetting, Local!Requests, Local!Run
<1>2. file \in [Local!Files -> Local!Content]
  BY <1>1 DEF Local!Init, Local!Content
<1>3. pc \in [Callers -> Local!Steps] /\ \A c \in Callers : pc[c] = "idle"
  BY DEF Local!Init, Local!Steps
<1>4. mu \in [Callers -> Callers \cup {None}] /\ month \in Local!Months /\ runs \in 0 .. LastRun
      /\ requested \in [Videos -> Nat] /\ deaths \in 0 .. LastCrash
      /\ temp \in [Local!Files -> Local!Content \cup {Torn, None}]
  BY DEF Local!Init, LocalSetting, Local!Months
<1>5. Local!TypeOK
  BY <1>2, <1>3, <1>4 DEF Local!Init, LocalSetting, Local!TypeOK
<1> QED
  <2>1. file["requests"] = [v \in Videos |-> None] /\ file["run"] = [run |-> 0, digest |-> FALSE]
    BY DEF Local!Init, Local!Files
  <2>2. \A c \in Callers : JobInv(c)
    BY <1>3 DEF JobInv, Writing
  <2> QED
    BY <1>1, <1>3, <1>5, <2>1, <2>2 DEF Local!Init, LocalInv, Records

\* Of two callers at most one writes.
LEMMA OneWriter ==
  ASSUME LocalSetting, LocalInv, NEW c \in Callers, NEW d \in Callers, Writing(c), Writing(d)
  PROVE  c = d
BY DEF LocalInv, JobInv

\* Where the mutex is free, nobody writes.
LEMMA NoWriter ==
  ASSUME LocalSetting, LocalInv, NEW c \in Callers, Local!Free(c), NEW d \in Callers
  PROVE  ~Writing(d)
BY DEF LocalInv, JobInv, Local!Free, LocalSetting

\* A step by which a caller leaves the files and the requests alone, and the mutex where
\* another one holds it, keeps what is said of the others.
LEMMA OthersKept ==
  ASSUME LocalSetting, LocalInv, NEW c \in Callers,
         UNCHANGED <<file, requested>>,
         \A d \in Callers \ {c} :
           /\ pc'[d] = pc[d] /\ job'[d] = job[d]
           /\ Writing(d) => mu'[d] = mu[d] /\ temp' = temp
  PROVE  \A d \in Callers \ {c} : JobInv(d)'
<1> SUFFICES ASSUME NEW d \in Callers \ {c} PROVE JobInv(d)'
  OBVIOUS
<1>1. JobInv(d) /\ pc'[d] = pc[d] /\ job'[d] = job[d] /\ (Writing(d)' <=> Writing(d))
  BY DEF LocalInv, Writing
<1>2. Prepared(d)' <=> Prepared(d)
  BY <1>1 DEF Prepared, Room, Records
<1>3. Local!FileOf(d)' = Local!FileOf(d)
  BY <1>1 DEF Local!FileOf
<1> QED
  BY <1>1, <1>2, <1>3 DEF JobInv, Records, Writing

\* A month that is not full for the claims since its beginning has room for one of its own.
LEMMA RoomIsLeft ==
  ASSUME LocalSetting, Records \in Local!Requests, NEW m \in Local!Months,
         Local!ClaimedIn(Records, m) < MonthlyLimit
  PROVE  Room(m)
<1> DEFINE Own == {v \in Videos : Records[v] # None /\ Records[v].month = m}
           Since == {v \in Videos : Records[v] # None /\ Records[v].month >= m}
<1>1. Own \subseteq Since
  BY DEF Local!Requests, Local!Claim, Local!Months
<1>2. IsFiniteSet(Since)
  BY FS_Subset DEF LocalSetting
<1>3. Cardinality(Own) <= Cardinality(Since) /\ Cardinality(Since) \in Nat
      /\ Cardinality(Own) \in Nat
  BY <1>1, <1>2, FS_Subset, FS_CardinalityType
<1> QED
  BY <1>3, LocalCardinality DEF Room, Local!ClaimedIn, LocalSetting

\* What a caller makes of the requests it reads is prepared for this file.
LEMMA ChangedIsPrepared ==
  ASSUME LocalSetting, LocalInv, NEW c \in Callers, pc[c] = "read", Local!Accepts(c, Records)
  PROVE  /\ job[c] \in Local!Job /\ job[c].video \in Videos
              /\ Local!Changed(c, Records) \in Local!Requests
         /\ \/ /\ job[c].kind = "claim" /\ Records[job[c].video] = None
               /\ \E m \in Local!Months :
                    /\ Room(m)
                    /\ Local!Changed(c, Records) =
                         [Records EXCEPT ![job[c].video] = [month |-> m, completed |-> FALSE]]
            \/ /\ job[c].kind = "complete" /\ Records[job[c].video] # None
               /\ Local!Changed(c, Records) = [Records EXCEPT ![job[c].video].completed = TRUE]
<1>1. /\ job[c] \in Local!Job /\ job[c].kind \in {"claim", "complete"} /\ job[c].video \in Videos
      /\ Records \in Local!Requests /\ month \in Local!Months
  BY DEF LocalInv, Local!TypeOK, JobInv
<1>2. CASE job[c].kind = "claim"
  <2>1. Records[job[c].video] = None /\ Room(month)
    BY <1>1, <1>2, RoomIsLeft DEF Local!Accepts, Local!MayClaim
  <2>2. [month |-> month, completed |-> FALSE] \in Local!Claim
    BY <1>1 DEF Local!Claim
  <2>3. Local!Changed(c, Records) =
          [Records EXCEPT ![job[c].video] = [month |-> month, completed |-> FALSE]]
    BY <1>2 DEF Local!Changed
  <2> QED
    BY <1>1, <1>2, <2>1, <2>2, <2>3 DEF Local!Requests
<1>3. CASE job[c].kind = "complete"
  <2>1. Records[job[c].video] # None
    BY <1>3 DEF Local!Accepts
  <2>2. Records[job[c].video] \in Local!Claim
    BY <1>1, <2>1 DEF Local!Requests
  <2>3. Local!Changed(c, Records) = [Records EXCEPT ![job[c].video].completed = TRUE]
    BY <1>3 DEF Local!Changed
  <2>4. [Records[job[c].video] EXCEPT !.completed = TRUE] \in Local!Claim
    BY <2>2 DEF Local!Claim
  <2> QED
    BY <1>1, <1>3, <2>1, <2>3, <2>4 DEF Local!Requests
<1> QED
  BY <1>1, <1>2, <1>3

\* What is prepared is the content of a file.
LEMMA PreparedIsContent ==
  ASSUME LocalSetting, LocalInv, NEW c \in Callers, Writing(c)
  PROVE  /\ job[c] \in Local!Job /\ job[c].content \in Local!Content
         /\ job[c].kind = "run" => job[c].content \in Local!Run
         /\ job[c].kind # "run" => job[c].content \in Local!Requests
<1>1. job[c] \in Local!Job /\ Prepared(c) /\ Records \in Local!Requests
  BY DEF LocalInv, Local!TypeOK, JobInv, Writing
<1>2. CASE job[c].kind = "claim"
  <2>1. PICK m \in Local!Months : job[c].content =
               [Records EXCEPT ![job[c].video] = [month |-> m, completed |-> FALSE]]
    BY <1>1, <1>2 DEF Prepared
  <2>2. [month |-> m, completed |-> FALSE] \in Local!Claim
    BY DEF Local!Claim
  <2> QED
    BY <1>1, <1>2, <2>1, <2>2 DEF Local!Requests, Local!Content
<1>3. CASE job[c].kind = "complete"
  <2>1. /\ job[c].video \in Videos /\ Records[job[c].video] # None
        /\ job[c].content = [Records EXCEPT ![job[c].video].completed = TRUE]
    BY <1>1, <1>3 DEF Prepared
  <2>2. Records[job[c].video] \in Local!Claim
    BY <1>1, <2>1 DEF Local!Requests
  <2>3. [Records[job[c].video] EXCEPT !.completed = TRUE] \in Local!Claim
    BY <2>2 DEF Local!Claim
  <2> QED
    BY <1>1, <1>3, <2>1, <2>3 DEF Local!Requests, Local!Content
<1>4. CASE job[c].kind = "run"
  BY <1>1, <1>4 DEF Prepared, Local!Content
<1> QED
  BY <1>1, <1>2, <1>3, <1>4 DEF Local!Job, Local!Kinds

-----------------------------------------------------------------------------

\* A caller begins, waits for the mutex, prepares what it writes, or gives up: the files
\* and the provider are not touched.
LEMMA PrepareKeepsInv ==
  ASSUME LocalSetting, LocalInv, NEW c \in Callers,
         \/ \E v \in Videos : Local!ClaimTranscript(c, v)
         \/ Local!ReadRequests(c) \/ Local!Refuse(c) \/ Local!SaveRun(c)
              \/ Local!SaveDigest(c) \/ Local!LockRun(c)
         \/ Local!TruncateTemp(c) \/ Local!WriteTemp(c) \/ Local!Fail(c)
  PROVE  LocalInv'
<1>0. /\ Local!TypeOK /\ Callers # {} /\ JobInv(c) /\ Records \in Local!Requests
           /\ file["run"] \in Local!Run
      /\ \A d, e \in Callers : mu[d] = mu[e]
  BY DEF LocalInv
<1>1. /\ UNCHANGED <<file, month, requested, deaths>>
      /\ \A d \in Callers \ {c} : pc'[d] = pc[d] /\ job'[d] = job[d]
      /\ pc' \in [Callers -> Local!Steps] /\ pc'[c] # "request"
  BY <1>0 DEF Local!TypeOK, Local!ClaimTranscript, Local!ReadRequests, Local!Refuse,
     Local!SaveRun, Local!SaveDigest, Local!LockRun,
              Local!TruncateTemp, Local!WriteTemp, Local!Fail, Local!Begin, Local!Goto,
                Local!Return, Local!Steps
<1>2. ASSUME /\ mu' \in [Callers -> Callers \cup {None}] /\ \A d, e \in Callers : mu'[d] = mu'[e]
             /\ temp' \in [Local!Files -> Local!Content \cup {Torn, None}]
                  /\ runs' \in 0 .. LastRun
             /\ \A d \in Callers \ {c} : Writing(d) => mu'[d] = mu[d] /\ temp' = temp
             /\ job' \in [Callers -> Local!Job \cup {None}]
             /\ pc'[c] # "idle" => job'[c] \in Local!Job
             /\ JobInv(c)'
      PROVE  LocalInv'
  <2>1. Local!TypeOK'
    BY <1>0, <1>1, <1>2 DEF Local!TypeOK
  <2>2. \A d \in Callers : JobInv(d)'
    BY <1>1, <1>2, OthersKept
  <2> QED
    BY <1>1, <1>2, <2>1, <2>2 DEF LocalInv, Records
<1>3. ASSUME NEW stage \in Local!Steps, NEW kind \in Local!Kinds, NEW v \in Videos \cup {None},
             NEW content \in Local!Content \cup {None}, Local!Begin(c, stage, kind, v, content)
      PROVE  /\ pc'[c] = stage /\ job'[c].kind = kind /\ job'[c].video = v
             /\ job'[c].content = content
             /\ job' \in [Callers -> Local!Job \cup {None}] /\ job'[c] \in Local!Job
  <2>1. [kind |-> kind, video |-> v, content |-> content] \in Local!Job
    BY <1>3 DEF Local!Job
  <2> QED
    BY <1>0, <1>3, <2>1 DEF Local!Begin, Local!Goto, Local!TypeOK
<1>4. CASE \E v \in Videos : Local!ClaimTranscript(c, v)
  <2>1. PICK v \in Videos : Local!ClaimTranscript(c, v)
    BY <1>4
  <2>2. Local!Begin(c, "read", "claim", v, None) /\ UNCHANGED <<mu, temp, runs>>
    BY <2>1 DEF Local!ClaimTranscript
  <2>3. /\ pc'[c] = "read" /\ job'[c].kind = "claim" /\ job'[c].video = v
        /\ job' \in [Callers -> Local!Job \cup {None}] /\ job'[c] \in Local!Job
    BY <1>3, <2>2 DEF Local!Steps, Local!Kinds
  <2>4. JobInv(c)'
    BY <2>3 DEF JobInv, Writing
  <2> QED
    BY <1>0, <1>2, <2>2, <2>3, <2>4 DEF Local!TypeOK
<1>5. CASE Local!ReadRequests(c)
  <2>1. /\ pc[c] = "read" /\ Local!Free(c) /\ Local!Accepts(c, Records) /\ Local!Lock(c)
        /\ job' = [job EXCEPT ![c].content = Local!Changed(c, Records)]
        /\ pc'[c] = "truncate" /\ UNCHANGED <<temp, runs>>
    BY <1>0, <1>5 DEF Local!ReadRequests, Local!Goto, Records, Local!TypeOK
  <2>2. /\ job'[c] = [job[c] EXCEPT !.content = Local!Changed(c, Records)]
             /\ job'[c] \in Local!Job
        /\ job' \in [Callers -> Local!Job \cup {None}]
    <3>1. [job[c] EXCEPT !.content = Local!Changed(c, Records)] \in Local!Job
      BY <2>1, ChangedIsPrepared DEF Local!Job, Local!Content
    <3> QED
      BY <1>0, <2>1, <3>1 DEF Local!TypeOK
  <2>3. /\ job'[c].kind = job[c].kind /\ job'[c].video = job[c].video
        /\ job'[c].content = Local!Changed(c, Records)
    BY <2>1, <2>2, ChangedIsPrepared DEF Local!Job
  <2>4. /\ \A d \in Callers : mu'[d] = c
        /\ mu' \in [Callers -> Callers \cup {None}]
    BY <2>1 DEF Local!Lock, Local!Home, LocalSetting
  <2>5. Prepared(c)'
    <3>1. Records' = Records /\ \A m : Room(m)' <=> Room(m)
      BY <1>1 DEF Records, Room
    <3>2. /\ job[c].video \in Videos
          /\ \/ /\ job[c].kind = "claim" /\ Records[job[c].video] = None
                /\ \E m \in Local!Months :
                     /\ Room(m)
                     /\ Local!Changed(c, Records) =
                          [Records EXCEPT ![job[c].video] = [month |-> m, completed |-> FALSE]]
             \/ /\ job[c].kind = "complete" /\ Records[job[c].video] # None
                /\ Local!Changed(c, Records) = [Records EXCEPT ![job[c].video].completed = TRUE]
      BY <2>1, ChangedIsPrepared
    <3>3. CASE job[c].kind = "claim"
      BY <2>3, <3>1, <3>2, <3>3 DEF Prepared
    <3>4. CASE job[c].kind = "complete"
      BY <2>3, <3>1, <3>2, <3>4 DEF Prepared
    <3> QED
      BY <3>2, <3>3, <3>4
  <2>6. JobInv(c)'
    BY <2>1, <2>4, <2>5 DEF JobInv, Writing
  <2>7. \A d \in Callers : ~Writing(d)
    BY <2>1, NoWriter
  <2> QED
    BY <1>0, <1>2, <2>1, <2>2, <2>4, <2>6, <2>7 DEF Local!TypeOK
<1>6. CASE Local!Refuse(c)
  <2>1. /\ pc'[c] = "idle" /\ job' \in [Callers -> Local!Job \cup {None}]
        /\ UNCHANGED <<mu, temp, runs>>
    BY <1>0, <1>6 DEF Local!Refuse, Local!Return, Local!Goto, Local!TypeOK
  <2>2. JobInv(c)'
    BY <2>1 DEF JobInv, Writing
  <2> QED
    BY <1>0, <1>2, <2>1, <2>2 DEF Local!TypeOK
<1>7. CASE Local!SaveRun(c)
  <2> DEFINE content == [run |-> runs + 1, digest |-> FALSE]
  <2>1. Local!Begin(c, "lock", "run", None, content) /\ UNCHANGED <<mu, temp>>
        /\ runs' = runs + 1 /\ runs < LastRun
    BY <1>7 DEF Local!SaveRun
  <2>2. runs' \in 0 .. LastRun /\ content \in Local!Run
    BY <1>0, <2>1 DEF Local!TypeOK, Local!Run, LocalSetting
  <2> HIDE DEF content
  <2>3. /\ pc'[c] = "lock" /\ job'[c].kind = "run" /\ job'[c].content = content
        /\ job' \in [Callers -> Local!Job \cup {None}] /\ job'[c] \in Local!Job
    BY <1>3, <2>1, <2>2 DEF Local!Steps, Local!Kinds, Local!Content
  <2>4. JobInv(c)'
    BY <2>2, <2>3 DEF JobInv, Writing
  <2> QED
    BY <1>0, <1>2, <2>1, <2>2, <2>3, <2>4 DEF Local!TypeOK
<1>8. CASE Local!SaveDigest(c)
  <2> DEFINE content == [file["run"] EXCEPT !.digest = TRUE]
  <2>1. Local!Begin(c, "lock", "run", None, content) /\ UNCHANGED <<mu, temp, runs>>
    BY <1>8 DEF Local!SaveDigest
  <2>2. content \in Local!Run
    BY <1>0 DEF Local!Run
  <2> HIDE DEF content
  <2>3. /\ pc'[c] = "lock" /\ job'[c].kind = "run" /\ job'[c].content = content
        /\ job' \in [Callers -> Local!Job \cup {None}] /\ job'[c] \in Local!Job
    BY <1>3, <2>1, <2>2 DEF Local!Steps, Local!Kinds, Local!Content
  <2>4. JobInv(c)'
    BY <2>2, <2>3 DEF JobInv, Writing
  <2> QED
    BY <1>0, <1>2, <2>1, <2>2, <2>3, <2>4 DEF Local!TypeOK
<1>9. CASE Local!LockRun(c)
  <2>1. /\ pc[c] = "lock" /\ Local!Free(c) /\ Local!Lock(c) /\ pc'[c] = "truncate"
        /\ UNCHANGED <<temp, job, runs>>
    BY <1>0, <1>9 DEF Local!LockRun, Local!Goto, Local!TypeOK
  <2>2. job[c] \in Local!Job /\ job[c].kind = "run" /\ job[c].content \in Local!Run
    BY <1>0, <2>1 DEF Local!TypeOK, JobInv
  <2>3. /\ \A d \in Callers : mu'[d] = c
        /\ mu' \in [Callers -> Callers \cup {None}]
    BY <2>1 DEF Local!Lock, Local!Home, LocalSetting
  <2>4. JobInv(c)'
    BY <2>1, <2>2, <2>3 DEF JobInv, Writing, Prepared
  <2>5. \A d \in Callers : ~Writing(d)
    BY <2>1, NoWriter
  <2> QED
    BY <1>0, <1>2, <2>1, <2>2, <2>3, <2>4, <2>5 DEF Local!TypeOK
<1>10. CASE Local!TruncateTemp(c) \/ Local!WriteTemp(c)
  <2>1. /\ Writing(c) /\ pc'[c] \in {"write", "rename"} /\ UNCHANGED <<mu, job, runs>>
        /\ temp' = [temp EXCEPT ![Local!FileOf(c)] =
                      IF pc'[c] = "write" THEN Torn ELSE job[c].content]
    BY <1>0, <1>10 DEF Local!TruncateTemp, Local!WriteTemp, Local!Goto, Local!TypeOK, Writing
  <2>2. job[c] \in Local!Job /\ job[c].content \in Local!Content /\ mu[c] = c /\ Prepared(c)
    BY <1>0, <2>1, PreparedIsContent DEF JobInv
  <2>3. Local!FileOf(c) \in Local!Files /\ Local!FileOf(c)' = Local!FileOf(c)
    BY <2>1 DEF Local!FileOf, Local!Files
  <2>4. temp' \in [Local!Files -> Local!Content \cup {Torn, None}]
    BY <1>0, <2>1, <2>2 DEF Local!TypeOK
  <2>5. pc'[c] = "rename" => temp'[Local!FileOf(c)] = job[c].content
    BY <1>0, <2>1, <2>3 DEF Local!TypeOK
  <2>6. Prepared(c)'
    BY <1>1, <2>1, <2>2 DEF Prepared, Room, Records
  <2>7. JobInv(c)'
    BY <2>1, <2>2, <2>3, <2>5, <2>6 DEF JobInv, Writing
  <2>8. \A d \in Callers \ {c} : ~Writing(d)
    BY <2>1, OneWriter
  <2> QED
    BY <1>0, <1>2, <2>1, <2>2, <2>4, <2>7, <2>8 DEF Local!TypeOK
<1>11. CASE Local!Fail(c)
  <2>1. /\ pc'[c] = "idle" /\ job' \in [Callers -> Local!Job \cup {None}]
        /\ UNCHANGED <<temp, runs>>
        /\ IF mu[c] = c THEN Local!Unlock(c) ELSE UNCHANGED mu
    BY <1>0, <1>11 DEF Local!Fail, Local!Return, Local!Goto, Local!TypeOK
  <2>2. JobInv(c)'
    BY <2>1 DEF JobInv, Writing
  <2>3. CASE mu[c] = c
    <3>1. \A d \in Callers \ {c} : ~Writing(d)
      BY <1>0, <2>3 DEF LocalInv, JobInv
    <3>2. \A d \in Callers : mu'[d] = None
      BY <2>1, <2>3 DEF Local!Unlock, Local!Home, LocalSetting
    <3>3. mu' \in [Callers -> Callers \cup {None}]
      BY <2>1, <2>3 DEF Local!Unlock, Local!Home, LocalSetting
    <3> QED
      BY <1>0, <1>2, <2>1, <2>2, <3>1, <3>2, <3>3 DEF Local!TypeOK
  <2>4. CASE mu[c] # c
    BY <1>0, <1>2, <2>1, <2>2, <2>4 DEF Local!TypeOK
  <2> QED
    BY <2>3, <2>4
<1> QED
  BY <1>4, <1>5, <1>6, <1>7, <1>8, <1>9, <1>10, <1>11

\* A rename puts what the caller wrote in place of the file it read, whole.
LEMMA RenameIs ==
  ASSUME LocalSetting, LocalInv, NEW c \in Callers, Local!Rename(c)
  PROVE  /\ Writing(c) /\ Prepared(c) /\ job[c] \in Local!Job
         /\ file' = [file EXCEPT ![Local!FileOf(c)] = job[c].content]
         /\ \A d \in Callers : mu'[d] = None
         /\ \A d \in Callers \ {c} : ~Writing(d)
         /\ job[c].kind = "run" =>
              /\ Records' = Records /\ file'["run"] = job[c].content
              /\ job[c].content \in Local!Run
         /\ job[c].kind # "run" =>
              /\ Records' = job[c].content /\ file'["run"] = file["run"]
              /\ job[c].content \in Local!Requests
<1>1. /\ Writing(c) /\ Prepared(c) /\ file \in [Local!Files -> Local!Content]
      /\ temp[Local!FileOf(c)] = job[c].content
  BY DEF LocalInv, Local!TypeOK, JobInv, Local!Rename, Writing, LocalSetting
<1>2. file' = [file EXCEPT ![Local!FileOf(c)] = job[c].content]
  BY <1>1 DEF Local!Rename
<1>3. \A d \in Callers : mu'[d] = None
  BY DEF Local!Rename, Local!Unlock, Local!Home, LocalSetting
<1>4. \A d \in Callers \ {c} : ~Writing(d)
  BY <1>1, OneWriter
<1>5. Local!FileOf(c) \in Local!Files /\ (Local!FileOf(c) = "run" <=> job[c].kind = "run")
  BY DEF Local!FileOf, Local!Files
<1>6. Records' = (IF job[c].kind = "run" THEN Records ELSE job[c].content)
      /\ file'["run"] = (IF job[c].kind = "run" THEN job[c].content ELSE file["run"])
  BY <1>1, <1>2, <1>5 DEF Records, Local!FileOf, Local!Files
<1> QED
  BY <1>1, <1>2, <1>3, <1>4, <1>6, PreparedIsContent

\* A renamed claim is a charge: one more video, in a month with room.  A completion is none.
LEMMA RenameCharges ==
  ASSUME LocalSetting, LocalInv, NEW c \in Callers, Local!Rename(c)
  PROVE  \/ Records' = Records /\ job[c].kind = "run"
         \/ /\ job[c].kind = "claim" /\ job[c].video \in Videos /\ Records[job[c].video] = None
            /\ \E m \in Local!Months : Room(m) /\ Records' =
                 [Records EXCEPT ![job[c].video] = [month |-> m, completed |-> FALSE]]
         \/ /\ job[c].kind = "complete" /\ job[c].video \in Videos
            /\ Records[job[c].video] # None
            /\ \E r \in Local!Claim : /\ r.month = Records[job[c].video].month
                               /\ Records' = [Records EXCEPT ![job[c].video] = r]
<1>1. Prepared(c) /\ Records \in Local!Requests /\ job[c] \in Local!Job
      /\ (job[c].kind = "run" => Records' = Records)
      /\ (job[c].kind # "run" => Records' = job[c].content)
  BY RenameIs DEF LocalInv
<1>2. CASE job[c].kind = "complete"
  <2>1. /\ job[c].video \in Videos /\ Records[job[c].video] # None
        /\ Records' = [Records EXCEPT ![job[c].video].completed = TRUE]
    BY <1>1, <1>2 DEF Prepared
  <2>2. Records[job[c].video] \in Local!Claim
    BY <1>1, <2>1 DEF Local!Requests
  <2>3. /\ [Records[job[c].video] EXCEPT !.completed = TRUE] \in Local!Claim
        /\ [Records[job[c].video] EXCEPT !.completed = TRUE].month = Records[job[c].video].month
    BY <2>2 DEF Local!Claim
  <2> QED
    BY <1>1, <1>2, <2>1, <2>3
<1>3. CASE job[c].kind = "claim"
  BY <1>1, <1>3 DEF Prepared
<1>4. CASE job[c].kind = "run"
  BY <1>1, <1>4
<1> QED
  BY <1>1, <1>2, <1>3, <1>4 DEF Prepared

\* Either way, a video that has a record keeps one.
LEMMA RenameKeepsRecords ==
  ASSUME LocalSetting, LocalInv, NEW c \in Callers, Local!Rename(c), NEW v \in Videos,
         Records[v] # None
  PROVE  Records'[v] # None
<1>1. Records \in Local!Requests
  BY DEF LocalInv
<1>2. CASE job[c].kind = "claim"
  BY <1>1, <1>2, RenameCharges DEF Local!Requests
<1>3. CASE job[c].kind = "complete"
  <2>1. PICK r \in Local!Claim : /\ job[c].video \in Videos
                           /\ Records' = [Records EXCEPT ![job[c].video] = r]
    BY <1>3, RenameCharges
  <2> QED
    BY <1>1, <2>1 DEF Local!Requests, LocalSetting
<1>4. CASE job[c].kind \notin {"claim", "complete"}
  BY <1>4, RenameCharges
<1> QED
  BY <1>2, <1>3, <1>4

-----------------------------------------------------------------------------

\* The files change.
LEMMA RenameKeepsInv ==
  ASSUME LocalSetting, LocalInv, NEW c \in Callers, Local!Rename(c)
  PROVE  LocalInv'
<1>1. /\ Local!TypeOK /\ job[c] \in Local!Job /\ pc[c] = "rename"
      /\ UNCHANGED <<month, runs, requested, deaths>>
      /\ Records \in Local!Requests /\ file["run"] \in Local!Run
      /\ temp' = [temp EXCEPT ![Local!FileOf(c)] = None]
  BY RenameIs DEF LocalInv, Local!Rename
<1>2. /\ pc' \in [Callers -> Local!Steps] /\ job' \in [Callers -> Local!Job \cup {None}]
      /\ \A d \in Callers \ {c} : pc'[d] = pc[d] /\ job'[d] = job[d]
      /\ IF job[c].kind = "claim" THEN pc'[c] = "request" /\ job'[c] = job[c]
         ELSE pc'[c] = "idle"
  BY <1>1 DEF Local!Rename, Local!Return, Local!Goto, Local!TypeOK, Local!Steps
<1>3. Records' \in Local!Requests /\ file'["run"] \in Local!Run
        /\ job[c].content \in Local!Content
  BY <1>1, RenameIs DEF Local!Content
<1>4. Local!TypeOK'
  <2>1. file' \in [Local!Files -> Local!Content]
          /\ temp' \in [Local!Files -> Local!Content \cup {Torn, None}]
    BY <1>1, <1>3, RenameIs DEF Local!TypeOK, LocalSetting
  <2>2. mu' \in [Callers -> Callers \cup {None}]
    BY DEF Local!Rename, Local!Unlock, Local!Home, LocalSetting
  <2> QED
    BY <1>1, <1>2, <2>1, <2>2 DEF Local!TypeOK, LocalSetting
<1>5. \A d \in Callers \ {c} : JobInv(d)'
  <2> SUFFICES ASSUME NEW d \in Callers \ {c} PROVE JobInv(d)'
    OBVIOUS
  <2>1. JobInv(d) /\ ~Writing(d) /\ ~Writing(d)'
    BY <1>2, RenameIs DEF LocalInv, Writing
  <2>2. pc[d] = "request" => Records'[job[d].video] # None
    BY <2>1, RenameKeepsRecords DEF JobInv
  <2> QED
    BY <1>1, <1>2, <2>1, <2>2 DEF JobInv, Writing
<1>6. CASE job[c].kind = "claim"
  <2>1. PICK m \in Local!Months :
          /\ job[c].video \in Videos /\ Records[job[c].video] = None
          /\ Records' = [Records EXCEPT ![job[c].video] = [month |-> m, completed |-> FALSE]]
    BY <1>6, RenameCharges
  <2>2. Records'[job[c].video] # None
    <3>1. [month |-> m, completed |-> FALSE] \in Local!Claim
      BY DEF Local!Claim
    <3> QED
      BY <1>1, <2>1, <3>1 DEF Local!Requests, LocalSetting
  <2>3. requested[job[c].video] = 0
    BY <2>1 DEF LocalInv
  <2>4. JobInv(c)'
    BY <1>1, <1>2, <1>6, <2>1, <2>2, <2>3 DEF JobInv, Writing
  <2>5. \A d \in Callers \ {c} : pc[d] = "request" => job[d].video # job[c].video
    BY <2>1 DEF LocalInv, JobInv
  <2>6. \A d, e \in Callers :
          d # e /\ pc'[d] = "request" /\ pc'[e] = "request" => job'[d].video # job'[e].video
    BY <1>2, <1>6, <2>5 DEF LocalInv
  <2>7. \A v \in Videos : requested'[v] # 0 => Records'[v] # None
    BY <1>1, RenameKeepsRecords DEF LocalInv
  <2> QED
    BY <1>3, <1>4, <1>5, <2>4, <2>6, <2>7, RenameIs DEF LocalInv
<1>7. CASE job[c].kind # "claim"
  <2>1. JobInv(c)'
    BY <1>2, <1>7 DEF JobInv, Writing
  <2>2. \A d, e \in Callers :
          d # e /\ pc'[d] = "request" /\ pc'[e] = "request" => job'[d].video # job'[e].video
    BY <1>2, <1>7 DEF LocalInv
  <2>3. \A v \in Videos : requested'[v] # 0 => Records'[v] # None
    BY <1>1, RenameKeepsRecords DEF LocalInv
  <2> QED
    BY <1>3, <1>4, <1>5, <2>1, <2>2, <2>3, RenameIs DEF LocalInv
<1> QED
  BY <1>6, <1>7

\* The provider is asked, once for a video.
LEMMA RequestKeepsInv ==
  ASSUME LocalSetting, LocalInv, NEW c \in Callers, Local!RequestTranscript(c)
  PROVE  LocalInv'
<1> DEFINE v == job[c].video
<1>1. /\ Local!TypeOK /\ pc[c] = "request" /\ v \in Videos /\ Records[v] # None
           /\ requested[v] = 0
      /\ requested' = [requested EXCEPT ![v] = @ + 1]
      /\ Local!Begin(c, "read", "complete", v, None)
      /\ UNCHANGED <<file, temp, mu, month, runs, deaths>>
  BY DEF LocalInv, JobInv, Local!RequestTranscript
<1>2. [kind |-> "complete", video |-> v, content |-> None] \in Local!Job
  BY <1>1 DEF Local!Job, Local!Kinds
<1>3. /\ pc' \in [Callers -> Local!Steps] /\ job' \in [Callers -> Local!Job \cup {None}]
      /\ pc'[c] = "read" /\ job'[c].kind = "complete" /\ job'[c].video = v
           /\ job'[c] \in Local!Job
      /\ \A d \in Callers \ {c} : pc'[d] = pc[d] /\ job'[d] = job[d]
  BY <1>1, <1>2 DEF Local!Begin, Local!Goto, Local!TypeOK, Local!Steps
<1>4. requested' \in [Videos -> Nat] /\ \A w \in Videos \ {v} : requested'[w] = requested[w]
  BY <1>1 DEF Local!TypeOK
<1>5. Local!TypeOK'
  BY <1>1, <1>3, <1>4 DEF Local!TypeOK
<1>6. \A d \in Callers \ {c} : JobInv(d)'
  <2> SUFFICES ASSUME NEW d \in Callers \ {c} PROVE JobInv(d)'
    OBVIOUS
  <2>1. JobInv(d) /\ (Writing(d)' <=> Writing(d)) /\ Local!FileOf(d)' = Local!FileOf(d)
    BY <1>3 DEF LocalInv, Writing, Local!FileOf
  <2>2. Prepared(d)' <=> Prepared(d)
    <3>1. Records' = Records /\ (\A m : Room(m)' <=> Room(m)) /\ job'[d] = job[d]
      BY <1>1, <1>3 DEF Room, Records
    <3> QED
      BY <3>1 DEF Prepared
  <2>3. pc[d] = "request" => job[d].video # v
    BY <1>1 DEF LocalInv
  <2> QED
    BY <1>1, <1>3, <1>4, <2>1, <2>2, <2>3 DEF JobInv, Records, Writing
<1>7. JobInv(c)'
  BY <1>1, <1>3 DEF JobInv, Writing
<1>8. \A d, e \in Callers :
        d # e /\ pc'[d] = "request" /\ pc'[e] = "request" => job'[d].video # job'[e].video
  BY <1>3 DEF LocalInv
<1>9. \A w \in Videos : requested'[w] # 0 => Records'[w] # None
  BY <1>1, <1>4 DEF LocalInv, Records
<1> QED
  BY <1>1, <1>5, <1>6, <1>7, <1>8, <1>9 DEF LocalInv, Records

\* The process dies, a month ends, or nothing happens.
LEMMA RestKeepsInv ==
  ASSUME LocalSetting, LocalInv, (\E c \in Callers : Local!Crash(c)) \/ Local!NextMonth
         \/ UNCHANGED Local!vars
  PROVE  LocalInv'
<1>1. CASE \E c \in Callers : Local!Crash(c)
  <2>1. /\ \A d \in Callers : pc'[d] = "idle" /\ job'[d] = None /\ mu'[d] = None
        /\ pc' \in [Callers -> Local!Steps] /\ job' \in [Callers -> Local!Job \cup {None}]
        /\ mu' \in [Callers -> Callers \cup {None}] /\ deaths' \in 0 .. LastCrash
        /\ UNCHANGED <<file, temp, month, runs, requested>>
    BY <1>1 DEF Local!Crash, Local!Home, Local!Unlock, LocalInv, Local!TypeOK, Local!Steps,
       LocalSetting
  <2>2. Local!TypeOK'
    BY <2>1 DEF LocalInv, Local!TypeOK
  <2> QED
    BY <2>1, <2>2 DEF LocalInv, JobInv, Writing, Records
<1>2. CASE Local!NextMonth \/ UNCHANGED Local!vars
  <2>1. month' \in Local!Months /\ UNCHANGED <<file, temp, mu, pc, job, runs, requested, deaths>>
    BY <1>2 DEF Local!NextMonth, Local!vars, LocalInv, Local!TypeOK, Local!Months, LocalSetting
  <2>2. Local!TypeOK'
    BY <2>1 DEF LocalInv, Local!TypeOK
  <2>3. \A c \in Callers : JobInv(c)'
    <3> SUFFICES ASSUME NEW c \in Callers PROVE JobInv(c)'
      OBVIOUS
    <3>1. Records' = Records /\ (\A m : Room(m)' <=> Room(m))
            /\ Local!FileOf(c)' = Local!FileOf(c)
      BY <2>1 DEF Room, Records, Local!FileOf
    <3>2. Prepared(c)' <=> Prepared(c)
      BY <2>1, <3>1 DEF Prepared
    <3>3. JobInv(c) /\ (Writing(c)' <=> Writing(c))
      BY <2>1 DEF LocalInv, Writing
    <3> QED
      BY <2>1, <3>1, <3>2, <3>3 DEF JobInv
  <2> QED
    BY <2>1, <2>2, <2>3 DEF LocalInv, Records
<1> QED
  BY <1>1, <1>2

\* Every step keeps the invariant.
LEMMA LocalInductive == ASSUME LocalSetting PROVE Spec => []LocalInv
<1>1. Init => LocalInv
  BY LocalInitInv DEF Init
<1>2. LocalInv /\ [Next]_vars => LocalInv'
  BY PartSteps, PrepareKeepsInv, RenameKeepsInv, RequestKeepsInv, RestKeepsInv
  DEF Local!Next, Local!CallerStep
<1> QED
  BY <1>1, <1>2, PTL DEF Spec

\* What a record is worth: the video it charges, and the month.
LEMMA ChargedIs ==
  ASSUME LocalSetting, LocalInv
  PROVE  /\ \A v \in Videos : Local!Charged[v] = None <=> Records[v] = None
         /\ \A m \in Local!Months : Room(m)
              => Cardinality(Local!Budget!ChargedIn(m)) < MonthlyLimit
         /\ Local!Charged = [v \in Videos |-> IF Records[v] = None THEN None ELSE Records[v].month]
<1>1. Records \in Local!Requests /\ Records # Torn
  BY DEF LocalInv, LocalSetting, Local!Content
<1>2. Local!Charged = [v \in Videos |-> IF Records[v] = None THEN None ELSE Records[v].month]
  BY <1>1 DEF Local!Charged, Records
<1>3. \A v \in Videos : Records[v] # None => Records[v].month # None
        /\ Records[v].month \in Local!Months
  BY <1>1 DEF Local!Requests, Local!Claim, Local!Months, LocalSetting
<1>4. \A m \in Local!Months :
        Local!Budget!ChargedIn(m) = {v \in Videos : Records[v] # None /\ Records[v].month = m}
  BY <1>2, <1>3 DEF Local!Budget!ChargedIn, Local!Months, LocalSetting
<1> QED
  BY <1>2, <1>3, <1>4 DEF Room

\* The file of transcript requests implements TranscriptBudget: a renamed claim is a
\* charge, the call of the provider a request, and every other step changes neither,
\* for any number of callers of a process that may die at any point
\* (ClaimYouTubeTranscriptRequest, writeTranscriptRequests).
THEOREM FileImplementsBudget ==
  ASSUME OneProcess
  PROVE  Spec => ImplementsBudget
<1>0. LocalSetting
  BY LocalSettingHolds
<1>1. Init => Local!Budget!Init
  <2> SUFFICES ASSUME Local!Init PROVE Local!Budget!Init
    BY DEF Init
  <2>1. Records = [v \in Videos |-> None] /\ requested = [v \in Videos |-> 0]
    BY DEF Local!Init, Records, Local!Files
  <2> QED
    BY <1>0, <2>1, LocalInitInv, ChargedIs DEF Local!Budget!Init
<1>2. LocalInv /\ LocalInv' /\ [Next]_vars =>
        [Local!Budget!Next]_(Local!Budget!budgetVars)
  <2> SUFFICES ASSUME LocalInv, LocalInv', [Local!Next]_(Local!vars)
               PROVE  Local!Budget!Next \/ UNCHANGED <<Local!Charged, requested>>
    BY PartSteps DEF Local!Budget!budgetVars
  <2>1. /\ Local!Charged = [v \in Videos |-> IF Records[v] = None THEN None ELSE Records[v].month]
        /\ Records \in Local!Requests
    BY <1>0, ChargedIs DEF LocalInv
  <2>2. Local!Charged' = [v \in Videos |-> IF Records'[v] = None THEN None ELSE Records'[v].month]
    <3>1. Records' \in Local!Requests /\ Records' # Torn
      BY <1>0 DEF LocalInv, LocalSetting, Local!Content
    <3> QED
      BY <3>1 DEF Local!Charged, Records
  <2>3. ASSUME NEW c \in Callers, Local!RequestTranscript(c)
        PROVE  Local!Budget!Next
    <3> DEFINE v == job[c].video
    <3>1. /\ v \in Videos /\ Records[v] # None /\ requested[v] = 0
          /\ requested' = [requested EXCEPT ![v] = @ + 1] /\ Records' = Records
      BY <2>3 DEF LocalInv, JobInv, Local!RequestTranscript, Records
    <3>2. requested' = [requested EXCEPT ![v] = 1]
      BY <3>1
    <3>3. Local!Charged' = Local!Charged /\ Local!Charged[v] # None
      BY <2>1, <2>2, <3>1, <1>0, ChargedIs
    <3>4. Local!Budget!Request(v)
      BY <3>1, <3>2, <3>3 DEF Local!Budget!Request
    <3> QED
      BY <3>1, <3>4 DEF Local!Budget!Next
  <2>4. ASSUME NEW c \in Callers, Local!Rename(c)
        PROVE  Local!Budget!Next \/ UNCHANGED <<Local!Charged, requested>>
    <3> DEFINE v == job[c].video
    <3>1. requested' = requested
      BY <2>4 DEF Local!Rename
    <3>2. CASE job[c].kind = "claim"
      <4>1. PICK m \in Local!Months :
              /\ v \in Videos /\ Records[v] = None /\ Room(m)
              /\ Records' = [Records EXCEPT ![v] = [month |-> m, completed |-> FALSE]]
        BY <2>4, <3>2, <1>0, RenameCharges
      <4>2. [month |-> m, completed |-> FALSE] # None
        <5>1. [month |-> m, completed |-> FALSE] \in Local!Claim
          BY DEF Local!Claim
        <5> QED
          BY <1>0, <5>1 DEF LocalSetting
      <4>3. Local!Charged' = [Local!Charged EXCEPT ![v] = m]
        BY <2>1, <2>2, <4>1, <4>2 DEF Local!Requests
      <4>4. Local!Budget!Charge(v, m)
        BY <3>1, <4>1, <4>3, <1>0, ChargedIs DEF Local!Budget!Charge, Local!Budget!Cardinality,
           Cardinality
      <4> QED
        BY <4>1, <4>4 DEF Local!Budget!Next
    <3>3. CASE job[c].kind = "complete"
      <4>1. PICK r \in Local!Claim :
              /\ v \in Videos /\ Records[v] # None /\ r.month = Records[v].month
              /\ Records' = [Records EXCEPT ![v] = r]
        BY <2>4, <3>3, <1>0, RenameCharges
      <4>2. Local!Charged' = Local!Charged
        BY <1>0, <2>1, <2>2, <4>1 DEF Local!Requests, LocalSetting
      <4> QED
        BY <3>1, <4>2
    <3>4. CASE job[c].kind \notin {"claim", "complete"}
      BY <2>1, <2>2, <2>4, <3>1, <3>4, <1>0, RenameCharges
    <3> QED
      BY <3>2, <3>3, <3>4
  <2>5. CASE UNCHANGED <<file, requested>>
    BY <2>5 DEF Local!Charged
  <2> QED
    BY <2>3, <2>4, <2>5
    DEF Local!Next, Local!CallerStep, Local!ClaimTranscript, Local!ReadRequests, Local!Refuse,
        Local!SaveRun, Local!SaveDigest, Local!LockRun,
        Local!TruncateTemp, Local!WriteTemp, Local!Fail, Local!Crash, Local!NextMonth, Local!vars
<1> QED
  BY <1>1, <1>2, <1>0, LocalInductive, PTL DEF Spec, Local!Budget!Spec, Local!ImplementsBudget,
     ImplementsBudget

-----------------------------------------------------------------------------

\* Where every caller is a process of its own, a reader may find a torn file; what it
\* then writes is of the kind of the file all the same.
OrTorn(S) == S \cup {Torn}

TypedJob(c) ==
  /\ pc[c] = "read" => job[c].kind \in {"claim", "complete"} /\ job[c].video \in Videos
  /\ pc[c] = "lock" => job[c].kind = "run" /\ job[c].content \in Local!Run
  /\ pc[c] = "request" => job[c].kind = "claim" /\ job[c].video \in Videos
  /\ Writing(c) => \/ job[c].kind = "run" /\ job[c].content \in Local!Run
                   \/ /\ job[c].kind \in {"claim", "complete"} /\ job[c].video \in Videos
                      /\ job[c].content \in Local!Requests

LocalTyped ==
  /\ Local!TypeOK
  /\ Records \in OrTorn(Local!Requests) /\ file["run"] \in OrTorn(Local!Run)
  /\ temp["requests"] \in OrTorn(Local!Requests) \cup {None}
  /\ temp["run"] \in OrTorn(Local!Run) \cup {None}
  /\ \A c \in Callers : TypedJob(c)

\* Processes of their own; otherwise as above.
ApartSetting ==
  /\ ~OneProcess
  /\ LastMonth \in Nat \ {0} /\ LastRun \in Nat /\ LastCrash \in Nat
  /\ None \notin Callers \cup Videos \cup Nat \cup Local!Claim \cup Local!Content
  /\ Torn \notin Local!Content /\ Torn # None

\* What is assumed of the constants is one setting or the other.
LEMMA ApartSettingHolds == ASSUME ~OneProcess PROVE ApartSetting
BY BoundsAssumption, NoneAssumption DEF ApartSetting

\* The typing holds initially.
LEMMA InitTyped == ASSUME ApartSetting, Local!Init PROVE LocalTyped
<1>1. [v \in Videos |-> None] \in Local!Requests /\ [run |-> 0, digest |-> FALSE] \in Local!Run
  BY DEF ApartSetting, Local!Requests, Local!Run
<1>2. /\ Records = [v \in Videos |-> None] /\ file["run"] = [run |-> 0, digest |-> FALSE]
      /\ file \in [Local!Files -> Local!Content \cup {Torn}]
      /\ temp["requests"] = None /\ temp["run"] = None
  BY <1>1 DEF Local!Init, Local!Files, Local!Content, Records
<1>3. pc \in [Callers -> Local!Steps] /\ \A c \in Callers : pc[c] = "idle"
  BY DEF Local!Init, Local!Steps
<1>4. mu \in [Callers -> Callers \cup {None}] /\ month \in Local!Months /\ runs \in 0 .. LastRun
      /\ requested \in [Videos -> Nat] /\ deaths \in 0 .. LastCrash
      /\ temp \in [Local!Files -> Local!Content \cup {Torn, None}]
      /\ job \in [Callers -> Local!Job \cup {None}]
  BY DEF Local!Init, ApartSetting, Local!Months
<1>5. Local!TypeOK
  BY <1>2, <1>3, <1>4 DEF ApartSetting, Local!TypeOK
<1>6. \A c \in Callers : TypedJob(c)
  BY <1>3 DEF TypedJob, Writing
<1> QED
  BY <1>1, <1>2, <1>5, <1>6 DEF LocalTyped, OrTorn

\* What a caller makes of requests it has read whole is requests.
LEMMA ChangedIsRequests ==
  ASSUME ApartSetting, LocalTyped, NEW c \in Callers, pc[c] = "read", Local!Accepts(c, Records)
  PROVE  Local!Changed(c, Records) \in Local!Requests
<1>1. /\ Records \in Local!Requests /\ month \in Local!Months
      /\ job[c].kind \in {"claim", "complete"} /\ job[c].video \in Videos
  BY DEF LocalTyped, OrTorn, TypedJob, Local!Accepts, Local!TypeOK
<1>2. CASE job[c].kind = "claim"
  <2>1. [month |-> month, completed |-> FALSE] \in Local!Claim
    BY <1>1 DEF Local!Claim
  <2> QED
    BY <1>1, <1>2, <2>1 DEF Local!Changed, Local!Requests
<1>3. CASE job[c].kind = "complete"
  <2>1. Records[job[c].video] # None
    BY <1>3 DEF Local!Accepts
  <2>2. Records[job[c].video] \in Local!Claim
    BY <1>1, <2>1 DEF Local!Requests
  <2>3. [Records[job[c].video] EXCEPT !.completed = TRUE] \in Local!Claim
    BY <2>2 DEF Local!Claim
  <2> QED
    BY <1>1, <1>3, <2>3 DEF Local!Changed, Local!Requests
<1> QED
  BY <1>1, <1>2, <1>3

\* A caller's steps keep the typing.
LEMMA CallerKeepsTyped ==
  ASSUME ApartSetting, LocalTyped, NEW c \in Callers,
         Local!CallerStep(c) \/ Local!Fail(c) \/ Local!Crash(c)
  PROVE  LocalTyped'
<1>0. /\ Local!TypeOK /\ TypedJob(c) /\ Local!Home(c) = {c} /\ c # None
      /\ file \in [Local!Files -> Local!Content \cup {Torn}]
      /\ temp \in [Local!Files -> Local!Content \cup {Torn, None}]
      /\ mu \in [Callers -> Callers \cup {None}]
      /\ pc \in [Callers -> Local!Steps] /\ job \in [Callers -> Local!Job \cup {None}]
  BY DEF LocalTyped, Local!TypeOK, Local!Home, ApartSetting
<1>1. ASSUME /\ \A d \in Callers \ {c} : pc'[d] = pc[d] /\ job'[d] = job[d]
             /\ pc' \in [Callers -> Local!Steps] /\ job' \in [Callers -> Local!Job \cup {None}]
             /\ pc'[c] # "idle" => job'[c] \in Local!Job
             /\ TypedJob(c)'
             /\ mu' \in [Callers -> Callers \cup {None}]
             /\ runs' \in 0 .. LastRun /\ deaths' \in 0 .. LastCrash
             /\ requested' \in [Videos -> Nat] /\ month' \in Local!Months
             /\ file' \in [Local!Files -> Local!Content \cup {Torn}]
             /\ temp' \in [Local!Files -> Local!Content \cup {Torn, None}]
             /\ Records' \in OrTorn(Local!Requests) /\ file'["run"] \in OrTorn(Local!Run)
             /\ temp'["requests"] \in OrTorn(Local!Requests) \cup {None}
             /\ temp'["run"] \in OrTorn(Local!Run) \cup {None}
      PROVE  LocalTyped'
  <2>1. Local!TypeOK'
    BY <1>0, <1>1 DEF Local!TypeOK, ApartSetting
  <2>2. \A d \in Callers : TypedJob(d)'
    BY <1>1 DEF LocalTyped, TypedJob, Writing
  <2> QED
    BY <1>1, <2>1, <2>2 DEF LocalTyped, Records
<1>2. ASSUME UNCHANGED <<file, temp, month, requested>>,
             \A d \in Callers \ {c} : pc'[d] = pc[d] /\ job'[d] = job[d],
             pc' \in [Callers -> Local!Steps], job' \in [Callers -> Local!Job \cup {None}],
             pc'[c] # "idle" => job'[c] \in Local!Job,
             TypedJob(c)', mu' \in [Callers -> Callers \cup {None}],
             runs' \in 0 .. LastRun, deaths' \in 0 .. LastCrash
      PROVE  LocalTyped'
  BY <1>0, <1>1, <1>2 DEF LocalTyped, Records, Local!TypeOK
<1>3. ASSUME NEW stage \in Local!Steps, NEW kind \in Local!Kinds, NEW v \in Videos \cup {None},
             NEW content \in Local!Content \cup {None}, Local!Begin(c, stage, kind, v, content)
      PROVE  /\ pc'[c] = stage /\ job'[c].kind = kind /\ job'[c].video = v
             /\ job'[c].content = content
             /\ pc' \in [Callers -> Local!Steps]
             /\ job' \in [Callers -> Local!Job \cup {None}] /\ job'[c] \in Local!Job
             /\ \A d \in Callers \ {c} : pc'[d] = pc[d] /\ job'[d] = job[d]
  <2>1. [kind |-> kind, video |-> v, content |-> content] \in Local!Job
    BY <1>3 DEF Local!Job
  <2> QED
    BY <1>0, <1>3, <2>1 DEF Local!Begin, Local!Goto
<1>4. ASSUME NEW v \in Videos, Local!ClaimTranscript(c, v)
      PROVE  LocalTyped'
  <2>1. /\ Local!Begin(c, "read", "claim", v, None)
        /\ UNCHANGED <<file, temp, mu, month, runs, requested, deaths>>
    BY <1>4 DEF Local!ClaimTranscript
  <2>2. "read" \in Local!Steps /\ "claim" \in Local!Kinds
    BY DEF Local!Steps, Local!Kinds
  <2>3. TypedJob(c)'
    BY <1>3, <2>1, <2>2 DEF TypedJob, Writing
  <2> QED
    BY <1>0, <1>2, <1>3, <2>1, <2>2, <2>3 DEF Local!TypeOK
<1>5. CASE Local!ReadRequests(c)
  <2>1. /\ pc[c] = "read" /\ Local!Accepts(c, Records)
        /\ mu' = [d \in Callers |-> IF d \in {c} THEN c ELSE mu[d]]
        /\ job' = [job EXCEPT ![c].content = Local!Changed(c, Records)]
        /\ pc' = [pc EXCEPT ![c] = "truncate"]
        /\ UNCHANGED <<file, temp, month, runs, requested, deaths>>
    BY <1>0, <1>5 DEF Local!ReadRequests, Local!Goto, Local!Lock, Records
  <2>2. /\ job[c] \in Local!Job /\ Local!Changed(c, Records) \in Local!Requests
        /\ job[c].kind \in {"claim", "complete"} /\ job[c].video \in Videos
    BY <1>0, <2>1, ChangedIsRequests DEF Local!TypeOK, TypedJob
  <2>3. /\ [job[c] EXCEPT !.content = Local!Changed(c, Records)] \in Local!Job
        /\ [job[c] EXCEPT !.content = Local!Changed(c, Records)].content
             = Local!Changed(c, Records)
        /\ [job[c] EXCEPT !.content = Local!Changed(c, Records)].kind = job[c].kind
        /\ [job[c] EXCEPT !.content = Local!Changed(c, Records)].video = job[c].video
    BY <2>2 DEF Local!Job, Local!Content
  <2>4. job'[c] = [job[c] EXCEPT !.content = Local!Changed(c, Records)]
        /\ job' \in [Callers -> Local!Job \cup {None}]
    BY <1>0, <2>1, <2>3
  <2>5. pc' \in [Callers -> Local!Steps] /\ pc'[c] = "truncate"
    BY <1>0, <2>1 DEF Local!Steps
  <2>6. TypedJob(c)'
    BY <2>2, <2>3, <2>4, <2>5 DEF TypedJob, Writing
  <2>7. \A d \in Callers \ {c} : pc'[d] = pc[d] /\ job'[d] = job[d]
    BY <1>0, <2>1
  <2>8. mu' \in [Callers -> Callers \cup {None}]
    BY <1>0, <2>1
  <2> QED
    BY <1>0, <1>2, <2>1, <2>3, <2>4, <2>5, <2>6, <2>7, <2>8 DEF Local!TypeOK
<1>6. CASE Local!Refuse(c) \/ Local!Fail(c) \/ Local!Crash(c)
  <2>1. /\ pc' \in [Callers -> Local!Steps] /\ pc'[c] = "idle"
        /\ job' \in [Callers -> Local!Job \cup {None}]
        /\ \A d \in Callers \ {c} : pc'[d] = pc[d] /\ job'[d] = job[d]
        /\ mu' \in [Callers -> Callers \cup {None}]
        /\ UNCHANGED <<file, temp, month, runs, requested>>
    BY <1>0, <1>6 DEF Local!Refuse, Local!Fail, Local!Crash, Local!Return, Local!Goto,
       Local!Unlock,
                      Local!Steps
  <2>2. deaths' \in 0 .. LastCrash
    BY <1>0, <1>6 DEF Local!Refuse, Local!Fail, Local!Crash, Local!TypeOK, ApartSetting
  <2>3. TypedJob(c)'
    BY <2>1 DEF TypedJob, Writing
  <2> QED
    BY <1>0, <1>2, <2>1, <2>2, <2>3 DEF Local!TypeOK
<1>7. CASE Local!RequestTranscript(c)
  <2> DEFINE v == job[c].video
  <2>1. /\ v \in Videos /\ requested' = [requested EXCEPT ![v] = @ + 1]
        /\ Local!Begin(c, "read", "complete", v, None)
        /\ UNCHANGED <<file, temp, mu, month, runs, deaths>>
    BY <1>0, <1>7 DEF Local!RequestTranscript, TypedJob
  <2>2. "read" \in Local!Steps /\ "complete" \in Local!Kinds
    BY DEF Local!Steps, Local!Kinds
  <2>3. /\ pc'[c] = "read" /\ job'[c].kind = "complete" /\ job'[c].video = v
        /\ pc' \in [Callers -> Local!Steps]
        /\ job' \in [Callers -> Local!Job \cup {None}] /\ job'[c] \in Local!Job
        /\ \A d \in Callers \ {c} : pc'[d] = pc[d] /\ job'[d] = job[d]
    BY <1>3, <2>1, <2>2
  <2>4. TypedJob(c)'
    BY <2>1, <2>3 DEF TypedJob, Writing
  <2>5. requested' \in [Videos -> Nat]
    BY <1>0, <2>1 DEF Local!TypeOK
  <2>6. file' = file /\ temp' = temp
    BY <2>1
  <2> QED
    BY <1>0, <1>1, <2>1, <2>3, <2>4, <2>5, <2>6 DEF Local!TypeOK, LocalTyped, Records
<1>8. CASE Local!SaveRun(c)
  <2> DEFINE content == [run |-> runs + 1, digest |-> FALSE]
  <2>1. /\ Local!Begin(c, "lock", "run", None, content) /\ runs' = runs + 1 /\ runs < LastRun
        /\ UNCHANGED <<file, temp, mu, month, requested, deaths>>
    BY <1>8 DEF Local!SaveRun
  <2>2. runs' \in 0 .. LastRun /\ content \in Local!Run /\ content \in Local!Content
    BY <1>0, <2>1 DEF Local!TypeOK, Local!Run, Local!Content, ApartSetting
  <2> HIDE DEF content
  <2>3. "lock" \in Local!Steps /\ "run" \in Local!Kinds
    BY DEF Local!Steps, Local!Kinds
  <2>4. TypedJob(c)'
    BY <1>3, <2>1, <2>2, <2>3 DEF TypedJob, Writing
  <2> QED
    BY <1>0, <1>2, <1>3, <2>1, <2>2, <2>3, <2>4 DEF Local!TypeOK
<1>9. CASE Local!SaveDigest(c)
  <2> DEFINE content == [file["run"] EXCEPT !.digest = TRUE]
  <2>1. /\ Local!Begin(c, "lock", "run", None, content) /\ file["run"] # Torn
        /\ UNCHANGED <<file, temp, mu, month, runs, requested, deaths>>
    BY <1>9 DEF Local!SaveDigest
  <2>2. content \in Local!Run /\ content \in Local!Content
    BY <2>1 DEF LocalTyped, OrTorn, Local!Run, Local!Content
  <2> HIDE DEF content
  <2>3. "lock" \in Local!Steps /\ "run" \in Local!Kinds
    BY DEF Local!Steps, Local!Kinds
  <2>4. TypedJob(c)'
    BY <1>3, <2>1, <2>2, <2>3 DEF TypedJob, Writing
  <2> QED
    BY <1>0, <1>2, <1>3, <2>1, <2>2, <2>3, <2>4 DEF Local!TypeOK
<1>10. CASE Local!LockRun(c)
  <2>1. /\ pc[c] = "lock" /\ mu' = [d \in Callers |-> IF d \in {c} THEN c ELSE mu[d]]
        /\ pc' = [pc EXCEPT ![c] = "truncate"]
        /\ UNCHANGED <<file, temp, job, month, runs, requested, deaths>>
    BY <1>0, <1>10 DEF Local!LockRun, Local!Goto, Local!Lock
  <2>2. /\ pc' \in [Callers -> Local!Steps] /\ pc'[c] = "truncate" /\ job[c] \in Local!Job
        /\ \A d \in Callers \ {c} : pc'[d] = pc[d]
        /\ mu' \in [Callers -> Callers \cup {None}]
    BY <1>0, <2>1 DEF Local!Steps, Local!TypeOK
  <2>3. TypedJob(c)'
    BY <1>0, <2>1, <2>2 DEF TypedJob, Writing
  <2> QED
    BY <1>0, <1>2, <2>1, <2>2, <2>3 DEF Local!TypeOK
<1>11. CASE Local!TruncateTemp(c) \/ Local!WriteTemp(c)
  <2>1. /\ Writing(c) /\ pc[c] # "idle" /\ pc' \in [Callers -> Local!Steps]
        /\ pc'[c] \in {"write", "rename"}
        /\ \A d \in Callers \ {c} : pc'[d] = pc[d]
        /\ \/ temp' = [temp EXCEPT ![Local!FileOf(c)] = Torn]
           \/ temp' = [temp EXCEPT ![Local!FileOf(c)] = job[c].content]
        /\ UNCHANGED <<file, mu, job, month, runs, requested, deaths>>
    BY <1>0, <1>11 DEF Local!TruncateTemp, Local!WriteTemp, Local!Goto, Local!Steps, Writing
  <2>2. TypedJob(c)' /\ job[c] \in Local!Job
    BY <1>0, <2>1 DEF TypedJob, Writing, Local!TypeOK
  <2>3. CASE job[c].kind = "run"
    <3>1. job[c].content \in Local!Run /\ Local!FileOf(c) = "run"
      BY <1>0, <2>1, <2>3 DEF TypedJob, Local!FileOf
    <3>2. /\ temp' \in [Local!Files -> Local!Content \cup {Torn, None}]
          /\ temp'["run"] \in OrTorn(Local!Run) \cup {None}
               /\ temp'["requests"] = temp["requests"]
      BY <1>0, <2>1, <3>1 DEF Local!Files, Local!Content, OrTorn
    <3> QED
      BY <1>0, <1>1, <2>1, <2>2, <3>2 DEF LocalTyped, Local!TypeOK, Records
  <2>4. CASE job[c].kind # "run"
    <3>1. job[c].content \in Local!Requests /\ Local!FileOf(c) = "requests"
      BY <1>0, <2>1, <2>4 DEF TypedJob, Local!FileOf
    <3>2. /\ temp' \in [Local!Files -> Local!Content \cup {Torn, None}]
          /\ temp'["requests"] \in OrTorn(Local!Requests) \cup {None}
               /\ temp'["run"] = temp["run"]
      BY <1>0, <2>1, <3>1 DEF Local!Files, Local!Content, OrTorn
    <3> QED
      BY <1>0, <1>1, <2>1, <2>2, <3>2 DEF LocalTyped, Local!TypeOK, Records
  <2> QED
    BY <2>3, <2>4
<1>12. CASE Local!Rename(c)
  <2>1. /\ pc[c] = "rename" /\ temp[Local!FileOf(c)] # None
        /\ file' = [file EXCEPT ![Local!FileOf(c)] = temp[Local!FileOf(c)]]
        /\ temp' = [temp EXCEPT ![Local!FileOf(c)] = None]
        /\ mu' \in [Callers -> Callers \cup {None}]
        /\ UNCHANGED <<month, runs, requested, deaths>>
    BY <1>0, <1>12 DEF Local!Rename, Local!Unlock
  <2>2. /\ pc' \in [Callers -> Local!Steps] /\ job' \in [Callers -> Local!Job \cup {None}]
        /\ \A d \in Callers \ {c} : pc'[d] = pc[d] /\ job'[d] = job[d]
        /\ IF job[c].kind = "claim" THEN pc'[c] = "request" /\ job'[c] = job[c]
           ELSE pc'[c] = "idle"
    BY <1>0, <1>12 DEF Local!Rename, Local!Return, Local!Goto, Local!Steps
  <2>3. TypedJob(c)' /\ (pc'[c] # "idle" => job'[c] \in Local!Job)
    <3>1. job[c] \in Local!Job
      BY <1>0, <2>1 DEF Local!TypeOK
    <3>2. job[c].kind = "claim" => job[c].video \in Videos
      BY <1>0, <2>1 DEF TypedJob, Writing
    <3> QED
      BY <2>2, <3>1, <3>2 DEF TypedJob, Writing
  <2>4. Local!FileOf(c) \in Local!Files /\ Local!Files = {"run", "requests"}
    BY DEF Local!FileOf, Local!Files
  <2>5. /\ file' \in [Local!Files -> Local!Content \cup {Torn}]
        /\ temp' \in [Local!Files -> Local!Content \cup {Torn, None}]
    BY <1>0, <2>1, <2>4
  <2>6. /\ Records' \in OrTorn(Local!Requests) /\ file'["run"] \in OrTorn(Local!Run)
        /\ temp'["requests"] \in OrTorn(Local!Requests) \cup {None}
        /\ temp'["run"] \in OrTorn(Local!Run) \cup {None}
    BY <1>0, <2>1, <2>4 DEF LocalTyped, Records
  <2> QED
    BY <1>0, <1>1, <2>1, <2>2, <2>3, <2>5, <2>6 DEF Local!TypeOK
<1> QED
  BY <1>4, <1>5, <1>6, <1>7, <1>8, <1>9, <1>10, <1>11, <1>12 DEF Local!CallerStep

\* A month ends, or nothing happens.
LEMMA MonthKeepsTyped ==
  ASSUME ApartSetting, LocalTyped, Local!NextMonth \/ UNCHANGED Local!vars
  PROVE  LocalTyped'
<1>1. month' \in Local!Months /\ UNCHANGED <<file, temp, mu, pc, job, runs, requested, deaths>>
  BY DEF Local!NextMonth, Local!vars, LocalTyped, Local!TypeOK, Local!Months, ApartSetting
<1>2. Local!TypeOK'
  BY <1>1 DEF LocalTyped, Local!TypeOK
<1> QED
  BY <1>1, <1>2 DEF LocalTyped, TypedJob, Writing, Records

-----------------------------------------------------------------------------

\* The outbox counts as FiniteSets does.
LEMMA GraphCardinality == \A S : Graph!Cardinality(S) = Cardinality(S)
BY DEF Graph!Cardinality, Cardinality

\* "Less than" on the natural numbers is a well-founded relation.
LEMMA LessThan == \E R : IsWellFoundedOn(R, Nat) /\ \A x, y \in Nat : <<x, y>> \in R <=> x < y
<1>1. \A x, y \in Nat : <<x, y>> \in OpToRel(<, Nat) <=> x < y
  BY DEF OpToRel
<1> WITNESS OpToRel(<, Nat)
<1> QED
  BY <1>1, NatLessThanWellFounded

\* Natural numbers, where there are any, have a least one among them.
LEMMA LeastExists ==
  ASSUME NEW T, T \subseteq Nat, T # {}
  PROVE  \E x \in T : \A y \in T : x <= y
<1>1. PICK R : IsWellFoundedOn(R, Nat) /\ \A x, y \in Nat : <<x, y>> \in R <=> x < y
  BY LessThan
<1>2. IsWellFoundedOn(R, Nat)
  BY <1>1
<1>3. \E x \in T : \A y \in T : ~ (<<y, x>> \in R)
  <2> HIDE <1>1
  <2> QED
    BY <1>2, WFMin, ZenonT(30)
<1>4. PICK x \in T : \A y \in T : ~ (<<y, x>> \in R)
  BY <1>3
<1>5. \A y \in T : ~(y < x)
  BY <1>1, <1>4
<1> QED
  BY <1>4, <1>5

\* Events, where there are any, have a newest one among them.
LEMMA NewestExists ==
  ASSUME NEW n \in Nat, NEW S \in SUBSET (1 .. n), S # {}
  PROVE  \E e \in S : \A d \in S : d <= e
<1> DEFINE T == {k \in Nat : \A d \in S : d <= k}
<1>1. T \subseteq Nat /\ n \in T
  OBVIOUS
<1>2. PICK k \in T : \A j \in T : k <= j
  BY <1>1, LeastExists
<1>3. k \in S
  <2> SUFFICES ASSUME k \notin S PROVE FALSE
    OBVIOUS
  <2>1. k \in Nat /\ \A d \in S : d \in 1 .. n /\ d <= k /\ d # k
    BY <1>2
  <2>2. k >= 1 /\ \A d \in S : d <= k - 1
    <3>0. \E d : d \in S
      OBVIOUS
    <3>1. PICK d \in S : d \in 1 .. n /\ d <= k
      BY <2>1, <3>0
    <3>2. ASSUME NEW c \in S PROVE c <= k - 1
      <4>1. c \in Int /\ c <= k /\ c # k
        BY <2>1
      <4> QED
        BY <2>1, <4>1
    <3> QED
      BY <2>1, <3>1, <3>2
  <2>3. k - 1 \in T
    BY <2>1, <2>2
  <2> QED
    BY <1>2, <2>1, <2>3
<1> QED
  BY <1>2, <1>3

\* A batch holds no more events than it should.
LEMMA FirstBatchFits ==
  ASSUME BatchSize \in Nat, NEW events \in Seq(Graph!Event)
  PROVE  /\ Graph!FirstBatch(events) \subseteq Graph!Available(events)
         /\ Cardinality(Graph!FirstBatch(events)) <= BatchSize
<1> DEFINE A == Graph!Available(events)
           B == Graph!FirstBatch(events)
           Upto(e) == {d \in A : d <= e}
<1>1. Len(events) \in Nat /\ A \subseteq 1 .. Len(events)
  BY DEF Graph!Available
<1>2. B = {e \in A : Cardinality(Upto(e)) <= BatchSize}
  BY GraphCardinality DEF Graph!FirstBatch
<1>3. IsFiniteSet(1 .. Len(events))
  BY <1>1, FS_Interval
<1> HIDE DEF A, B
<1>4. CASE B = {}
  <2>1. Cardinality(B) = 0
    BY <1>4, FS_EmptySet
  <2> QED
    BY <1>4, <2>1 DEF B
<1>5. CASE B # {}
  <2>1. PICK e \in B : \A d \in B : d <= e
    BY <1>1, <1>2, <1>5, NewestExists
  <2>2. B \subseteq Upto(e) /\ Upto(e) \subseteq 1 .. Len(events)
    BY <1>1, <1>2, <2>1
  <2>3. Cardinality(B) <= Cardinality(Upto(e)) /\ Cardinality(B) \in Nat
          /\ Cardinality(Upto(e)) \in Nat
    BY <1>3, <2>2, FS_Subset, FS_CardinalityType
  <2>4. Cardinality(Upto(e)) <= BatchSize
    BY <1>2, <2>1
  <2> QED
    BY <1>2, <2>3, <2>4 DEF A, B
<1> QED
  BY <1>4, <1>5

-----------------------------------------------------------------------------

Touched == applied \cup failed

\* An event that a run finds in its place: in the table, and not overtaken by a younger one.
InOrder(e) == outbox[e].committed /\ ~outbox[e].late

Settled(s) ==
  /\ batch[s] = {} => step[s] = "apply"
  /\ \A e \in batch[s] :
       /\ outbox[e].committed
       /\ (\A d \in batch[s] : e <= d) /\ step[s] # "apply" => e \in Touched
       /\ \A d \in 1 .. e : InOrder(d) /\ d \notin Touched => d \in batch[s]

\* What runs have tried is an initial part of the events in their order, but for those
\* that were overtaken; the batch of a run has every older event nobody has tried.
GraphInv ==
  /\ Graph!TypeOK
  /\ \A e \in 1 .. Len(outbox) : outbox[e].processed \/ outbox[e].waiting => e \in Touched
  /\ \A e \in Touched :
       outbox[e].committed /\ \A d \in 1 .. e : InOrder(d) => d \in Touched
  /\ \A s \in Syncs : Settled(s)
  /\ \A x \in Sources : graph[x] # 0 => graph[x] \in applied

GraphSetting ==
  /\ LastEvent \in Nat /\ LastCrash \in Nat /\ BatchSize \in Nat

\* What is assumed of the constants.
LEMMA GraphSettingHolds == GraphSetting
BY BoundsAssumption, BatchAssumption DEF GraphSetting

\* The invariant holds initially.
LEMMA GraphInitInv == ASSUME GraphSetting, Graph!Init PROVE GraphInv
<1>1. Len(outbox) = 0 /\ outbox \in Seq(Graph!Event) /\ 1 .. 0 = {} /\ Cardinality({}) = 0
  BY FS_EmptySet DEF Graph!Init
<1>2. \A s \in Syncs : Graph!Cardinality(batch[s]) <= BatchSize
  BY <1>1, GraphCardinality DEF Graph!Init, GraphSetting
<1>3. Graph!TypeOK
  BY <1>1, <1>2 DEF Graph!Init, Graph!TypeOK, Graph!Steps, GraphSetting
<1> QED
  BY <1>1, <1>3 DEF Graph!Init, GraphInv, Touched, Settled

\* A save begins: an event that nobody sees yet.
LEMMA BeginKeepsInv ==
  ASSUME GraphSetting, GraphInv, NEW x \in Sources, Graph!BeginSave(x)
  PROVE  GraphInv'
<1> DEFINE new == [source |-> x, committed |-> FALSE, late |-> FALSE,
                   processed |-> FALSE, waiting |-> FALSE]
<1>1. /\ Graph!TypeOK /\ Len(outbox) < LastEvent /\ outbox' = Append(outbox, new)
      /\ UNCHANGED <<graph, batch, step, applied, failed, crashes>>
  BY DEF GraphInv, Graph!BeginSave
<1>2. new \in Graph!Event /\ ~new.committed /\ ~new.processed /\ ~new.waiting
  BY DEF Graph!Event
<1> HIDE DEF new
<1>3. /\ outbox' \in Seq(Graph!Event) /\ Len(outbox') = Len(outbox) + 1 /\ Len(outbox) \in Nat
      /\ outbox'[Len(outbox) + 1] = new
      /\ \A e \in 1 .. Len(outbox) : outbox'[e] = outbox[e]
  BY <1>1, <1>2 DEF Graph!TypeOK
<1>4. Graph!TypeOK'
  BY <1>1, <1>3 DEF Graph!TypeOK, GraphSetting
<1>5. \A e \in 1 .. Len(outbox') :
        outbox'[e].committed \/ outbox'[e].processed \/ outbox'[e].waiting => e \in 1 .. Len(outbox)
  BY <1>2, <1>3
<1>6. Touched \subseteq 1 .. Len(outbox) /\ Touched' = Touched
  BY <1>1 DEF Touched, Graph!TypeOK
<1>7. ASSUME NEW s \in Syncs PROVE Settled(s)'
  <2>1. Settled(s) /\ batch[s] \subseteq 1 .. Len(outbox)
    BY <1>1 DEF GraphInv, Graph!TypeOK
  <2> QED
    BY <1>1, <1>3, <1>6, <2>1 DEF Settled, InOrder
<1>8. \A e \in Touched' :
        outbox'[e].committed /\ \A d \in 1 .. e : InOrder(d)' => d \in Touched'
  BY <1>1, <1>3, <1>6 DEF GraphInv, InOrder
<1>9. \A e \in 1 .. Len(outbox') : outbox'[e].processed \/ outbox'[e].waiting => e \in Touched'
  BY <1>3, <1>5, <1>6 DEF GraphInv
<1> QED
  BY <1>1, <1>4, <1>7, <1>8, <1>9 DEF GraphInv

\* A record of the outbox changes.
LEMMA OutboxChanges ==
  ASSUME Graph!TypeOK, NEW e \in 1 .. Len(outbox), NEW r \in Graph!Event,
         outbox' = [outbox EXCEPT ![e] = r]
  PROVE  /\ outbox' \in Seq(Graph!Event) /\ Len(outbox') = Len(outbox) /\ outbox'[e] = r
         /\ \A d \in 1 .. Len(outbox) : d # e => outbox'[d] = outbox[d]
BY DEF Graph!TypeOK

\* A save is committed.
LEMMA EnqueueKeepsInv ==
  ASSUME GraphSetting, GraphInv, NEW e \in Graph!Events, Graph!Enqueue(e)
  PROVE  GraphInv'
<1> DEFINE late == \E d \in e .. Len(outbox) : outbox[d].committed
           r == [outbox[e] EXCEPT !.committed = TRUE, !.late = late]
<1>1. /\ Graph!TypeOK /\ e \in 1 .. Len(outbox) /\ ~outbox[e].committed
      /\ UNCHANGED <<graph, batch, step, applied, failed, crashes>>
  BY DEF GraphInv, Graph!Enqueue
<1>2. outbox[e] \in Graph!Event /\ outbox \in Seq(Graph!Event)
  BY <1>1 DEF Graph!TypeOK
<1>3. outbox' = [outbox EXCEPT ![e] = r]
  BY <1>1, <1>2 DEF Graph!Enqueue, Graph!Event
<1>4. /\ r \in Graph!Event /\ r.committed = TRUE /\ (r.late <=> late)
      /\ r.processed = outbox[e].processed /\ r.waiting = outbox[e].waiting
  BY <1>2 DEF Graph!Event
<1> HIDE DEF r
<1>5. /\ outbox' \in Seq(Graph!Event) /\ Len(outbox') = Len(outbox) /\ outbox'[e] = r
      /\ \A d \in 1 .. Len(outbox) : d # e => outbox'[d] = outbox[d]
  BY <1>1, <1>3, <1>4, OutboxChanges
<1>6. Graph!TypeOK'
  BY <1>1, <1>5 DEF Graph!TypeOK
<1>7. Touched \subseteq 1 .. Len(outbox) /\ Touched' = Touched /\ Len(outbox) \in Nat
  BY <1>1, <1>2 DEF Touched, Graph!TypeOK
<1>8. ASSUME NEW d \in 1 .. Len(outbox), outbox[d].committed, NEW c \in 1 .. d, InOrder(c)'
      PROVE  InOrder(c) /\ c # e
  <2>1. c \in 1 .. Len(outbox)
    BY <1>7
  <2>2. c # e
    <3> SUFFICES ASSUME c = e PROVE FALSE
      OBVIOUS
    <3>1. d \in e .. Len(outbox)
      BY <1>7
    <3> QED
      BY <1>4, <1>5, <1>8, <3>1 DEF InOrder
  <2> QED
    BY <1>5, <1>8, <2>1, <2>2 DEF InOrder
<1>9. ASSUME NEW s \in Syncs PROVE Settled(s)'
  <2>1. Settled(s) /\ batch[s] \subseteq 1 .. Len(outbox)
    BY <1>1 DEF GraphInv, Graph!TypeOK
  <2>2. \A d \in batch[s] : outbox'[d].committed
    BY <1>1, <1>5, <2>1 DEF Settled
  <2>3. \A d \in batch[s] : \A c \in 1 .. d : InOrder(c)' => InOrder(c)
    BY <1>8, <2>1 DEF Settled
  <2> QED
    BY <1>1, <1>7, <2>1, <2>2, <2>3 DEF Settled
<1>10. \A d \in Touched' :
         outbox'[d].committed /\ \A c \in 1 .. d : InOrder(c)' => c \in Touched'
  <2> SUFFICES ASSUME NEW d \in Touched
               PROVE  outbox'[d].committed /\ \A c \in 1 .. d : InOrder(c)' => c \in Touched
    BY <1>7
  <2>1. d \in 1 .. Len(outbox) /\ outbox[d].committed
    BY <1>7 DEF GraphInv
  <2>2. \A c \in 1 .. d : InOrder(c)' => InOrder(c)
    BY <1>8, <2>1
  <2>3. outbox'[d].committed
    BY <1>1, <1>5, <2>1
  <2> QED
    BY <2>2, <2>3 DEF GraphInv
<1>11. \A d \in 1 .. Len(outbox') : outbox'[d].processed \/ outbox'[d].waiting => d \in Touched'
  BY <1>1, <1>4, <1>5, <1>7 DEF GraphInv
<1> QED
  BY <1>1, <1>6, <1>9, <1>10, <1>11 DEF GraphInv

\* A run reads its batch: of the available events as many as fit, from the oldest one on.
LEMMA ReadKeepsInv ==
  ASSUME GraphSetting, GraphInv, NEW s \in Syncs, Graph!ReadPending(s)
  PROVE  GraphInv'
<1> DEFINE A == Graph!Available(outbox)
           B == Graph!FirstBatch(outbox)
<1>1. /\ Graph!TypeOK /\ Settled(s) /\ batch[s] = {} /\ step[s] = "apply"
      /\ batch' = [batch EXCEPT ![s] = B]
      /\ UNCHANGED <<outbox, graph, step, applied, failed, crashes>>
      /\ outbox \in Seq(Graph!Event) /\ Len(outbox) \in Nat
  BY DEF GraphInv, Graph!ReadPending, Graph!Idle, Settled, Graph!TypeOK
<1>2. B \subseteq A /\ Cardinality(B) <= BatchSize
  BY <1>1, FirstBatchFits DEF GraphSetting
<1>3. A = {e \in 1 .. Len(outbox) :
             outbox[e].committed /\ ~outbox[e].processed /\ ~outbox[e].waiting}
  BY DEF Graph!Available
<1>4. ASSUME NEW e \in B, NEW d \in A, d <= e
      PROVE  d \in B
  <2>1. e \in A /\ Cardinality({c \in A : c <= e}) <= BatchSize
    BY GraphCardinality, <1>4 DEF Graph!FirstBatch
  <2>2. {c \in A : c <= d} \subseteq {c \in A : c <= e}
          /\ {c \in A : c <= e} \subseteq 1 .. Len(outbox)
    BY <1>1, <1>3, <1>4, <2>1
  <2>3. IsFiniteSet({c \in A : c <= e})
    <3>1. IsFiniteSet(1 .. Len(outbox))
      BY <1>1, FS_Interval
    <3> QED
      BY <2>2, <3>1, FS_Subset
  <2>4. Cardinality({c \in A : c <= d}) <= Cardinality({c \in A : c <= e})
        /\ Cardinality({c \in A : c <= d}) \in Nat /\ Cardinality({c \in A : c <= e}) \in Nat
    BY <2>2, <2>3, FS_Subset, FS_CardinalityType
  <2>5. Cardinality({c \in A : c <= d}) <= BatchSize
    BY <2>1, <2>4 DEF GraphSetting
  <2> QED
    BY <2>5, GraphCardinality DEF Graph!FirstBatch
<1> HIDE DEF A, B
<1>5. batch'[s] = B /\ \A t \in Syncs \ {s} : batch'[t] = batch[t]
  BY <1>1 DEF Graph!TypeOK
<1>6. Graph!TypeOK'
  <2>1. batch' \in [Syncs -> SUBSET (1 .. Len(outbox))]
    BY <1>1, <1>2, <1>3 DEF Graph!TypeOK
  <2>2. \A t \in Syncs : Graph!Cardinality(batch'[t]) <= BatchSize
    BY <1>1, <1>2, <1>5, GraphCardinality DEF Graph!TypeOK
  <2> QED
    BY <1>1, <2>1, <2>2 DEF Graph!TypeOK
<1>7. ASSUME NEW t \in Syncs PROVE Settled(t)'
  <2>1. CASE t # s
    BY <1>1, <1>5, <2>1 DEF GraphInv, Settled, InOrder, Touched
  <2>2. CASE t = s
    <3>1. \A e \in B : outbox[e].committed /\ e \in 1 .. Len(outbox)
      BY <1>2, <1>3
    <3>2. ASSUME NEW e \in B, NEW d \in 1 .. e, InOrder(d), d \notin Touched
          PROVE  d \in B
      <4>1. d \in 1 .. Len(outbox) /\ d <= e
        BY <1>1, <3>1
      <4>2. d \in A
        BY <1>3, <3>2, <4>1 DEF GraphInv, InOrder
      <4> QED
        BY <1>4, <4>1, <4>2
    <3> QED
      BY <1>1, <1>5, <2>2, <3>1, <3>2 DEF Settled, InOrder, Touched
  <2> QED
    BY <2>1, <2>2
<1> QED
  BY <1>1, <1>6, <1>7 DEF GraphInv, Touched, InOrder

\* A run tries its oldest event, and Neo4j takes it, fails, or takes it and does not answer.
LEMMA TryKeepsInv ==
  ASSUME GraphSetting, GraphInv, NEW s \in Syncs, NEW e \in Graph!Events,
         Graph!SyncEvent(s, e) \/ Graph!SyncFails(s, e) \/ Graph!SyncUnanswered(s, e)
  PROVE  GraphInv'
<1>1. /\ Graph!TypeOK /\ Settled(s) /\ e \in batch[s] /\ \A d \in batch[s] : e <= d
      /\ Touched' = Touched \cup {e} /\ UNCHANGED <<outbox, batch, crashes>>
      /\ applied' \in {applied, applied \cup {e}} /\ failed' \in {failed, failed \cup {e}}
      /\ \/ graph' = graph
         \/ graph' = [graph EXCEPT ![outbox[e].source] = e] /\ applied' = applied \cup {e}
      /\ \E k \in {"processed", "failed"} : step' = [step EXCEPT ![s] = k]
  BY DEF GraphInv, Graph!SyncEvent, Graph!SyncFails, Graph!SyncUnanswered, Graph!At, Graph!Apply,
         Graph!Goto, Touched
<1>2. e \in 1 .. Len(outbox) /\ outbox[e] \in Graph!Event /\ Len(outbox) \in Nat
  BY <1>1 DEF Graph!TypeOK
<1>3. outbox[e].source \in Sources
  BY <1>2 DEF Graph!Event
<1>4. step' \in [Syncs -> Graph!Steps] /\ \A t \in Syncs \ {s} : step'[t] = step[t]
  BY <1>1 DEF Graph!TypeOK, Graph!Steps
<1>5. /\ graph' \in [Sources -> 0 .. Len(outbox)]
      /\ \A x \in Sources : graph'[x] # 0 => graph'[x] \in applied'
  <2>1. graph \in [Sources -> 0 .. Len(outbox)] /\ e \in 0 .. Len(outbox)
    BY <1>1, <1>2 DEF Graph!TypeOK
  <2>2. \A x \in Sources : graph'[x] \in {graph[x], e} /\ (graph'[x] # graph[x] => e \in applied')
    BY <1>1, <1>3, <2>1
  <2>3. \A x \in Sources : graph'[x] # 0 => graph'[x] \in applied'
    BY <1>1, <2>2 DEF GraphInv
  <2>4. graph' \in [Sources -> 0 .. Len(outbox)]
    BY <1>1, <2>1
  <2> QED
    BY <2>3, <2>4
<1>6. Graph!TypeOK'
  BY <1>1, <1>2, <1>4, <1>5 DEF Graph!TypeOK
<1>7. \A d \in 1 .. e : InOrder(d) => d \in Touched \cup {e}
  <2> SUFFICES ASSUME NEW d \in 1 .. e, InOrder(d), d \notin Touched PROVE d = e
    OBVIOUS
  <2>1. d \in batch[s]
    BY <1>1 DEF Settled
  <2> QED
    BY <1>1, <1>2, <2>1
<1>8. \A d \in Touched' : outbox[d].committed /\ \A c \in 1 .. d : InOrder(c) => c \in Touched'
  BY <1>1, <1>7 DEF GraphInv, Settled
<1>9. ASSUME NEW t \in Syncs PROVE Settled(t)'
  <2>1. Settled(t)
    BY DEF GraphInv
  <2>2. batch[t] = {} => step'[t] = "apply"
    BY <1>1, <1>4, <2>1 DEF Settled
  <2>3. ASSUME NEW d \in batch[t], \A c \in batch[t] : d <= c, step'[t] # "apply"
        PROVE  d \in Touched'
    <3>1. CASE t = s
      <4>1. d = e
        BY <1>1, <1>2, <2>3, <3>1 DEF Graph!TypeOK
      <4> QED
        BY <1>1, <4>1
    <3>2. CASE t # s
      BY <1>1, <1>4, <2>1, <2>3, <3>2 DEF Settled
    <3> QED
      BY <3>1, <3>2
  <2> QED
    BY <1>1, <2>1, <2>2, <2>3 DEF Settled, InOrder
<1> QED
  BY <1>1, <1>5, <1>6, <1>8, <1>9 DEF GraphInv, InOrder

\* A run marks its oldest event, or cannot, and goes on; or it dies.
LEMMA MarkKeepsInv ==
  ASSUME GraphSetting, GraphInv, NEW s \in Syncs,
         \/ \E e \in Graph!Events :
              Graph!MarkProcessed(s, e) \/ Graph!MarkFailed(s, e) \/ Graph!MarkLost(s, e)
         \/ Graph!Crash(s)
  PROVE  GraphInv'
<1>0. /\ Graph!TypeOK /\ Settled(s) /\ outbox \in Seq(Graph!Event) /\ Len(outbox) \in Nat
      /\ UNCHANGED <<graph, applied, failed>> /\ Touched' = Touched
  BY DEF GraphInv, Graph!TypeOK, Graph!MarkProcessed, Graph!MarkFailed, Graph!MarkLost,
     Graph!Crash,
         Touched
<1>1. ASSUME outbox' \in Seq(Graph!Event), Len(outbox') = Len(outbox),
             \A d \in 1 .. Len(outbox) :
               /\ outbox'[d].committed = outbox[d].committed /\ outbox'[d].late = outbox[d].late
               /\ outbox'[d].processed \/ outbox'[d].waiting => d \in Touched,
             batch'[s] \subseteq batch[s], batch' = [batch EXCEPT ![s] = batch'[s]],
             \A e \in batch'[s], d \in batch[s] : d < e => d \in batch'[s] \cup Touched,
             step' = [step EXCEPT ![s] = "apply"], crashes' \in 0 .. LastCrash
      PROVE  GraphInv'
  <2>1. /\ \A t \in Syncs \ {s} : batch'[t] = batch[t] /\ step'[t] = step[t]
        /\ step'[s] = "apply" /\ step' \in [Syncs -> Graph!Steps]
        /\ batch' \in [Syncs -> SUBSET (1 .. Len(outbox))]
    BY <1>0, <1>1 DEF Graph!TypeOK, Graph!Steps
  <2>2. Cardinality(batch'[s]) <= BatchSize
    <3>1. IsFiniteSet(batch[s])
      <4>1. IsFiniteSet(1 .. Len(outbox)) /\ batch[s] \subseteq 1 .. Len(outbox)
        BY <1>0, FS_Interval DEF Graph!TypeOK
      <4> QED
        BY <4>1, FS_Subset
    <3>2. /\ Cardinality(batch'[s]) <= Cardinality(batch[s])
          /\ Cardinality(batch'[s]) \in Nat /\ Cardinality(batch[s]) \in Nat
      BY <1>1, <3>1, FS_Subset, FS_CardinalityType
    <3> QED
      BY <1>0, <3>2, GraphCardinality DEF Graph!TypeOK, GraphSetting
  <2>3. Graph!TypeOK'
    <3>1. \A t \in Syncs : Graph!Cardinality(batch'[t]) <= BatchSize
      BY <1>0, <2>1, <2>2, GraphCardinality DEF Graph!TypeOK
    <3> QED
      BY <1>0, <1>1, <2>1, <3>1 DEF Graph!TypeOK
  <2>4. \A d \in 1 .. Len(outbox) : InOrder(d)' <=> InOrder(d)
    BY <1>1 DEF InOrder
  <2>5. Touched \subseteq 1 .. Len(outbox)
    BY <1>0 DEF Touched, Graph!TypeOK
  <2>6. ASSUME NEW t \in Syncs PROVE Settled(t)'
    <3>1. Settled(t) /\ batch[t] \subseteq 1 .. Len(outbox)
      BY <1>0 DEF GraphInv, Graph!TypeOK
    <3>2. \A d \in batch[t] : \A c \in 1 .. d : c \in 1 .. Len(outbox)
      BY <1>0, <3>1
    <3>3. CASE t # s
      BY <1>0, <1>1, <2>1, <2>4, <3>1, <3>2, <3>3 DEF Settled
    <3>4. CASE t = s
      <4>1. ASSUME NEW e \in batch'[s], NEW d \in 1 .. e, InOrder(d), d \notin Touched
            PROVE  d \in batch'[s]
        <5>1. d \in batch[s]
          BY <1>0, <1>1, <4>1 DEF Settled
        <5>2. d < e \/ d = e
          BY <1>0, <1>1, <3>1, <3>4, <4>1
        <5> QED
          BY <1>1, <4>1, <5>1, <5>2
      <4> QED
        BY <1>0, <1>1, <2>1, <2>4, <3>1, <3>2, <3>4, <4>1 DEF Settled
    <3> QED
      BY <3>3, <3>4
  <2>7. \A d \in Touched :
          outbox'[d].committed /\ \A c \in 1 .. d : InOrder(c)' => c \in Touched
    <3>1. \A d \in Touched : \A c \in 1 .. d : c \in 1 .. Len(outbox)
      BY <1>0, <2>5
    <3> QED
      BY <1>1, <2>4, <2>5, <3>1 DEF GraphInv
  <2> QED
    BY <1>0, <1>1, <2>3, <2>6, <2>7 DEF GraphInv
<1>2. ASSUME NEW e \in Graph!Events,
             Graph!MarkProcessed(s, e) \/ Graph!MarkFailed(s, e) \/ Graph!MarkLost(s, e)
      PROVE  GraphInv'
  <2>1. /\ e \in batch[s] /\ (\A d \in batch[s] : e <= d) /\ step[s] # "apply"
        /\ batch' = [batch EXCEPT ![s] = @ \ {e}] /\ step' = [step EXCEPT ![s] = "apply"]
        /\ crashes' = crashes
    BY <1>2 DEF Graph!MarkProcessed, Graph!MarkFailed, Graph!MarkLost, Graph!At, Graph!Advance,
                Graph!Goto
  <2>2. e \in Touched /\ e \in 1 .. Len(outbox) /\ outbox[e] \in Graph!Event
    BY <1>0, <2>1 DEF Settled, Graph!TypeOK
  <2>3. batch'[s] = batch[s] \ {e}
    BY <1>0, <2>1 DEF Graph!TypeOK
  <2> DEFINE Kept ==
        /\ outbox' \in Seq(Graph!Event) /\ Len(outbox') = Len(outbox)
        /\ \A d \in 1 .. Len(outbox) :
             /\ outbox'[d].committed = outbox[d].committed /\ outbox'[d].late = outbox[d].late
             /\ outbox'[d].processed \/ outbox'[d].waiting => d \in Touched
  <2>4. Kept
    <3>1. CASE outbox' = outbox
      BY <1>0, <3>1 DEF GraphInv
    <3>2. ASSUME NEW r \in Graph!Event, outbox' = [outbox EXCEPT ![e] = r],
                 r.committed = outbox[e].committed, r.late = outbox[e].late
          PROVE  Kept
      BY <1>0, <2>2, <3>2, OutboxChanges DEF GraphInv
    <3>3. CASE Graph!MarkProcessed(s, e)
      <4> DEFINE r == [outbox[e] EXCEPT !.processed = TRUE]
      <4>1. outbox' = [outbox EXCEPT ![e] = r]
        BY <3>3 DEF Graph!MarkProcessed
      <4>2. r \in Graph!Event /\ r.committed = outbox[e].committed /\ r.late = outbox[e].late
        BY <2>2 DEF Graph!Event
      <4> QED
        BY <3>2, <4>1, <4>2
    <3>4. CASE Graph!MarkFailed(s, e)
      <4> DEFINE r == [outbox[e] EXCEPT !.waiting = TRUE]
      <4>1. outbox' = [outbox EXCEPT ![e] = r]
        BY <3>4 DEF Graph!MarkFailed, Graph!Postponed
      <4>2. r \in Graph!Event /\ r.committed = outbox[e].committed /\ r.late = outbox[e].late
        BY <2>2 DEF Graph!Event
      <4> QED
        BY <3>2, <4>1, <4>2
    <3>5. CASE Graph!MarkLost(s, e)
      BY <3>1, <3>5 DEF Graph!MarkLost
    <3> QED
      BY <1>2, <3>3, <3>4, <3>5
  <2>5. crashes' \in 0 .. LastCrash
    BY <1>0, <2>1 DEF Graph!TypeOK
  <2> QED
    BY <1>1, <2>1, <2>2, <2>3, <2>4, <2>5
<1>3. CASE Graph!Crash(s)
  <2>1. /\ batch' = [batch EXCEPT ![s] = {}] /\ step' = [step EXCEPT ![s] = "apply"]
        /\ crashes' \in 0 .. LastCrash /\ outbox' = outbox
    BY <1>0, <1>3 DEF Graph!Crash, Graph!Goto, Graph!TypeOK, GraphSetting
  <2>2. batch'[s] = {}
    BY <1>0, <2>1 DEF Graph!TypeOK
  <2> QED
    BY <1>0, <1>1, <2>1, <2>2 DEF GraphInv
<1> QED
  BY <1>2, <1>3

\* A postponed event comes back, or nothing happens.
LEMMA BackoffKeepsInv ==
  ASSUME GraphSetting, GraphInv, (\E e \in Graph!Events : Graph!BackoffOver(e))
         \/ UNCHANGED Graph!vars
  PROVE  GraphInv'
<1>1. CASE UNCHANGED Graph!vars
  <2>1. UNCHANGED <<outbox, graph, batch, step, applied, failed, crashes>>
    BY <1>1 DEF Graph!vars
  <2>2. Graph!TypeOK'
    BY <2>1 DEF GraphInv, Graph!TypeOK
  <2> QED
    BY <2>1, <2>2 DEF GraphInv, Settled, InOrder, Touched
<1>2. ASSUME NEW e \in Graph!Events, Graph!BackoffOver(e)
      PROVE  GraphInv'
  <2> DEFINE r == [outbox[e] EXCEPT !.waiting = FALSE]
  <2>1. /\ Graph!TypeOK /\ e \in 1 .. Len(outbox) /\ outbox' = [outbox EXCEPT ![e] = r]
        /\ UNCHANGED <<graph, batch, step, applied, failed, crashes>> /\ Touched' = Touched
    BY <1>2 DEF Graph!BackoffOver, GraphInv, Touched
  <2>2. outbox[e] \in Graph!Event /\ Len(outbox) \in Nat
    BY <2>1 DEF Graph!TypeOK
  <2>3. /\ r \in Graph!Event /\ r.committed = outbox[e].committed /\ r.late = outbox[e].late
        /\ r.processed = outbox[e].processed /\ ~r.waiting
    BY <2>2 DEF Graph!Event
  <2> HIDE DEF r
  <2>4. /\ outbox' \in Seq(Graph!Event) /\ Len(outbox') = Len(outbox) /\ outbox'[e] = r
        /\ \A d \in 1 .. Len(outbox) : d # e => outbox'[d] = outbox[d]
    BY <2>1, <2>3, OutboxChanges
  <2>5. \A d \in 1 .. Len(outbox) : /\ InOrder(d)' <=> InOrder(d)
                                    /\ outbox'[d].committed = outbox[d].committed
    BY <2>3, <2>4 DEF InOrder
  <2>6. Graph!TypeOK'
    BY <2>1, <2>4 DEF Graph!TypeOK
  <2>7. Touched \subseteq 1 .. Len(outbox)
    BY <2>1 DEF Touched, Graph!TypeOK
  <2>8. ASSUME NEW s \in Syncs PROVE Settled(s)'
    <3>1. Settled(s) /\ batch[s] \subseteq 1 .. Len(outbox)
      BY <2>1 DEF GraphInv, Graph!TypeOK
    <3>2. \A d \in batch[s] : \A c \in 1 .. d : c \in 1 .. Len(outbox)
      BY <2>2, <3>1
    <3> QED
      BY <2>1, <2>5, <3>1, <3>2 DEF Settled
  <2>9. \A d \in Touched : outbox'[d].committed /\ \A c \in 1 .. d : InOrder(c)' => c \in Touched
    <3>1. \A d \in Touched : \A c \in 1 .. d : c \in 1 .. Len(outbox)
      BY <2>2, <2>7
    <3> QED
      BY <2>5, <2>7, <3>1 DEF GraphInv
  <2>10. \A d \in 1 .. Len(outbox) : outbox'[d].processed \/ outbox'[d].waiting => d \in Touched
    BY <2>3, <2>4 DEF GraphInv
  <2> QED
    BY <2>1, <2>4, <2>6, <2>8, <2>9, <2>10 DEF GraphInv
<1> QED
  BY <1>1, <1>2

\* Every step keeps the invariant.
LEMMA GraphInductive == Spec => []GraphInv
<1>1. Init => GraphInv
  BY GraphSettingHolds, GraphInitInv DEF Init
<1>2. GraphInv /\ [Next]_vars => GraphInv'
  BY PartSteps, GraphSettingHolds, BeginKeepsInv, EnqueueKeepsInv, ReadKeepsInv, TryKeepsInv,
     MarkKeepsInv, BackoffKeepsInv
  DEF Graph!Next, Graph!SyncStep
<1> QED
  BY <1>1, <1>2, PTL DEF Spec

\* But for an event that was applied or failed before, and for one that a younger one
\* overtook on its way into the table, Neo4j goes from one event of a source to a younger
\* one (ReadPendingGraphEvents, the loop of cmd/graph-sync), for any number of
\* overlapping runs and any batch size.
THEOREM GraphKeepsOrder == Spec => InOrderUnlessRetried
<1>1. GraphInv /\ [Next]_vars =>
        [\A x \in Sources :
           graph'[x] < graph[x] =>
             graph'[x] \in applied \cup failed \/ outbox[graph'[x]].late]_(Graph!vars)
  <2> SUFFICES ASSUME GraphInv, [Next]_vars, NEW x \in Sources, graph'[x] < graph[x]
               PROVE  graph'[x] \in Touched \/ outbox[graph'[x]].late
    BY DEF Touched
  <2>1. graph \in [Sources -> 0 .. Len(outbox)] /\ Len(outbox) \in Nat
          /\ Touched \subseteq 1 .. Len(outbox)
    BY DEF GraphInv, Graph!TypeOK, Touched
  <2>2. graph'[x] # graph[x]
    BY <2>1
  <2>3. PICK s \in Syncs, e \in Graph!Events :
          Graph!At(s, e, "apply") /\ graph' = [graph EXCEPT ![outbox[e].source] = e]
    BY <2>2, PartSteps
    DEF Graph!Next, Graph!vars, Graph!BeginSave, Graph!Enqueue, Graph!ReadPending, Graph!SyncStep,
        Graph!SyncEvent, Graph!SyncFails, Graph!SyncUnanswered, Graph!MarkProcessed,
        Graph!MarkFailed, Graph!MarkLost, Graph!Crash, Graph!BackoffOver, Graph!Apply
  <2>4. graph'[x] = e /\ e \in batch[s] /\ e < graph[x] /\ graph[x] \in applied
    <3>1. graph'[x] = e
      BY <2>1, <2>2, <2>3
    <3>2. e \in batch[s] /\ e \in 1 .. Len(outbox)
      BY <2>3 DEF Graph!At, GraphInv, Graph!TypeOK
    <3> QED
      BY <2>1, <3>1, <3>2 DEF GraphInv
  <2>5. outbox[e].committed /\ e \in 1 .. graph[x]
    <3>1. outbox[e].committed /\ e \in 1 .. Len(outbox)
      BY <2>4 DEF GraphInv, Settled, Graph!TypeOK
    <3> QED
      BY <2>1, <2>4, <3>1
  <2>6. InOrder(e) => e \in Touched
    BY <2>4, <2>5 DEF GraphInv, Touched
  <2> QED
    BY <2>4, <2>5, <2>6 DEF InOrder
<1> QED
  BY <1>1, GraphInductive, PTL DEF Spec, InOrderUnlessRetried, Graph!InOrderUnlessRetried

-----------------------------------------------------------------------------

\* Every variable of a deployment keeps its type, whether the callers of the files are
\* one process or each its own: the files then hold whole contents or torn ones.
THEOREM DeploymentTypes == Spec => []TypeOK
<1>1. Spec => []Edge!TypeOK
  <2>1. EdgeInv => Edge!TypeOK
    BY DEF EdgeInv
  <2> QED
    BY EdgeInductive, <2>1, PTL
<1>2. Spec => []Graph!TypeOK
  <2>1. GraphInv => Graph!TypeOK
    BY DEF GraphInv
  <2> QED
    BY GraphInductive, <2>1, PTL
<1>3. Spec => []Local!TypeOK
  <2>1. CASE OneProcess
    <3>1. LocalInv => Local!TypeOK
      BY DEF LocalInv
    <3> QED
      BY <2>1, <3>1, LocalSettingHolds, LocalInductive, PTL
  <2>2. CASE ~OneProcess
    <3>1. Init => LocalTyped
      BY <2>2, ApartSettingHolds, InitTyped DEF Init
    <3>2. LocalTyped /\ [Next]_vars => LocalTyped'
      BY <2>2, PartSteps, ApartSettingHolds, CallerKeepsTyped, MonthKeepsTyped DEF Local!Next
    <3>3. LocalTyped => Local!TypeOK
      BY DEF LocalTyped
    <3> QED
      BY <3>1, <3>2, <3>3, PTL DEF Spec
  <2> QED
    BY <2>1, <2>2
<1>4. Spec => [](part \in {"graph", "edge", "local"})
  <2>1. Init => part \in {"graph", "edge", "local"}
    BY DEF Init
  <2>2. part \in {"graph", "edge", "local"} /\ [Next]_vars
          => (part \in {"graph", "edge", "local"})'
    BY DEF Next, GraphNext, EdgeNext, LocalNext, vars
  <2> QED
    BY <2>1, <2>2, PTL DEF Spec
<1>5. (part \in {"graph", "edge", "local"}) /\ Graph!TypeOK /\ Edge!TypeOK /\ Local!TypeOK
        => TypeOK
  BY DEF TypeOK
<1> QED
  BY <1>1, <1>2, <1>3, <1>4, <1>5, PTL
=============================================================================
