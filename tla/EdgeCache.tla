----------------------------- MODULE EdgeCache -----------------------------
(***************************************************************************)
(* From a publication to a page at the edge.  Cloudflare caches the answer *)
(* of the API to an anonymous request, page by page, for a day.  The API   *)
(* answers from Redis, or else from the snapshot in Postgres, or else from *)
(* a view it kept in memory for thirty seconds, or else from the tables.   *)
(* A publication writes the snapshot, then Redis, and then purges a fixed  *)
(* list of pages, in batches.                                              *)
(***************************************************************************)
EXTENDS Naturals, Sequences, SequencesExt

CONSTANTS
  Pages,        \* app-state URLs asked for: records of host, view, limit
  LastVersion,  \* bound: versions of the content
  None

VARIABLES
  pub,        \* step, version and next purge batch of the publisher
  snapshot,   \* read_model_snapshots: the newest version saved
  redis,      \* version the manifest names, None after a flush
  memo,       \* appStateViewMemo of the API process, by page
  up,         \* the stores that answer now
  inFlight,   \* an answer on its way into the cache, by page
  edge,       \* the cached answer of a page
  announced   \* history: version of the last purge that completed

storeVars == <<snapshot, redis>>
vars == <<pub, storeVars, memo, up, inFlight, edge, announced>>

Stores == {"redis", "postgres"}
Versions == 0 .. LastVersion
PurgeFileBatchSize == 30

\* late: a purge ran after the answer was read and before it was cached;
\* fallback: it does not come from Redis.
Answer == [version : Versions, late : BOOLEAN, fallback : BOOLEAN]

-----------------------------------------------------------------------------

\* edgeCachePurgeURLs: for each host the static pages, the fixed limits of the
\* views, and the limits of the source views by steps of 25 to the largest.
StaticPages ==
  <<"/", "/insights/", "/daily-newsletter/", "/original-x-bookmarks/", "/original-x-posts/",
    "/original-youtube-videos/", "/original-youtube-posts/", "/knowledge-graph/">>

FixedViews ==
  <<<<"full", 0>>, <<"insights", 20>>, <<"daily-newsletter", 10>>, <<"original-x-posts", 15>>,
    <<"original-youtube-posts", 15>>, <<"knowledge-graph", 180>>, <<"digests", 0>>,
    <<"knowledge-graph/insights", 180>>>>

MaxSourceStateLimit == 1000

SourceLimits(view) == [i \in 1 .. MaxSourceStateLimit \div 25 |-> <<view, 25 * i>>]

PurgePaths ==
  [i \in 1 .. Len(StaticPages) |-> <<StaticPages[i], 0>>] \o FixedViews
    \o SourceLimits("original-x-posts") \o SourceLimits("original-youtube-posts")

Hosts == <<"base", "www">>

\* The batch in which a page is purged, 0 if it is in none.
PurgeBatchOf(page) ==
  LET path == <<page.view, page.limit>>
      host == IF page.host = Hosts[1] THEN 0 ELSE Len(PurgePaths)
  IN  IF ~Contains(PurgePaths, path) THEN 0
      ELSE (host + SelectInSeq(PurgePaths, LAMBDA x : x = path) - 1) \div PurgeFileBatchSize + 1

LastBatch == (2 * Len(PurgePaths) + PurgeFileBatchSize - 1) \div PurgeFileBatchSize

-----------------------------------------------------------------------------

TypeOK ==
  /\ pub \in [step : {"idle", "snapshot", "redis", "purge"}, version : Versions,
              batch : 1 .. LastBatch]
  /\ snapshot \in Versions
  /\ redis \in Versions \cup {None}
  /\ memo \in [Pages -> Versions \cup {None}]
  /\ up \in SUBSET Stores
  /\ inFlight \in [Pages -> Answer \cup {None}]
  /\ edge \in [Pages -> Answer \cup {None}]
  /\ announced \in Versions

Init ==
  /\ pub = [step |-> "idle", version |-> 0, batch |-> 1]
  /\ snapshot = 0
  /\ redis = 0
  /\ memo = [p \in Pages |-> None]
  /\ up = Stores
  /\ inFlight = [p \in Pages |-> None]
  /\ edge = [p \in Pages |-> None]
  /\ announced = 0

Goto(step) == pub' = [pub EXCEPT !.step = step, !.batch = 1]

\* A mistaken version of the step below: it purges although Redis could not be
\* written.
PublishRedisAnyway ==
  /\ pub.step = "redis"
  /\ redis' = IF "redis" \in up THEN pub.version ELSE redis
  /\ Goto("purge")
  /\ UNCHANGED <<snapshot, memo, up, inFlight, edge, announced>>

\* The pages that a call of the purge API names.
Purged(b) == {p \in Pages : PurgeBatchOf(p) = b}

-----------------------------------------------------------------------------

\* A refresh or a digest has committed new content and publishes it.
SaveContent ==
  /\ pub.step = "idle" /\ pub.version < LastVersion
  /\ pub' = [step |-> "snapshot", version |-> pub.version + 1, batch |-> 1]
  /\ UNCHANGED <<storeVars, memo, up, inFlight, edge, announced>>

\* A snapshot that could not be saved is logged; the publication goes on.
SaveSnapshot ==
  /\ pub.step = "snapshot"
  /\ snapshot' = IF "postgres" \in up THEN pub.version ELSE snapshot
  /\ Goto("redis")
  /\ UNCHANGED <<redis, memo, up, inFlight, edge, announced>>

PublishRedis ==
  /\ pub.step = "redis"
  /\ IF "redis" \in up THEN redis' = pub.version /\ Goto("purge")
     ELSE Goto("idle") /\ UNCHANGED redis
  /\ UNCHANGED <<snapshot, memo, up, inFlight, edge, announced>>

PurgeFiles ==
  /\ pub.step = "purge"
  /\ edge' = [p \in Pages |-> IF p \in Purged(pub.batch) THEN None ELSE edge[p]]
  /\ inFlight' = [p \in Pages |->
       IF inFlight[p] = None THEN None ELSE [inFlight[p] EXCEPT !.late = TRUE]]
  /\ IF pub.batch < LastBatch
     THEN pub' = [pub EXCEPT !.batch = @ + 1] /\ UNCHANGED announced
     ELSE Goto("idle") /\ announced' = pub.version
  /\ UNCHANGED <<storeVars, memo, up>>

\* A batch is refused, or the publisher dies: what is left is not done.
Abandon ==
  /\ pub.step # "idle"
  /\ Goto("idle")
  /\ UNCHANGED <<storeVars, memo, up, inFlight, edge, announced>>

\* The scheduled precompute publishes what is there once more.
Precompute ==
  /\ pub.step = "idle"
  /\ Goto("snapshot")
  /\ UNCHANGED <<storeVars, memo, up, inFlight, edge, announced>>

\* A page the edge does not have is asked of the API (ReadAppStateView).  The cache that
\* Cloudflare keeps behind this fetch (cacheEverything) holds the same answers under the
\* same addresses, and a purge empties both: it is not told apart, and an answer that
\* it took in across a purge is a late one.
Request(p, version, fallback) ==
  /\ edge[p] = None /\ inFlight[p] = None
  /\ inFlight' = [inFlight EXCEPT ![p] =
       [version |-> version, late |-> FALSE, fallback |-> fallback]]

AnswerFromRedis(p) ==
  /\ "redis" \in up /\ redis # None
  /\ Request(p, redis, FALSE)
  /\ memo' = [memo EXCEPT ![p] = redis]
  /\ UNCHANGED <<pub, storeVars, up, edge, announced>>

AnswerFromSnapshot(p) ==
  /\ ~("redis" \in up /\ redis # None) /\ "postgres" \in up
  /\ Request(p, snapshot, TRUE)
  /\ memo' = [memo EXCEPT ![p] = snapshot]
  /\ UNCHANGED <<pub, storeVars, up, edge, announced>>

AnswerFromMemory(p) ==
  /\ ~("redis" \in up /\ redis # None) /\ "postgres" \notin up
  /\ memo[p] # None
  /\ Request(p, memo[p], TRUE)
  /\ UNCHANGED <<pub, storeVars, memo, up, edge, announced>>

\* The snapshot could not be read, and the tables can be again.
AnswerFromTables(p) ==
  /\ ~("redis" \in up /\ redis # None) /\ "postgres" \in up
  /\ memo[p] = None
  /\ Request(p, pub.version, TRUE)
  /\ memo' = [memo EXCEPT ![p] = pub.version]
  /\ UNCHANGED <<pub, storeVars, up, edge, announced>>

MemoOver(p) ==
  /\ memo[p] # None
  /\ memo' = [memo EXCEPT ![p] = None]
  /\ UNCHANGED <<pub, storeVars, up, inFlight, edge, announced>>

\* cache.put runs behind the answer (waitUntil), or does not happen.
Put(p) ==
  /\ inFlight[p] # None
  /\ edge' = [edge EXCEPT ![p] = inFlight[p]]
  /\ inFlight' = [inFlight EXCEPT ![p] = None]
  /\ UNCHANGED <<pub, storeVars, memo, up, announced>>

LosePut(p) ==
  /\ inFlight[p] # None
  /\ inFlight' = [inFlight EXCEPT ![p] = None]
  /\ UNCHANGED <<pub, storeVars, memo, up, edge, announced>>

\* A day has passed, or Cloudflare evicts the page.
Expire(p) ==
  /\ edge[p] # None
  /\ edge' = [edge EXCEPT ![p] = None]
  /\ UNCHANGED <<pub, storeVars, memo, up, inFlight, announced>>

FlushRedis ==
  /\ redis' = None
  /\ UNCHANGED <<pub, snapshot, memo, up, inFlight, edge, announced>>

Toggle(s) ==
  /\ up' = IF s \in up THEN up \ {s} ELSE up \cup {s}
  /\ UNCHANGED <<pub, storeVars, memo, inFlight, edge, announced>>

PageStep(p) ==
  \/ AnswerFromRedis(p) \/ AnswerFromSnapshot(p) \/ AnswerFromMemory(p)
  \/ AnswerFromTables(p)
  \/ MemoOver(p) \/ Put(p) \/ LosePut(p) \/ Expire(p)

Next ==
  \/ SaveContent \/ SaveSnapshot \/ PublishRedis \/ PurgeFiles \/ Abandon \/ Precompute
  \/ \E p \in Pages : PageStep(p)
  \/ FlushRedis \/ \E s \in Stores : Toggle(s)

Spec == Init /\ [][Next]_vars

-----------------------------------------------------------------------------

\* After a purge that completed, the edge shows nothing older than what was
\* published, but for an answer that the purge overtook on its way into the
\* cache and for one given while Redis had nothing.  (Of one publisher.)
EdgeFresh ==
  \A p \in Pages :
    edge[p] # None /\ edge[p].version < announced => edge[p].late \/ edge[p].fallback
=============================================================================
