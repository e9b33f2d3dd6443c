--------------------------- MODULE SourceRefresh ---------------------------
(***************************************************************************)
(* The refresh pipeline (Service.RunCycle) over its two stores: the        *)
(* canonical tables of Postgres and the source-material index of Redis.    *)
(* Refreshers are the processes that may run a cycle at the same time: the *)
(* API (POST /api/knowledge-runs/refresh), the worker and the command      *)
(* line; each runs one cycle at a time.  One owner, one prompt version and *)
(* one model.  Text of a source is a member of Versions; two captures have *)
(* the same hash exactly when they are the same version.                   *)
(***************************************************************************)
EXTENDS Integers, FiniteSets, Sequences

CONSTANTS
  Refreshers,
  Posts,             \* X posts, by id
  Videos,            \* YouTube videos, by id
  Versions,          \* contents a source may have
  ProcessLimit,      \* X_BOOKMARK_PROCESS_LIMIT: newest bookmarks processed
  TranscriptBudget,  \* SUPADATA_MONTHLY_REQUEST_LIMIT, for one month
  Faults,            \* what may fail: a subset of FaultKinds
  None

Sources == Posts \cup Videos

FaultKinds ==
  {"x", "youtube", "materials", "ledger", "latest", "syntheses", "redis", "abort"}

ASSUME SourcesAssumption == Posts \cap Videos = {} /\ IsFiniteSet(Videos)
ASSUME VersionsAssumption == None \notin Versions
ASSUME LimitsAssumption == ProcessLimit \in Nat /\ TranscriptBudget \in Nat
ASSUME FaultsAssumption == Faults \subseteq FaultKinds

VARIABLES
  bookmarks,  \* X: bookmarked posts, newest first
  playlist,   \* YouTube: videos of the playlist
  content,    \* text the provider returns for a source
  ledger,     \* videos recorded in youtube_transcript_requests
  synth,      \* knowledge_syntheses: committed versions of each source
  head,       \* the version of the synthesis with the greatest generated_at
  latest,     \* the run ReadLatestForOwner returns
  index,      \* Redis: source-material state (capture hash) of each source
  earlier,    \* running refreshers whose cycle started before this one's
  behind,     \* running refreshers that started before the latest run did
  pc,
  job         \* the local state of a cycle

providerVars == <<bookmarks, playlist, content>>
postgresVars == <<ledger, synth, head, latest>>
orderVars == <<earlier, behind>>
vars == <<providerVars, postgresVars, index, orderVars, pc, job>>

Text == Versions \cup {None}
NoText == [s \in Sources |-> None]

Run == [saved : BOOLEAN, items : SUBSET Sources, sums : [Sources -> Text]]
NoRun == [saved |-> FALSE, items |-> {}, sums |-> NoText]

Job ==
  [items : SUBSET Sources,      \* fetched posts and videos
   body : [Sources -> Text],    \* captured text of the candidates
   blocked : BOOLEAN,           \* the cycle has blockers
   failed : BOOLEAN,            \* the source-material lookup failed
   known : [Sources -> Text],   \* capture hash of the source-material states
   base : Run,                  \* the latest run the result is merged with
   work : [Sources -> Text],    \* processed sources, by capture hash
   todo : SUBSET Sources]       \* sources the current stage has still to handle

EmptyJob ==
  [items |-> {}, body |-> NoText, blocked |-> FALSE, failed |-> FALSE,
   known |-> NoText, base |-> NoRun, work |-> NoText, todo |-> {}]

Stages == {"idle", "fetch", "materials", "index", "transcripts", "latest",
           "choose", "synthesize", "save", "publish"}

TypeOK ==
  /\ bookmarks \in Seq(Posts)
  /\ playlist \in SUBSET Videos
  /\ content \in [Sources -> Versions]
  /\ ledger \in SUBSET Videos
  /\ synth \in [Sources -> SUBSET Versions]
  /\ head \in [Sources -> Text]
  /\ latest \in Run
  /\ index \in [Sources -> Text]
  /\ earlier \in [Refreshers -> SUBSET Refreshers]
  /\ behind \in SUBSET Refreshers
  /\ pc \in [Refreshers -> Stages]
  /\ job \in [Refreshers -> Job]

Init ==
  /\ bookmarks = <<>>
  /\ playlist = {}
  /\ \E v \in Versions : content = [s \in Sources |-> v]
  /\ ledger = {}
  /\ synth = [s \in Sources |-> {}]
  /\ head = NoText
  /\ latest = NoRun
  /\ index = NoText
  /\ earlier = [r \in Refreshers |-> {}]
  /\ behind = {}
  /\ pc = [r \in Refreshers |-> "idle"]
  /\ job = [r \in Refreshers |-> EmptyJob]

-----------------------------------------------------------------------------

Fails(kind) == IF kind \in Faults THEN BOOLEAN ELSE {FALSE}

Bookmarked == {bookmarks[i] : i \in 1 .. Len(bookmarks)}

\* The bookmarks that become candidates: the newest ProcessLimit, or all when
\* the limit is zero.
Window ==
  {bookmarks[i] : i \in {i \in 1 .. Len(bookmarks) : ProcessLimit = 0 \/ i <= ProcessLimit}}

\* resultHasContent, and the first key of latestRunOrderClause.
HasContent(run) == run.items # {} \/ \E s \in Sources : run.sums[s] # None

\* filterNewSourceCandidates: candidates without a state of the same hash.
NewCandidates(j) == {s \in Sources : j.body[s] # None /\ j.known[s] # j.body[s]}

\* Mistaken versions of definitions below, kept to show that each property can
\* fail: a result that forgets the run it started from, empty runs ranked before
\* populated ones, a reused synthesis filed under the hash of the new capture,
\* and early returns that look at the blockers alone.
MergedForgetsBase(j) ==
  [saved |-> TRUE, items |-> j.items, sums |-> j.work]

ReplacesEmptyFirst(r, new) ==
  \/ ~latest.saved
  \/ ~HasContent(new) /\ HasContent(latest)
  \/ (HasContent(new) <=> HasContent(latest)) /\ r \notin behind

CachedSynthesisNewHash(j, s, byHash, bySource) ==
  IF byHash /\ j.body[s] \in synth[s] THEN j.body[s]
  ELSE IF bySource /\ s \in Posts /\ head[s] # None THEN j.body[s]
  ELSE None

FetchBlockedIgnoresNew(j) ==
  /\ ~j.failed
  /\ j.blocked
  /\ j.base.saved
  /\ HasContent(j.base)

\* The result of a cycle: what it processed over the run it was merged with.
Merged(j) ==
  [saved |-> TRUE,
   items |-> j.items \cup j.base.items,
   sums |-> [s \in Sources |-> IF j.work[s] # None THEN j.work[s] ELSE j.base.sums[s]]]

\* latestRunOrderClause: r's new run comes before the current latest run.
Replaces(r, new) ==
  \/ ~latest.saved
  \/ HasContent(new) /\ ~HasContent(latest)
  \/ (HasContent(new) <=> HasContent(latest)) /\ r \notin behind

\* SourceMaterialStatesFromResult, merged into the Redis hash.
IndexWith(sums) == [s \in Sources |-> IF sums[s] # None THEN sums[s] ELSE index[s]]

\* readCachedSyntheses by capture hash, then, for posts, by source alone.
CachedSynthesis(j, s, byHash, bySource) ==
  IF byHash /\ j.body[s] \in synth[s] THEN j.body[s]
  ELSE IF bySource /\ s \in Posts THEN head[s]
  ELSE None

Goto(r, stage) == pc' = [pc EXCEPT ![r] = stage]

SetJob(r, j) == job' = [job EXCEPT ![r] = j]

\* The end of a cycle, by return or by death of the process.
EndCycle(r) ==
  /\ Goto(r, "idle")
  /\ SetJob(r, EmptyJob)
  /\ earlier' = [o \in Refreshers |-> IF o = r THEN {} ELSE earlier[o] \ {r}]
  /\ behind' = behind \ {r}

\* Mistaken versions of two steps: the index receives the captured hash instead
\* of the processed one, and a source outside the batch is saved.
PublishMaterialsCaptured(r) ==
  /\ pc[r] = "index"
  /\ LET j == job[r] IN
       /\ index' = [s \in Sources |-> IF s \in j.todo THEN j.body[s] ELSE index[s]]
       /\ SetJob(r, [j EXCEPT !.todo =
                    IF j.failed THEN {} ELSE {v \in j.items \cap Videos : j.known[v] = None}])
  /\ Goto(r, "transcripts")
  /\ UNCHANGED <<providerVars, postgresVars, orderVars>>

SaveSourceUnguarded(r, s) ==
  /\ pc[r] = "save"
  /\ synth' = [synth EXCEPT ![s] = @ \cup {job[r].work[s]}]
  /\ SetJob(r, [job[r] EXCEPT !.todo = job[r].todo \ {s}])
  /\ UNCHANGED <<providerVars, ledger, head, latest, index, orderVars, pc>>

-----------------------------------------------------------------------------

\* result.GeneratedAt is taken when the cycle starts.
StartCycle(r) ==
  /\ pc[r] = "idle"
  /\ earlier' = [earlier EXCEPT ![r] = {o \in Refreshers : pc[o] # "idle"}]
  /\ Goto(r, "fetch")
  /\ UNCHANGED <<providerVars, postgresVars, index, behind, job>>

\* Both providers are fetched; a failure of either is a blocker, and one of
\* YouTube also skips the transcripts.
FetchSources(r) ==
  /\ pc[r] = "fetch"
  /\ \E xDown \in Fails("x"), youtubeDown \in Fails("youtube") :
       LET posts == IF xDown THEN {} ELSE Bookmarked
           videos == IF youtubeDown THEN {} ELSE playlist
       IN SetJob(r, [EmptyJob EXCEPT
            !.items = posts \cup videos,
            !.body = [s \in Sources |->
                        IF s \in posts \cap Window THEN content[s] ELSE None],
            !.blocked = xDown \/ youtubeDown])
  /\ Goto(r, "materials")
  /\ UNCHANGED <<providerVars, postgresVars, index, orderVars>>

\* readSourceMaterialStates: the index first, Postgres for what it lacks.  todo
\* holds the states to copy to the index.
ReadMaterials(r) ==
  /\ pc[r] = "materials"
  /\ \E redisDown \in Fails("redis"), down \in Fails("materials") :
       LET j == job[r]
           indexed == IF redisDown THEN {} ELSE {s \in j.items : index[s] # None}
           failed == down /\ j.items \ indexed # {}
           canonical == IF failed THEN {}
                        ELSE {s \in j.items \ indexed : head[s] # None}
       IN SetJob(r, [j EXCEPT
            !.known = [s \in Sources |-> IF s \in indexed THEN index[s]
                                         ELSE IF s \in canonical THEN head[s]
                                         ELSE None],
            !.failed = failed,
            !.blocked = j.blocked \/ failed,
            !.todo = canonical])
  /\ Goto(r, "index")
  /\ UNCHANGED <<providerVars, postgresVars, index, orderVars>>

\* publishSourceMaterialStatesBestEffort, then the list of videos whose
\* transcript is not processed yet (none after a failed lookup).
PublishMaterials(r) ==
  /\ pc[r] = "index"
  /\ LET j == job[r] IN
       /\ \E down \in Fails("redis") :
            index' = IF down THEN index
                     ELSE [s \in Sources |-> IF s \in j.todo THEN j.known[s] ELSE index[s]]
       /\ SetJob(r, [j EXCEPT !.todo =
                    IF j.failed THEN {} ELSE {v \in j.items \cap Videos : j.known[v] = None}])
  /\ Goto(r, "transcripts")
  /\ UNCHANGED <<providerVars, postgresVars, orderVars>>

\* claimYouTubeTranscriptRequest and, when claimed, the provider call, which may
\* bring no transcript.
ClaimTranscript(r, v) ==
  /\ pc[r] = "transcripts"
  /\ v \in job[r].todo
  /\ \E down \in Fails("ledger") :
       LET claimed == ~down /\ v \notin ledger /\ Cardinality(ledger) < TranscriptBudget
       IN /\ ledger' = IF claimed THEN ledger \cup {v} ELSE ledger
          /\ \E text \in IF claimed THEN {content[v], None} ELSE {None} :
               SetJob(r, [job[r] EXCEPT !.body = [job[r].body EXCEPT ![v] = text],
                                        !.todo = job[r].todo \ {v}])
  /\ UNCHANGED <<providerVars, synth, head, latest, index, orderVars, pc>>

\* A failed lookup of the latest run is a blocker and leaves no base.
ReadLatest(r) ==
  /\ pc[r] = "transcripts"
  /\ job[r].todo = {}
  /\ \E down \in Fails("latest") :
       SetJob(r, [job[r] EXCEPT !.base = IF down THEN NoRun ELSE latest,
                                !.blocked = job[r].blocked \/ down])
  /\ Goto(r, "choose")
  /\ UNCHANGED <<providerVars, postgresVars, index, orderVars>>

\* The three early returns.  A cycle without new material republishes its base.
LookupFailed(j) == j.failed

NoNewContent(j) ==
  /\ ~j.failed
  /\ NewCandidates(j) = {}
  /\ ~j.blocked
  /\ j.base.saved
  /\ j.items # {}

FetchBlocked(j) ==
  /\ ~j.failed
  /\ NewCandidates(j) = {}
  /\ j.blocked
  /\ j.base.saved
  /\ HasContent(j.base)

Skip(r) ==
  /\ pc[r] = "choose"
  /\ LookupFailed(job[r]) \/ FetchBlocked(job[r])
  /\ EndCycle(r)
  /\ UNCHANGED <<providerVars, postgresVars, index>>

SkipNoNewContent(r) ==
  /\ pc[r] = "choose"
  /\ NoNewContent(job[r])
  /\ Goto(r, "publish")
  /\ UNCHANGED <<providerVars, postgresVars, index, orderVars, job>>

\* processSourceCandidates looks every new candidate up in the synthesis cache;
\* a failed lookup counts as a miss.
LookupSyntheses(r) ==
  /\ pc[r] = "choose"
  /\ ~(LookupFailed(job[r]) \/ NoNewContent(job[r]) \/ FetchBlocked(job[r]))
  /\ \E hashDown \in Fails("syntheses"), sourceDown \in Fails("syntheses") :
       LET j == job[r]
           hit == [s \in Sources |->
                     IF s \in NewCandidates(j)
                     THEN CachedSynthesis(j, s, ~hashDown, ~sourceDown) ELSE None]
       IN SetJob(r, [j EXCEPT !.work = hit,
                              !.todo = {s \in NewCandidates(j) : hit[s] = None}])
  /\ Goto(r, "synthesize")
  /\ UNCHANGED <<providerVars, postgresVars, index, orderVars>>

\* The language model is called for the cache misses.
Synthesize(r) ==
  /\ pc[r] = "synthesize"
  /\ LET j == job[r] IN
       SetJob(r, [j EXCEPT !.work = [s \in Sources |->
                    IF s \in j.todo THEN j.body[s] ELSE j.work[s]]])
  /\ Goto(r, "save")
  /\ UNCHANGED <<providerVars, postgresVars, index, orderVars>>

\* saveSourceCore: one transaction per generated source.  When another refresh
\* saved the source meanwhile, either synthesis may be the later generated one.
SaveSource(r, s) ==
  /\ pc[r] = "save"
  /\ s \in job[r].todo
  /\ LET version == job[r].work[s] IN
       /\ synth' = [synth EXCEPT ![s] = @ \cup {version}]
       /\ \E top \in {version} \cup ({head[s]} \ {None}) : head' = [head EXCEPT ![s] = top]
  /\ SetJob(r, [job[r] EXCEPT !.todo = job[r].todo \ {s}])
  /\ UNCHANGED <<providerVars, ledger, latest, index, orderVars, pc>>

\* The last transaction of SaveRun: the run itself.
CommitRun(r) ==
  /\ pc[r] = "save"
  /\ job[r].todo = {}
  /\ LET new == Merged(job[r]) IN
       IF Replaces(r, new)
       THEN latest' = new /\ behind' = earlier[r]
       ELSE UNCHANGED <<latest, behind>>
  /\ Goto(r, "publish")
  /\ UNCHANGED <<providerVars, ledger, synth, head, index, earlier, job>>

\* publishAppStateForResult: the cycle's own result, not the latest run.
PublishRun(r) ==
  /\ pc[r] = "publish"
  /\ \E down \in Fails("redis") :
       index' = IF down THEN index ELSE IndexWith(Merged(job[r]).sums)
  /\ EndCycle(r)
  /\ UNCHANGED <<providerVars, postgresVars>>

\* A crash, the timeout of the refresh, or a failed transaction of SaveRun.
Abort(r) ==
  /\ "abort" \in Faults
  /\ pc[r] # "idle"
  /\ EndCycle(r)
  /\ UNCHANGED <<providerVars, postgresVars, index>>

-----------------------------------------------------------------------------

\* The providers' contents change and the Redis hash expires.
ProviderUnchanged == UNCHANGED <<postgresVars, index, orderVars, pc, job>>

Bookmark(p) ==
  /\ p \notin Bookmarked
  /\ bookmarks' = <<p>> \o bookmarks
  /\ UNCHANGED <<playlist, content>>
  /\ ProviderUnchanged

Unbookmark(p) ==
  /\ \E i \in 1 .. Len(bookmarks) :
       /\ bookmarks[i] = p
       /\ bookmarks' = SubSeq(bookmarks, 1, i - 1)
                       \o SubSeq(bookmarks, i + 1, Len(bookmarks))
  /\ UNCHANGED <<playlist, content>>
  /\ ProviderUnchanged

EditPost(p, version) ==
  /\ content[p] # version
  /\ content' = [content EXCEPT ![p] = version]
  /\ UNCHANGED <<bookmarks, playlist>>
  /\ ProviderUnchanged

AddVideo(v) ==
  /\ v \notin playlist
  /\ playlist' = playlist \cup {v}
  /\ UNCHANGED <<bookmarks, content>>
  /\ ProviderUnchanged

ExpireIndex ==
  /\ index # NoText
  /\ index' = NoText
  /\ UNCHANGED <<providerVars, postgresVars, orderVars, pc, job>>

RefresherStep(r) ==
  \/ StartCycle(r)
  \/ FetchSources(r)
  \/ ReadMaterials(r)
  \/ PublishMaterials(r)
  \/ \E v \in Videos : ClaimTranscript(r, v)
  \/ ReadLatest(r)
  \/ Skip(r)
  \/ SkipNoNewContent(r)
  \/ LookupSyntheses(r)
  \/ Synthesize(r)
  \/ \E s \in Sources : SaveSource(r, s)
  \/ CommitRun(r)
  \/ PublishRun(r)

Environment ==
  \/ \E p \in Posts :
       \/ Bookmark(p)
       \/ Unbookmark(p)
       \/ \E version \in Versions : EditPost(p, version)
  \/ \E v \in Videos : AddVideo(v)
  \/ ExpireIndex

Next ==
  \/ \E r \in Refreshers : RefresherStep(r) \/ Abort(r)
  \/ Environment

Spec == Init /\ [][Next]_vars

\* The schedule keeps starting cycles and a running cycle keeps going.
FairSpec == Spec /\ \A r \in Refreshers : WF_vars(RefresherStep(r))

-----------------------------------------------------------------------------

\* A summary shown by the latest run, and a capture hash the index calls
\* processed, always stand for a synthesis that Postgres has committed, whatever
\* refreshes overlap and whatever fails between their transactions.
RunsGrounded ==
  \A s \in Sources : latest.sums[s] # None => latest.sums[s] \in synth[s]

IndexGrounded ==
  \A s \in Sources : index[s] # None => index[s] \in synth[s]

\* Why the two hold: everything a cycle carries is grounded too, but for what it
\* has synthesised and not saved yet, which it never publishes.
CarriesGrounded(j, stage, syntheses) ==
  \A s \in Sources :
    /\ j.known[s] # None => j.known[s] \in syntheses[s]
    /\ j.base.sums[s] # None => j.base.sums[s] \in syntheses[s]
    /\ j.work[s] # None =>
         j.work[s] \in syntheses[s] \/ (stage = "save" /\ s \in j.todo)
    /\ stage = "synthesize" /\ s \in j.todo => j.body[s] # None
    /\ stage = "save" /\ s \in j.todo => j.work[s] # None

GroundedInv ==
  /\ TypeOK
  /\ \A s \in Sources : head[s] # None => head[s] \in synth[s]
  /\ RunsGrounded
  /\ IndexGrounded
  /\ \A r \in Refreshers : CarriesGrounded(job[r], pc[r], synth)

\* Refreshes that do not overlap never take a summary out of the inbox: blocked
\* providers, failed lookups of processed material, lost Redis entries and removed
\* bookmarks keep what was processed.
LatestRunKeepsSources ==
  [][\A s \in Sources : latest.sums[s] # None => latest'.sums[s] # None]_vars

\* A processed source is in the inbox, or on its way there: none is left behind
\* in Postgres, where every later refresh would skip it as already processed.
OnItsWay(s) == \E r \in Refreshers : pc[r] = "save" /\ job[r].work[s] # None

NoStrandedSource ==
  \A s \in Sources : synth[s] # {} => latest.sums[s] # None \/ OnItsWay(s)

\* A post that stays among the newest bookmarks gets into the inbox, as soon as
\* a cycle sees it often enough: the other provider, the ledger, the synthesis
\* cache and Redis may fail for ever.
Sees(r, p) == pc[r] = "choose" /\ p \in job[r].items /\ ~job[r].failed

WindowReachesInbox ==
  \A p \in Posts :
    <>[](p \in Window) /\ []<>(\E r \in Refreshers : Sees(r, p))
      => <>(latest.sums[p] # None)
=============================================================================
