# Second Brain: TLA+ models and proofs

Second Brain collects a user's X bookmarks and YouTube playlist, has a language
model summarise them, keeps everything in Postgres, publishes read models to
Redis, copies what it learnt to Neo4j, and mails a daily digest. This directory
models the parts of that program in which several processes, stores and services
meet, and the algorithms that decide what a reader sees; it checks them with TLC
and proves the most important results with TLAPS.

Paths below are relative to `src/backend/internal/` unless they start with `src/`.

## 1. The system

| Component | State | Operations | Module |
|---|---|---|---|
| Refresh pipeline (`knowledge/service.go` RunCycle, `refresh_material.go`, `source_*.go`) | `knowledge_runs`, `knowledge_syntheses`, `source_items`; Redis hash of source materials; the locals of a cycle | fetch X and YouTube, look up processed material, claim transcripts, read the latest run, early returns, synthesis cache, synthesise, save each source, save the run, publish | `SourceRefresh` |
| Synthesis workers (`knowledge/service.go` processSourceCandidates, `synthesis.go`) | the channel of candidates, the slice of results | look up, take, ask, ask again, judge, fall back, save | `SourceSynthesis` |
| Insight engine, issue selection (`knowledge/learning.go`, `insight_graph.go`, `refresh_material.go`, `service.go` GenerateDigest) | the latest run, the latest issue | cluster, rank, relate, merge, choose, cut to a page | `InsightEngine`, `Inbox` |
| YouTube transcript ledger (`store/postgres/knowledge_store.go`, `knowledge/youtube_source.go`) | `youtube_transcript_requests`, one advisory lock | claim, provider call, complete | `TranscriptBudget`, `TranscriptLedger` |
| Local file store (`store/localfile/store.go`) | two JSON files and their `.tmp`, a mutex per process | claim, complete, save a run, save a digest | `LocalStore` |
| Daily digest (`knowledge/service.go` GenerateDigest, `digest_delivery.go`) | `digest_issues`, `digest_source_items`, `digest_deliveries`; the mails Resend has sent | select, compose, deliver, save | `DigestDelivery` |
| Refresh status (`knowledge/service.go` StartRefresh) | `Service.refresh` behind `refreshMu`; Redis `refresh:status` | start, stage, finish, write | `RefreshStatus` |
| Read models (`knowledge/read_model_cache.go`, `cache/rediscache`, `store/postgres/read_model_snapshot.go`) | Redis manifest and run keys, `read_model_snapshots` | publish, read with three fallbacks | `ReadModelPublish`; what a page holds: `Inbox` |
| Edge cache (`knowledge/edge_cache.go`, `src/cloudflare`, the 30 s memory of `service.go`) | cached responses, the publisher's purge batches | answer, put, purge | `EdgeCache` |
| Graph outbox (`store/postgres/graph_outbox.go`, `src/backend/cmd/graph-sync`) | `graph_sync_outbox`, Neo4j | enqueue, read pending, apply, mark, back off | `GraphOutbox` |
| X authorization (`knowledge/x_oauth.go`, `x_source.go`, `src/backend/cmd/x-token-import`) | `x_oauth_tokens`, OAuth states in memory, tokens of the environment | begin, call back, exchange, rotate, verify, save | `XTokens` |
| Owners and source connections (`httpapi/router.go`, `store/postgres/knowledge_store.go`) | `user_profiles`, `source_connections` | resolve an owner, save a playlist | `OwnerScope` |
| Canonical store (`store/postgres`) | all tables | one transaction per operation | through the modules above |
| Worker (`src/backend/cmd/worker`) | cron schedule, `runLock` | refresh, graph sync, publish; digest, publish | `oneProcess` in `DigestDelivery`, overlap in `GraphOutbox` |
| Frontend controller (`src/frontend/src/features/knowledge-inbox/model`) | view state, poll timer | load, poll, page | not modelled |
| Prompts, embeddings, ask | none of their own | transform text | not modelled |
| Config, logging, tracing, migrations, deployment | none | | not modelled |

How they interact. The API process, the worker and the command-line tools share
Postgres and Redis and nothing else: any of them may run a refresh, and two of
them a digest, at the same time. Inside the API a mutex keeps refreshes apart;
inside the worker `runLock` keeps refresh, graph sync and digest apart; between
processes only the transactions of Postgres, the advisory lock of the ledger and
the idempotency key of Resend do. A refresh reads Redis first and Postgres for what
Redis lacks, saves every source, with its event for the graph, in a transaction of
its own and the run last, and then republishes: snapshot, Redis, edge cache. A
digest reads the latest run and the ledger of digested sources, mails, saves, and
republishes. The graph is brought up to date by runs of `cmd/graph-sync`, which the
worker starts only after a cycle that saved something new
(`src/backend/cmd/worker/main.go:56`), and otherwise an operator; a refresh of the API
starts none. A page is answered by the edge, by Redis, by the snapshot, from what the
API kept in memory for thirty seconds, or from the tables of Postgres, in this order.

What is hard, and what makes each part correct:

- **ledger, local store** - two claims at once, a month that ends inside a claim, a
  death between the claim and the answer or in the middle of a rewrite. Correct: the
  ceiling holds in every month and a video is requested once.
- **refresh** - partial saves, a stale index, cycles that overlap, providers that
  fail in every combination. Correct: what is shown or called processed is
  committed; the inbox loses nothing; new material gets through.
- **synthesis** - workers that finish in any order, lost work, a post listed twice.
  Correct: a result is its candidate's, the model is paid once for a capture.
- **insights** - three copies of the same run cut and ordered by different code,
  greedy edges under limits. Correct: a page is the same wherever it is read, the
  graph keeps its limits and drops the weaker relation, an issue speaks of its members.
- **digest** - mail and database cannot be one transaction, the cutoff of the
  selection moves while refreshes run. Correct: one mail a day, a source in one
  issue, none passed over, a sent issue stays as it is.
- **status** - writes to Redis race with each other. Correct: one refresh at a
  time, Redis never ahead of it, every refresh ends.
- **read models, edge** - four copies of the inbox that are written and expire apart.
  Correct: only committed runs are shown, a manifest has its keys, the copies catch up,
  a purge leaves nothing older than it announced.
- **graph outbox** - at-least-once application by runs that overlap, die and lose
  marks, and that nothing owes. Correct: as long as runs come back every event gets
  through, in order unless it is retried.
- **X authorization** - a refresh token that works once, used by several processes.
  Correct: the token X accepts is kept, tokens reach the owner who asked for them.
- **owners** - overlapping transactions under READ COMMITTED, an email that moves.
  Correct: a playlist stands until a later save, no profile changes hands.

The hazards, each at its line and with the properties that watch it, are in
`PROJECT.json`.

## 2. Plan

What was planned is done, in this order: `TranscriptLedger` over `TranscriptBudget`;
`SourceRefresh`; `DigestDelivery`; `RefreshStatus`; `ReadModelPublish`; `XTokens`;
`GraphOutbox`, `EdgeCache` and `LocalStore`, composed in `Deployment`;
`SourceSynthesis`, `InsightEngine` with `Inbox`, and `OwnerScope`, composed in
`Service`; the proofs of section 5.

What a next step would take up:

1. An abstract inbox (what is merged stays) that a solo `SourceRefresh` implements,
   and `Inbox`'s merge put into its `SaveRun`.
2. One model of a publication from the run to the edge, with two publishers:
   `ReadModelPublish` and `EdgeCache` each know one half.
3. The frontend controller, if the page numbers it keeps become state that the service
   relies on.

## 3. Modules

Every module has one action per step of the code; the mapping, definition by
definition, is in `PROJECT.json`. A definition "kept to show that a property can
fail" is a mistaken version of the one it stands before, and is used nowhere else.

### TranscriptBudget, TranscriptLedger

`ClaimYouTubeTranscriptRequest` is one transaction: `BeginClaim` (now() is fixed
here), `AcquireLock`, `InsertClaim`, then `CommitClaim` or `CommitRefusal`. What
a transaction inserted is visible to the others only after `CommitClaim`, so the
model tells whether the lock is what makes the count-then-insert atomic.
`RequestTranscript` is the provider call, `CompleteRequest` the update of its row,
and `Fail` any error, timeout or crash: an open transaction rolls back, nothing
else does. `requests` is a history variable. `TranscriptBudget` is what a ledger
promises: a video is charged once, a month never beyond the ceiling, and the
provider is called once for a charged video; a committed row is its charge.

A claim is never taken back: after a crash between claim and answer the video's
transcript is not requested again. That is the code's choice, and the model's.
Rows of the earlier backfill (`legacy_backfill`) are not in `Init`.

### LocalStore

The same promises, kept by a JSON file: `ReadRequests` takes the mutex and reads,
`TruncateTemp`, `WriteTemp` and `Rename` are `writeTranscriptRequests`, and a death
may come between any two of them. `SaveRun` and `SaveDigest` rewrite the file of the
run; `SaveDigest` reads it before it takes the mutex. `OneProcess` says whether the
callers share a mutex. With one process the file is never seen half written and the
module implements `TranscriptBudget`. Two processes that share a data directory share
the name of the temporary file too (`localfile/store.go:207`), and one may rename what
the other has begun to write, or overwrite its claim; the code makes no claim for that
deployment. `Torn` is what a reader of such a file would see.

### SourceRefresh

One action per stage of `RunCycle`. `job[r]` holds the locals of a cycle; a text
is a member of `Versions`, standing for a capture and its hash. Postgres is
`ledger`, `synth` (committed syntheses), `head` (the newest one) and `latest`
(what `ReadLatestForOwner` returns); Redis is `index`. `latestRunOrderClause`
orders runs by content and then by the time the cycle began; instants are
replaced by `earlier` and `behind`, which record who began before whom. When two
cycles save the same source, either synthesis may be the newer one (`generated_at`
is taken at synthesis), so `head` is chosen nondeterministically.

Abstracted: the two cache lookups are one step; the order in which sources are
processed is free; one prompt version and one model; the month of the transcript
budget does not roll over here (it does in `TranscriptLedger`); the length limit
of the fetch is not a bound on the model's lists; publication is reduced to the
source-material hash. `Abort` is a crash, the timeout of the refresh, or a
transaction of `SaveRun` that fails, after which the code returns an error.

A reader of the properties should know: a bookmark beyond
`X_BOOKMARK_PROCESS_LIMIT` is not processed until it moves up; an edited post is
served from the synthesis of its earlier text and looks new to every refresh; a
cycle that dies between the last source and the run leaves sources that every
later refresh skips, because Postgres calls them processed; two overlapping
refreshes lose the update of one of them. Therefore `NoStrandedSource` is stated
for refreshes that neither die nor overlap, `LatestRunKeepsSources` for refreshes
that do not overlap; the properties that hold for any overlap and any failure
are `RunsGrounded` and `IndexGrounded`, and those are proved.

### SourceSynthesis

What `SourceRefresh` has as one step: `LookUp` reads the syntheses by capture and by
source, each of which may fail; `Take` is a worker receiving an index from the
channel; `Prompt`, `Answer`, `CompactAnswer` and `Judge` are `synthesizeCandidate`
and what the model may do to it; `Put` writes the result at the index of its
candidate; `AllDone` is `wg.Wait`; `SaveSource` saves one after the other. `Crash` is
a death, a timeout or a failed save, after which nothing of what was not saved is
left. `asked` counts what is paid, `excused` counts when it is due again: lost, not to
be looked up, or listed twice. Two processes that refresh at once are not here; they
do pay twice.

### InsightEngine, Inbox

`InsightEngine` holds the functions that turn the model's insights into clusters, a
ranking, themes, connections and a graph. Texts are numbers and keep their order;
the word overlap is a fraction of sets; scores are exact, in hundredths. The model's
answer for a capture is an input (`Made`), so are the listings of a refresh (`Windows`)
and the times of the sources. `Inbox` adds the state: `Refresh` merges what is new
into the latest run, `GenerateDigest` makes an issue of it, with any order of the
scores, which are a hash of the day. `RedisPage`, `SnapshotPage` and `CanonicalPage`
are the three pieces of code that cut a page, `PublishedGraph` and `CanonicalGraph`
the two that return a graph. The limits (8 clusters, 12 connections, 650 edges, 7 per
node, 500 nodes, 5 insights) are constants.

### DigestDelivery

`ReadLatest`, `Compose`, `Deliver`, `SaveDigest` are the calls of `GenerateDigest`
that reach a store or a service. `SeeSource` and `SaveRun` are the refreshes
beside it. `afterCutoff` is the set of sources first seen after the last delivery
attempt on record, which is all that `ReadNewDigestSources` needs of the instants.
Resend (external) mails once for an idempotency key and rejects a different body
under it; the request or its answer may be lost. A "blocked" delivery (no API key)
is folded into "failed": both record an attempt and move the cutoff. A digest
without new sources is a continuity digest and records no members.
`oneProcess` tells how the behaviour's deployment runs and never changes: with
the worker alone, `runLock` keeps a refresh or a generation from starting beside
another, and a generation begins after a cycle has committed its run; otherwise
generators and refreshes are processes of their own. A worker that dies between a
source and its run is the hazard of `SourceRefresh`, and its source never enters
the inbox. The publication after `SaveDigest` is left to `ReadModelPublish`.

### RefreshStatus

One API process (the router keeps one service per owner). `refresh` is the record
behind the mutex, `stored` the copy in Redis, `writes` the records that the
goroutines of `setRefreshStage` have still to write: they land in any order, or
not at all. `final` is what the request (first write) and the goroutine of the
refresh (last write) write themselves, outside the mutex. `Restart` loses the
record and the pending writes, not Redis. A status expires after a day, taken to be
longer than any refresh.

### ReadModelPublish

Processes are the API, the worker and the commands. A run stands for a version of
the canonical content: the id the code gives a read model is the run's
`generated_at` and a hash of its digests, and a digest that is saved counts here
as a new version. `StartRefresh` and `SaveRun` are a refresh reduced to its run;
`Precompute` is `PublishReadModels`, with which the worker ends a cycle and a
digest; `MissRedis` and `ReadSnapshot` are a page load that Redis cannot serve.
All of them go on with `Build`, `SaveSnapshot`, `WriteKeys` and `FlipManifest`:
`publishAppStateBestEffort`. A refresh publishes its own run even when a later one
was saved before it. `published_at` is fixed by `Build`, before the snapshot is
saved, so a slow publication can be saved late and still be old: `order` keeps the
place of every state that was built, and `Rows` are the places of those that are
saved (the clocks of the processes are taken to agree).

`complete` holds the runs whose run-scoped keys are all in Redis; a pipeline that
fails may have written some of them (nothing a reader of `complete` can see) or
all. A failed call of Redis may have been applied. The three attempts are any
number of them. Keys of a run expire, the manifest does not, and no publication
takes the thirty days. Outages of Redis and Postgres begin and end at any time;
`LastCrash` bounds the deaths.

A page load that missed Redis and is overtaken by a refresh puts the older run
back, in Redis and, when it was built later, in the snapshots; it stays there until
the next precompute. `ReadModelsCatchUp` is therefore stated for a schedule that
goes on, and for outages that end.

### EdgeCache

One publisher: `SaveContent`, `SaveSnapshot`, `PublishRedis`, and `PurgeFiles` batch by
batch, each of which may be refused (`Abandon`). `PurgePaths` is the list the code
builds, at its real length, so that a page is purged when the code purges it; only
the length of the path's text is abstracted. A page the edge lacks is answered from
Redis, the snapshot, the memory of the API (thirty seconds) or the tables, and the Worker
puts the answer into the cache behind the response (`Put`), or does not. The Worker's fetch
has a cache of its own behind it (`cacheEverything`), which the same purge empties; it is
not told apart: what it took in across a purge is a late answer. A cache (Redis) is
taken to be configured; without one the purge follows the snapshot, which is not
modelled. `late` and `fallback` mark the answers that a purge cannot promise anything
about: the ones it overtook on their way, and the ones that did not come from Redis.

### GraphOutbox

`BeginSave` and `Enqueue` are the begin and the commit of the transaction that saves a
source with its event: `created_at`, by which runs read the table, is the time of the
begin, and saves that overlap may be committed in another order (`late` marks the event
that a younger one overtook on its way into the table). A run reads the oldest pending
events as a batch (`ReadPending`, `FirstBatch`), and applies and marks them one by one
from the oldest; Neo4j may refuse, fail, or commit and not answer; a mark may be lost; a
run may die; runs overlap. When a run begins is left open: the worker starts one after a
cycle that saved something new, an operator by hand, and nobody has to. A failed event
waits (`Postponed`; a minute at first, an hour at most) and comes back at its old place.
`Refused` are events that never get through. The graph shows of a source what was applied to it last. `InOrderUnlessRetried` allows
the graph to go back to an older event only with one that was tried before or was
overtaken; overlapping runs alone do not do it.

### Deployment, Service

Compositions of parts that share no state. `part` says which of them is looked at and
never changes, so the states of one part are not multiplied by those of another; the
properties are the parts' own. `Deployment` is what follows a save (`GraphOutbox`,
`EdgeCache`, `LocalStore`), `Service` what happens around a refresh (`Inbox`,
`SourceSynthesis`, `OwnerScope`). The constants of all parts are assumed on here, by name.

### OwnerScope

`Arrive` is a request with a valid session; `TakePublicOwner`, `FindOwner`,
`FindNoOwner` and `InsertOwner` are `ResolveOwnerForAuthUser`, statement by statement;
`BeginSave` to `Commit` are the playlist's transaction. Under READ COMMITTED a delete
sees what was committed when it began and waits for rows that another transaction has
changed; an insert waits for the key. `MoveEmail` gives the public email to somebody
else. Two saves that overlap may leave two rows, of which the later is shown; a user
who already has a profile and then gets the public email is refused from then on
(`knowledge_store.go:1414`): both are the code's behaviour, and the properties are
stated around them.

### XTokens

A pair is a grant and a number: X accepts the refresh token of the newest pair of a
grant only, once. A call is one of four: an OAuth callback, the refresh of a stored
pair, of the pair of the environment, or an import. `Rotate`, `RotateRejected` and
`RotateUnanswered` are the answers of X; `Save` is `saveXTokenSet`; `Restart` loses
states, calls and the environment's newer pair. `storedOnly` is
`X_REQUIRE_STORED_OAUTH`, which the deployment sets
(`src/.github/workflows/deploy.yml:224`). A pair shared through the environment may
leave an owner with a token another one used; `OwnPair` excludes it. Encryption is the
identity of a pair; the copies in the Keychain and in OneCLI are left out; only the
tokens of a row are modelled, not its account columns, which a late save may take
from another grant.

## 4. Runs

`MC*.tla` extend the modules; constants are in the `.cfg` files. Times are for two
workers.

| Run | Instance | Shows |
|---|---|---|
| ledger | 2 workers, 3 videos, limit 1, 2 months | ceiling, single request, finality, every claim ends, refinement (94,394 states, 20 s) |
| refresh_inbox | 1 refresher, 2 posts in a window of 1, 1 video, every fault but the latest lookup and aborts | the inbox keeps what it has, nothing processed is stranded, a post that stays gets in (59,870, 10 s) |
| refresh_pair | 2 refreshers, 1 post, 2 texts, Redis and cache faults, aborts | types, groundedness (2,996,760, 1.5 min) |
| digest | 2 generators and refreshes, 2 sources, 2 bodies, 2 days, worker alone or several processes | one mail a day, the mail that is on record; worker alone: one issue per source, none passed over, sent is final (1,104,322) |
| status | 3 refreshes, 2 stages, lost writes, restarts | one refresh, Redis not ahead, every refresh ends (157,742) |
| read_models | 2 processes, runs 0 to 2, 1 death, outages of Redis and Postgres | what is published is committed, the manifest moves to complete runs, the read models catch up (744,000, 1.5 min) |
| x_authorization | 2 owners, 2 processes, 2 calls, 1 state, 3 pairs per grant | tokens reach their owner, a code is sent once, the valid token is kept, a fresh access token returns (98,306, 1 min) |
| deployment | edge: 1 page in the last batch but one, 2 versions; local: 2 callers of one process, 2 videos, limit 1, 2 months, 1 run, 1 death; outbox: 1 source, 2 runs, 3 events of which 1 refused, batch of 2, 1 death | types; a purge leaves nothing older than it announced; the file implements `TranscriptBudget`; as long as runs come back, events reach Neo4j, in order unless retried or overtaken (328,461, 2.5 min) |
| service | inbox: 4 sources, 3 listings, 3 refreshes, 2 issues; synthesis: 2 workers, 3 lists, 2 cycles, 2 versions; owners: 2 users, 2 playlists, 3 requests, 1 move of the email | pages agree, the graph and the issues are sound, the model is paid once, results are their candidates', playlists stand (1,385,162 up to symmetry, 2.5 min) |

Why the bounds are enough. The properties speak of one source, one month, one
date or one refresh, or of two of them: two workers are needed for a race, a limit
of one and three videos make the budget bind with a video to spare, two months a
claim that spans the month end, two texts an edit, two posts in a window of one a
post that leaves and returns, two bodies a recomposition, two days a cutoff and a
second issue, three refreshes an old status, a current one and one to come,
two processes and three runs a publication overtaken by another and a run saved
after a later one. Three pairs are a rotation by one call that another one missed and
the rotation after it; two owners a token in the wrong row. Three events of one source,
one of them refused, make a batch of two start with an event that keeps coming back, and
let a retry meet a newer event; the page is in a late batch of seven, so that answers can
be read before, between and after the batches. The insights of the `service` run are
chosen by hand (`MCService`): more insights than an issue shows, more relations
than a node has room for, more clusters than are kept, a poor one beside good ones, a
source without a time, a post on two pages, an edited post, a video captured again.
Three requests are two saves that overlap and a later one.

`CHECK_DEADLOCK FALSE` is set where the bounds end what the system would go on with: the
last day's issue is sent (`digest`), the last refresh is over (`status`), the
pairs (`x_authorization`), the events, versions, runs and months (`deployment`), or the
refreshes, cycles and requests (`service`) are used up.

Three runs state what the documentation says and end in a counterexample:

| Run | Disagreement |
|---|---|
| refresh_latest_down | a failed lookup of the latest run makes an unmerged run the inbox (`knowledge/service.go:660`) |
| digest_lookup_down | a sent issue is composed again after a failed lookup (`store/postgres/knowledge_store.go:99`) |
| edge_newsletter_page | the second page of the newsletter is cached and never purged (`knowledge/edge_cache.go:114`) |

Every property of a passing run has a mistaken version of some step, kept in the
module next to the step, under which it fails.

Symmetry in `service` exchanges users, playlists and workers; none is named by a constant,
and the run checks invariants only.

Fairness. `TranscriptLedger`: a running process takes its next step (weak), and
Postgres grants the advisory lock in the order of its queue (strong fairness of
`AcquireLock`); failures are never owed. `SourceRefresh`: the worker's schedule
keeps starting cycles and a cycle keeps going, weak fairness of the steps of a
refresher; aborts, provider failures and the environment are not fair. That X and
the lookup of processed material answer again and again is not assumed of the
system: `WindowReachesInbox` has it as a premise (`Sees`). `RefreshStatus`: goroutines
run, and the context of `StartRefresh` times out, so `RunCycle` returns.
`ReadModelPublish`: a call that was begun goes on (its contexts time out), and the
worker's schedule keeps precomputing, strong fairness because every process may be busy
at times; that outages end is a premise of `ReadModelsCatchUp`, not assumed.
`GraphOutbox`: a run that has begun goes through its batch, back-offs end (weak), and
an attempt that is made again and again gets through (strong, of `SyncEvent` and
`MarkProcessed`, for each event that Neo4j can take). That runs begin is not assumed of the
system, which skips them after a cycle without new content (`src/docs/architecture.md:85`):
`EventsReachGraph` has as its premise that, while events are due, another run comes
(`RunsComeBack`; new material keeps arriving at the worker, or an operator runs
`npm run graph:sync` or the cycle of `src/scripts/run-self-organizing-cycle.sh`), and it
fails without it; `BatchAssumption` has fewer
refused events than a batch holds, for as many as a batch holds do starve the newer ones
while they are due. `XTokens`: refreshes are scheduled again and again, and an outage of
X or Postgres ends (strong, of `UseStored`, `Rotate` and `Save`).

### Met while modelling

What the code does and no property forbids; the hazards point to most of it.

- The mail goes out before the issue is saved (`knowledge/service.go:1104`, then 1108);
  `src/docs/service-exit-plan.md:56` and `src/design/architecture-overview.md:92` say
  that it is persisted first. `OneMailPerDay` holds all the same, by the key.
- The write of a stage may land after that of the end and show a finished refresh as
  running until the key expires (`knowledge/service.go:848`;
  `src/docs/redis-read-model-plan.md:229`).
- All new sources become members of an issue, although it shows five insights
  at most (`knowledge/service.go:1098`; `src/docs/architecture.md:78`).
- The last events of a busy time may stay out of Neo4j: an event that failed, that a run
  died before or that could not be marked is tried again only when the worker saves
  something new or an operator starts a run (`src/backend/cmd/worker/main.go:56`);
  `src/docs/supabase.md:66` has it that failed writes can be retried, not that they are.
- Overlapping refreshes synthesise one capture twice, although
  `src/docs/architecture.md:81` has the row reused; a bookmark listed on two pages of one
  fetch is synthesised twice as well (`knowledge/x_source.go:111-140`).
- A fallback synthesis is cached like an answer and never tried again
  (`knowledge/synthesis.go:84`); an edited post is never synthesised again.
- A source that a refresh of another process merges while a digest is composed falls
  behind the cutoff and is in no issue (`knowledge/service.go:1153`).
- A page load that missed Redis republishes the older run it read.
- The clusters of a page are made again from its insights, so their order may differ from
  the run's; a graph cut from a published one may have fewer edges than one built
  at its limit.
- A batch of events that Neo4j always refuses, all due, starves the newer ones
  (`store/postgres/graph_outbox.go:24`).
- The local store's run file loses its digest with the next refresh, whose result carries
  none (`store/localfile/store.go:190`).
- Two overlapping saves leave two playlists; a user with a profile who gets the public
  email is locked out (`store/postgres/knowledge_store.go:1414`).
- An import saves the pair before it verifies the account.

## 5. Proofs

Eight modules, each extending the one it is about, with theorems for all values of the
constants.

`TranscriptLedgerProofs` proves, for any set of workers, finite set of videos,
ceiling and number of months, `TypeCorrect`, `BudgetAlwaysRespected`,
`NeverRequestedTwice`, `CompletionIsFinal` and `LedgerImplementsBudget`. The
invariant is `LedgerInv`. `BudgetRespected` alone is not inductive: a commit
keeps it only because what the insert saw is still true (`InsertStillValid`), and
that is so because nobody else is between insert and commit
(`LockHeldInTransaction`). Likewise a request is the first one only because no two
workers hold the same claimed video (`ClaimHeld`). The refinement uses the same
invariant: a commit is a charge, a call a request, all else stutters.

`SourceRefreshProofs` proves `TypeCorrect`, `RunsAlwaysGrounded` and
`IndexAlwaysGrounded` for any refreshers, sources, limits and faults. A cycle
publishes what it carried along, so `GroundedInv` adds that everything a cycle
carries - known hashes, base run, processed sources - is committed, except for
what it has synthesised and not yet saved (`CarriesGrounded`), and that it has
saved all of it before it commits a run. There is one lemma per action; `OwnJobInv`
serves the actions that change only the cycle's own job.

Its theorems about the inbox (`NothingStranded`, `InboxKeepsSources`) are for behaviours
in which no two cycles run at once (`Apart`), for faults among which are neither deaths
nor a failed lookup of the latest run (`Whole`). `InboxInv` says that until a cycle
commits, the run it will be merged with is still the latest, and that no run is left to
rank above it. None of the conditions can be spared: see section 3 and
`refresh_latest_down`. `OneRefresherKeepsInbox` is the same for a deployment with one
refresher, without the condition on the behaviour.

`DigestDeliveryProofs` proves `DigestTypes`, `OneMailADay`, `InOneIssueOnly`,
`NonePassedOver` and `SentIsFinal` (the last for a lookup that does not fail, which is
what `digest_lookup_down` shows to be needed). Three invariants: `MailInv` relates a
draft's body to what was mailed under its key; `WorkerInv`, with the worker alone, that
every source is a member of an issue or not yet passed by the cutoff, and that what a
generator has selected is still all that is new; `FinalInv` that nobody works on an issue
that was sent, and that issues are made in the order of their dates.

`RefreshStatusProofs` proves `OneRefreshHolds` and `StoredNotAheadHolds`: every write that
is still to land, in whatever order, is behind the service's record.

`ReadModelPublishProofs` proves `PublishTypes`, `PublishedAlwaysSaved` and
`ManifestIsLast`. `PublishInv` adds to what is shown that what a process is building is
committed, that the keys of a run come before its manifest, and that only a process that is
saving a snapshot has a place in `order` set aside for it.

`XTokensProofs` proves `XTypes`, `TokensAreOwners`, `StatesAreUsedOnce` and
`AuthorizationIsKept`. The invariant follows a grant from the state to the row: a state is
pending in one process until a call takes it, and a call that exchanges it is the only
one (`StatesOnce`); a call that holds a pair holds the newest of its grant, and nobody else
is about to use that one (`HoldersNewest`).

`DeploymentProofs` has the three parts of `Deployment`. `PartSteps` says that a step of
the deployment is a step of one part or none, to each, so each part has its own
invariant. The edge cache (`EdgeStaysFresh`): a property about completed purges needs to
say of a purge on its way what its finished batches have achieved (`Fresh`, in
`EdgeInv`). The file store (`FileImplementsBudget`, for one process): what is written was
made of what was read, so `LocalInv` says of the holder of the mutex that its content
still fits the file (`Prepared`), and of a caller on its way to the provider that its
video is recorded and was not asked for; `LocalTyped` is weaker and holds for several
processes as well. The outbox (`GraphKeepsOrder`): `GraphInv` says that what runs have
tried is an initial part of the events in their order, but for the overtaken, and that
the batch of a run has every older event that nobody has tried; two runs then cannot
turn the order round, because an older event of the other one's batch is in both.
`DeploymentTypes` joins the types of the three.

`ServiceProofs` has the three parts of `Service`, in the same way. Owners
(`SavesAreTheirOwners`): `OwnersTyped` adds to the types that the clock counts the
transactions, so no two began at the same time; `SavesInv`, that each row is that of a
commit, and that what was committed before a save began is in the set its delete has seen,
is its own key, or is gone. Of the rows an owner has, the newest is therefore one, and no
save that began after its commit has passed it over. Workers (`WorkersAreSound`):
`WorkTyped` says that a candidate that is taken is one worker's until its result is in its
place; `PaidInv` counts, for each capture, what was asked for and what may still be asked
for (`Open`) against what is excused, kept and in hand. Asked at most once more than
excused is not inductive: it takes the open candidates to know that asking one of them
is allowed, and the results in hand to know that what was asked for is saved or excused
at the end of a cycle.

Its third part is the inbox (`IssuesAreSound`). An issue is made in one step of what is in
the inbox, so the inductive invariant `InboxInv` is small: what a run is made of
(`InboxTyped`: its lists are of this inbox's insights and captures, within the limits), and
that the issue is sound (`IssueIsSound`). The work is in the operators, for which there is a
lemma each: what a filter keeps and in which order (`AtKeeps`, `AtOnce`, `AtEarly`), that
an insertion sort of places is a permutation of them (`SortedKeeps`, `SortKeeps`), that
grouping gives clusters of the ids it was given (`GroupedTyped`), that ranking, grouping,
connecting and cutting stay in their types (`RankKeeps`, `ClustersTyped`,
`ThemesTyped`, `ConnectionsTyped`, `InputsSound`), and that a selection has a post and a video,
nothing twice, when it has room (`ChosenSound`). That last one needs `MaxInsights >= 2`,
which `InboxAssumption` says of a limit that is 5 in the code. For these lemmas
`InsightEngine` writes a filter as `Keep`, a sort as `StableSort` and a loop as a function of
the number of items it has seen: the provers cannot look into `SelectSeq`, `SortSeq` and the
folds. A recursive function is the CHOICE of one that solves its equations:
`RecursionExists` proves that there is one, and what it computes follows step by step
(`UpTo`), both from the least number principle below. `ServiceTypes` joins the types of
the three parts.

What the inbox shows of a run is a function of the run, so `GraphsAreSound` needs no more
of the invariant than its types. A sort by a relation that is asymmetric and whose
negation is transitive (`Orders`) leaves nothing before what should precede it
(`SortedInOrder`); the order of the edges is one (`EdgesOrdered`). The greedy choice, step
by step, keeps the degrees within the limit but for a loop (`TakenSparse`), and what it has
taken when it comes to an edge is the initial part of what it ends with (`TakenContinues`):
all the later ones are lighter, so the edges that had crowded out this one are the
heavier ones of the finished graph (`GraphEdgesSound`).

`PagesAlwaysAgree` needs that reading a run again moves nothing, which is what a reader
relies on when it normalises a stored run and cuts it. `SettledInv` says that of
the run (`Settled`), and that its insights are of sources it has summarised. The second
half is needed because a run without clusters is not told from one whose clusters were
never made: readers then make them again, of the insights in the order of the ranking and
not of the summaries, and grouping depends on the order. That they find none either is
`NoClusters`: insights make no cluster, in any order, exactly if no two of them take each
other in (`Alone`), because a group takes an insight by the words of its first member, and
that relation is symmetric (`TakesBoth`); sorting and taking the insights source by source
changes only their order (`Mixes`), if every insight has its source among those asked for.
With clusters, a ranking is ranked again to itself (`RankedStays`, from `SortStays`).

Facts that need an induction on numbers (a batch of `GraphOutbox` has at most `BatchSize`
events; an owner with rows has a newest one) rest on the least number principle
(`LeastExists`), which follows from the library's `WFMin`.

Assumptions: those named in the modules (finiteness of `Videos`, `None` distinct
from the values it is mixed with, limits that are natural numbers, lists that are
sequences, pages that some batch of the purge names; insights of a capture that carry its source, as
`synthesizeCandidate` gives them, with scores and names that are compared as numbers), which
TLC evaluates in the runs.
`EdgeSetting`, `LocalSetting`, `GraphSetting`, `OwnerSetting`, `WorkSetting` and
`InboxSetting` collect what
a part needs of them, and are proved from them. `FileImplementsBudget` has `OneProcess` as
its hypothesis, the theorems of the inbox those just named, `SentIsFinal` a lookup that does
not fail.

Only model-checked: liveness under fairness, which the prover does not cover
(`ClaimEnds`, `WindowReachesInbox`, `RefreshEnds`, `ReadModelsCatchUp`, `AccessReturns`,
`EventsReachGraph`). Every invariant, step property and refinement that a run checks and
finds to hold is the subject of a theorem.

## 6. Not modelled

- The frontend controller: it keeps nothing that the service reads; its page limits are
  the inputs of `EdgeCache`. Answers that arrive out of order show an older page until the
  next reload.
- Prompts, their layout, chunking, embeddings and the vector search of the ask endpoint:
  what is said to a model is content, and the answer an input of these models.
- Configuration, logging, tracing, migrations, statistics commands: no state of the
  protocols.
- Of the canonical store: feedback rows and evidence objects, which are appended and
  read by no protocol; of the local store: the feedback file and the connections
  in memory; of the worker: cron expressions and the order of its three jobs within a tick.
- A deployment without Redis, where the purge follows the snapshot; the immutable caching
  of a digest's illustration, whose address has the date only.

## 7. Files

- `TranscriptBudget`, `TranscriptLedger`, `TranscriptLedgerProofs`
- `SourceRefresh`, `SourceRefreshProofs`; `SourceSynthesis`
- `InsightEngine`, `Inbox`
- `DigestDelivery`, `DigestDeliveryProofs`; `RefreshStatus`, `RefreshStatusProofs`
- `ReadModelPublish`, `ReadModelPublishProofs`
- `XTokens`, `XTokensProofs`; `OwnerScope`
- `GraphOutbox`, `EdgeCache`, `LocalStore`, composed in `Deployment`, `DeploymentProofs`
- `Inbox`, `SourceSynthesis`, `OwnerScope`, composed in `Service`, `ServiceProofs`
- `MC*.tla`, `MC*.cfg`: instances for TLC
- `PROJECT.json`: components, runs, mistaken variants, map to the source, findings,
  hazards, theorems
