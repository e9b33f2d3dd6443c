----------------------------- MODULE Deployment -----------------------------
(***************************************************************************)
(* What follows a save.  A deployment with a database hands what it has    *)
(* saved on to Neo4j (GraphOutbox) and to Cloudflare (EdgeCache); one      *)
(* without keeps it in files (LocalStore).  The three share no state, so   *)
(* nothing is lost by looking at the steps of one of them at a time.       *)
(***************************************************************************)
EXTENDS Naturals, FiniteSets

CONSTANTS
  Sources, Syncs, Refused, BatchSize, LastEvent,
  Pages, LastVersion,
  Callers, OneProcess, Videos, MonthlyLimit, LastMonth, LastRun, Torn,
  LastCrash, None

ASSUME BoundsAssumption ==
  /\ LastEvent \in Nat /\ LastVersion \in Nat /\ LastCrash \in Nat
  /\ LastMonth \in Nat \ {0} /\ LastRun \in Nat
ASSUME LimitAssumption == MonthlyLimit \in Nat /\ OneProcess \in BOOLEAN
ASSUME VideosAssumption == IsFiniteSet(Videos)

\* Refused events stay pending at the head of the order for good; a batch must
\* have room behind them.
ASSUME BatchAssumption ==
  /\ Refused \subseteq 1 .. LastEvent
  /\ BatchSize \in Nat /\ BatchSize > Cardinality(Refused)

VARIABLES
  part, \* which of the three is looked at; never changes
  outbox, graph, batch, step, applied, failed, crashes,
  pub, snapshot, redis, memo, up, inFlight, edge, announced,
  file, temp, mu, pc, job, month, runs, requested, deaths

Graph == INSTANCE GraphOutbox
Edge == INSTANCE EdgeCache
Local == INSTANCE LocalStore

\* The pages looked at are among those that a purge names (MCEdgeCache looks at one
\* that is not).
ASSUME PagesAssumption ==
  /\ Edge!LastBatch \in Nat \ {0}
  /\ \A p \in Pages : Edge!PurgeBatchOf(p) \in 1 .. Edge!LastBatch

\* None and Torn are nothing but themselves.
ASSUME NoneAssumption ==
  /\ None \notin Nat \cup Callers \cup Videos
  /\ None \notin Edge!Answer /\ None \notin Local!Claim /\ None \notin Local!Content
  /\ Torn # None /\ Torn \notin Local!Content

graphVars == <<outbox, graph, batch, step, applied, failed, crashes>>
edgeVars == <<pub, snapshot, redis, memo, up, inFlight, edge, announced>>
localVars == <<file, temp, mu, pc, job, month, runs, requested, deaths>>
vars == <<part, graphVars, edgeVars, localVars>>

TypeOK ==
  /\ part \in {"graph", "edge", "local"}
  /\ Graph!TypeOK /\ Edge!TypeOK /\ Local!TypeOK

Init ==
  /\ part \in {"graph", "edge", "local"}
  /\ Graph!Init /\ Edge!Init /\ Local!Init

GraphNext ==
  /\ part = "graph" /\ Graph!Next
  /\ UNCHANGED <<part, edgeVars, localVars>>

EdgeNext ==
  /\ part = "edge" /\ Edge!Next
  /\ UNCHANGED <<part, graphVars, localVars>>

LocalNext ==
  /\ part = "local" /\ Local!Next
  /\ UNCHANGED <<part, graphVars, edgeVars>>

Next == GraphNext \/ EdgeNext \/ LocalNext

Spec == Init /\ [][Next]_vars

FairSpec == Spec /\ Graph!Fairness

-----------------------------------------------------------------------------

\* The properties of the parts, as stated there.  As long as runs of cmd/graph-sync come
\* back, an event that Neo4j can take reaches it and is done with.
EventsReachGraph == Graph!EventsReachGraph

\* But for retries the graph follows the order of the events.
InOrderUnlessRetried == Graph!InOrderUnlessRetried

\* A completed purge leaves only what overtook it, or was a fallback, behind.
EdgeFresh == Edge!EdgeFresh

\* The file of transcript requests keeps the promises of TranscriptBudget.
ImplementsBudget == Local!ImplementsBudget
=============================================================================
