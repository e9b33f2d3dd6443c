------------------------------- MODULE Inbox -------------------------------
(***************************************************************************)
(* What the inbox shows.  A refresh merges what it has processed into the  *)
(* latest run (RunCycle, refresh_material.go), a digest chooses from it    *)
(* (GenerateDigest), and a page of it is answered from Redis, from the     *)
(* snapshot or from the database, each cutting and ordering the run in a   *)
(* code of its own.  How a refresh is fetched and saved is SourceRefresh,  *)
(* how the copies are published ReadModelPublish.                          *)
(*                                                                         *)
(* A capture is [source, version]; sources are numbers, their times too    *)
(* (0 for a time that is missing).                                         *)
(***************************************************************************)
EXTENDS InsightEngine

CONSTANTS
  Sources, Videos,  \* the sources, and those from YouTube; the others are from X
  Time,             \* the time of each source
  Windows,          \* what a refresh may list: sequences of captures
  Made,             \* for each capture, the lists of insights it may be given
  Keywords,         \* for each capture, the keywords of its summary
  MaxGraph,         \* the most nodes of a graph, 500 in the code
  MaxInsights,      \* the most insights of an issue, 5 in the code
  LastRun,          \* bound: refreshes
  LastIssue         \* bound: digests

VARIABLES
  run,       \* the latest run: [summaries, insights, bookmarks, videos, clusters,
             \* themes, connections]; summaries are captures
  runs,
  issue,     \* the latest issue: [refs, earlier, offered, insights, themes,
             \* clusters, connections], or <<>>
  digested,  \* sources recorded as members of an issue
  issues

inboxVars == <<run, runs, issue, digested, issues>>

Insights == UNION {Range(list) : list \in UNION Range(Made)}

Views == {"insights", "bookmarks", "videos"}

Init ==
  /\ run = [summaries |-> <<>>, insights |-> <<>>, bookmarks |-> <<>>, videos |-> <<>>,
            clusters |-> <<>>, themes |-> <<>>, connections |-> <<>>]
  /\ runs = 0
  /\ issue = <<>>
  /\ digested = {}
  /\ issues = 0

-----------------------------------------------------------------------------

\* readLatestCanonical, and BuildAppState again.
Normalized(r) ==
  [r EXCEPT !.clusters = EnsureClusters(r.insights, r.clusters),
            !.insights = RankAgain(r.insights, r.clusters)]

Latest == Normalized(run)

SummaryOf(r, source) ==
  Keep(r.summaries, LAMBDA c : c.source = source)

\* processSourceCandidate: a post that has a summary keeps it, whatever it says now.
Processings(capture) ==
  IF capture.source \notin Videos /\ SummaryOf(run, capture.source) # <<>>
  THEN {[capture |-> SummaryOf(run, capture.source)[1],
         insights |-> OfSources(<<capture.source>>, Latest.insights)]}
  ELSE {[capture |-> capture, insights |-> list] : list \in Made[capture]}

\* mergeXBookmarks and mergeYouTubeItems: repetitions stay in a first list.
MergedItems(previous, fetched) ==
  IF previous = <<>> THEN fetched ELSE Distinct(fetched \o previous)

\* The run of the new sources: what they replace goes, they come last, and what is
\* made of all insights is made again.
Refreshed(window, processed) ==
  LET done == {processed[i].capture.source : i \in DOMAIN processed}
      listed == [i \in DOMAIN window |-> window[i].source]
      summaries == Keep(Latest.summaries, LAMBDA c : c.source \notin done)
                     \o [i \in DOMAIN processed |-> processed[i].capture]
      insights == Keep(Latest.insights, LAMBDA x : x.source \notin done)
                    \o FlattenSeq([i \in DOMAIN processed |-> processed[i].insights])
      sources == Distinct([i \in DOMAIN summaries |-> summaries[i].source])
      keywords == [s \in Range(sources) |->
                     Keywords[Keep(summaries, LAMBDA c : c.source = s)[1]]]
      clusters == Clusters(OfSources(sources, insights))
  IN  [summaries |-> summaries,
       insights |-> Rank(insights, clusters),
       bookmarks |-> MergedItems(run.bookmarks, Keep(listed, LAMBDA s : s \notin Videos)),
       videos |-> MergedItems(run.videos, Keep(listed, LAMBDA s : s \in Videos)),
       clusters |-> clusters,
       themes |-> Themes(sources, keywords),
       connections |-> Connections(sources, keywords)]

\* A refresh that finds something new.
Refresh(window) ==
  LET new == Keep(window, LAMBDA c : ~Contains(run.summaries, c))
      choices == UNION {Processings(new[i]) : i \in DOMAIN new}
  IN  /\ runs < LastRun
      /\ new # <<>>
      /\ \E processed \in [DOMAIN new -> choices] :
           /\ \A i \in DOMAIN new : processed[i] \in Processings(new[i])
           /\ run' = Refreshed(window, processed)
      /\ runs' = runs + 1
      /\ UNCHANGED <<issue, digested, issues>>

-----------------------------------------------------------------------------

\* digestQualityInsights.
GoodInsights(insights) ==
  LET good == Keep(insights, LAMBDA x : x.quality = 0 \/ x.quality >= 70)
  IN  IF good = <<>> THEN insights ELSE good

\* A mistaken version, kept to show that a property can fail: themes that are not
\* cut to the issue.
FilterThemesAll(themes, refs) ==
  Keep(themes, LAMBDA t : t.sources \cap refs # {})

\* selectDigestInsights: a video and a post first, then in the order of the scores.
Selected(order) ==
  LET OfKind(kind) == FirstN(Keep(order, LAMBDA x : x.source \in kind), 1)
  IN  FirstN(Distinct(OfKind(Videos) \o OfKind(Sources \ Videos) \o order), MaxInsights)

\* The score is a hash of the day's seed: any order.
Selections(insights) ==
  LET good == GoodInsights(insights)
  IN  IF Len(good) <= MaxInsights THEN {good}
      ELSE {Selected([i \in DOMAIN good |-> good[p[i]]]) : p \in Bijection(DOMAIN good, DOMAIN good)}

FilterThemes(themes, refs) ==
  LET cut == [i \in DOMAIN themes |-> [themes[i] EXCEPT !.sources = @ \cap refs]]
  IN  Keep(cut, LAMBDA t : t.sources # {})

FilterClusters(clusters, ids) ==
  LET cut == [i \in DOMAIN clusters |->
        [clusters[i] EXCEPT !.ids = Keep(@, LAMBDA id : id \in ids)]]
  IN  Keep(cut, LAMBDA c : c.ids # <<>>)

FilterConnections(connections, refs) ==
  Keep(connections, LAMBDA c : c[1] \in refs /\ c[2] \in refs)

\* readNewDigestSourceRefs: what the latest run has summarised and is in no issue.
NewRefs(latest) ==
  ({c.source : c \in Range(latest.summaries)} \cup Range(SourcesOf(latest.insights)))
    \ digested

\* digestInputsForLatest; with nothing new the issue is made of the whole run and
\* has no members.
DigestInputs(latest, refs) ==
  IF refs = {}
  THEN [offered |-> latest.insights, themes |-> latest.themes,
        clusters |-> latest.clusters, connections |-> latest.connections]
  ELSE LET offered == Keep(latest.insights, LAMBDA x : x.source \in refs)
       IN  [offered |-> offered,
            themes |-> FilterThemes(latest.themes, refs),
            clusters |-> FilterClusters(latest.clusters, Ids(offered)),
            connections |-> FilterConnections(latest.connections, refs)]

\* GenerateDigest of another day, mailed and saved.
GenerateDigest ==
  /\ issues < LastIssue
  /\ run.summaries # <<>>
  /\ \E latest \in {Latest} :
     \E refs \in {NewRefs(latest)} :
     \E inputs \in {DigestInputs(latest, refs)} :
     \E chosen \in Selections(inputs.offered) :
       /\ issue' = [refs |-> refs, earlier |-> digested, offered |-> inputs.offered,
                    insights |-> chosen, themes |-> inputs.themes,
                    clusters |-> inputs.clusters, connections |-> inputs.connections]
       /\ digested' = digested \cup refs
  /\ issues' = issues + 1
  /\ UNCHANGED <<run, runs>>

InboxNext == (\E window \in Windows : Refresh(window)) \/ GenerateDigest

-----------------------------------------------------------------------------

NewestFirst(items) == StableSort(items, LAMBDA a, b : Time[a] > Time[b])

\* normalizeAppState of a page, which has no clusters: they are made of the page.
ShownInsights(page) == RankAgain(page, <<>>)

\* Cache.ReadAppViewState of the published run.  The mistaken version cuts first.
RedisSourcesUnsorted(items, limit) == NewestFirst(FirstN(items, limit))

RedisSources(items, limit) == FirstN(NewestFirst(items), limit)

RedisPage(view, limit) ==
  IF view = "insights" THEN ShownInsights(FirstN(Latest.insights, limit))
  ELSE RedisSources(Latest[view], limit)

\* CompactAppStateForView of the saved snapshot.
SnapshotPage(view, limit) ==
  IF view = "insights" THEN ShownInsights(FirstN(Latest.insights, limit))
  ELSE FirstN(NewestFirst(Latest[view]), limit)

\* ReadLatestViewForOwner cuts the saved run in SQL, by the text of the time; the
\* page is normalised there, by BuildAppState and after compacting.
CanonicalPage(view, limit) ==
  IF view = "insights"
  THEN ShownInsights(FirstN(ShownInsights(FirstN(run.insights, limit)), limit))
  ELSE FirstN(NewestFirst(
         FirstN(StableSort(run[view], LAMBDA a, b : Time[a] > Time[b]), limit)), limit)

\* ReadInsightGraph, from a published graph and from the database.
PublishedGraph(limit) == LimitGraph(InsightGraph(Latest.insights, MaxGraph), limit)

CanonicalGraph(limit) == InsightGraph(Latest.insights, limit)

-----------------------------------------------------------------------------

InboxTypeOK ==
  /\ Range(run.summaries) \subseteq DOMAIN Made
  /\ Range(run.insights) \subseteq Insights
  /\ Range(run.bookmarks) \subseteq Sources \ Videos
  /\ Range(run.videos) \subseteq Videos
  /\ Len(run.clusters) <= MaxClusters /\ Len(run.themes) <= MaxClusters
  /\ Len(run.connections) <= MaxConnections
  /\ digested \subseteq Sources
  /\ runs \in 0 .. LastRun /\ issues \in 0 .. LastIssue

PageLimits == 1 .. MaxGraph

\* A page is the same wherever it is read: ranking a saved run again does not move
\* its insights, so Redis, the snapshot and the database cut the same ones off, and
\* list the sources in the same order; and a longer page only adds to a shorter one.
PagesAgree ==
  \A view \in Views, limit \in PageLimits :
    /\ RedisPage(view, limit) = SnapshotPage(view, limit)
    /\ view # "insights" => CanonicalPage(view, limit) = RedisPage(view, limit)
    /\ Range(CanonicalPage(view, limit)) = Range(RedisPage(view, limit))
    /\ Range(RedisPage(view, limit)) \subseteq Range(RedisPage(view, limit + 1))

\* The graph relates only what it returns, no node has more than MaxDegree edges
\* but one that is related to itself, and a relation is left out only for heavier
\* ones at an end that has no room; wherever it is read, its nodes are the same.
GraphSound ==
  \A limit \in PageLimits :
    /\ PublishedGraph(limit).nodes = CanonicalGraph(limit).nodes
    /\ \A graph \in {PublishedGraph(limit), CanonicalGraph(limit)} :
         \A e \in Range(graph.edges) : {e.source, e.target} \subseteq Ids(graph.nodes)
    /\ LET graph == CanonicalGraph(limit)
           edges == graph.edges
           Looped(id) == \E e \in Range(edges) : e.source = id /\ e.target = id
       IN  /\ \A id \in Ids(graph.nodes) :
                Degree(edges, id) <= MaxDegree + (IF Looped(id) THEN 1 ELSE 0)
           /\ \A e \in Range(RelatedEdges(graph.nodes)) \ Range(edges) :
                LET heavier == Keep(edges, LAMBDA f : EdgeBefore(f, e))
                IN  \/ Len(heavier) = MaxEdges
                    \/ Degree(heavier, e.source) >= MaxDegree
                    \/ Degree(heavier, e.target) >= MaxDegree

\* An issue speaks of its members only, none of which an earlier issue had; it
\* shows a video and a post when it is offered both, an insight once, and a poor one
\* only when it is offered nothing better.
IssueSound ==
  issue # <<>> =>
    LET good == Range(GoodInsights(issue.offered))
        shown == Range(issue.insights)
    IN  /\ issue.refs \cap issue.earlier = {}
        /\ issue.refs # {} =>
             /\ {x.source : x \in shown} \subseteq issue.refs
             /\ \A t \in Range(issue.themes) : t.sources \subseteq issue.refs
             /\ \A c \in Range(issue.clusters) : Range(c.ids) \subseteq Ids(issue.offered)
             /\ \A c \in Range(issue.connections) : Range(c) \subseteq issue.refs
        /\ shown \subseteq good
        /\ MaxInsights < Len(GoodInsights(issue.offered)) =>
             /\ \A i, j \in DOMAIN issue.insights :
                  issue.insights[i] = issue.insights[j] => i = j
             /\ \A kind \in {Videos, Sources \ Videos} :
                  (\E x \in good : x.source \in kind) => \E x \in shown : x.source \in kind
=============================================================================
