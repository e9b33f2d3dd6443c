--------------------------- MODULE InsightEngine ---------------------------
(***************************************************************************)
(* What a run makes of its insights (learning.go, insight_graph.go): the   *)
(* recurring ones are clustered, all are ranked, sources are connected     *)
(* through themes, and the graph relates the first of the ranking.         *)
(*                                                                         *)
(* An insight is a record: id, source, key (its mechanism), words (the     *)
(* keywords of its texts), topics, domain, type, weight (what the ranking  *)
(* takes from the insight alone, in hundredths) and quality (0 to 100).    *)
(* Words, keys and ids are numbers: their order is that of the texts.      *)
(***************************************************************************)
EXTENDS Integers, Sequences, FiniteSets, SequencesExt, FiniteSetsExt, TLC

CONSTANTS
  MaxClusters, MaxConnections,  \* 8 and 12 in the code
  MaxEdges, MaxDegree           \* 650 and 7

FirstN(s, n) == SubSeq(s, 1, IF Len(s) < n THEN Len(s) ELSE n)

\* The items of s at these places, in their order.  (This and the sorting are written
\* without SelectSeq and SortSeq, into which the provers cannot look.)
At(s, places) ==
  LET at[n \in 0 .. Len(s)] ==
        IF n = 0 THEN <<>>
        ELSE IF n \in places THEN Append(at[n - 1], s[n]) ELSE at[n - 1]
  IN  at[Len(s)]

Keep(s, Test(_)) == At(s, {i \in DOMAIN s : Test(s[i])})

\* Each item once, where it is first.
Distinct(s) == At(s, {i \in DOMAIN s : \A j \in 1 .. i - 1 : s[j] # s[i]})

Ids(insights) == {insights[i].id : i \in DOMAIN insights}

\* i goes behind the places that need not follow it.
Inserted(places, i, before) ==
  LET ahead == Cardinality({k \in DOMAIN places : <<i, places[k]>> \notin before})
  IN  SubSeq(places, 1, ahead) \o <<i>> \o SubSeq(places, ahead + 1, Len(places))

\* The places 1 .. n, as far as "before" tells them apart in its order.
Sorted(n, before) ==
  LET sorted[k \in 0 .. n] == IF k = 0 THEN <<>> ELSE Inserted(sorted[k - 1], k, before)
  IN  sorted[n]

\* Go's stable sort by a relation of which neither or one direction holds.
StableSort(s, Before(_, _)) ==
  LET places == Sorted(Len(s), {p \in (DOMAIN s) \X (DOMAIN s) : Before(s[p[1]], s[p[2]])})
  IN  [k \in DOMAIN s |-> s[places[k]]]

-----------------------------------------------------------------------------

\* tokenJaccard, as a fraction.
Overlap(a, b) == <<Cardinality(a \cap b), Cardinality(a \cup b)>>

Closer(p, q) == p[1] * q[2] > q[1] * p[2]

\* bestInsightCluster: the first of the closest clusters, if a quarter of the
\* words is shared; 0 for none.
BestCluster(clusters, words) ==
  LET Close(i) == Overlap(words, clusters[i].words)
      near == {i \in DOMAIN clusters : words # {} /\ 4 * Close(i)[1] >= Close(i)[2]}
      best == {i \in near : \A j \in near : ~Closer(Close(j), Close(i))}
  IN  IF best = {} THEN 0 ELSE Min(best)

\* The cluster begun under the same key, or else the closest.
ClusterOf(clusters, x) ==
  LET exact == {i \in DOMAIN clusters : clusters[i].key = x.key}
  IN  IF exact # {} THEN Min(exact) ELSE BestCluster(clusters, x.words)

Joined(clusters, x) ==
  LET i == ClusterOf(clusters, x)
  IN  IF i = 0 THEN Append(clusters, [key |-> x.key, words |-> x.words, members |-> <<x>>])
      ELSE [clusters EXCEPT ![i].members = Append(@, x)]

\* Twice the score: a member counts one, each further source a half.
DoubleScore(members) ==
  2 * Len(members) + Cardinality({members[i].source : i \in DOMAIN members}) - 1

\* buildInsightClusters, of the insights source by source.
Clusters(insights) ==
  LET grouped[n \in 0 .. Len(insights)] ==
        IF n = 0 THEN <<>> ELSE Joined(grouped[n - 1], insights[n])
      all == grouped[Len(insights)]
      recurring == Keep(all, LAMBDA c : Len(c.members) >= 2)
      scored == [i \in DOMAIN recurring |->
        [key |-> recurring[i].key, score |-> DoubleScore(recurring[i].members),
         ids |-> [k \in DOMAIN recurring[i].members |-> recurring[i].members[k].id]]]
  IN  FirstN(StableSort(scored, LAMBDA a, b :
               a.score > b.score \/ (a.score = b.score /\ a.key < b.key)),
             MaxClusters)

\* The insights of a list of sources, source by source.
OfSources(sources, insights) ==
  FlattenSeq([i \in DOMAIN sources |->
    Keep(insights, LAMBDA x : x.source = sources[i])])

\* The sources of a list of insights, in the order of their first insight.
SourcesOf(insights) == Distinct([i \in DOMAIN insights |-> insights[i].source])

ClusterScore(clusters, id) ==
  Max({0} \cup {clusters[i].score : i \in {j \in DOMAIN clusters : Contains(clusters[j].ids, id)}})

\* insightRankScore, in hundredths: 0.06 for each point of the cluster up to 5.
RankScore(clusters, x) ==
  x.weight + 3 * Min({ClusterScore(clusters, x.id), 10})

\* rankInsights.
Rank(insights, clusters) ==
  StableSort(insights, LAMBDA a, b :
    \/ RankScore(clusters, a) > RankScore(clusters, b)
    \/ RankScore(clusters, a) = RankScore(clusters, b) /\ a.id < b.id)

\* normalizeResultInsightEngine, by every reader of a run: clusters are made only
\* when there are none, the ranking always.
EnsureClusters(insights, clusters) ==
  IF clusters # <<>> THEN clusters ELSE Clusters(OfSources(SourcesOf(insights), insights))

RankAgain(insights, clusters) == Rank(insights, EnsureClusters(insights, clusters))

-----------------------------------------------------------------------------

\* buildThemeClusters and buildSourceConnections, from the keywords of the
\* sources: a keyword of two sources is a theme, two keywords connect a pair.
Themes(sources, keywords) ==
  LET shared == {k \in UNION {keywords[s] : s \in Range(sources)} :
                   Cardinality({s \in Range(sources) : k \in keywords[s]}) >= 2}
      all == SetToSeq({[key |-> k, sources |-> {s \in Range(sources) : k \in keywords[s]}] :
                         k \in shared})
  IN  FirstN(StableSort(all, LAMBDA a, b :
               \/ Cardinality(a.sources) > Cardinality(b.sources)
               \/ Cardinality(a.sources) = Cardinality(b.sources) /\ a.key < b.key),
             MaxClusters)

ConnectedPairs(sources, keywords) ==
  LET pairs == FlattenSeq([i \in DOMAIN sources |->
        [d \in 1 .. Len(sources) - i |-> <<sources[i], sources[i + d]>>]])
  IN  Keep(pairs, LAMBDA p : Cardinality(keywords[p[1]] \cap keywords[p[2]]) >= 2)

\* A mistaken version, kept to show that a property can fail: without the limit.
ConnectionsAll(sources, keywords) == ConnectedPairs(sources, keywords)

Connections(sources, keywords) == FirstN(ConnectedPairs(sources, keywords), MaxConnections)

-----------------------------------------------------------------------------

\* insightGraphEdgeReason: weight in tenths, and the label it is shown under.
EdgeReason(a, b) ==
  IF a.source = b.source THEN [weight |-> 30, label |-> 0]
  ELSE IF a.topics \cap b.topics # {}
       THEN [weight |-> 24, label |-> Min(a.topics \cap b.topics)]
  ELSE IF a.domain = b.domain THEN [weight |-> 14, label |-> a.domain]
  ELSE IF a.type = b.type THEN [weight |-> 10, label |-> a.type]
  ELSE [weight |-> 0, label |-> 0]

Edge(a, b) ==
  [source |-> Min({a.id, b.id}), target |-> Max({a.id, b.id}),
   weight |-> EdgeReason(a, b).weight, label |-> EdgeReason(a, b).label]

\* One for each pair of nodes; of an insight listed twice, one to itself.
RelatedEdges(nodes) ==
  LET pairs == FlattenSeq([i \in DOMAIN nodes |->
        [d \in 1 .. Len(nodes) - i |-> Edge(nodes[i], nodes[i + d])]])
  IN  Distinct(Keep(pairs, LAMBDA e : e.weight > 0))

\* The heavier first, then by label and ends.
EdgeBefore(e, f) ==
  \/ e.weight > f.weight
  \/ e.weight = f.weight /\ e.label < f.label
  \/ e.weight = f.weight /\ e.label = f.label /\ e.source < f.source
  \/ e.weight = f.weight /\ e.label = f.label /\ e.source = f.source /\ e.target < f.target

Degree(edges, id) ==
    Cardinality({k \in DOMAIN edges : edges[k].source = id})
  + Cardinality({k \in DOMAIN edges : edges[k].target = id})

\* A mistaken version, kept to show that a property can fail: room is asked of one
\* end only.
HasRoomAtOneEnd(edges, e) ==
  Degree(edges, e.source) < MaxDegree \/ Degree(edges, e.target) < MaxDegree

HasRoom(edges, e) ==
  Degree(edges, e.source) < MaxDegree /\ Degree(edges, e.target) < MaxDegree

WithEdge(edges, e) ==
  IF Len(edges) < MaxEdges /\ HasRoom(edges, e) THEN Append(edges, e) ELSE edges

\* buildInsightGraphEdges: taken in that order while both ends have room.
GraphEdges(nodes) ==
  LET sorted == StableSort(RelatedEdges(nodes), EdgeBefore)
      taken[n \in 0 .. Len(sorted)] ==
        IF n = 0 THEN <<>> ELSE WithEdge(taken[n - 1], sorted[n])
  IN  taken[Len(sorted)]

\* buildInsightGraphFromResult, of ranked insights.
InsightGraph(insights, limit) ==
  LET nodes == FirstN(insights, limit)
  IN  [total |-> Len(insights), nodes |-> nodes, edges |-> GraphEdges(nodes)]

\* LimitInsightGraphResponse.
LimitGraph(graph, limit) ==
  LET nodes == FirstN(graph.nodes, limit)
  IN  [total |-> graph.total, nodes |-> nodes,
       edges |-> IF Len(graph.nodes) <= limit THEN graph.edges
                 ELSE Keep(graph.edges, LAMBDA e : {e.source, e.target} \subseteq Ids(nodes))]
=============================================================================
