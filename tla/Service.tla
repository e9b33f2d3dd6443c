------------------------------ MODULE Service ------------------------------
(***************************************************************************)
(* Three parts of the service around a refresh: what the inbox shows       *)
(* (Inbox), how the sources of a cycle are synthesised (SourceSynthesis),  *)
(* and whose workspace a request changes (OwnerScope).  They share no      *)
(* state, so nothing is lost by looking at the steps of one of them at a   *)
(* time.                                                                   *)
(***************************************************************************)
EXTENDS Naturals, Sequences

CONSTANTS
  Sources, Time, Windows, Made, Keywords, MaxGraph, MaxInsights, LastRun, LastIssue,
  MaxClusters, MaxConnections, MaxEdges, MaxDegree,
  Posts, Videos, Workers, Lists, JudgeEnabled, LastVersion, LastCycle,
  Users, PublicOwner, Playlists, LastRequest, LastMove,
  None

ASSUME LimitsAssumption ==
  /\ {MaxGraph, MaxInsights, MaxClusters, MaxConnections, MaxEdges, MaxDegree} \subseteq Nat \ {0}
  /\ JudgeEnabled \in BOOLEAN
  /\ {LastRun, LastIssue, LastCycle, LastRequest, LastMove} \subseteq Nat
  /\ LastVersion \in Nat \ {0}

\* A source is from X or from YouTube.
ASSUME SourcesAssumption ==
  /\ Posts \cap Videos = {} /\ Sources = Posts \cup Videos
  /\ PublicOwner \notin Users /\ None \notin Users \cup Playlists \cup {PublicOwner}

VARIABLES
  part,  \* which of the three is looked at; never changes
  run, runs, issue, digested, issues,
  version, records, cycle, cycles, candidates, exact, bySource, next, held, processed, asked,
  excused,
  publicUser, moves, profile, request, rows, clock, prior

In == INSTANCE Inbox
Work == INSTANCE SourceSynthesis
Scope == INSTANCE OwnerScope

\* What a refresh may list, and be given of it: insights of that source, with words,
\* scores and names that are compared as numbers.  An issue has room for a post and a video.
ASSUME InboxAssumption ==
  /\ Windows \subseteq Seq(DOMAIN Made)
  /\ \A c \in DOMAIN Made :
       /\ c.source \in Sources
       /\ Made[c] \subseteq Seq(In!Insights)
       /\ \A list \in Made[c] : \A i \in DOMAIN list : list[i].source = c.source
       /\ In!IsFiniteSet(Keywords[c])
  /\ \A x \in In!Insights :
       /\ x.source \in Sources
       /\ {x.id, x.domain, x.type, x.weight} \cup x.topics \subseteq Nat
       /\ In!IsFiniteSet(x.words)
  /\ Time \in [Sources -> Nat]
  /\ MaxInsights >= 2

\* A list is a sequence, and None no synthesis and no row.
ASSUME ListsAssumption == Lists \subseteq Seq(Work!SynthesisSources)
ASSUME NoneAssumption ==
  None \notin Work!Makers /\ None \notin Work!Record /\ None \notin Scope!Row

inboxVars == <<run, runs, issue, digested, issues>>
workVars ==
  <<version, records, cycle, cycles, candidates, exact, bySource, next, held, processed, asked,
    excused>>
scopeVars == <<publicUser, moves, profile, request, rows, clock, prior>>
vars == <<part, inboxVars, workVars, scopeVars>>

TypeOK ==
  /\ part \in {"inbox", "synthesis", "owners"}
  /\ In!InboxTypeOK /\ Work!SynthesisTypeOK /\ Scope!OwnerTypeOK

Init ==
  /\ part \in {"inbox", "synthesis", "owners"}
  /\ In!Init /\ Work!Init /\ Scope!Init

InboxNext ==
  /\ part = "inbox" /\ In!InboxNext
  /\ UNCHANGED <<part, workVars, scopeVars>>

SynthesisNext ==
  /\ part = "synthesis" /\ Work!SynthesisNext
  /\ UNCHANGED <<part, inboxVars, scopeVars>>

OwnersNext ==
  /\ part = "owners" /\ Scope!OwnerNext
  /\ UNCHANGED <<part, inboxVars, workVars>>

Next == InboxNext \/ SynthesisNext \/ OwnersNext

Spec == Init /\ [][Next]_vars

-----------------------------------------------------------------------------

\* The properties of the parts, as stated there; those of the inbox only where the
\* inbox can have moved.  A page is the same wherever it is read, and a longer one only
\* adds to a shorter one.
PagesAgree == part = "inbox" => In!PagesAgree

\* The graph relates what it returns, within its limits, the strongest first.
GraphSound == part = "inbox" => In!GraphSound

\* An issue speaks of its members, of both kinds when it can.
IssueSound == part = "inbox" => In!IssueSound

\* The model is paid once for a capture, and a result is its candidate's.
WorkersSound == Work!WorkersSound

\* A saved playlist stands until a later save, in the workspace of its user.
OwnersSound == Scope!OwnersSound
=============================================================================
