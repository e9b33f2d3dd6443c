--------------------------- MODULE DigestDelivery ---------------------------
(***************************************************************************)
(* The daily digest (Service.GenerateDigest): selection of the sources     *)
(* that no earlier issue used, composition, delivery by Resend, and        *)
(* SaveDigest.  Generators are the processes that may generate at the same *)
(* time (the worker's schedule, cmd/digest).  Refreshes add sources beside *)
(* them.  Instants are not numbered: what matters of first_seen_at is      *)
(* whether it is later than the cutoff of the digests saved so far.        *)
(***************************************************************************)
EXTENDS Integers, FiniteSets

CONSTANTS
  Generators,
  Sources,
  Bodies,     \* newsletters the language model may write
  LastDay,    \* bound: the digest dates are 1..LastDay
  Faults,     \* {"digest"} when the lookup of the latest digest may fail
  None

Days == 1 .. LastDay

ASSUME DaysAssumption == LastDay \in Nat \ {0}
ASSUME FaultsAssumption == Faults \subseteq {"digest"}
ASSUME NoneAssumption == None \notin Days \cup Bodies

VARIABLES
  oneProcess, \* the deployment: only the worker runs, and its runLock keeps a
              \* refresh or a generation from starting beside another
  day,          \* the digest date of the present moment
  seen,         \* source_items that have a synthesis
  inbox,        \* sources with a summary in the latest run
  afterCutoff,  \* sources first seen after the last delivery attempt on record
  issue,        \* digest_issues by date, or None: status and body
  members,      \* digest_source_items of each issue
  newest,       \* date of the most recently updated issue, or None
  mailed,       \* Resend: bodies mailed under the idempotency key of a date
  pc,
  draft         \* the digest each generator is working on

refreshVars == <<seen, inbox>>
ledgerVars == <<afterCutoff, issue, members, newest>>
vars == <<oneProcess, day, refreshVars, ledgerVars, mailed, pc, draft>>

Statuses == {"generated", "sent", "failed"}

Issue == [status : Statuses, body : Bodies]

Draft ==
  [inbox : SUBSET Sources,        \* sources of the run read at the start
   refs : SUBSET Sources,         \* sources selected for the issue
   date : Days \cup {None},       \* digest date, part of the idempotency key
   body : Bodies \cup {None},
   status : Statuses,
   seenBefore : SUBSET Sources]   \* sources first seen before the attempt

NoDraft == [inbox |-> {}, refs |-> {}, date |-> None, body |-> None,
            status |-> "generated", seenBefore |-> {}]

Stages == {"idle", "compose", "deliver", "save"}

TypeOK ==
  /\ oneProcess \in BOOLEAN
  /\ day \in Days
  /\ seen \in SUBSET Sources
  /\ inbox \in SUBSET seen
  /\ afterCutoff \in SUBSET seen
  /\ issue \in [Days -> Issue \cup {None}]
  /\ members \in [Days -> SUBSET seen]
  /\ newest \in Days \cup {None}
  /\ mailed \in [Days -> SUBSET Bodies]
  /\ pc \in [Generators -> Stages]
  /\ draft \in [Generators -> Draft]

Init ==
  /\ oneProcess \in BOOLEAN
  /\ day = 1
  /\ seen = {}
  /\ inbox = {}
  /\ afterCutoff = {}
  /\ issue = [d \in Days |-> None]
  /\ members = [d \in Days |-> {}]
  /\ newest = None
  /\ mailed = [d \in Days |-> {}]
  /\ pc = [g \in Generators |-> "idle"]
  /\ draft = [g \in Generators |-> NoDraft]

-----------------------------------------------------------------------------

Digested == UNION {members[d] : d \in Days}

\* Mistaken versions of definitions below, kept to show that each property can
\* fail: a selection without the where clause on earlier issues and the cutoff,
\* a check of the date in another time zone, an idempotency key made anew for
\* each attempt, and issues saved without, or with foreign, members.
SelectableAll == seen

AlreadySentOtherZone(known) ==
  known # None /\ known = day - 1 /\ issue[known].status = "sent"

DeliverNewKey(g) ==
  /\ pc[g] = "deliver"
  /\ \E arrives, answered \in BOOLEAN :
       /\ mailed' = IF arrives THEN [mailed EXCEPT ![draft[g].date] = @ \cup {draft[g].body}]
                    ELSE mailed
       /\ draft' = [draft EXCEPT
                      ![g].status = IF arrives /\ answered THEN "sent" ELSE "failed",
                      ![g].seenBefore = seen]
  /\ pc' = [pc EXCEPT ![g] = "save"]
  /\ UNCHANGED <<oneProcess, day, refreshVars, ledgerVars>>

RecordMembersNone(d) == members

RecordMembersAll(d) == [members EXCEPT ![d.date] = Sources]

\* ReadNewDigestSources: first seen after the cutoff and in no issue yet.
Selectable == afterCutoff \ Digested

\* isSentDigestForDate, of the digest the generator read with the latest run.
AlreadySent(known) ==
  known # None /\ known = day /\ issue[known].status = "sent"

RecordMembers(d) == [members EXCEPT ![d.date] = @ \cup d.refs]

Goto(g, stage) == pc' = [pc EXCEPT ![g] = stage]

Idle == \A g \in Generators : pc[g] = "idle"

-----------------------------------------------------------------------------

\* saveSourceCore of some refresh: a source item is first seen.
SeeSource(s) ==
  /\ oneProcess => Idle
  /\ s \notin seen
  /\ seen' = seen \cup {s}
  /\ afterCutoff' = afterCutoff \cup {s}
  /\ UNCHANGED <<oneProcess, day, inbox, issue, members, newest, mailed, pc, draft>>

\* The refresh commits its run.
SaveRun ==
  /\ oneProcess => Idle
  /\ inbox # seen
  /\ inbox' = seen
  /\ UNCHANGED <<oneProcess, day, seen, ledgerVars, mailed, pc, draft>>

\* The latest run is read, with the newest digest; a failed lookup of the digest
\* counts as none.  An issue already sent today, or a run without summaries, ends
\* the generation at once.
ReadLatest(g) ==
  /\ pc[g] = "idle"
  /\ oneProcess => Idle /\ inbox = seen
  /\ \E known \in {newest} \cup (IF "digest" \in Faults THEN {None} ELSE {}) :
       ~AlreadySent(known)
  /\ inbox # {}
  /\ draft' = [draft EXCEPT ![g] = [NoDraft EXCEPT !.inbox = inbox]]
  /\ Goto(g, "compose")
  /\ UNCHANGED <<oneProcess, day, refreshVars, ledgerVars, mailed>>

\* digestInputsForLatest and composeDigestIssue.  Without new sources the issue
\* is a continuity digest of the whole run and records no members.
Compose(g) ==
  /\ pc[g] = "compose"
  /\ \E body \in Bodies :
       draft' = [draft EXCEPT ![g].refs = Selectable \cap draft[g].inbox,
                              ![g].date = day,
                              ![g].body = body]
  /\ Goto(g, "deliver")
  /\ UNCHANGED <<oneProcess, day, refreshVars, ledgerVars, mailed>>

\* deliverDigest.  Resend mails once for an idempotency key and rejects another
\* body under it; the request or its answer may be lost.
Deliver(g) ==
  /\ pc[g] = "deliver"
  /\ \E arrives, answered \in BOOLEAN :
       LET d == draft[g]
           accepted == arrives /\ mailed[d.date] \subseteq {d.body}
       IN /\ mailed' = IF accepted THEN [mailed EXCEPT ![d.date] = {d.body}] ELSE mailed
          /\ draft' = [draft EXCEPT
                         ![g].status = IF accepted /\ answered THEN "sent" ELSE "failed",
                         ![g].seenBefore = seen]
  /\ Goto(g, "save")
  /\ UNCHANGED <<oneProcess, day, refreshVars, ledgerVars>>

\* SaveDigest: one transaction upserts the issue by owner and idempotency key and
\* adds its members and its delivery, which moves the cutoff.
SaveDigest(g) ==
  /\ pc[g] = "save"
  /\ LET d == draft[g] IN
       /\ issue' = [issue EXCEPT ![d.date] = [status |-> d.status, body |-> d.body]]
       /\ members' = RecordMembers(d)
       /\ afterCutoff' = afterCutoff \ d.seenBefore
       /\ newest' = d.date
  /\ draft' = [draft EXCEPT ![g] = NoDraft]
  /\ Goto(g, "idle")
  /\ UNCHANGED <<oneProcess, day, refreshVars, mailed>>

\* A crash, the three-minute timeout, or a failed model call or transaction.
Abort(g) ==
  /\ pc[g] # "idle"
  /\ draft' = [draft EXCEPT ![g] = NoDraft]
  /\ Goto(g, "idle")
  /\ UNCHANGED <<oneProcess, day, refreshVars, ledgerVars, mailed>>

NextDay ==
  /\ day < LastDay
  /\ day' = day + 1
  /\ UNCHANGED <<oneProcess, refreshVars, ledgerVars, mailed, pc, draft>>

Next ==
  \/ \E s \in Sources : SeeSource(s)
  \/ SaveRun
  \/ \E g \in Generators :
       \/ ReadLatest(g)
       \/ Compose(g)
       \/ Deliver(g)
       \/ SaveDigest(g)
       \/ Abort(g)
  \/ NextDay

Spec == Init /\ [][Next]_vars

-----------------------------------------------------------------------------

\* However generators overlap, crash after the mail is out or lose the answer,
\* the reader gets at most one mail a day, and an issue marked sent shows the
\* very body that was mailed.
OneMailPerDay ==
  \A d \in Days :
    /\ Cardinality(mailed[d]) <= 1
    /\ issue[d] # None /\ issue[d].status = "sent" => mailed[d] = {issue[d].body}

\* The worker alone puts a source in one issue at most.
SourceInOneIssue ==
  oneProcess => \A d, e \in Days : d # e => members[d] \cap members[e] = {}

\* An issue that was sent is never composed again, nor marked unsent, as long as
\* generations do not overlap.
SentIssueIsFinal ==
  [][\A d \in Days :
       oneProcess /\ issue[d] # None /\ issue[d].status = "sent" => issue'[d] = issue[d]]_vars

\* A source of the inbox is in an issue, or being put in one, or can still be
\* selected: where refreshes and generations take turns, the cutoff passes no
\* source over.
NoSourcePassedOver ==
  oneProcess => \A s \in inbox :
    s \in Digested \/ s \in afterCutoff \/ \E g \in Generators : s \in draft[g].refs
=============================================================================
