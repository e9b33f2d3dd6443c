------------------------- MODULE DigestDeliveryProofs -------------------------
(***************************************************************************)
(* The safety properties of the digest hold for any number of generators,  *)
(* sources, bodies and days.  OneMailPerDay follows from what a generation *)
(* knows about the key of its date (MailInv), whoever runs beside it.  The *)
(* properties of the worker follow from its taking turns: while it         *)
(* generates no source is seen, so that its selection stays exactly what   *)
(* the cutoff has not passed (WorkerInv).  That a sent issue is final      *)
(* needs the lookup of the newest digest to be reliable (FinalInv).        *)
(***************************************************************************)
EXTENDS DigestDelivery, FiniteSetTheorems, TLAPS

USE DEF vars, refreshVars, ledgerVars

Composed(g) == pc[g] \in {"deliver", "save"}

\* A date has the body of at most one mail, which a sent issue and a generation that
\* was answered show; a generation selects what has been seen.
MailInv ==
  /\ TypeOK
  /\ \A d \in Days : mailed[d] = {} \/ \E b \in Bodies : mailed[d] = {b}
  /\ \A d \in Days : issue[d] # None /\ issue[d].status = "sent" => mailed[d] = {issue[d].body}
  /\ \A g \in Generators : draft[g].refs \subseteq seen
  /\ \A g \in Generators : Composed(g) => draft[g].date \in Days /\ draft[g].body \in Bodies
  /\ \A g \in Generators :
       pc[g] = "save" /\ draft[g].status = "sent" => mailed[draft[g].date] = {draft[g].body}

\* The worker generates alone, and selects all that the cutoff has not passed.
WorkerInv ==
  oneProcess =>
    /\ \A g, h \in Generators : pc[g] # "idle" /\ pc[h] # "idle" => g = h
    /\ \A g \in Generators : pc[g] # "idle" => inbox = seen /\ draft[g].inbox = seen
    /\ \A g \in Generators : Composed(g) => draft[g].refs = afterCutoff \ Digested
    /\ \A s \in seen : s \in Digested \/ s \in afterCutoff
    /\ \A d, e \in Days : d # e => members[d] \cap members[e] = {}

Sent(d) == issue[d] # None /\ issue[d].status = "sent"

\* Issues are made in the order of their dates, and the worker never works on a sent one.
FinalInv ==
  oneProcess =>
    /\ \A d \in Days : issue[d] # None => newest # None /\ d <= newest
    /\ newest # None => newest <= day
    /\ \A g \in Generators : pc[g] = "compose" => ~Sent(day)
    /\ \A g \in Generators : Composed(g) =>
         /\ ~Sent(draft[g].date) /\ draft[g].date <= day
         /\ newest # None => newest <= draft[g].date

-----------------------------------------------------------------------------

\* A source is digested when some issue has it as a member.
LEMMA DigestedIs == \A s : s \in Digested <=> \E d \in Days : s \in members[d]
BY DEF Digested

\* The empty draft.
LEMMA NoDraftTyped == NoDraft \in Draft /\ NoDraft.refs = {} /\ NoDraft.inbox = {}
BY DEF NoDraft, Draft, Statuses

\* The invariants hold initially.
LEMMA InitInv == Init => MailInv /\ WorkerInv /\ FinalInv
<1> SUFFICES ASSUME Init PROVE MailInv /\ WorkerInv /\ FinalInv
  OBVIOUS
<1>1. TypeOK
  BY DaysAssumption, NoDraftTyped DEF Init, TypeOK, Stages, Days
<1>2. MailInv
  BY <1>1, NoDraftTyped DEF Init, MailInv, Composed
<1>3. WorkerInv
  BY DEF Init, WorkerInv, Composed
<1>4. FinalInv
  BY DEF Init, FinalInv, Composed
<1> QED
  BY <1>2, <1>3, <1>4

-----------------------------------------------------------------------------
\* Refreshes and the calendar.

\* A source is first seen, or the run is saved: nothing of a digest changes.
LEMMA RefreshKeepsMail ==
  ASSUME MailInv, (\E s \in Sources : SeeSource(s)) \/ SaveRun
  PROVE  MailInv'
<1>1. /\ UNCHANGED <<oneProcess, day, issue, members, newest, mailed, pc, draft>>
      /\ seen \subseteq seen' /\ seen' \in SUBSET Sources
      /\ inbox' \in SUBSET seen' /\ afterCutoff' \in SUBSET seen'
  BY DEF SeeSource, SaveRun, MailInv, TypeOK
<1>2. TypeOK'
  BY <1>1 DEF MailInv, TypeOK
<1> QED
  BY <1>1, <1>2 DEF MailInv, Composed

\* A generation reads the run.
LEMMA ReadKeepsMail ==
  ASSUME MailInv, NEW g \in Generators, ReadLatest(g)
  PROVE  MailInv'
<1> DEFINE d == [NoDraft EXCEPT !.inbox = inbox]
<1>1. d \in Draft /\ d.refs = {}
  BY NoDraftTyped DEF MailInv, TypeOK, Draft
<1> HIDE DEF d
<1>2. /\ draft' = [draft EXCEPT ![g] = d] /\ pc' = [pc EXCEPT ![g] = "compose"]
      /\ UNCHANGED <<oneProcess, day, refreshVars, ledgerVars, mailed>>
  BY DEF ReadLatest, Goto, d
<1>3. /\ TypeOK'
      /\ draft'[g] = d /\ pc'[g] = "compose"
      /\ \A h \in Generators \ {g} : draft'[h] = draft[h] /\ pc'[h] = pc[h]
  BY <1>1, <1>2 DEF MailInv, TypeOK, Stages
<1> QED
  BY <1>1, <1>2, <1>3 DEF MailInv, Composed

\* It composes under today's date.
LEMMA ComposeKeepsMail ==
  ASSUME MailInv, NEW g \in Generators, Compose(g)
  PROVE  MailInv'
<1>1. PICK body \in Bodies :
        draft' = [draft EXCEPT ![g].refs = Selectable \cap draft[g].inbox,
                               ![g].date = day, ![g].body = body]
  BY DEF Compose
<1> DEFINE d == [draft[g] EXCEPT !.refs = Selectable \cap draft[g].inbox,
                                 !.date = day, !.body = body]
<1>2. draft[g] \in Draft /\ afterCutoff \subseteq seen /\ seen \subseteq Sources /\ day \in Days
  BY DEF MailInv, TypeOK
<1>3. /\ d \in Draft /\ d.refs \subseteq seen /\ d.date = day /\ d.body = body
  BY <1>2 DEF Draft, Selectable
<1>4. draft' = [draft EXCEPT ![g] = d]
  BY <1>1
<1> HIDE DEF d
<1>5. /\ pc' = [pc EXCEPT ![g] = "deliver"]
      /\ UNCHANGED <<oneProcess, day, refreshVars, ledgerVars, mailed>>
  BY DEF Compose, Goto
<1>6. /\ TypeOK'
      /\ draft'[g] = d /\ pc'[g] = "deliver"
      /\ \A h \in Generators \ {g} : draft'[h] = draft[h] /\ pc'[h] = pc[h]
  BY <1>3, <1>4, <1>5 DEF MailInv, TypeOK, Stages
<1> QED
  BY <1>2, <1>3, <1>5, <1>6 DEF MailInv, Composed

\* Resend takes one body under a key: what it has mailed before stays.
LEMMA DeliverKeepsMail ==
  ASSUME MailInv, NEW g \in Generators, Deliver(g)
  PROVE  MailInv'
<1> DEFINE date == draft[g].date
           body == draft[g].body
<1>1. PICK arrives \in BOOLEAN, answered \in BOOLEAN :
        LET accepted == arrives /\ mailed[date] \subseteq {body}
        IN /\ mailed' = IF accepted THEN [mailed EXCEPT ![date] = {body}] ELSE mailed
           /\ draft' = [draft EXCEPT
                          ![g].status = IF accepted /\ answered THEN "sent" ELSE "failed",
                          ![g].seenBefore = seen]
  BY DEF Deliver
<1> DEFINE accepted == arrives /\ mailed[date] \subseteq {body}
           d == [draft[g] EXCEPT !.status = IF accepted /\ answered THEN "sent" ELSE "failed",
                                 !.seenBefore = seen]
<1>2. /\ pc[g] = "deliver" /\ pc' = [pc EXCEPT ![g] = "save"]
      /\ UNCHANGED <<oneProcess, day, refreshVars, ledgerVars>>
  BY DEF Deliver, Goto
<1>3. /\ draft[g] \in Draft /\ seen \subseteq Sources /\ date \in Days /\ body \in Bodies
      /\ mailed \in [Days -> SUBSET Bodies] /\ draft[g].refs \subseteq seen
  BY <1>2 DEF MailInv, TypeOK, Composed
<1>4. /\ d \in Draft /\ d.refs = draft[g].refs /\ d.date = date /\ d.body = body
      /\ d.status = "sent" => accepted
  BY <1>3 DEF Draft, Statuses
<1>5. draft' = [draft EXCEPT ![g] = d]
  BY <1>1
<1>6. mailed' = IF accepted THEN [mailed EXCEPT ![date] = {body}] ELSE mailed
  BY <1>1
<1> HIDE DEF d
<1>7. /\ mailed' \in [Days -> SUBSET Bodies]
      /\ accepted => mailed'[date] = {body}
      /\ \A e \in Days : mailed'[e] = mailed[e] \/ (e = date /\ accepted)
  BY <1>3, <1>6
<1>8. \A e \in Days : \A b : mailed[e] = {b} => mailed'[e] = {b}
  BY <1>3, <1>7
<1> HIDE DEF accepted, date, body
<1>9. /\ TypeOK'
      /\ draft'[g] = d /\ pc'[g] = "save"
      /\ \A h \in Generators \ {g} : draft'[h] = draft[h] /\ pc'[h] = pc[h]
  BY <1>2, <1>4, <1>5, <1>7 DEF MailInv, TypeOK, Stages
<1>10. \A e \in Days : mailed'[e] = {} \/ \E b \in Bodies : mailed'[e] = {b}
  BY <1>3, <1>7 DEF MailInv
<1>11. \A e \in Days : issue'[e] # None /\ issue'[e].status = "sent" => mailed'[e] = {issue'[e].body}
  BY <1>2, <1>8 DEF MailInv
<1>12. ASSUME NEW h \in Generators, pc'[h] = "save", draft'[h].status = "sent"
       PROVE  mailed'[draft'[h].date] = {draft'[h].body}
  <2>1. CASE h = g
    BY <1>4, <1>7, <1>9, <1>12, <2>1
  <2>2. CASE h # g
    <3>1. pc[h] = "save" /\ draft'[h] = draft[h]
      BY <1>9, <1>12, <2>2
    <3>2. mailed[draft[h].date] = {draft[h].body} /\ draft[h].date \in Days
      BY <1>12, <3>1 DEF MailInv, Composed
    <3> QED
      BY <1>8, <3>1, <3>2
  <2> QED
    BY <2>1, <2>2
<1>13. \A h \in Generators : draft'[h].refs \subseteq seen'
  BY <1>2, <1>3, <1>4, <1>9 DEF MailInv
<1>14. \A h \in Generators : Composed(h)' => draft'[h].date \in Days /\ draft'[h].body \in Bodies
  BY <1>3, <1>4, <1>9 DEF MailInv, Composed
<1> QED
  BY <1>9, <1>10, <1>11, <1>12, <1>13, <1>14 DEF MailInv

\* The issue is saved with what was composed and answered.
LEMMA SaveKeepsMail ==
  ASSUME MailInv, NEW g \in Generators, SaveDigest(g)
  PROVE  MailInv'
<1> DEFINE d == draft[g]
           saved == [status |-> d.status, body |-> d.body]
<1>1. /\ pc[g] = "save" /\ pc' = [pc EXCEPT ![g] = "idle"]
      /\ draft' = [draft EXCEPT ![g] = NoDraft]
      /\ issue' = [issue EXCEPT ![d.date] = saved]
      /\ members' = [members EXCEPT ![d.date] = @ \cup d.refs]
      /\ afterCutoff' = afterCutoff \ d.seenBefore
      /\ newest' = d.date
      /\ UNCHANGED <<oneProcess, day, refreshVars, mailed>>
  BY DEF SaveDigest, RecordMembers, Goto
<1>2. /\ d \in Draft /\ d.date \in Days /\ d.body \in Bodies /\ d.status \in Statuses
      /\ d.refs \subseteq seen
  BY <1>1 DEF MailInv, TypeOK, Composed, Draft
<1>3. saved \in Issue /\ saved.status = d.status /\ saved.body = d.body
  BY <1>2 DEF Issue
<1>4. d.status = "sent" => mailed[d.date] = {d.body}
  BY <1>1 DEF MailInv
<1> HIDE DEF d, saved
<1>5. /\ issue' \in [Days -> Issue \cup {None}]
      /\ issue'[d.date] = saved /\ \A e \in Days \ {d.date} : issue'[e] = issue[e]
  BY <1>1, <1>2, <1>3 DEF MailInv, TypeOK
<1>6. members' \in [Days -> SUBSET seen]
  BY <1>1, <1>2 DEF MailInv, TypeOK
<1>7. /\ pc' \in [Generators -> Stages] /\ draft' \in [Generators -> Draft]
      /\ pc'[g] = "idle" /\ draft'[g] = NoDraft
      /\ \A h \in Generators \ {g} : draft'[h] = draft[h] /\ pc'[h] = pc[h]
  BY <1>1, NoDraftTyped DEF MailInv, TypeOK, Stages
<1>8. TypeOK'
  BY <1>1, <1>2, <1>5, <1>6, <1>7 DEF MailInv, TypeOK
<1>9. \A e \in Days : issue'[e] # None /\ issue'[e].status = "sent" => mailed'[e] = {issue'[e].body}
  BY <1>1, <1>3, <1>4, <1>5 DEF MailInv
<1>10. \A h \in Generators : draft'[h].refs \subseteq seen'
  BY <1>1, <1>7, NoDraftTyped DEF MailInv
<1>11. \A h \in Generators : /\ Composed(h)' => h # g /\ Composed(h)
                             /\ pc'[h] = "save" => h # g /\ pc[h] = "save"
  BY <1>7 DEF Composed
<1> QED
  BY <1>1, <1>7, <1>8, <1>9, <1>10, <1>11 DEF MailInv

\* A generation is given up, a day passes, or nothing happens.
LEMMA RestKeepsMail ==
  ASSUME MailInv, (\E g \in Generators : Abort(g)) \/ NextDay \/ UNCHANGED vars
  PROVE  MailInv'
<1>1. CASE \E g \in Generators : Abort(g)
  <2>1. PICK g \in Generators : Abort(g)
    BY <1>1
  <2>2. /\ pc' = [pc EXCEPT ![g] = "idle"] /\ draft' = [draft EXCEPT ![g] = NoDraft]
        /\ UNCHANGED <<oneProcess, day, refreshVars, ledgerVars, mailed>>
    BY <2>1 DEF Abort, Goto
  <2>3. /\ TypeOK'
        /\ pc'[g] = "idle" /\ draft'[g] = NoDraft
        /\ \A h \in Generators \ {g} : draft'[h] = draft[h] /\ pc'[h] = pc[h]
    BY <2>2, NoDraftTyped DEF MailInv, TypeOK, Stages
  <2>4. \A h \in Generators : /\ Composed(h)' => h # g /\ Composed(h)
                              /\ pc'[h] = "save" => h # g /\ pc[h] = "save"
    BY <2>3 DEF Composed
  <2>5. \A h \in Generators : draft'[h].refs \subseteq seen'
    BY <2>2, <2>3, NoDraftTyped DEF MailInv
  <2> QED
    BY <2>2, <2>3, <2>4, <2>5 DEF MailInv
<1>2. CASE NextDay \/ UNCHANGED vars
  <2>1. /\ UNCHANGED <<oneProcess, refreshVars, ledgerVars, mailed, pc, draft>>
        /\ day' \in Days
    BY <1>2, DaysAssumption DEF NextDay, MailInv, TypeOK, Days
  <2>2. TypeOK'
    BY <2>1 DEF MailInv, TypeOK
  <2> QED
    BY <2>1, <2>2 DEF MailInv, Composed
<1> QED
  BY <1>1, <1>2

-----------------------------------------------------------------------------
\* The worker takes turns.

\* While it generates alone, no other step of it or of a refresh begins.
LEMMA StepKeepsWorker ==
  ASSUME MailInv, WorkerInv, [Next]_vars
  PROVE  WorkerInv'
<1> SUFFICES ASSUME oneProcess
             PROVE  WorkerInv'
  <2>1. oneProcess' = oneProcess
    BY DEF Next, SeeSource, SaveRun, ReadLatest, Compose, Deliver, SaveDigest, Abort, NextDay
  <2> QED
    BY <2>1 DEF WorkerInv
<1>1. /\ \A g, h \in Generators : pc[g] # "idle" /\ pc[h] # "idle" => g = h
      /\ \A g \in Generators : pc[g] # "idle" => inbox = seen /\ draft[g].inbox = seen
      /\ \A g \in Generators : Composed(g) => draft[g].refs = afterCutoff \ Digested
      /\ \A s \in seen : s \in Digested \/ s \in afterCutoff
      /\ \A d, e \in Days : d # e => members[d] \cap members[e] = {}
  BY DEF WorkerInv
<1>2. /\ pc \in [Generators -> Stages] /\ draft \in [Generators -> Draft]
      /\ members \in [Days -> SUBSET seen] /\ afterCutoff \subseteq seen /\ inbox \subseteq seen
  BY DEF MailInv, TypeOK
<1>3. ASSUME NEW s \in Sources, SeeSource(s)
      PROVE  WorkerInv'
  <2>1. /\ \A g \in Generators : pc'[g] = "idle"
        /\ seen' = seen \cup {s} /\ afterCutoff' = afterCutoff \cup {s} /\ members' = members
    BY <1>3 DEF SeeSource, Idle
  <2>2. Digested' = Digested
    BY <2>1 DEF Digested
  <2> QED
    BY <1>1, <2>1, <2>2 DEF WorkerInv, Composed
<1>4. CASE SaveRun
  <2>1. /\ \A g \in Generators : pc'[g] = "idle"
        /\ UNCHANGED <<seen, afterCutoff, members>>
    BY <1>4 DEF SaveRun, Idle
  <2>2. Digested' = Digested
    BY <2>1 DEF Digested
  <2> QED
    BY <1>1, <2>1, <2>2 DEF WorkerInv, Composed
<1>5. ASSUME NEW g \in Generators, ReadLatest(g)
      PROVE  WorkerInv'
  <2> DEFINE d == [NoDraft EXCEPT !.inbox = inbox]
  <2>1. /\ \A h \in Generators : pc[h] = "idle"
        /\ inbox = seen
        /\ draft' = [draft EXCEPT ![g] = d] /\ pc' = [pc EXCEPT ![g] = "compose"]
        /\ UNCHANGED <<refreshVars, ledgerVars>>
    BY <1>5 DEF ReadLatest, Goto, Idle
  <2>2. d.inbox = inbox
    BY NoDraftTyped DEF Draft
  <2> HIDE DEF d
  <2>3. /\ pc'[g] = "compose" /\ draft'[g].inbox = seen
        /\ \A h \in Generators \ {g} : pc'[h] = "idle"
    BY <1>2, <2>1, <2>2
  <2>4. Digested' = Digested
    BY <2>1 DEF Digested
  <2> QED
    BY <1>1, <2>1, <2>3, <2>4 DEF WorkerInv, Composed
<1>6. ASSUME NEW g \in Generators, Compose(g)
      PROVE  WorkerInv'
  <2>1. PICK body \in Bodies :
          draft' = [draft EXCEPT ![g].refs = Selectable \cap draft[g].inbox,
                                 ![g].date = day, ![g].body = body]
    BY <1>6 DEF Compose
  <2> DEFINE d == [draft[g] EXCEPT !.refs = Selectable \cap draft[g].inbox,
                                   !.date = day, !.body = body]
  <2>2. /\ pc[g] = "compose" /\ pc' = [pc EXCEPT ![g] = "deliver"]
        /\ draft' = [draft EXCEPT ![g] = d]
        /\ UNCHANGED <<refreshVars, ledgerVars>>
    BY <1>6, <2>1 DEF Compose, Goto
  <2>3. /\ d.inbox = draft[g].inbox /\ d.refs = Selectable \cap draft[g].inbox
    BY <1>2 DEF Draft
  <2> HIDE DEF d
  <2>4. Digested' = Digested
    BY <2>2 DEF Digested
  <2>5. /\ pc'[g] = "deliver" /\ draft'[g] = d
        /\ \A h \in Generators \ {g} : pc'[h] = pc[h] /\ draft'[h] = draft[h] /\ pc[h] = "idle"
    BY <1>1, <1>2, <2>2
  <2>6. inbox = seen /\ draft[g].inbox = seen
    BY <1>1, <2>2
  <2>7. d.refs = afterCutoff \ Digested
    BY <1>2, <2>3, <2>6 DEF Selectable
  <2> QED
    BY <1>1, <2>2, <2>3, <2>4, <2>5, <2>6, <2>7 DEF WorkerInv, Composed
<1>7. ASSUME NEW g \in Generators, Deliver(g)
      PROVE  WorkerInv'
  <2>1. PICK status \in {"sent", "failed"} :
          draft' = [draft EXCEPT ![g].status = status, ![g].seenBefore = seen]
    BY <1>7 DEF Deliver
  <2> DEFINE d == [draft[g] EXCEPT !.status = status, !.seenBefore = seen]
  <2>2. /\ pc[g] = "deliver" /\ pc' = [pc EXCEPT ![g] = "save"]
        /\ draft' = [draft EXCEPT ![g] = d]
        /\ UNCHANGED <<refreshVars, ledgerVars>>
    BY <1>7, <2>1 DEF Deliver, Goto
  <2>3. d.inbox = draft[g].inbox /\ d.refs = draft[g].refs
    BY <1>2 DEF Draft
  <2> HIDE DEF d
  <2>4. Digested' = Digested
    BY <2>2 DEF Digested
  <2>5. /\ pc'[g] = "save" /\ draft'[g] = d
        /\ \A h \in Generators \ {g} : pc'[h] = pc[h] /\ draft'[h] = draft[h] /\ pc[h] = "idle"
    BY <1>1, <1>2, <2>2
  <2>6. Composed(g)
    BY <2>2 DEF Composed
  <2> QED
    BY <1>1, <2>2, <2>3, <2>4, <2>5, <2>6 DEF WorkerInv, Composed
<1>8. ASSUME NEW g \in Generators, SaveDigest(g)
      PROVE  WorkerInv'
  <2> DEFINE d == draft[g]
  <2>1. /\ pc[g] = "save" /\ pc' = [pc EXCEPT ![g] = "idle"]
        /\ members' = [members EXCEPT ![d.date] = @ \cup d.refs]
        /\ afterCutoff' = afterCutoff \ d.seenBefore
        /\ UNCHANGED refreshVars
    BY <1>8 DEF SaveDigest, RecordMembers, Goto
  <2>2. Composed(g) /\ d.date \in Days /\ d.refs = afterCutoff \ Digested
    BY <1>1, <2>1 DEF Composed, MailInv
  <2> HIDE DEF d
  <2>3. \A h \in Generators : pc'[h] = "idle"
    BY <1>1, <1>2, <2>1
  <2>4. /\ members'[d.date] = members[d.date] \cup d.refs
        /\ \A e \in Days \ {d.date} : members'[e] = members[e]
    BY <1>2, <2>1, <2>2
  <2>5. \A s \in d.refs : \A e \in Days : s \notin members[e]
    BY <2>2, DigestedIs
  <2>6. \A s : s \in Digested' <=> s \in Digested \/ s \in d.refs
    BY <2>2, <2>4, DigestedIs DEF Digested
  <2>7. \A e, f \in Days : e # f => members'[e] \cap members'[f] = {}
    BY <1>1, <2>4, <2>5
  <2>8. \A s \in seen : s \in Digested'
    BY <1>1, <2>2, <2>6
  <2> QED
    BY <2>1, <2>3, <2>7, <2>8 DEF WorkerInv, Composed
<1>9. ASSUME NEW g \in Generators, Abort(g)
      PROVE  WorkerInv'
  <2>1. /\ pc' = [pc EXCEPT ![g] = "idle"] /\ draft' = [draft EXCEPT ![g] = NoDraft]
        /\ UNCHANGED <<refreshVars, ledgerVars>>
    BY <1>9 DEF Abort, Goto
  <2>2. /\ pc'[g] = "idle"
        /\ \A h \in Generators \ {g} : pc'[h] = pc[h] /\ draft'[h] = draft[h]
    BY <1>2, <2>1
  <2>3. Digested' = Digested
    BY <2>1 DEF Digested
  <2> QED
    BY <1>1, <2>1, <2>2, <2>3 DEF WorkerInv, Composed
<1>10. CASE NextDay \/ UNCHANGED vars
  <2>1. UNCHANGED <<refreshVars, ledgerVars, pc, draft>>
    BY <1>10 DEF NextDay
  <2>2. Digested' = Digested
    BY <2>1 DEF Digested
  <2> QED
    BY <1>1, <2>1, <2>2 DEF WorkerInv, Composed
<1> QED
  BY <1>3, <1>4, <1>5, <1>6, <1>7, <1>8, <1>9, <1>10 DEF Next

-----------------------------------------------------------------------------
\* The issues are made in the order of their dates.

\* Where the lookup of the newest digest is reliable, the worker takes up no issue
\* that was sent, and midnight makes none it holds one.
LEMMA StepKeepsFinal ==
  ASSUME "digest" \notin Faults, MailInv, WorkerInv, FinalInv, [Next]_vars
  PROVE  FinalInv'
<1> SUFFICES ASSUME oneProcess
             PROVE  FinalInv'
  <2>1. oneProcess' = oneProcess
    BY DEF Next, SeeSource, SaveRun, ReadLatest, Compose, Deliver, SaveDigest, Abort, NextDay
  <2> QED
    BY <2>1 DEF FinalInv
<1>1. /\ \A d \in Days : issue[d] # None => newest # None /\ d <= newest
      /\ newest # None => newest <= day
      /\ \A g \in Generators : pc[g] = "compose" => ~Sent(day)
      /\ \A g \in Generators : Composed(g) =>
           /\ ~Sent(draft[g].date) /\ draft[g].date <= day
           /\ newest # None => newest <= draft[g].date
  BY DEF FinalInv
<1>2. /\ pc \in [Generators -> Stages] /\ draft \in [Generators -> Draft]
      /\ issue \in [Days -> Issue \cup {None}]
      /\ newest \in Days \cup {None} /\ day \in Days
      /\ Days \subseteq Int /\ None \notin Days
  BY DaysAssumption, NoneAssumption DEF MailInv, TypeOK, Days
<1>3. \A g, h \in Generators : pc[g] # "idle" /\ pc[h] # "idle" => g = h
  BY DEF WorkerInv
<1>4. \A g \in Generators : Composed(g) => draft[g].date \in Days
  BY DEF MailInv
<1>5. CASE (\E s \in Sources : SeeSource(s)) \/ SaveRun \/ UNCHANGED vars
  <2>1. UNCHANGED <<day, issue, newest, pc, draft>>
    BY <1>5 DEF SeeSource, SaveRun
  <2> QED
    BY <1>1, <2>1 DEF FinalInv, Composed, Sent
<1>6. ASSUME NEW g \in Generators, ReadLatest(g)
      PROVE  FinalInv'
  <2>1. /\ \A h \in Generators : pc[h] = "idle"
        /\ ~AlreadySent(newest)
        /\ pc' = [pc EXCEPT ![g] = "compose"]
        /\ UNCHANGED <<day, issue, newest>>
    BY <1>6 DEF ReadLatest, Goto, Idle, ledgerVars
  <2>2. ASSUME Sent(day)
        PROVE  FALSE
    <3>1. newest # None /\ day <= newest /\ newest <= day
      BY <1>1, <1>2, <2>2 DEF Sent
    <3>2. newest \in Int /\ day \in Int
      BY <1>2, <3>1
    <3>3. newest = day
      BY <3>1, <3>2
    <3> QED
      BY <2>1, <2>2, <3>1, <3>3 DEF AlreadySent, Sent
  <2>3. \A h \in Generators : pc'[h] \notin {"deliver", "save"}
    BY <1>2, <2>1
  <2> QED
    BY <1>1, <2>1, <2>2, <2>3 DEF FinalInv, Composed, Sent
<1>7. ASSUME NEW g \in Generators, Compose(g)
      PROVE  FinalInv'
  <2>1. PICK body \in Bodies :
          draft' = [draft EXCEPT ![g].refs = Selectable \cap draft[g].inbox,
                                 ![g].date = day, ![g].body = body]
    BY <1>7 DEF Compose
  <2>2. /\ pc[g] = "compose" /\ pc' = [pc EXCEPT ![g] = "deliver"]
        /\ UNCHANGED <<day, issue, newest>>
    BY <1>7 DEF Compose, Goto, ledgerVars
  <2>3. draft'[g].date = day
    BY <1>2, <2>1 DEF Draft
  <2>4. \A h \in Generators \ {g} : pc'[h] = "idle"
    BY <1>2, <1>3, <2>2
  <2>5. ~Sent(day) /\ pc'[g] = "deliver"
    BY <1>1, <1>2, <2>2
  <2> QED
    BY <1>1, <1>2, <2>2, <2>3, <2>4, <2>5 DEF FinalInv, Composed, Sent
<1>8. ASSUME NEW g \in Generators, Deliver(g)
      PROVE  FinalInv'
  <2>1. PICK status \in {"sent", "failed"} :
          draft' = [draft EXCEPT ![g].status = status, ![g].seenBefore = seen]
    BY <1>8 DEF Deliver
  <2>2. /\ pc[g] = "deliver" /\ pc' = [pc EXCEPT ![g] = "save"]
        /\ UNCHANGED <<day, issue, newest>>
    BY <1>8 DEF Deliver, Goto, ledgerVars
  <2>3. draft'[g].date = draft[g].date
    BY <1>2, <2>1 DEF Draft
  <2>4. \A h \in Generators \ {g} : pc'[h] = "idle"
    BY <1>2, <1>3, <2>2
  <2>5. Composed(g) /\ pc'[g] = "save"
    BY <1>2, <2>2 DEF Composed
  <2> QED
    BY <1>1, <2>2, <2>3, <2>4, <2>5 DEF FinalInv, Composed, Sent
<1>9. ASSUME NEW g \in Generators, SaveDigest(g)
      PROVE  FinalInv'
  <2> DEFINE date == draft[g].date
  <2>1. /\ pc[g] = "save" /\ pc' = [pc EXCEPT ![g] = "idle"]
        /\ \E i : issue' = [issue EXCEPT ![date] = i]
        /\ newest' = date
        /\ UNCHANGED day
    BY <1>9 DEF SaveDigest, Goto
  <2>2. Composed(g) /\ date \in Days
    BY <1>4, <2>1 DEF Composed
  <2>3. date <= day /\ (newest # None => newest <= date)
    BY <1>1, <2>2
  <2> HIDE DEF date
  <2>4. \A h \in Generators : pc'[h] = "idle"
    BY <1>2, <1>3, <2>1
  <2>5. \A d \in Days : issue'[d] # None => d = date \/ issue[d] # None
    BY <1>2, <2>1
  <2>6. \A d \in Days : issue'[d] # None => d <= date
    BY <1>1, <1>2, <2>2, <2>3, <2>5
  <2> QED
    BY <1>2, <2>1, <2>2, <2>3, <2>4, <2>6 DEF FinalInv, Composed
<1>10. ASSUME NEW g \in Generators, Abort(g)
      PROVE  FinalInv'
  <2>1. /\ pc[g] # "idle" /\ pc' = [pc EXCEPT ![g] = "idle"]
        /\ UNCHANGED <<day, issue, newest>>
    BY <1>10 DEF Abort, Goto, ledgerVars
  <2>2. \A h \in Generators : pc'[h] = "idle"
    BY <1>2, <1>3, <2>1
  <2> QED
    BY <1>1, <2>1, <2>2 DEF FinalInv, Composed
<1>11. CASE NextDay
  <2>1. day' = day + 1 /\ UNCHANGED <<issue, newest, pc, draft>>
    BY <1>11 DEF NextDay
  <2>2. \A d \in Days : issue[d] # None => d <= day
    BY <1>1, <1>2
  <2>3. day' \in Int /\ day' > day /\ day' \in Days
    BY <1>2, <1>11, <2>1, DaysAssumption DEF NextDay, Days
  <2>4. ~Sent(day')
    BY <1>2, <2>2, <2>3 DEF Sent
  <2>5. newest # None => newest <= day'
    BY <1>1, <1>2, <2>3
  <2>6. \A g \in Generators : Composed(g) => draft[g].date <= day'
    <3>1. \A g \in Generators : Composed(g) => draft[g].date <= day /\ draft[g].date \in Int
      BY <1>1, <1>2, <1>4
    <3> QED
      BY <1>2, <2>3, <3>1
  <2> QED
    BY <1>1, <2>1, <2>4, <2>5, <2>6 DEF FinalInv, Composed, Sent
<1> QED
  BY <1>5, <1>6, <1>7, <1>8, <1>9, <1>10, <1>11 DEF Next

\* Only a save changes an issue, and the worker saves none that was sent.
LEMMA StepKeepsSent ==
  ASSUME MailInv, WorkerInv, FinalInv, [Next]_vars
  PROVE  \A d \in Days :
           oneProcess /\ issue[d] # None /\ issue[d].status = "sent" => issue'[d] = issue[d]
<1> SUFFICES ASSUME NEW d \in Days, oneProcess, Sent(d)
             PROVE  issue'[d] = issue[d]
  BY DEF Sent
<1>1. ASSUME NEW g \in Generators, SaveDigest(g)
      PROVE  issue'[d] = issue[d]
  <2>1. pc[g] = "save" /\ \E i : issue' = [issue EXCEPT ![draft[g].date] = i]
    BY <1>1 DEF SaveDigest
  <2>2. Composed(g)
    BY <2>1 DEF Composed
  <2>3. draft[g].date # d
    BY <2>2 DEF FinalInv
  <2> QED
    BY <2>1, <2>3 DEF MailInv, TypeOK
<1>2. CASE issue' = issue
  BY <1>2
<1>3. (\E g \in Generators : SaveDigest(g)) \/ issue' = issue
  BY DEF Next, SeeSource, SaveRun, ReadLatest, Compose, Deliver, Abort, NextDay
<1> QED
  BY <1>1, <1>2, <1>3

-----------------------------------------------------------------------------

\* What a generation knows of the key of its date, and of the sources the cutoff has
\* passed, holds in every state (GenerateDigest, SaveDigest).
THEOREM DigestInvariant == Spec => [](MailInv /\ WorkerInv)
<1>1. Init => MailInv /\ WorkerInv
  BY InitInv
<1>2. MailInv /\ WorkerInv /\ [Next]_vars => (MailInv /\ WorkerInv)'
  <2> SUFFICES ASSUME MailInv, WorkerInv, [Next]_vars
               PROVE  (MailInv /\ WorkerInv)'
    OBVIOUS
  <2>1. MailInv'
    BY RefreshKeepsMail, ReadKeepsMail, ComposeKeepsMail, DeliverKeepsMail, SaveKeepsMail,
       RestKeepsMail DEF Next
  <2> QED
    BY <2>1, StepKeepsWorker
<1> QED
  BY <1>1, <1>2, PTL DEF Spec

\* Every draft, issue and mail of the digest is well formed, in particular a source is
\* in an issue only when it was seen.
THEOREM DigestTypes == Spec => []TypeOK
<1>1. MailInv => TypeOK
  BY DEF MailInv
<1> QED
  BY <1>1, DigestInvariant, PTL

\* However many generators overlap, crash or lose the answer of Resend, one mail at most
\* goes out for a day, and a sent issue shows the body that was mailed (deliverDigest).
THEOREM OneMailADay == Spec => []OneMailPerDay
<1>1. MailInv => OneMailPerDay
  <2> SUFFICES ASSUME MailInv, NEW d \in Days
               PROVE  Cardinality(mailed[d]) <= 1
    BY DEF MailInv, OneMailPerDay
  <2>1. CASE mailed[d] = {}
    BY <2>1, FS_EmptySet
  <2>2. ASSUME NEW b \in Bodies, mailed[d] = {b}
        PROVE  Cardinality(mailed[d]) <= 1
    BY <2>2, FS_Singleton
  <2> QED
    BY <2>1, <2>2 DEF MailInv
<1> QED
  BY <1>1, DigestInvariant, PTL

\* Where the worker generates alone, no source is a member of two issues
\* (ReadNewDigestSources, SaveDigest).
THEOREM InOneIssueOnly == Spec => []SourceInOneIssue
<1>1. WorkerInv => SourceInOneIssue
  BY DEF WorkerInv, SourceInOneIssue
<1> QED
  BY <1>1, DigestInvariant, PTL

\* Where refreshes and generations take turns, the cutoff passes no source of the inbox
\* over (ReadNewDigestSources).
THEOREM NonePassedOver == Spec => []NoSourcePassedOver
<1>1. MailInv /\ WorkerInv => NoSourcePassedOver
  BY DEF MailInv, TypeOK, WorkerInv, NoSourcePassedOver
<1> QED
  BY <1>1, DigestInvariant, PTL

\* With a reliable lookup of the newest digest, an issue that was sent is never composed
\* again, nor marked unsent, by the worker (isSentDigestForDate).
THEOREM SentIsFinal ==
  ASSUME "digest" \notin Faults
  PROVE  Spec => SentIssueIsFinal
<1> DEFINE Inv == MailInv /\ WorkerInv /\ FinalInv
           Kept == \A d \in Days :
             oneProcess /\ issue[d] # None /\ issue[d].status = "sent" => issue'[d] = issue[d]
<1>1. Init => FinalInv
  BY InitInv
<1>2. MailInv /\ WorkerInv /\ FinalInv /\ [Next]_vars => FinalInv'
  BY StepKeepsFinal
<1>3. MailInv /\ WorkerInv /\ FinalInv /\ [Next]_vars => [Kept]_vars
  BY StepKeepsSent
<1> HIDE DEF Kept
<1>4. Spec => [][Kept]_vars
  BY <1>1, <1>2, <1>3, DigestInvariant, PTL DEF Spec
<1> QED
  BY <1>4 DEF SentIssueIsFinal, Kept
=============================================================================
