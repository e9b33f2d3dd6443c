------------------------ MODULE SourceRefreshProofs ------------------------
(***************************************************************************)
(* GroundedInv is inductive for any number of refreshers, sources and      *)
(* versions and for any faults; that the inbox and the index only show     *)
(* committed syntheses follows.  A cycle's step replaces its own job and   *)
(* stage and only ever adds to synth, so the jobs of the others stay       *)
(* grounded (OtherJobs); each action then has to account for its own job.  *)
(* Of cycles that run one after the other, InboxInv is: the run a cycle    *)
(* will be merged with is still the latest, so its own replaces it and     *)
(* keeps what the inbox shows.                                             *)
(***************************************************************************)
EXTENDS SourceRefresh, SequenceTheorems, TLAPS

USE DEF vars, providerVars, postgresVars, orderVars

\* The constants of the state are well typed and grounded.
LEMMA EmptyTypes ==
  NoText \in [Sources -> Text] /\ NoRun \in Run /\ EmptyJob \in Job
BY DEF NoText, NoRun, EmptyJob, Job, Run, Text

\* A cycle that starts afresh carries nothing ungrounded.
LEMMA EmptyGrounded ==
  ASSUME NEW stage, NEW syntheses
  PROVE  CarriesGrounded(EmptyJob, stage, syntheses)
BY DEF CarriesGrounded, EmptyJob, NoText, NoRun

\* The invariant holds initially.
LEMMA InitGrounded == Init => GroundedInv
<1> SUFFICES ASSUME Init PROVE GroundedInv
  OBVIOUS
<1>1. TypeOK
  <2>1. NoText \in [Sources -> Text] /\ NoRun \in Run /\ EmptyJob \in Job
    BY EmptyTypes
  <2>2. bookmarks \in Seq(Posts)
    BY DEF Init
  <2> QED
    BY <2>1, <2>2 DEF Init, TypeOK, Stages
<1>2. \A r \in Refreshers : CarriesGrounded(job[r], pc[r], synth)
  BY EmptyGrounded DEF Init
<1> QED
  BY <1>1, <1>2 DEF Init, GroundedInv, RunsGrounded, IndexGrounded, NoText, NoRun

\* A step of r that installs the job j and moves to a stage, while synth grows.
LEMMA OtherJobs ==
  ASSUME GroundedInv, NEW r \in Refreshers, NEW j \in Job, NEW stage \in Stages,
         SetJob(r, j), Goto(r, stage),
         synth' \in [Sources -> SUBSET Versions],
         \A s \in Sources : synth[s] \subseteq synth'[s],
         CarriesGrounded(j, stage, synth')
  PROVE  /\ job' \in [Refreshers -> Job]
         /\ pc' \in [Refreshers -> Stages]
         /\ \A o \in Refreshers : CarriesGrounded(job'[o], pc'[o], synth')
<1>1. job \in [Refreshers -> Job] /\ pc \in [Refreshers -> Stages]
  BY DEF GroundedInv, TypeOK
<1>2. job'[r] = j /\ pc'[r] = stage
  BY <1>1 DEF SetJob, Goto
<1>3. \A o \in Refreshers \ {r} : job'[o] = job[o] /\ pc'[o] = pc[o]
  BY <1>1 DEF SetJob, Goto
<1>4. ASSUME NEW o \in Refreshers \ {r}
      PROVE  CarriesGrounded(job'[o], pc'[o], synth')
  <2>1. CarriesGrounded(job[o], pc[o], synth)
    BY DEF GroundedInv
  <2> QED
    BY <2>1, <1>3 DEF CarriesGrounded
<1>5. job' \in [Refreshers -> Job] /\ pc' \in [Refreshers -> Stages]
  BY <1>1 DEF SetJob, Goto
<1> QED
  BY <1>2, <1>4, <1>5

-----------------------------------------------------------------------------
\* The steps of a cycle that touch its own job alone.

\* Variables that no step of a cycle's own work changes.
Untouched == UNCHANGED <<providerVars, postgresVars, index, orderVars>>

\* Installing a well-typed, grounded job and nothing else keeps the invariant.
LEMMA OwnJobInv ==
  ASSUME GroundedInv, Untouched, NEW r \in Refreshers, NEW j \in Job,
         NEW stage \in Stages, SetJob(r, j), Goto(r, stage),
         CarriesGrounded(j, stage, synth)
  PROVE  GroundedInv'
<1>1. synth' = synth /\ synth \in [Sources -> SUBSET Versions]
  BY DEF Untouched, GroundedInv, TypeOK
<1>2. /\ job' \in [Refreshers -> Job]
      /\ pc' \in [Refreshers -> Stages]
      /\ \A o \in Refreshers : CarriesGrounded(job'[o], pc'[o], synth')
  BY <1>1, OtherJobs
<1>3. TypeOK'
  BY <1>2 DEF Untouched, GroundedInv, TypeOK
<1> QED
  BY <1>1, <1>2, <1>3 DEF Untouched, GroundedInv, RunsGrounded, IndexGrounded

\* Fetching starts from an empty job and captures provider text.
LEMMA FetchInv ==
  ASSUME GroundedInv, NEW r \in Refreshers, FetchSources(r)
  PROVE  GroundedInv'
<1>1. PICK xDown \in Fails("x"), youtubeDown \in Fails("youtube") :
        LET posts == IF xDown THEN {} ELSE Bookmarked
            videos == IF youtubeDown THEN {} ELSE playlist
        IN SetJob(r, [EmptyJob EXCEPT
             !.items = posts \cup videos,
             !.body = [s \in Sources |->
                         IF s \in posts \cap Window THEN content[s] ELSE None],
             !.blocked = xDown \/ youtubeDown])
  BY DEF FetchSources
<1> DEFINE posts == IF xDown THEN {} ELSE Bookmarked
           videos == IF youtubeDown THEN {} ELSE playlist
           j == [EmptyJob EXCEPT
                  !.items = posts \cup videos,
                  !.body = [s \in Sources |->
                              IF s \in posts \cap Window THEN content[s] ELSE None],
                  !.blocked = xDown \/ youtubeDown]
<1>2. SetJob(r, j)
  BY <1>1
<1>3. posts \subseteq Sources /\ videos \subseteq Sources
  BY DEF GroundedInv, TypeOK, Bookmarked, Sources
<1>4. [s \in Sources |-> IF s \in posts \cap Window THEN content[s] ELSE None]
        \in [Sources -> Text]
  BY DEF GroundedInv, TypeOK, Text
<1>5. xDown \in BOOLEAN /\ youtubeDown \in BOOLEAN
  BY DEF Fails
<1>6. j \in Job
  BY <1>3, <1>4, <1>5, EmptyTypes DEF Job
<1>7. j.known = NoText /\ j.base = NoRun /\ j.work = NoText /\ j.todo = {}
  BY DEF EmptyJob
<1>8. CarriesGrounded(j, "materials", synth)
  BY <1>7 DEF CarriesGrounded, NoText, NoRun
<1>9. Untouched /\ Goto(r, "materials")
  BY DEF FetchSources, Untouched
<1> HIDE DEF j
<1> QED
  BY <1>2, <1>6, <1>8, <1>9, OwnJobInv DEF Stages

\* The states read come from the index or from the newest synthesis.
LEMMA ReadMaterialsInv ==
  ASSUME GroundedInv, NEW r \in Refreshers, ReadMaterials(r)
  PROVE  GroundedInv'
<1>1. PICK redisDown \in Fails("redis"), down \in Fails("materials") :
        LET j == job[r]
            indexed == IF redisDown THEN {} ELSE {s \in j.items : index[s] # None}
            failed == down /\ j.items \ indexed # {}
            canonical == IF failed THEN {}
                         ELSE {s \in j.items \ indexed : head[s] # None}
        IN SetJob(r, [j EXCEPT
             !.known = [s \in Sources |-> IF s \in indexed THEN index[s]
                                          ELSE IF s \in canonical THEN head[s]
                                          ELSE None],
             !.failed = failed,
             !.blocked = j.blocked \/ failed,
             !.todo = canonical])
  BY DEF ReadMaterials
<1> DEFINE indexed == IF redisDown THEN {} ELSE {s \in job[r].items : index[s] # None}
           failed == down /\ job[r].items \ indexed # {}
           canonical == IF failed THEN {}
                        ELSE {s \in job[r].items \ indexed : head[s] # None}
           known == [s \in Sources |-> IF s \in indexed THEN index[s]
                                       ELSE IF s \in canonical THEN head[s]
                                       ELSE None]
           j == [job[r] EXCEPT !.known = known, !.failed = failed,
                               !.blocked = job[r].blocked \/ failed,
                               !.todo = canonical]
<1>2. SetJob(r, j)
  BY <1>1
<1>3. job[r] \in Job /\ CarriesGrounded(job[r], "materials", synth)
  BY DEF ReadMaterials, GroundedInv, TypeOK
<1>4. known \in [Sources -> Text] /\ canonical \subseteq Sources
  BY <1>3 DEF GroundedInv, TypeOK, Text, Job
<1>5. j \in Job
  BY <1>3, <1>4 DEF Job
<1>6. \A s \in Sources : known[s] # None => known[s] \in synth[s]
  BY DEF GroundedInv, IndexGrounded
<1>7. j.known = known /\ j.base = job[r].base /\ j.work = job[r].work
  BY <1>3 DEF Job
<1> HIDE DEF known
<1>8. CarriesGrounded(j, "index", synth)
  BY <1>3, <1>6, <1>7 DEF CarriesGrounded
<1>9. Untouched /\ Goto(r, "index")
  BY DEF ReadMaterials, Untouched
<1> HIDE DEF j
<1> QED
  BY <1>2, <1>5, <1>8, <1>9, OwnJobInv DEF Stages

\* The base is the latest run, grounded by the invariant, or the empty run.
LEMMA ReadLatestInv ==
  ASSUME GroundedInv, NEW r \in Refreshers, ReadLatest(r)
  PROVE  GroundedInv'
<1>1. PICK down \in Fails("latest") :
        SetJob(r, [job[r] EXCEPT !.base = IF down THEN NoRun ELSE latest,
                                 !.blocked = job[r].blocked \/ down])
  BY DEF ReadLatest
<1> DEFINE base == IF down THEN NoRun ELSE latest
           j == [job[r] EXCEPT !.base = base, !.blocked = job[r].blocked \/ down]
<1>2. SetJob(r, j)
  BY <1>1
<1>3. job[r] \in Job /\ CarriesGrounded(job[r], "transcripts", synth)
  BY DEF ReadLatest, GroundedInv, TypeOK
<1>4. base \in Run
  BY EmptyTypes DEF GroundedInv, TypeOK
<1>5. j \in Job
  BY <1>3, <1>4 DEF Job
<1>6. \A s \in Sources : base.sums[s] # None => base.sums[s] \in synth[s]
  BY DEF GroundedInv, RunsGrounded, NoRun, NoText
<1>7. j.known = job[r].known /\ j.base = base /\ j.work = job[r].work
  BY <1>3 DEF Job
<1> HIDE DEF base
<1>8. CarriesGrounded(j, "choose", synth)
  BY <1>3, <1>6, <1>7 DEF CarriesGrounded
<1>9. Untouched /\ Goto(r, "choose")
  BY DEF ReadLatest, Untouched
<1> HIDE DEF j
<1> QED
  BY <1>2, <1>5, <1>8, <1>9, OwnJobInv DEF Stages

\* An early return to publish carries its job over unchanged.
LEMMA SkipNoNewContentInv ==
  ASSUME GroundedInv, NEW r \in Refreshers, SkipNoNewContent(r)
  PROVE  GroundedInv'
<1>1. job[r] \in Job /\ CarriesGrounded(job[r], "choose", synth)
  BY DEF SkipNoNewContent, GroundedInv, TypeOK
<1>2. SetJob(r, job[r])
  BY DEF SkipNoNewContent, SetJob, GroundedInv, TypeOK
<1>3. CarriesGrounded(job[r], "publish", synth)
  BY <1>1 DEF CarriesGrounded
<1> QED
  BY <1>1, <1>2, <1>3, OwnJobInv DEF SkipNoNewContent, Untouched, Stages

\* A synthesis taken from the cache is a committed one; the rest have a body.
LEMMA LookupSynthesesInv ==
  ASSUME GroundedInv, NEW r \in Refreshers, LookupSyntheses(r)
  PROVE  GroundedInv'
<1>1. PICK hashDown \in Fails("syntheses"), sourceDown \in Fails("syntheses") :
        LET j == job[r]
            hit == [s \in Sources |->
                      IF s \in NewCandidates(j)
                      THEN CachedSynthesis(j, s, ~hashDown, ~sourceDown) ELSE None]
        IN SetJob(r, [j EXCEPT !.work = hit,
                               !.todo = {s \in NewCandidates(j) : hit[s] = None}])
  BY DEF LookupSyntheses
<1> DEFINE hit == [s \in Sources |->
                     IF s \in NewCandidates(job[r])
                     THEN CachedSynthesis(job[r], s, ~hashDown, ~sourceDown) ELSE None]
           missed == {s \in NewCandidates(job[r]) : hit[s] = None}
           j == [job[r] EXCEPT !.work = hit, !.todo = missed]
<1>2. SetJob(r, j)
  BY <1>1
<1>3. job[r] \in Job /\ CarriesGrounded(job[r], "choose", synth)
  BY DEF LookupSyntheses, GroundedInv, TypeOK
<1>4. \A s \in Sources : hit[s] \in Text /\ (hit[s] # None => hit[s] \in synth[s])
  BY <1>3 DEF GroundedInv, TypeOK, CachedSynthesis, Text, Job
<1>5. hit \in [Sources -> Text]
  BY <1>4
<1>6. missed \subseteq Sources /\ \A s \in missed : job[r].body[s] # None
  BY DEF NewCandidates
<1> HIDE DEF hit, missed
<1>7. j \in Job
  BY <1>3, <1>5, <1>6 DEF Job
<1>8. /\ j.known = job[r].known /\ j.base = job[r].base /\ j.body = job[r].body
      /\ j.work = hit /\ j.todo = missed
  BY <1>3 DEF Job
<1>9. CarriesGrounded(j, "synthesize", synth)
  BY <1>3, <1>4, <1>6, <1>8 DEF CarriesGrounded
<1>10. Untouched /\ Goto(r, "synthesize")
  BY DEF LookupSyntheses, Untouched
<1> HIDE DEF j
<1> QED
  BY <1>2, <1>7, <1>9, <1>10, OwnJobInv DEF Stages

\* What is synthesised is what remains to be saved.
LEMMA SynthesizeInv ==
  ASSUME GroundedInv, NEW r \in Refreshers, Synthesize(r)
  PROVE  GroundedInv'
<1> DEFINE work == [s \in Sources |->
                      IF s \in job[r].todo THEN job[r].body[s] ELSE job[r].work[s]]
           j == [job[r] EXCEPT !.work = work]
<1>1. SetJob(r, j) /\ Untouched /\ Goto(r, "save")
  BY DEF Synthesize, Untouched
<1>2. job[r] \in Job /\ CarriesGrounded(job[r], "synthesize", synth)
  BY DEF Synthesize, GroundedInv, TypeOK
<1>3. work \in [Sources -> Text]
  BY <1>2 DEF Job
<1>4. j \in Job
  BY <1>2, <1>3 DEF Job
<1>5. /\ j.known = job[r].known /\ j.base = job[r].base
      /\ j.work = work /\ j.todo = job[r].todo
  BY <1>2 DEF Job
<1>6. CarriesGrounded(j, "save", synth)
  BY <1>2, <1>5 DEF CarriesGrounded
<1> HIDE DEF j
<1> QED
  BY <1>1, <1>4, <1>6, OwnJobInv DEF Stages

-----------------------------------------------------------------------------
\* The steps that write a shared store.

\* A new cycle notes which others it started after.
LEMMA StartCycleInv ==
  ASSUME GroundedInv, NEW r \in Refreshers, StartCycle(r)
  PROVE  GroundedInv'
<1>1. job[r] \in Job /\ CarriesGrounded(job[r], "idle", synth)
  BY DEF StartCycle, GroundedInv, TypeOK
<1>2. SetJob(r, job[r]) /\ synth' = synth /\ Goto(r, "fetch")
  BY DEF StartCycle, SetJob, GroundedInv, TypeOK
<1>3. CarriesGrounded(job[r], "fetch", synth')
  BY <1>1, <1>2 DEF CarriesGrounded
<1>4. /\ job' \in [Refreshers -> Job]
      /\ pc' \in [Refreshers -> Stages]
      /\ \A o \in Refreshers : CarriesGrounded(job'[o], pc'[o], synth')
  BY <1>1, <1>2, <1>3, OtherJobs DEF Stages, GroundedInv, TypeOK
<1>5. earlier' \in [Refreshers -> SUBSET Refreshers]
  BY DEF StartCycle, GroundedInv, TypeOK
<1>6. TypeOK'
  BY <1>4, <1>5 DEF StartCycle, GroundedInv, TypeOK
<1> QED
  BY <1>4, <1>6 DEF StartCycle, GroundedInv, RunsGrounded, IndexGrounded

\* States copied to the index were read from it or from Postgres.
LEMMA PublishMaterialsInv ==
  ASSUME GroundedInv, NEW r \in Refreshers, PublishMaterials(r)
  PROVE  GroundedInv'
<1> DEFINE todo == IF job[r].failed THEN {}
                   ELSE {v \in job[r].items \cap Videos : job[r].known[v] = None}
           j == [job[r] EXCEPT !.todo = todo]
<1>1. SetJob(r, j) /\ synth' = synth /\ Goto(r, "transcripts")
  BY DEF PublishMaterials
<1>2. job[r] \in Job /\ CarriesGrounded(job[r], "index", synth)
  BY DEF PublishMaterials, GroundedInv, TypeOK
<1>3. todo \subseteq Sources
  BY DEF Sources
<1>4. j \in Job
  BY <1>2, <1>3 DEF Job
<1>5. j.known = job[r].known /\ j.base = job[r].base /\ j.work = job[r].work
  BY <1>2 DEF Job
<1>6. CarriesGrounded(j, "transcripts", synth')
  BY <1>1, <1>2, <1>5 DEF CarriesGrounded
<1>7. /\ job' \in [Refreshers -> Job]
      /\ pc' \in [Refreshers -> Stages]
      /\ \A o \in Refreshers : CarriesGrounded(job'[o], pc'[o], synth')
  <2> HIDE DEF j
  <2> QED
    BY <1>1, <1>4, <1>6, OtherJobs DEF Stages, GroundedInv, TypeOK
<1>8. PICK down \in Fails("redis") :
        index' = IF down THEN index
                 ELSE [s \in Sources |->
                         IF s \in job[r].todo THEN job[r].known[s] ELSE index[s]]
  BY DEF PublishMaterials
<1>9. index' \in [Sources -> Text]
  BY <1>2, <1>8 DEF GroundedInv, TypeOK, Job
<1>10. IndexGrounded'
  BY <1>1, <1>2, <1>8 DEF GroundedInv, IndexGrounded, CarriesGrounded
<1>11. TypeOK'
  BY <1>7, <1>9 DEF PublishMaterials, GroundedInv, TypeOK
<1> QED
  BY <1>7, <1>10, <1>11 DEF PublishMaterials, GroundedInv, RunsGrounded

\* A transcript, when there is one, is provider text.
LEMMA ClaimTranscriptInv ==
  ASSUME GroundedInv, NEW r \in Refreshers, NEW v \in Videos, ClaimTranscript(r, v)
  PROVE  GroundedInv'
<1>1. PICK text \in {content[v], None} :
        SetJob(r, [job[r] EXCEPT !.body = [job[r].body EXCEPT ![v] = text],
                                 !.todo = job[r].todo \ {v}])
  BY DEF ClaimTranscript
<1> DEFINE body == [job[r].body EXCEPT ![v] = text]
           j == [job[r] EXCEPT !.body = body, !.todo = job[r].todo \ {v}]
<1>2. SetJob(r, j) /\ synth' = synth /\ pc' = pc /\ pc[r] = "transcripts"
  BY <1>1 DEF ClaimTranscript
<1>3. job[r] \in Job /\ CarriesGrounded(job[r], "transcripts", synth)
  BY DEF ClaimTranscript, GroundedInv, TypeOK
<1>4. content[v] \in Versions
  BY DEF GroundedInv, TypeOK, Sources
<1>5. body \in [Sources -> Text]
  BY <1>3, <1>4 DEF Job, Text
<1>6. j \in Job
  BY <1>3, <1>5 DEF Job
<1>7. j.known = job[r].known /\ j.base = job[r].base /\ j.work = job[r].work
  BY <1>3 DEF Job
<1>8. CarriesGrounded(j, "transcripts", synth')
  BY <1>2, <1>3, <1>7 DEF CarriesGrounded
<1>9. Goto(r, "transcripts")
  BY <1>2 DEF Goto, GroundedInv, TypeOK
<1>10. /\ job' \in [Refreshers -> Job]
       /\ pc' \in [Refreshers -> Stages]
       /\ \A o \in Refreshers : CarriesGrounded(job'[o], pc'[o], synth')
  <2> HIDE DEF j
  <2> QED
    BY <1>2, <1>6, <1>8, <1>9, OtherJobs DEF Stages, GroundedInv, TypeOK
<1>11. ledger' \in SUBSET Videos
  BY DEF ClaimTranscript, GroundedInv, TypeOK
<1>12. TypeOK'
  BY <1>10, <1>11 DEF ClaimTranscript, GroundedInv, TypeOK
<1> QED
  BY <1>10, <1>12 DEF ClaimTranscript, GroundedInv, RunsGrounded, IndexGrounded

\* Saving turns a synthesised version into a committed one.
LEMMA SaveSourceInv ==
  ASSUME GroundedInv, NEW r \in Refreshers, NEW s \in Sources, SaveSource(r, s)
  PROVE  GroundedInv'
<1> DEFINE version == job[r].work[s]
           j == [job[r] EXCEPT !.todo = job[r].todo \ {s}]
<1>1. job[r] \in Job /\ CarriesGrounded(job[r], "save", synth) /\ pc[r] = "save"
  BY DEF SaveSource, GroundedInv, TypeOK
<1>2. version \in Versions
  BY <1>1 DEF SaveSource, CarriesGrounded, Job, Text
<1>3. /\ synth' = [synth EXCEPT ![s] = @ \cup {version}]
      /\ SetJob(r, j)
  BY DEF SaveSource
<1> HIDE DEF version
<1>4. /\ synth' \in [Sources -> SUBSET Versions]
      /\ \A q \in Sources : synth[q] \subseteq synth'[q]
      /\ version \in synth'[s]
  BY <1>2, <1>3 DEF GroundedInv, TypeOK
<1>5. /\ j \in Job
      /\ j.known = job[r].known /\ j.base = job[r].base /\ j.work = job[r].work
      /\ j.todo = job[r].todo \ {s}
  BY <1>1 DEF Job
<1>6. CarriesGrounded(j, "save", synth')
  BY <1>1, <1>4, <1>5 DEF CarriesGrounded, version
<1>7. Goto(r, "save")
  BY <1>1 DEF SaveSource, Goto, GroundedInv, TypeOK
<1>8. /\ job' \in [Refreshers -> Job]
      /\ pc' \in [Refreshers -> Stages]
      /\ \A o \in Refreshers : CarriesGrounded(job'[o], pc'[o], synth')
  <2> HIDE DEF j
  <2> QED
    BY <1>3, <1>4, <1>5, <1>6, <1>7, OtherJobs DEF Stages
<1>9. PICK top \in {version} \cup ({head[s]} \ {None}) : head' = [head EXCEPT ![s] = top]
  BY DEF SaveSource, version
<1>10. /\ head' \in [Sources -> Text]
       /\ \A q \in Sources : head'[q] # None => head'[q] \in synth'[q]
  BY <1>2, <1>4, <1>9 DEF GroundedInv, TypeOK, Text
<1>11. TypeOK'
  BY <1>4, <1>8, <1>10 DEF SaveSource, GroundedInv, TypeOK
<1>12. RunsGrounded' /\ IndexGrounded'
  BY <1>4 DEF SaveSource, GroundedInv, RunsGrounded, IndexGrounded
<1> QED
  BY <1>8, <1>10, <1>11, <1>12 DEF GroundedInv

\* Once nothing is left to save, everything a result shows is committed.
LEMMA MergedGrounded ==
  ASSUME GroundedInv, NEW r \in Refreshers,
         pc[r] # "save" \/ job[r].todo = {}
  PROVE  /\ Merged(job[r]) \in Run
         /\ \A s \in Sources : Merged(job[r]).sums[s] # None
              => Merged(job[r]).sums[s] \in synth[s]
<1> DEFINE sums == [s \in Sources |-> IF job[r].work[s] # None
                                      THEN job[r].work[s] ELSE job[r].base.sums[s]]
<1>1. job[r] \in Job /\ CarriesGrounded(job[r], pc[r], synth)
  BY DEF GroundedInv, TypeOK
<1>2. sums \in [Sources -> Text]
  BY <1>1 DEF Job, Run
<1>3. \A s \in Sources : sums[s] # None => sums[s] \in synth[s]
  BY <1>1 DEF CarriesGrounded
<1>4. job[r].items \cup job[r].base.items \in SUBSET Sources
  BY <1>1 DEF Job, Run
<1>5. Merged(job[r]).sums = sums
  BY DEF Merged
<1> HIDE DEF sums
<1>6. Merged(job[r]) = [saved |-> TRUE, items |-> job[r].items \cup job[r].base.items,
                        sums |-> sums]
  BY DEF Merged, sums
<1> QED
  BY <1>2, <1>3, <1>4, <1>5, <1>6 DEF Run

\* The run is committed after its sources.
LEMMA CommitRunInv ==
  ASSUME GroundedInv, NEW r \in Refreshers, CommitRun(r)
  PROVE  GroundedInv'
<1>1. job[r] \in Job /\ CarriesGrounded(job[r], "save", synth) /\ job[r].todo = {}
  BY DEF CommitRun, GroundedInv, TypeOK
<1>2. SetJob(r, job[r]) /\ synth' = synth /\ Goto(r, "publish")
  BY DEF CommitRun, SetJob, GroundedInv, TypeOK
<1>3. CarriesGrounded(job[r], "publish", synth')
  BY <1>1, <1>2 DEF CarriesGrounded
<1>4. /\ job' \in [Refreshers -> Job]
      /\ pc' \in [Refreshers -> Stages]
      /\ \A o \in Refreshers : CarriesGrounded(job'[o], pc'[o], synth')
  BY <1>1, <1>2, <1>3, OtherJobs DEF Stages, GroundedInv, TypeOK
<1>5. /\ Merged(job[r]) \in Run
      /\ \A s \in Sources : Merged(job[r]).sums[s] # None
           => Merged(job[r]).sums[s] \in synth[s]
  BY <1>1, MergedGrounded
<1>6. latest' = Merged(job[r]) \/ latest' = latest
  BY DEF CommitRun
<1>7. behind' \in SUBSET Refreshers
  BY DEF CommitRun, GroundedInv, TypeOK
<1>8. latest' \in Run /\ RunsGrounded'
  BY <1>2, <1>5, <1>6 DEF GroundedInv, TypeOK, RunsGrounded
<1>9. TypeOK'
  BY <1>4, <1>7, <1>8 DEF CommitRun, GroundedInv, TypeOK
<1> QED
  BY <1>4, <1>8, <1>9 DEF CommitRun, GroundedInv, IndexGrounded

\* The end of a cycle, normal or not, drops its job and touches no summary.
LEMMA EndCycleInv ==
  ASSUME GroundedInv, NEW r \in Refreshers, EndCycle(r),
         UNCHANGED <<providerVars, postgresVars>>,
         index' \in [Sources -> Text], IndexGrounded'
  PROVE  GroundedInv'
<1>1. SetJob(r, EmptyJob) /\ Goto(r, "idle") /\ synth' = synth
  BY DEF EndCycle
<1>2. CarriesGrounded(EmptyJob, "idle", synth')
  BY EmptyGrounded
<1>3. /\ job' \in [Refreshers -> Job]
      /\ pc' \in [Refreshers -> Stages]
      /\ \A o \in Refreshers : CarriesGrounded(job'[o], pc'[o], synth')
  BY <1>1, <1>2, EmptyTypes, OtherJobs DEF Stages, GroundedInv, TypeOK
<1>4. earlier' \in [Refreshers -> SUBSET Refreshers] /\ behind' \in SUBSET Refreshers
  BY DEF EndCycle, GroundedInv, TypeOK
<1>5. TypeOK'
  BY <1>3, <1>4 DEF GroundedInv, TypeOK
<1> QED
  BY <1>3, <1>5 DEF GroundedInv, RunsGrounded

\* A cycle that returns early, or is cut short, leaves the stores alone.
LEMMA SkipInv ==
  ASSUME GroundedInv, NEW r \in Refreshers, Skip(r) \/ Abort(r)
  PROVE  GroundedInv'
<1>1. EndCycle(r) /\ UNCHANGED <<providerVars, postgresVars, index>>
  BY DEF Skip, Abort
<1>2. synth' = synth /\ index' = index
  BY <1>1
<1>3. index' \in [Sources -> Text] /\ IndexGrounded'
  BY <1>2 DEF GroundedInv, TypeOK, IndexGrounded
<1> QED
  BY <1>1, <1>3, EndCycleInv

\* The index is refreshed from a grounded result.
LEMMA PublishRunInv ==
  ASSUME GroundedInv, NEW r \in Refreshers, PublishRun(r)
  PROVE  GroundedInv'
<1>1. /\ Merged(job[r]) \in Run
      /\ \A s \in Sources : Merged(job[r]).sums[s] # None
           => Merged(job[r]).sums[s] \in synth[s]
  BY MergedGrounded DEF PublishRun
<1> DEFINE sums == Merged(job[r]).sums
<1>2. sums \in [Sources -> Text]
  BY <1>1 DEF Run
<1>3. index' = index \/ index' = IndexWith(sums)
  BY DEF PublishRun
<1>4. synth' = synth
  BY DEF PublishRun
<1> HIDE DEF sums
<1>5. index' \in [Sources -> Text]
  BY <1>2, <1>3 DEF IndexWith, GroundedInv, TypeOK
<1>6. IndexGrounded'
  BY <1>1, <1>3, <1>4 DEF IndexWith, GroundedInv, IndexGrounded, sums
<1> QED
  BY <1>5, <1>6, EndCycleInv DEF PublishRun

-----------------------------------------------------------------------------

\* Provider changes and the expiry of the index ground nothing less.
LEMMA EnvironmentInv ==
  ASSUME GroundedInv, Environment
  PROVE  GroundedInv'
<1>1. /\ UNCHANGED <<postgresVars, orderVars, pc, job>>
      /\ index' = index \/ index' = NoText
  BY DEF Environment, Bookmark, Unbookmark, EditPost, AddVideo, ExpireIndex,
         ProviderUnchanged
<1>2. bookmarks' \in Seq(Posts)
  <2>1. CASE \E p \in Posts : Bookmark(p)
    <3>1. PICK p \in Posts : bookmarks' = <<p>> \o bookmarks
      BY <2>1 DEF Bookmark
    <3>2. <<p>> \in Seq(Posts) /\ bookmarks \in Seq(Posts)
      BY DEF GroundedInv, TypeOK
    <3> QED
      BY <3>1, <3>2, ConcatProperties
  <2>2. CASE \E p \in Posts : Unbookmark(p)
    <3>1. PICK i \in 1 .. Len(bookmarks) :
            bookmarks' = SubSeq(bookmarks, 1, i - 1)
                         \o SubSeq(bookmarks, i + 1, Len(bookmarks))
      BY <2>2 DEF Unbookmark
    <3>2. bookmarks \in Seq(Posts) /\ Len(bookmarks) \in Nat
      BY DEF GroundedInv, TypeOK
    <3>3. \A k \in 1 .. Len(bookmarks) : bookmarks[k] \in Posts
      BY <3>2
    <3>4. SubSeq(bookmarks, 1, i - 1) \in Seq(Posts)
      <4>1. \A k \in 1 .. i - 1 : bookmarks[k] \in Posts
        BY <3>2, <3>3
      <4> QED
        BY <4>1, <3>2, SubSeqProperties
    <3>5. SubSeq(bookmarks, i + 1, Len(bookmarks)) \in Seq(Posts)
      <4>1. \A k \in i + 1 .. Len(bookmarks) : bookmarks[k] \in Posts
        BY <3>2, <3>3
      <4>2. i + 1 \in Int /\ Len(bookmarks) \in Int
        BY <3>2
      <4> QED
        BY <4>1, <4>2, SubSeqProperties
    <3> QED
      BY <3>1, <3>4, <3>5, ConcatProperties
  <2>3. CASE bookmarks' = bookmarks
    BY <2>3 DEF GroundedInv, TypeOK
  <2> QED
    BY <2>1, <2>2, <2>3 DEF Environment, EditPost, AddVideo, ExpireIndex
<1>3. playlist' \in SUBSET Videos
  BY DEF Environment, Bookmark, Unbookmark, EditPost, AddVideo, ExpireIndex,
         GroundedInv, TypeOK
<1>4. content' \in [Sources -> Versions]
  BY DEF Environment, Bookmark, Unbookmark, EditPost, AddVideo, ExpireIndex,
         GroundedInv, TypeOK
<1>5. index' \in [Sources -> Text]
  BY <1>1, EmptyTypes DEF GroundedInv, TypeOK
<1>6. TypeOK'
  BY <1>1, <1>2, <1>3, <1>4, <1>5 DEF GroundedInv, TypeOK
<1>7. IndexGrounded'
  BY <1>1 DEF GroundedInv, IndexGrounded, NoText
<1> QED
  BY <1>1, <1>6, <1>7 DEF GroundedInv, RunsGrounded

\* The invariant is inductive.
LEMMA NextGrounded == GroundedInv /\ [Next]_vars => GroundedInv'
<1> SUFFICES ASSUME GroundedInv, [Next]_vars PROVE GroundedInv'
  OBVIOUS
<1>1. ASSUME NEW r \in Refreshers, RefresherStep(r) PROVE GroundedInv'
  BY <1>1, StartCycleInv, FetchInv, ReadMaterialsInv, PublishMaterialsInv,
     ClaimTranscriptInv, ReadLatestInv, SkipInv, SkipNoNewContentInv,
     LookupSynthesesInv, SynthesizeInv, SaveSourceInv, CommitRunInv, PublishRunInv
     DEF RefresherStep
<1>2. ASSUME NEW r \in Refreshers, Abort(r) PROVE GroundedInv'
  BY <1>2, SkipInv
<1>3. CASE UNCHANGED vars
  BY <1>3 DEF GroundedInv, TypeOK, RunsGrounded, IndexGrounded, CarriesGrounded
<1> QED
  BY <1>1, <1>2, <1>3, EnvironmentInv DEF Next

\* Every reachable state satisfies the invariant.
LEMMA AlwaysGrounded == Spec => []GroundedInv
BY InitGrounded, NextGrounded, PTL DEF Spec

\* Type correctness, for any number of refreshers and sources.
THEOREM TypeCorrect == Spec => []TypeOK
<1>1. GroundedInv => TypeOK
  BY DEF GroundedInv
<1> QED
  BY <1>1, AlwaysGrounded, PTL

\* The inbox never shows a summary that Postgres has not committed: a refresh
\* that fails half way, or overlaps another, cannot publish unsaved work.
THEOREM RunsAlwaysGrounded == Spec => []RunsGrounded
<1>1. GroundedInv => RunsGrounded
  BY DEF GroundedInv
<1> QED
  BY <1>1, AlwaysGrounded, PTL

\* The Redis index never calls a capture processed that Postgres has no
\* synthesis of, so a cycle that skips on its word loses nothing.
THEOREM IndexAlwaysGrounded == Spec => []IndexGrounded
<1>1. GroundedInv => IndexGrounded
  BY DEF GroundedInv
<1> QED
  BY <1>1, AlwaysGrounded, PTL

-----------------------------------------------------------------------------
\* The inbox loses nothing, and leaves nothing behind, as long as no two cycles run at
\* once, none is cut short, and the lookup of the latest run does not fail.  None of the
\* three can be spared: a cycle may overwrite the run of another, one cut short leaves
\* sources saved and in no run, and a cycle without a base commits its own sources alone
\* (run refresh_latest_down).  Any number of refreshers and the other faults are allowed.

\* No two cycles run at once.
Apart == \A q, r \in Refreshers : pc[q] # "idle" /\ pc[r] # "idle" => q = r

\* No cycle is cut short and none loses its base.
Whole == Faults \cap {"abort", "latest"} = {}

\* Until a cycle commits, the run it will be merged with is still the latest one, and no
\* cycle that started earlier is left to rank above it.
Rebased(r) == pc[r] \in {"choose", "synthesize", "save"} => job[r].base = latest

InboxInv ==
  /\ behind = {}
  /\ \A r \in Refreshers : earlier[r] = {} /\ Rebased(r)
  /\ NoStrandedSource

\* Before the first cycle nothing is to be merged.
LEMMA InitInbox == Init => InboxInv
BY DEF Init, InboxInv, Rebased, NoStrandedSource

\* A cycle that is alone, and is to commit the run j, replaces the latest run.
LEMMA CommitReplaces ==
  ASSUME GroundedInv, InboxInv, NEW r \in Refreshers, CommitRun(r)
  PROVE  latest' = Merged(job[r]) /\ behind' = {} /\ job[r].base = latest
<1>1. job[r].base = latest /\ behind = {} /\ earlier[r] = {}
  BY DEF InboxInv, Rebased, CommitRun
<1>2. HasContent(latest) => HasContent(Merged(job[r]))
  <2>1. ASSUME latest.items # {} PROVE Merged(job[r]).items # {}
    BY <1>1, <2>1 DEF Merged
  <2>2. ASSUME NEW s \in Sources, latest.sums[s] # None
        PROVE  Merged(job[r]).sums[s] # None
    BY <1>1, <2>2 DEF Merged
  <2> QED
    BY <2>1, <2>2 DEF HasContent
<1>3. Replaces(r, Merged(job[r]))
  BY <1>1, <1>2 DEF Replaces
<1> QED
  BY <1>1, <1>3 DEF CommitRun

\* A run that is committed keeps the sources of the latest run and adds those of its own.
LEMMA CommitKeeps ==
  ASSUME GroundedInv, InboxInv, NEW r \in Refreshers, CommitRun(r), NEW s \in Sources,
         latest.sums[s] # None \/ job[r].work[s] # None
  PROVE  latest'.sums[s] # None
BY CommitReplaces DEF Merged

\* A step that leaves what was saved and the run alone, and takes nobody away from saving.
LEMMA InboxKept ==
  ASSUME GroundedInv, InboxInv, UNCHANGED <<latest, behind>>,
         \A r \in Refreshers : earlier'[r] = {} /\ Rebased(r)',
         \A s \in Sources : synth'[s] # {} =>
           synth[s] # {} \/ \E r \in Refreshers : pc'[r] = "save" /\ job'[r].work[s] # None,
         \A r \in Refreshers : pc[r] = "save" => pc'[r] = "save" /\ job'[r].work = job[r].work
  PROVE  InboxInv'
BY DEF InboxInv, NoStrandedSource, OnItsWay

\* A cycle goes on by a step of its own, of which the base is known.
LEMMA OwnInbox ==
  ASSUME GroundedInv, InboxInv, Untouched, NEW r \in Refreshers, NEW j, NEW stage,
         SetJob(r, j), Goto(r, stage), pc[r] # "save",
         stage \in {"choose", "synthesize", "save"} => j.base = latest
  PROVE  InboxInv'
<1>1. job'[r] = j /\ pc'[r] = stage
  BY DEF SetJob, Goto, GroundedInv, TypeOK
<1>2. \A o \in Refreshers \ {r} : job'[o] = job[o] /\ pc'[o] = pc[o]
  BY DEF SetJob, Goto, GroundedInv, TypeOK
<1>3. \A o \in Refreshers : earlier'[o] = {} /\ Rebased(o)'
  BY <1>1, <1>2 DEF InboxInv, Rebased, Untouched
<1> QED
  BY <1>1, <1>2, <1>3, InboxKept DEF Untouched

\* The end of a cycle that is not saving.
LEMMA EndInbox ==
  ASSUME GroundedInv, InboxInv, NEW r \in Refreshers, EndCycle(r), pc[r] # "save",
         UNCHANGED <<synth, latest>>
  PROVE  InboxInv'
<1>1. pc'[r] = "idle" /\ \A o \in Refreshers \ {r} : job'[o] = job[o] /\ pc'[o] = pc[o]
  BY DEF EndCycle, SetJob, Goto, GroundedInv, TypeOK
<1>2. \A o \in Refreshers : earlier'[o] = {}
  BY DEF EndCycle, InboxInv
<1>3. \A o \in Refreshers : Rebased(o)'
  BY <1>1 DEF InboxInv, Rebased
<1>4. behind' = behind
  BY DEF EndCycle, InboxInv
<1> QED
  BY <1>1, <1>2, <1>3, <1>4, InboxKept

\* Before it chooses what to process, a cycle has read no run; it is merged with the one
\* that it reads, which is the latest.
LEMMA EarlyInbox ==
  ASSUME GroundedInv, InboxInv, Apart', Whole, NEW r \in Refreshers,
         \/ StartCycle(r) \/ FetchSources(r) \/ ReadMaterials(r) \/ PublishMaterials(r)
         \/ (\E v \in Videos : ClaimTranscript(r, v)) \/ ReadLatest(r)
  PROVE  InboxInv'
<1>1. CASE StartCycle(r)
  <2>1. pc'[r] = "fetch" /\ \A o \in Refreshers \ {r} : pc'[o] = pc[o]
    BY <1>1 DEF StartCycle, Goto, GroundedInv, TypeOK
  <2>2. \A o \in Refreshers \ {r} : pc[o] = "idle"
    BY <2>1 DEF Apart
  <2>3. \A o \in Refreshers : earlier'[o] = {}
    BY <1>1, <2>2 DEF StartCycle, InboxInv, GroundedInv, TypeOK
  <2>4. job' = job /\ UNCHANGED <<latest, behind, synth>> /\ pc[r] = "idle"
    BY <1>1 DEF StartCycle
  <2>5. \A o \in Refreshers : Rebased(o)'
    BY <2>1, <2>4 DEF InboxInv, Rebased
  <2> QED
    BY <2>1, <2>3, <2>4, <2>5, InboxKept
<1>2. CASE FetchSources(r)
  BY <1>2, OwnInbox DEF FetchSources, Untouched
<1>3. CASE ReadMaterials(r)
  BY <1>3, OwnInbox DEF ReadMaterials, Untouched
<1>4. CASE PublishMaterials(r) \/ \E v \in Videos : ClaimTranscript(r, v)
  <2>1. UNCHANGED <<latest, behind, synth, earlier>>
    BY <1>4 DEF PublishMaterials, ClaimTranscript
  <2>2. /\ pc[r] \notin {"save", "choose"} /\ pc'[r] = "transcripts"
        /\ \A o \in Refreshers \ {r} : job'[o] = job[o] /\ pc'[o] = pc[o]
    BY <1>4 DEF PublishMaterials, ClaimTranscript, SetJob, Goto, GroundedInv, TypeOK
  <2>3. \A o \in Refreshers : earlier'[o] = {} /\ Rebased(o)'
    BY <2>1, <2>2 DEF InboxInv, Rebased
  <2> QED
    BY <2>1, <2>2, <2>3, InboxKept
<1>5. CASE ReadLatest(r)
  <2>1. Fails("latest") = {FALSE}
    BY DEF Whole, Fails
  <2> DEFINE j == [job[r] EXCEPT !.base = latest, !.blocked = job[r].blocked \/ FALSE]
  <2>2. SetJob(r, j)
    BY <1>5, <2>1 DEF ReadLatest
  <2>3. j.base = latest
    BY DEF GroundedInv, TypeOK, Job
  <2> HIDE DEF j
  <2> QED
    BY <1>5, <2>2, <2>3, OwnInbox DEF ReadLatest, Untouched
<1> QED
  BY <1>1, <1>2, <1>3, <1>4, <1>5

\* What is chosen is looked up and synthesised while the latest run stays as it was read.
LEMMA ChooseInbox ==
  ASSUME GroundedInv, InboxInv, NEW r \in Refreshers,
         Skip(r) \/ SkipNoNewContent(r) \/ LookupSyntheses(r) \/ Synthesize(r)
  PROVE  InboxInv'
<1>0. job[r] \in Job
  BY DEF GroundedInv, TypeOK
<1>1. CASE Skip(r)
  BY <1>1, EndInbox DEF Skip
<1>2. CASE SkipNoNewContent(r)
  <2>1. SetJob(r, job[r])
    BY <1>2 DEF SkipNoNewContent, SetJob, GroundedInv, TypeOK
  <2> QED
    BY <1>2, <2>1, OwnInbox DEF SkipNoNewContent, Untouched
<1>3. CASE LookupSyntheses(r) \/ Synthesize(r)
  <2>1. UNCHANGED <<latest, behind, synth, earlier>> /\ job[r].base = latest
    BY <1>3 DEF LookupSyntheses, Synthesize, InboxInv, Rebased
  <2>2. /\ pc[r] # "save"
        /\ \A o \in Refreshers \ {r} : job'[o] = job[o] /\ pc'[o] = pc[o]
    BY <1>3 DEF LookupSyntheses, Synthesize, SetJob, Goto, GroundedInv, TypeOK
  <2>3. job'[r].base = job[r].base
    <3>1. \E w, t : SetJob(r, [job[r] EXCEPT !.work = w, !.todo = t])
      <4>1. CASE LookupSyntheses(r)
        BY <4>1 DEF LookupSyntheses
      <4>2. CASE Synthesize(r)
        <5>1. \A w : [job[r] EXCEPT !.work = w] = [job[r] EXCEPT !.work = w, !.todo = job[r].todo]
          BY <1>0 DEF Job
        <5>2. \E w : SetJob(r, [job[r] EXCEPT !.work = w])
          BY <4>2 DEF Synthesize
        <5> QED
          BY <5>1, <5>2
      <4> QED
        BY <1>3, <4>1, <4>2
    <3>2. PICK w, t : job'[r] = [job[r] EXCEPT !.work = w, !.todo = t]
      BY <3>1 DEF SetJob, GroundedInv, TypeOK
    <3> QED
      BY <1>0, <3>2 DEF Job
  <2>4. \A o \in Refreshers : earlier'[o] = {} /\ Rebased(o)'
    BY <2>1, <2>2, <2>3 DEF InboxInv, Rebased
  <2> QED
    BY <2>1, <2>2, <2>4, InboxKept
<1> QED
  BY <1>1, <1>2, <1>3

\* A source is saved on its way to the run, and the run takes up what is on its way.
LEMMA SaveInbox ==
  ASSUME GroundedInv, InboxInv, Apart, NEW r \in Refreshers,
         (\E s \in Sources : SaveSource(r, s)) \/ CommitRun(r) \/ PublishRun(r)
  PROVE  InboxInv'
<1>0. job[r] \in Job
  BY DEF GroundedInv, TypeOK
<1>1. ASSUME NEW s \in Sources, SaveSource(r, s) PROVE InboxInv'
  <2>1. UNCHANGED <<latest, behind, earlier, pc>> /\ pc[r] = "save" /\ s \in job[r].todo
    BY <1>1 DEF SaveSource
  <2>2. \A o \in Refreshers : job'[o].work = job[o].work /\ job'[o].base = job[o].base
    BY <1>0, <1>1 DEF SaveSource, SetJob, GroundedInv, TypeOK, Job
  <2>3. job[r].work[s] # None
    BY <2>1 DEF GroundedInv, CarriesGrounded
  <2>4. \A t \in Sources \ {s} : synth'[t] = synth[t]
    BY <1>1 DEF SaveSource, GroundedInv, TypeOK
  <2>5. \A o \in Refreshers : earlier'[o] = {} /\ Rebased(o)'
    BY <2>1, <2>2 DEF InboxInv, Rebased
  <2> QED
    BY <2>1, <2>2, <2>3, <2>4, <2>5, InboxKept
<1>2. CASE CommitRun(r)
  <2>1. \A o \in Refreshers \ {r} : pc[o] = "idle"
    BY <1>2 DEF CommitRun, Apart
  <2>2. UNCHANGED <<synth, earlier, job>> /\ behind' = {}
    BY <1>2, CommitReplaces DEF CommitRun
  <2>3. pc'[r] = "publish" /\ \A o \in Refreshers \ {r} : pc'[o] = "idle"
    BY <1>2, <2>1 DEF CommitRun, Goto, GroundedInv, TypeOK
  <2>4. ASSUME NEW s \in Sources, synth'[s] # {} PROVE latest'.sums[s] # None
    BY <1>2, <2>1, <2>2, <2>4, CommitKeeps DEF InboxInv, NoStrandedSource, OnItsWay
  <2> QED
    BY <2>2, <2>3, <2>4 DEF InboxInv, NoStrandedSource, Rebased
<1>3. CASE PublishRun(r)
  BY <1>3, EndInbox DEF PublishRun
<1> QED
  BY <1>1, <1>2, <1>3

\* The invariant is inductive, as long as cycles are apart.
LEMMA NextInbox ==
  ASSUME Whole, GroundedInv, InboxInv, Apart, Apart', [Next]_vars
  PROVE  InboxInv'
<1>1. ASSUME NEW r \in Refreshers, RefresherStep(r) PROVE InboxInv'
  BY <1>1, EarlyInbox, ChooseInbox, SaveInbox DEF RefresherStep
<1>2. ~ \E r \in Refreshers : Abort(r)
  BY DEF Abort, Whole
<1>3. CASE Environment \/ UNCHANGED vars
  <2>1. UNCHANGED <<synth, latest, earlier, behind, pc, job>>
    BY <1>3 DEF Environment, Bookmark, Unbookmark, EditPost, AddVideo, ExpireIndex,
                ProviderUnchanged
  <2> QED
    BY <2>1 DEF InboxInv, Rebased, NoStrandedSource, OnItsWay
<1> QED
  BY <1>1, <1>2, <1>3 DEF Next

\* Every state of such a behaviour satisfies the invariant.
LEMMA AlwaysInbox == ASSUME Whole PROVE Spec /\ []Apart => []InboxInv
<1>1. GroundedInv /\ InboxInv /\ Apart /\ Apart' /\ [Next]_vars => InboxInv'
  BY NextInbox
<1> QED
  BY <1>1, AlwaysGrounded, InitInbox, PTL DEF Spec

\* No source is left behind in Postgres: what a cycle has processed is in the inbox, or
\* the cycle is about to put it there (SaveRun commits the run after its sources).
THEOREM NothingStranded == ASSUME Whole PROVE Spec /\ []Apart => []NoStrandedSource
<1>1. InboxInv => NoStrandedSource
  BY DEF InboxInv
<1> QED
  BY <1>1, AlwaysInbox, PTL

\* A source never leaves the inbox: the run that replaces the latest is merged with it
\* (mergeXBookmarks, mergeYouTubeItems, appendProcessedOutput), whatever the providers,
\* Redis, the ledger and the synthesis cache answer.
THEOREM InboxKeepsSources == ASSUME Whole PROVE Spec /\ []Apart => LatestRunKeepsSources
<1>1. GroundedInv /\ InboxInv /\ [Next]_vars =>
        [\A s \in Sources : latest.sums[s] # None => latest'.sums[s] # None]_vars
  <2> SUFFICES ASSUME GroundedInv, InboxInv, [Next]_vars, NEW s \in Sources,
                      latest.sums[s] # None
               PROVE  latest'.sums[s] # None
    OBVIOUS
  <2>1. CASE \E r \in Refreshers : CommitRun(r)
    BY <2>1, CommitKeeps
  <2>2. CASE ~ \E r \in Refreshers : CommitRun(r)
    <3>1. latest' = latest
      BY <2>2 DEF Next, RefresherStep, StartCycle, FetchSources, ReadMaterials,
         PublishMaterials, ClaimTranscript, ReadLatest, Skip, SkipNoNewContent,
         LookupSyntheses, Synthesize, SaveSource, PublishRun, Abort, Environment,
         Bookmark, Unbookmark, EditPost, AddVideo, ExpireIndex, ProviderUnchanged
    <3> QED
      BY <3>1
  <2> QED
    BY <2>1, <2>2
<1> QED
  BY <1>1, AlwaysInbox, AlwaysGrounded, PTL DEF Spec, LatestRunKeepsSources

\* A single refresher is never in its own way, so both hold without the condition: the
\* case of a deployment in which one process alone refreshes.
COROLLARY OneRefresherKeepsInbox ==
  ASSUME Whole, \A q, r \in Refreshers : q = r
  PROVE  Spec => []NoStrandedSource /\ LatestRunKeepsSources
<1>1. Apart
  BY DEF Apart
<1> QED
  BY <1>1, NothingStranded, InboxKeepsSources, PTL
=============================================================================
