--------------------------- MODULE SourceSynthesis ---------------------------
(***************************************************************************)
(* The synthesis of the sources of a refresh (processSourceCandidates,     *)
(* synthesizeCandidate): what was synthesised before is looked up, a pool  *)
(* of workers asks the model for the rest, a judge may revise it, and the  *)
(* run is saved when all are done.  A cycle that crashes or cannot save    *)
(* has paid for nothing.  One process: two that refresh at once are        *)
(* SourceRefresh's.                                                        *)
(***************************************************************************)
EXTENDS Naturals, Sequences, FiniteSets, Functions

CONSTANTS
  Posts,          \* the sources from X; the others are from YouTube
  Workers,        \* cfg.ProcessWorkerCount of them, 8 if it is not set
  Lists,          \* what a cycle may be given: sequences of sources
  JudgeEnabled,
  LastVersion,    \* bound: captures of a source
  LastCycle,      \* bound: cycles
  None

SynthesisSources == UNION {Range(list) : list \in Lists}
Versions == 1 .. LastVersion

VARIABLES
  version,     \* what the provider shows of each source
  records,     \* knowledge_syntheses: who made the synthesis of a capture, or None
  cycle,       \* stage of the cycle
  cycles,
  candidates,  \* its candidates, [source, version]
  exact,       \* for each candidate, the record of its capture that was found, or None
  bySource,    \* and the latest record of its source
  next,        \* the first candidate no worker has taken, or that is not saved
  held,        \* what each worker does: [at, step], at 0 when it has nothing
  processed,   \* the result for each candidate, or None
  asked,       \* how often the model was asked for the synthesis of a capture
  excused      \* how often it had to be asked again

synthesisVars ==
  <<version, records, cycle, cycles, candidates, exact, bySource, next, held, processed,
    asked, excused>>

Makers == {"model", "judge", "fallback"}
Record == [source : SynthesisSources, version : Versions, by : Makers, cached : BOOLEAN]
Free == [at |-> 0, step |-> "none"]

SynthesisTypeOK ==
  /\ version \in [SynthesisSources -> Versions]
  /\ records \in [SynthesisSources -> [Versions -> Makers \cup {None}]]
  /\ cycle \in {"idle", "looking", "working", "saving"}
  /\ \A i \in DOMAIN processed : processed[i] \in Record \cup {None}
  /\ DOMAIN processed = DOMAIN candidates
  /\ held \in [Workers -> [at : 0 .. Len(candidates),
                           step : {"none", "taken", "prompt", "compact", "judge"}]]
  /\ next \in 1 .. Len(candidates) + 1

Init ==
  /\ version = [s \in SynthesisSources |-> 1]
  /\ records = [s \in SynthesisSources |-> [v \in Versions |-> None]]
  /\ cycle = "idle" /\ cycles = 0
  /\ candidates = <<>> /\ exact = <<>> /\ bySource = <<>> /\ processed = <<>>
  /\ next = 1
  /\ held = [w \in Workers |-> Free]
  /\ asked = [s \in SynthesisSources |-> [v \in Versions |-> 0]]
  /\ excused = asked

-----------------------------------------------------------------------------

lookup == <<candidates, exact, bySource>>
provider == <<version, cycles>>

Capture(i) == candidates[i]

Occurrences(s) == Cardinality({i \in DOMAIN candidates : Capture(i).source = s})

\* The captures of the cycle may be asked for once more.
Excuse ==
  excused' = [s \in SynthesisSources |-> [v \in Versions |->
    IF \E i \in DOMAIN candidates : Capture(i) = [source |-> s, version |-> v]
    THEN excused[s][v] + 1 ELSE excused[s][v]]]

\* A video is transcribed again, a post edited.
Edit(s) ==
  /\ cycle = "idle"
  /\ version[s] < LastVersion
  /\ version' = [version EXCEPT ![s] = @ + 1]
  /\ UNCHANGED <<records, cycle, cycles, lookup, next, held, processed, asked, excused>>

\* RunCycle has candidates; a source that is listed twice is processed twice.
Begin(list) ==
  /\ cycle = "idle" /\ cycles < LastCycle
  /\ cycle' = "looking" /\ cycles' = cycles + 1
  /\ candidates' = [i \in DOMAIN list |-> [source |-> list[i], version |-> version[list[i]]]]
  /\ processed' = [i \in DOMAIN list |-> None]
  /\ excused' = [s \in SynthesisSources |-> [excused[s] EXCEPT ![version[s]] =
       @ + LET n == Cardinality({i \in DOMAIN list : list[i] = s})
           IN  IF n > 1 THEN n - 1 ELSE 0]]
  /\ UNCHANGED <<version, records, exact, bySource, next, held, asked>>

LatestVersion(s) ==
  LET made == {v \in Versions : records[s][v] # None}
  IN  CHOOSE v \in made \cup {0} : \A w \in made : w <= v

Found(s, v) ==
  IF v = 0 \/ records[s][v] = None THEN None
  ELSE [source |-> s, version |-> v, by |-> records[s][v], cached |-> TRUE]

Nothing == [i \in DOMAIN candidates |-> None]

\* readCachedSyntheses, by capture and by source: a failure is a blocker of the run,
\* and what was found before it is dropped.
LookUp ==
  /\ cycle = "looking"
  /\ \E captures, sources \in {"ok", "failed"} :
       /\ exact' = IF captures = "failed" THEN Nothing
                   ELSE [i \in DOMAIN candidates |-> Found(Capture(i).source, Capture(i).version)]
       /\ bySource' = IF sources = "failed" THEN Nothing
                      ELSE [i \in DOMAIN candidates |->
                              Found(Capture(i).source, LatestVersion(Capture(i).source))]
       /\ IF "failed" \in {captures, sources} THEN Excuse ELSE UNCHANGED excused
  /\ cycle' = "working"
  /\ UNCHANGED <<provider, records, candidates, next, held, processed, asked>>

-----------------------------------------------------------------------------

Step(w, step) == held' = [held EXCEPT ![w].step = step]

\* A worker takes the next index from the channel.
Take(w) ==
  /\ cycle = "working" /\ held[w] = Free
  /\ next <= Len(candidates)
  /\ held' = [held EXCEPT ![w] = [at |-> next, step |-> "taken"]]
  /\ next' = next + 1
  /\ UNCHANGED <<provider, records, cycle, lookup, processed, asked, excused>>

\* The record that saves the work: of this capture, or of any capture of a post.
Cached(i) ==
  IF exact[i] # None THEN exact[i]
  ELSE IF Capture(i).source \in Posts THEN bySource[i] ELSE None

\* Mistaken version, kept to show that a property can fail: the result is put at the
\* index that was given out last.
PutAtNext(w, result) ==
  /\ processed' = [processed EXCEPT ![next - 1] = result]
  /\ held' = [held EXCEPT ![w] = Free]

Put(w, result) ==
  /\ processed' = [processed EXCEPT ![held[w].at] = result]
  /\ held' = [held EXCEPT ![w] = Free]

Finish(w, by) ==
  Put(w, [source |-> Capture(held[w].at).source, version |-> Capture(held[w].at).version,
          by |-> by, cached |-> FALSE])

\* What the model cannot give is extracted from the source, and kept like an answer.
Fallback(w) == Finish(w, "fallback")

UseCached(w) ==
  /\ held[w].step = "taken" /\ Cached(held[w].at) # None
  /\ Put(w, Cached(held[w].at))
  /\ UNCHANGED <<provider, records, cycle, lookup, next, asked, excused>>

\* promptSynthesis: the model is asked.
Prompt(w) ==
  /\ held[w].step = "taken" /\ Cached(held[w].at) = None
  /\ LET c == Capture(held[w].at)
     IN  asked' = [asked EXCEPT ![c.source][c.version] = @ + 1]
  /\ Step(w, "prompt")
  /\ UNCHANGED <<provider, records, cycle, lookup, next, processed, excused>>

\* It answers; a malformed answer is asked for again in a shorter form.
Answer(w) ==
  /\ held[w].step = "prompt"
  /\ \/ Step(w, "judge") /\ UNCHANGED processed
     \/ Step(w, "compact") /\ UNCHANGED processed
     \/ Fallback(w)
  /\ UNCHANGED <<provider, records, cycle, lookup, next, asked, excused>>

CompactAnswer(w) ==
  /\ held[w].step = "compact"
  /\ \/ Step(w, "judge") /\ UNCHANGED processed
     \/ Fallback(w)
  /\ UNCHANGED <<provider, records, cycle, lookup, next, asked, excused>>

\* judgeSynthesis: without an answer of the judge, or a revision, the first one stays.
Judge(w) ==
  /\ held[w].step = "judge"
  /\ \/ Finish(w, "model")
     \/ JudgeEnabled /\ Finish(w, "judge")
  /\ UNCHANGED <<provider, records, cycle, lookup, next, asked, excused>>

-----------------------------------------------------------------------------

\* wg.Wait.
AllDone ==
  /\ cycle = "working"
  /\ next > Len(candidates) /\ \A w \in Workers : held[w] = Free
  /\ cycle' = "saving" /\ next' = 1
  /\ UNCHANGED <<provider, records, lookup, held, processed, asked, excused>>

EndCycle ==
  /\ cycle' = "idle" /\ next' = 1
  /\ candidates' = <<>> /\ exact' = <<>> /\ bySource' = <<>> /\ processed' = <<>>
  /\ held' = [w \in Workers |-> Free]
  /\ UNCHANGED <<provider, asked>>

\* SaveRun, source by source.
SaveSource ==
  /\ cycle = "saving" /\ next <= Len(candidates)
  /\ LET p == processed[next]
     IN  records' = [records EXCEPT ![p.source][p.version] = p.by]
  /\ next' = next + 1
  /\ UNCHANGED <<provider, cycle, lookup, held, processed, asked, excused>>

Saved ==
  /\ cycle = "saving" /\ next > Len(candidates)
  /\ EndCycle
  /\ UNCHANGED <<records, excused>>

\* The process ends, or a save fails: what is not saved is lost.
Crash ==
  /\ cycle # "idle"
  /\ Excuse
  /\ EndCycle
  /\ UNCHANGED records

Work(w) ==
  Take(w) \/ UseCached(w) \/ Prompt(w) \/ Answer(w) \/ CompactAnswer(w) \/ Judge(w)

SynthesisNext ==
  \/ \E s \in SynthesisSources : Edit(s)
  \/ \E list \in Lists : Begin(list)
  \/ LookUp
  \/ \E w \in Workers : Work(w)
  \/ AllDone \/ SaveSource \/ Saved \/ Crash

-----------------------------------------------------------------------------

\* The model is paid once for a capture, and a second time only when what it gave
\* was lost or could not be looked up, or when the list has the source twice; an
\* edited post is not paid for again.
PaidOnce ==
  /\ \A s \in SynthesisSources, v \in Versions : asked[s][v] <= 1 + excused[s][v]
  /\ \A s \in Posts \cap SynthesisSources, v, w \in Versions :
       v < w /\ asked[s][v] > 0 /\ asked[s][w] > 0 => excused[s][v] + excused[s][w] > 0

\* Whichever worker is done first, a result is that of its own candidate: of the same
\* capture, or of one that was saved of the same post.
ResultsInOrder ==
  \A i \in DOMAIN processed :
    processed[i] # None =>
      /\ processed[i].source = Capture(i).source
      /\ \/ processed[i].version = Capture(i).version
         \/ processed[i].source \in Posts /\ processed[i].cached

\* Both, as one claim about the pool.
WorkersSound == PaidOnce /\ ResultsInOrder
=============================================================================
