----------------------- MODULE ReadModelPublishProofs -----------------------
(***************************************************************************)
(* The read models show committed runs only, and the manifest moves to     *)
(* complete runs only, for any processes, runs, outages and deaths.  The   *)
(* state of Redis and of the snapshots alone does not say why: a process   *)
(* publishes long after it read, so that the invariant says of every       *)
(* publication on its way that its run was committed (BuildsSaved), that   *)
(* its keys are there when it comes to the manifest (KeysBeforeManifest)   *)
(* and that its state has a place of its own in the order (PlaceWhileSaving). *)
(***************************************************************************)
EXTENDS ReadModelPublish, SequenceTheorems, TLAPS

USE DEF vars, canonicalVars, redisVars, upVars

Building(p) == pc[p] \in {"build", "save", "keys", "manifest"}

\* There is always a latest run.
LatestExists == \E r \in saved : \A s \in saved : s <= r

BuildsSaved == \A p \in Processes : Building(p) => run[p] \in saved

KeysBeforeManifest == \A p \in Processes : pc[p] = "manifest" => run[p] \in complete

PlaceWhileSaving ==
  \A p \in Processes : pc[p] # "save" => \A i \in DOMAIN order : order[i] # p

PublishInv ==
  /\ TypeOK
  /\ LatestExists
  /\ BuildsSaved
  /\ KeysBeforeManifest
  /\ PlaceWhileSaving
  /\ PublishedIsSaved

-----------------------------------------------------------------------------

\* The latest run is one that was saved.
LEMMA LatestIsSaved == PublishInv => Latest \in saved
BY DEF PublishInv, LatestExists, Latest

\* What taking e out of the order leaves: all else once, and e not.
LEMMA WithoutLeaves ==
  ASSUME NEW S, order \in Seq(S), NEW e,
         \A i, j \in 1 .. Len(order) : i # j => order[i] # order[j]
  PROVE  LET w == Without(e)
         IN /\ w \in Seq(S)
            /\ \A i \in DOMAIN w : w[i] # e /\ \E j \in DOMAIN order : w[i] = order[j]
            /\ \A i, j \in 1 .. Len(w) : i # j => w[i] # w[j]
<1>1. CASE ~ \E i \in DOMAIN order : order[i] = e
  BY <1>1 DEF Without
<1>2. CASE \E i \in DOMAIN order : order[i] = e
  <2> DEFINE k == CHOOSE j \in DOMAIN order : order[j] = e
             n == Len(order)
             a == SubSeq(order, 1, k - 1)
             b == SubSeq(order, k + 1, n)
             w == a \o b
  <2>1. k \in 1 .. n /\ order[k] = e /\ n \in Nat
    BY <1>2
  <2>2. Without(e) = w
    BY <1>2 DEF Without
  <2> HIDE DEF k
  <2>3. /\ a \in Seq(S) /\ Len(a) = k - 1
        /\ \A i \in 1 .. k - 1 : a[i] = order[i]
    BY <2>1, SubSeqProperties
  <2>4. /\ b \in Seq(S) /\ Len(b) = n - k
        /\ \A i \in 1 .. n - k : b[i] = order[k + i]
    BY <2>1, SubSeqProperties
  <2> HIDE DEF a, b
  <2>5. /\ w \in Seq(S) /\ Len(w) = n - 1 /\ DOMAIN w = 1 .. n - 1
        /\ \A i \in 1 .. n - 1 : w[i] = IF i < k THEN order[i] ELSE order[i + 1]
    <3>1. /\ w \in Seq(S) /\ Len(w) = Len(a) + Len(b)
          /\ \A i \in 1 .. Len(a) + Len(b) : w[i] = IF i <= Len(a) THEN a[i] ELSE b[i - Len(a)]
      BY <2>3, <2>4, ConcatProperties
    <3> HIDE DEF w
    <3>2. Len(w) = n - 1 /\ DOMAIN w = 1 .. n - 1
      BY <2>1, <2>3, <2>4, <3>1
    <3>3. ASSUME NEW i \in 1 .. n - 1
          PROVE  w[i] = IF i < k THEN order[i] ELSE order[i + 1]
      <4>1. CASE i < k
        BY <2>1, <2>3, <2>4, <3>1, <4>1
      <4>2. CASE ~(i < k)
        <5>1. i \in Int /\ k \in Int /\ n \in Int /\ i <= n - 1 /\ k <= i
          BY <2>1, <4>2
        <5>2. i - (k - 1) \in 1 .. n - k /\ i \in 1 .. (k - 1) + (n - k) /\ ~(i <= k - 1)
          BY <2>1, <5>1
        <5>3. w[i] = b[i - (k - 1)]
          BY <2>3, <2>4, <3>1, <5>2
        <5>4. k + (i - (k - 1)) = i + 1
          BY <2>1
        <5> QED
          BY <2>4, <4>2, <5>2, <5>3, <5>4
      <4> QED
        BY <4>1, <4>2
    <3> QED
      BY <3>1, <3>2, <3>3
  <2> HIDE DEF w, n
  <2>6. DOMAIN order = 1 .. n
    BY DEF n
  <2> QED
    BY <2>1, <2>2, <2>5, <2>6
<1> QED
  BY <1>1, <1>2

\* Taking e out of the order leaves rows of committed runs, and p only where it was.
LEMMA WithoutKeeps ==
  ASSUME PublishInv, NEW e
  PROVE  LET w == Without(e)
         IN /\ w \in Seq(Runs \cup Processes)
            /\ \A i, j \in 1 .. Len(w) : i # j => w[i] # w[j]
            /\ \A i \in DOMAIN w : w[i] # e /\ (w[i] \in Runs => w[i] \in saved)
            /\ \A i \in DOMAIN w : w[i] \in Processes => pc[w[i]] = "save"
<1> DEFINE w == Without(e)
<1>1. order \in Seq(Runs \cup Processes) /\ \A i, j \in 1 .. Len(order) : i # j => order[i] # order[j]
  BY DEF PublishInv, TypeOK
<1>2. /\ w \in Seq(Runs \cup Processes)
      /\ \A i \in DOMAIN w : w[i] # e /\ \E j \in DOMAIN order : w[i] = order[j]
      /\ \A i, j \in 1 .. Len(w) : i # j => w[i] # w[j]
  BY <1>1, WithoutLeaves
<1> HIDE DEF w
<1>3. ASSUME NEW i \in DOMAIN w
      PROVE  (w[i] \in Runs => w[i] \in saved) /\ (w[i] \in Processes => pc[w[i]] = "save")
  <2>1. PICK j \in DOMAIN order : w[i] = order[j]
    BY <1>2
  <2> QED
    BY <2>1 DEF PublishInv, PublishedIsSaved, Rows, PlaceWhileSaving
<1> QED
  BY <1>2, <1>3 DEF w

\* The invariant holds initially.
LEMMA InitInv == Init => PublishInv
<1> SUFFICES ASSUME Init PROVE PublishInv
  OBVIOUS
<1>1. TypeOK
  BY BoundsAssumption DEF Init, TypeOK, Runs, Stages
<1>2. PublishedIsSaved /\ PlaceWhileSaving
  BY DEF Init, PublishedIsSaved, PlaceWhileSaving, Rows
<1> QED
  BY <1>1, <1>2 DEF Init, PublishInv, LatestExists, BuildsSaved, Building, KeysBeforeManifest

\* A step of p that goes on to a stage with a committed run, and leaves the order and
\* the stores.
LEMMA GoesOn ==
  ASSUME PublishInv, NEW p \in Processes, NEW stage \in Stages, NEW r \in Runs,
         Goto(p, stage, r),
         stage \in {"build", "save", "keys", "manifest"} => r \in saved,
         stage = "manifest" => r \in complete',
         stage = "save" \/ \A i \in DOMAIN order' : order'[i] # p
  PROVE  /\ pc' \in [Processes -> Stages] /\ run' \in [Processes -> Runs]
         /\ saved \subseteq saved' => BuildsSaved'
         /\ complete \subseteq complete' => KeysBeforeManifest'
         /\ (\A q \in Processes \ {p} : pc[q] # "save" => \A i \in DOMAIN order' : order'[i] # q)
              => PlaceWhileSaving'
<1>1. pc \in [Processes -> Stages] /\ run \in [Processes -> Runs] /\ 0 \in Runs
  BY BoundsAssumption DEF PublishInv, TypeOK, Runs
<1>2. /\ pc'[p] = stage /\ run'[p] = (IF stage = "idle" THEN 0 ELSE r)
      /\ \A q \in Processes \ {p} : pc'[q] = pc[q] /\ run'[q] = run[q]
      /\ pc' \in [Processes -> Stages] /\ run' \in [Processes -> Runs]
  BY <1>1 DEF Goto
<1>3. saved \subseteq saved' => BuildsSaved'
  BY <1>2 DEF PublishInv, BuildsSaved, Building
<1>4. complete \subseteq complete' => KeysBeforeManifest'
  BY <1>2 DEF PublishInv, KeysBeforeManifest
<1>5. (\A q \in Processes \ {p} : pc[q] # "save" => \A i \in DOMAIN order' : order'[i] # q)
        => PlaceWhileSaving'
  BY <1>2 DEF PlaceWhileSaving
<1> QED
  BY <1>2, <1>3, <1>4, <1>5

-----------------------------------------------------------------------------
\* What a refresh and a page load do before they build.

\* A call begins, or reads one of the stores.
LEMMA ReadingKeepsInv ==
  ASSUME PublishInv, NEW p \in Processes,
         StartRefresh(p) \/ Precompute(p) \/ MissRedis(p) \/ ReadSnapshot(p) \/ ReadCanonical(p)
  PROVE  PublishInv'
<1>1. /\ UNCHANGED <<saved, order, redisVars, upVars>> /\ started' \in Runs
      /\ pc[p] # "save"
      /\ \E stage \in Stages : \E r \in Runs :
           /\ Goto(p, stage, r)
           /\ stage \notin {"save", "keys", "manifest"}
           /\ stage = "build" => r \in saved
  <2>1. CASE StartRefresh(p)
    <3>1. started' \in Runs
      BY <2>1, BoundsAssumption DEF StartRefresh, PublishInv, TypeOK, Runs
    <3> QED
      BY <2>1, <3>1 DEF StartRefresh, Stages
  <2>2. CASE Precompute(p) \/ MissRedis(p)
    BY <2>2, BoundsAssumption DEF Precompute, MissRedis, PublishInv, TypeOK, Runs, Stages
  <2>3. CASE ReadSnapshot(p)
    <3>1. pc[p] = "snapshot" /\ UNCHANGED <<canonicalVars, order, redisVars, upVars>>
          /\ \E stage \in {"idle", "canonical"} : Goto(p, stage, 0)
      BY <2>3 DEF ReadSnapshot
    <3> QED
      BY <3>1, BoundsAssumption DEF PublishInv, TypeOK, Runs, Stages
  <2>4. CASE ReadCanonical(p)
    <3>1. Latest \in saved /\ saved \subseteq Runs
      BY LatestIsSaved DEF PublishInv, TypeOK
    <3>2. pc[p] = "canonical" /\ UNCHANGED <<canonicalVars, order, redisVars, upVars>>
          /\ \E stage \in {"idle", "build"} : Goto(p, stage, Latest)
      BY <2>4 DEF ReadCanonical
    <3> QED
      BY <3>1, <3>2 DEF PublishInv, TypeOK, Stages
  <2> QED
    BY <2>1, <2>2, <2>3, <2>4
<1>2. PICK stage \in Stages, r \in Runs :
        /\ Goto(p, stage, r)
        /\ stage \notin {"save", "keys", "manifest"}
        /\ stage = "build" => r \in saved
  BY <1>1
<1>3. \A q \in Processes : pc[q] # "save" => \A i \in DOMAIN order' : order'[i] # q
  BY <1>1 DEF PublishInv, PlaceWhileSaving
<1>4. \A i \in DOMAIN order' : order'[i] # p
  BY <1>1, <1>3
<1>5. /\ pc' \in [Processes -> Stages] /\ run' \in [Processes -> Runs]
      /\ BuildsSaved' /\ KeysBeforeManifest' /\ PlaceWhileSaving'
  BY <1>1, <1>2, <1>3, <1>4, GoesOn
<1>6. TypeOK'
  BY <1>1, <1>5 DEF PublishInv, TypeOK
<1> QED
  BY <1>1, <1>5, <1>6 DEF PublishInv, LatestExists, PublishedIsSaved, Rows

\* The run is saved, and may be the latest.
LEMMA SaveRunKeepsInv ==
  ASSUME PublishInv, NEW p \in Processes, SaveRun(p)
  PROVE  PublishInv'
<1> DEFINE r == run[p]
<1>1. /\ pc[p] = "refresh" /\ r \in Runs
      /\ saved \subseteq saved' /\ saved' \subseteq saved \cup {r}
      /\ UNCHANGED <<started, order, redisVars, upVars>>
      /\ \E stage \in {"build", "idle"} : Goto(p, stage, r) /\ (stage = "build" => r \in saved')
  BY DEF SaveRun, PublishInv, TypeOK
<1>2. /\ saved \subseteq Runs /\ saved' \subseteq Runs /\ Runs \subseteq Int
  BY <1>1, BoundsAssumption DEF PublishInv, TypeOK, Runs
<1>3. PICK top \in saved : \A s \in saved : s <= top
  BY DEF PublishInv, LatestExists
<1> HIDE DEF r
<1>4. LatestExists'
  <2>0. r \in Int /\ top \in Int /\ top \in saved' /\ \A s \in saved : s \in Int
    BY <1>1, <1>2, <1>3
  <2>1. CASE r \in saved' /\ r > top
    <3>1. \A s \in saved' : s <= r
      BY <1>1, <1>3, <2>0, <2>1
    <3> QED
      BY <2>1, <3>1 DEF LatestExists
  <2>2. CASE r \notin saved' \/ r <= top
    <3>1. \A s \in saved' : s <= top
      BY <1>1, <1>3, <2>0, <2>2
    <3> QED
      BY <2>0, <3>1 DEF LatestExists
  <2> QED
    BY <2>0, <2>1, <2>2
<1>5. PICK stage \in {"build", "idle"} : Goto(p, stage, r) /\ (stage = "build" => r \in saved')
  BY <1>1 DEF r
<1>6. /\ pc \in [Processes -> Stages] /\ run \in [Processes -> Runs] /\ 0 \in Runs
  BY BoundsAssumption DEF PublishInv, TypeOK, Runs
<1>7. /\ pc'[p] = stage /\ run'[p] = (IF stage = "idle" THEN 0 ELSE r)
      /\ \A q \in Processes \ {p} : pc'[q] = pc[q] /\ run'[q] = run[q]
      /\ pc' \in [Processes -> Stages] /\ run' \in [Processes -> Runs]
  BY <1>1, <1>5, <1>6 DEF Goto, Stages
<1>8. BuildsSaved'
  BY <1>1, <1>5, <1>7 DEF PublishInv, BuildsSaved, Building
<1>9. KeysBeforeManifest' /\ PlaceWhileSaving'
  BY <1>1, <1>7 DEF PublishInv, KeysBeforeManifest, PlaceWhileSaving
<1>10. TypeOK'
  BY <1>1, <1>2, <1>7 DEF PublishInv, TypeOK
<1>11. PublishedIsSaved'
  BY <1>1 DEF PublishInv, PublishedIsSaved, Rows
<1> QED
  BY <1>4, <1>8, <1>9, <1>10, <1>11 DEF PublishInv

-----------------------------------------------------------------------------
\* The publication.

\* The state that is built takes the last place of the order.
LEMMA BuildKeepsInv ==
  ASSUME PublishInv, NEW p \in Processes, Build(p)
  PROVE  PublishInv'
<1>1. /\ pc[p] = "build" /\ order' = Append(order, p) /\ Goto(p, "save", run[p])
      /\ UNCHANGED <<canonicalVars, redisVars, upVars>>
  BY DEF Build
<1>2. /\ order \in Seq(Runs \cup Processes) /\ run[p] \in Runs /\ run[p] \in saved
      /\ \A i \in DOMAIN order : order[i] # p
  BY <1>1 DEF PublishInv, TypeOK, BuildsSaved, Building, PlaceWhileSaving
<1>3. /\ order' \in Seq(Runs \cup Processes) /\ Len(order') = Len(order) + 1
      /\ \A i \in 1 .. Len(order) : order'[i] = order[i]
      /\ order'[Len(order) + 1] = p
      /\ DOMAIN order' = 1 .. Len(order) + 1 /\ DOMAIN order = 1 .. Len(order)
      /\ Len(order) \in Nat
  BY <1>1, <1>2, AppendProperties
<1>4. \A i, j \in 1 .. Len(order') : i # j => order'[i] # order'[j]
  BY <1>2, <1>3 DEF PublishInv, TypeOK
<1>5. \A q \in Processes \ {p} : pc[q] # "save" => \A i \in DOMAIN order' : order'[i] # q
  BY <1>3 DEF PublishInv, PlaceWhileSaving
<1>6. /\ pc' \in [Processes -> Stages] /\ run' \in [Processes -> Runs]
      /\ BuildsSaved' /\ KeysBeforeManifest' /\ PlaceWhileSaving'
  BY <1>1, <1>2, <1>5, GoesOn DEF Stages
<1>7. TypeOK'
  BY <1>1, <1>3, <1>4, <1>6 DEF PublishInv, TypeOK
<1>8. PublishedIsSaved'
  BY <1>1, <1>3, NoneAssumption DEF PublishInv, PublishedIsSaved, Rows
<1> QED
  BY <1>1, <1>6, <1>7, <1>8 DEF PublishInv, LatestExists

\* The row of the run takes the place of the state that was built.
LEMMA SaveSnapshotKeepsInv ==
  ASSUME PublishInv, NEW p \in Processes, SaveSnapshot(p)
  PROVE  PublishInv'
<1> DEFINE r == run[p]
<1>1. /\ pc[p] = "save" /\ Goto(p, "keys", r)
      /\ order' = IF postgresUp THEN Upserted(p, r) ELSE Without(p)
      /\ UNCHANGED <<canonicalVars, redisVars, upVars>>
  BY DEF SaveSnapshot
<1>2. r \in Runs /\ r \in saved /\ p \notin Runs
  BY <1>1, NoneAssumption DEF PublishInv, TypeOK, BuildsSaved, Building
<1> HIDE DEF r
<1>3. /\ order' \in Seq(Runs \cup Processes)
      /\ \A i, j \in 1 .. Len(order') : i # j => order'[i] # order'[j]
      /\ \A i \in DOMAIN order' : order'[i] # p /\ (order'[i] \in Runs => order'[i] \in saved)
      /\ \A i \in DOMAIN order' : order'[i] \in Processes => pc[order'[i]] = "save"
  <2>1. CASE ~postgresUp
    BY <1>1, <2>1, WithoutKeeps
  <2>2. CASE postgresUp
    <3> DEFINE w == Without(r)
    <3>1. /\ w \in Seq(Runs \cup Processes)
          /\ \A i, j \in 1 .. Len(w) : i # j => w[i] # w[j]
          /\ \A i \in DOMAIN w : w[i] # r /\ (w[i] \in Runs => w[i] \in saved)
          /\ \A i \in DOMAIN w : w[i] \in Processes => pc[w[i]] = "save"
      BY WithoutKeeps
    <3> HIDE DEF w
    <3>2. order' = [i \in 1 .. Len(w) |-> IF w[i] = p THEN r ELSE w[i]]
      BY <1>1, <2>2 DEF Upserted, w
    <3>3. /\ Len(w) \in Nat /\ DOMAIN w = 1 .. Len(w)
          /\ \A i \in 1 .. Len(w) : w[i] \in Runs \cup Processes
      BY <3>1
    <3>4. order' \in Seq(Runs \cup Processes) /\ Len(order') = Len(w) /\ DOMAIN order' = 1 .. Len(w)
      BY <1>2, <3>2, <3>3
    <3>5. \A i \in 1 .. Len(w) : order'[i] = IF w[i] = p THEN r ELSE w[i]
      BY <3>2
    <3>6. \A i, j \in 1 .. Len(order') : i # j => order'[i] # order'[j]
      BY <3>1, <3>3, <3>4, <3>5
    <3>7. \A i \in DOMAIN order' : order'[i] # p /\ (order'[i] \in Runs => order'[i] \in saved)
      BY <1>2, <3>1, <3>3, <3>4, <3>5
    <3>8. \A i \in DOMAIN order' : order'[i] \in Processes => pc[order'[i]] = "save"
      BY <1>2, <3>1, <3>3, <3>4, <3>5, NoneAssumption
    <3> QED
      BY <3>4, <3>6, <3>7, <3>8
  <2> QED
    BY <2>1, <2>2
<1>4. \A q \in Processes \ {p} : pc[q] # "save" => \A i \in DOMAIN order' : order'[i] # q
  BY <1>3
<1>5. /\ pc' \in [Processes -> Stages] /\ run' \in [Processes -> Runs]
      /\ BuildsSaved' /\ KeysBeforeManifest' /\ PlaceWhileSaving'
  BY <1>1, <1>2, <1>3, <1>4, GoesOn DEF Stages
<1>6. TypeOK'
  BY <1>1, <1>3, <1>5 DEF PublishInv, TypeOK
<1>7. PublishedIsSaved'
  BY <1>1, <1>3 DEF PublishInv, PublishedIsSaved, Rows
<1> QED
  BY <1>1, <1>5, <1>6, <1>7 DEF PublishInv, LatestExists

\* The keys of a committed run are written, and the manifest moves to a complete one.
LEMMA PublishRedisKeepsInv ==
  ASSUME PublishInv, NEW p \in Processes, WriteKeys(p) \/ FlipManifest(p)
  PROVE  PublishInv' /\ (manifest' # manifest => manifest' \in complete')
<1> DEFINE r == run[p]
<1>1. /\ UNCHANGED <<canonicalVars, order, upVars>>
      /\ pc[p] \in {"keys", "manifest"}
      /\ complete \subseteq complete' /\ complete' \subseteq complete \cup {r}
      /\ manifest' \in {manifest, r} /\ (manifest' # manifest => pc[p] = "manifest")
      /\ \E stage \in {"idle", "keys", "manifest"} :
           Goto(p, stage, r) /\ (stage = "manifest" => r \in complete')
  <2>1. CASE WriteKeys(p)
    BY <2>1 DEF WriteKeys, RetryOrGiveUp
  <2>2. CASE FlipManifest(p)
    <3>1. \E stage \in {"idle", "keys"} : Goto(p, stage, r)
      <4>1. CASE redisUp
        BY <2>2, <4>1 DEF FlipManifest, Goto
      <4>2. CASE ~redisUp
        BY <2>2, <4>2 DEF FlipManifest, RetryOrGiveUp
      <4> QED
        BY <4>1, <4>2
    <3> QED
      BY <2>2, <3>1 DEF FlipManifest
  <2> QED
    BY <2>1, <2>2
<1>2. r \in Runs /\ r \in saved
  BY <1>1 DEF PublishInv, TypeOK, BuildsSaved, Building
<1>3. manifest' # manifest => manifest' \in complete'
  BY <1>1 DEF PublishInv, KeysBeforeManifest
<1>4. PICK stage \in {"idle", "keys", "manifest"} :
        Goto(p, stage, r) /\ (stage = "manifest" => r \in complete')
  BY <1>1
<1> HIDE DEF r
<1>5. \A q \in Processes : pc[q] # "save" => \A i \in DOMAIN order' : order'[i] # q
  BY <1>1 DEF PublishInv, PlaceWhileSaving
<1>6. \A i \in DOMAIN order' : order'[i] # p
  BY <1>1, <1>5
<1>7. /\ pc' \in [Processes -> Stages] /\ run' \in [Processes -> Runs]
      /\ BuildsSaved' /\ KeysBeforeManifest' /\ PlaceWhileSaving'
  BY <1>1, <1>2, <1>4, <1>5, <1>6, GoesOn DEF Stages
<1>8. TypeOK'
  BY <1>1, <1>2, <1>7 DEF PublishInv, TypeOK
<1>9. PublishedIsSaved'
  BY <1>1, <1>2 DEF PublishInv, PublishedIsSaved, Rows
<1> QED
  BY <1>1, <1>3, <1>7, <1>8, <1>9 DEF PublishInv, LatestExists

-----------------------------------------------------------------------------
\* Deaths, outages and expiry.

\* A process dies: what it had built is nowhere.
LEMMA CrashKeepsInv ==
  ASSUME PublishInv, NEW p \in Processes, Crash(p)
  PROVE  PublishInv'
<1>1. /\ order' = Without(p) /\ Goto(p, "idle", 0)
      /\ crashes' = crashes + 1 /\ crashes < LastCrash
      /\ UNCHANGED <<canonicalVars, redisVars, redisUp, postgresUp>>
  BY DEF Crash
<1>2. /\ order' \in Seq(Runs \cup Processes)
      /\ \A i, j \in 1 .. Len(order') : i # j => order'[i] # order'[j]
      /\ \A i \in DOMAIN order' : order'[i] # p /\ (order'[i] \in Runs => order'[i] \in saved)
      /\ \A i \in DOMAIN order' : order'[i] \in Processes => pc[order'[i]] = "save"
  BY <1>1, WithoutKeeps
<1>3. \A q \in Processes \ {p} : pc[q] # "save" => \A i \in DOMAIN order' : order'[i] # q
  BY <1>2
<1>4. 0 \in Runs
  BY BoundsAssumption DEF Runs
<1>5. /\ pc' \in [Processes -> Stages] /\ run' \in [Processes -> Runs]
      /\ BuildsSaved' /\ KeysBeforeManifest' /\ PlaceWhileSaving'
  BY <1>1, <1>2, <1>3, <1>4, GoesOn DEF Stages
<1>6. crashes' \in 0 .. LastCrash
  BY <1>1, BoundsAssumption DEF PublishInv, TypeOK
<1>7. TypeOK'
  BY <1>1, <1>2, <1>5, <1>6 DEF PublishInv, TypeOK
<1>8. PublishedIsSaved'
  BY <1>1, <1>2 DEF PublishInv, PublishedIsSaved, Rows
<1> QED
  BY <1>1, <1>5, <1>7, <1>8 DEF PublishInv, LatestExists

\* Keys expire that no publication is about to point to; Redis and Postgres come and go.
LEMMA StoresKeepInv ==
  ASSUME PublishInv,
         (\E r \in Runs : ExpireKeys(r)) \/ ToggleRedis \/ TogglePostgres \/ UNCHANGED vars
  PROVE  PublishInv'
<1>1. /\ UNCHANGED <<canonicalVars, order, manifest, crashes, pc, run>>
      /\ complete' \subseteq complete
      /\ redisUp' \in BOOLEAN /\ postgresUp' \in BOOLEAN
      /\ \A p \in Processes : pc[p] = "manifest" /\ run[p] \in complete => run[p] \in complete'
  <2>1. ASSUME NEW r \in Runs, ExpireKeys(r)
        PROVE  /\ UNCHANGED <<canonicalVars, order, manifest, crashes, pc, run>>
               /\ complete' \subseteq complete
               /\ redisUp' \in BOOLEAN /\ postgresUp' \in BOOLEAN
               /\ \A p \in Processes :
                    pc[p] = "manifest" /\ run[p] \in complete => run[p] \in complete'
    BY <2>1 DEF ExpireKeys, PublishInv, TypeOK
  <2>2. CASE ToggleRedis \/ TogglePostgres \/ UNCHANGED vars
    BY <2>2 DEF ToggleRedis, TogglePostgres, PublishInv, TypeOK
  <2> QED
    BY <2>1, <2>2
<1>2. TypeOK'
  BY <1>1 DEF PublishInv, TypeOK
<1>3. KeysBeforeManifest'
  BY <1>1 DEF PublishInv, KeysBeforeManifest
<1> QED
  BY <1>1, <1>2, <1>3 DEF PublishInv, LatestExists, BuildsSaved, Building, PlaceWhileSaving,
                          PublishedIsSaved, Rows

-----------------------------------------------------------------------------

\* What every publication on its way was built from is committed, and its keys precede
\* its manifest (publishAppStateBestEffort).
THEOREM PublishInvariant == Spec => []PublishInv
<1>1. Init => PublishInv
  BY InitInv
<1>2. PublishInv /\ [Next]_vars => PublishInv'
  BY ReadingKeepsInv, SaveRunKeepsInv, BuildKeepsInv, SaveSnapshotKeepsInv, PublishRedisKeepsInv,
     CrashKeepsInv, StoresKeepInv DEF Next, Work
<1> QED
  BY <1>1, <1>2, PTL DEF Spec

\* The read models' state keeps its types; the snapshots have one row for a run
\* (SaveReadModelSnapshot).
THEOREM PublishTypes == Spec => []TypeOK
<1>1. PublishInv => TypeOK
  BY DEF PublishInv
<1> QED
  BY <1>1, PublishInvariant, PTL

\* Redis and the snapshots show committed runs only (publishAppStateBestEffort, PublishReadModels).
THEOREM PublishedAlwaysSaved == Spec => []PublishedIsSaved
<1>1. PublishInv => PublishedIsSaved
  BY DEF PublishInv
<1> QED
  BY <1>1, PublishInvariant, PTL

\* The manifest moves only to a run whose keys are all in Redis (PublishAppState of
\* rediscache).
THEOREM ManifestIsLast == Spec => FlipsToCompleteRun
<1> DEFINE Flip == manifest' # manifest => manifest' \in complete'
<1>1. PublishInv /\ [Next]_vars => [Flip]_vars
  <2> SUFFICES ASSUME PublishInv, Next, manifest' # manifest
               PROVE  manifest' \in complete'
    OBVIOUS
  <2>1. \E p \in Processes : FlipManifest(p)
    BY DEF Next, Work, StartRefresh, Precompute, MissRedis, SaveRun, ReadSnapshot, ReadCanonical,
           Build, SaveSnapshot, WriteKeys, Crash, ExpireKeys, ToggleRedis, TogglePostgres
  <2> QED
    BY <2>1, PublishRedisKeepsInv
<1> HIDE DEF Flip
<1>2. Spec => [][Flip]_vars
  BY <1>1, PublishInvariant, PTL DEF Spec
<1> QED
  BY <1>2 DEF FlipsToCompleteRun, Flip
=============================================================================
