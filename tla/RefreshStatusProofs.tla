------------------------- MODULE RefreshStatusProofs -------------------------
(***************************************************************************)
(* OneRefresh and StoredNotAhead hold for any number of refreshes and of   *)
(* stages, whatever fails.  What makes them inductive: refreshes start in  *)
(* the order of their numbers, so that a record of another refresh is of   *)
(* an older one (InOrder), and the records a refresh has still to write    *)
(* itself are the service's own first or the refresh's last (FinalsHeld).  *)
(***************************************************************************)
EXTENDS RefreshStatus, TLAPS

USE DEF vars

\* Refreshes start in the order of their numbers; the service's is the newest.
InOrder ==
  /\ \A i, j \in Refreshes : i < j /\ pc[i] = "unused" => pc[j] = "unused"
  /\ refresh # None => /\ pc[refresh.id] # "unused"
                       /\ \A i \in Refreshes : pc[i] # "unused" => i <= refresh.id

\* The record a refresh has still to write itself.
FinalsHeld ==
  \A i \in Refreshes :
    /\ pc[i] = "starting" => final[i] = refresh
    /\ pc[i] = "finishing" => /\ final[i] # None /\ final[i].id = i
                              /\ final[i].status # "running"
                              /\ refresh # None /\ refresh.id = i => final[i] = refresh

StatusInv == TypeOK /\ OneRefresh /\ StoredNotAhead /\ InOrder /\ FinalsHeld

-----------------------------------------------------------------------------

\* A record that is none of None is a status.
LEMMA StatusTyped ==
  ASSUME NEW s \in Status
  PROVE  /\ s # None
         /\ s.id \in Refreshes /\ s.stage \in 0 .. LastStage
         /\ s.status \in {"running", "completed", "failed"}
BY NoneAssumption DEF Status

\* The invariant holds initially.
LEMMA InitStatus == Init => StatusInv
BY DEF Init, StatusInv, TypeOK, OneRefresh, StoredNotAhead, InOrder, FinalsHeld,
       Running, Active, Stages

\* A start: every record there is belongs to an older refresh.
LEMMA StartKeeps ==
  ASSUME StatusInv, NEW i \in Refreshes, StartRefresh(i)
  PROVE  StatusInv'
<1> DEFINE first == [id |-> i, status |-> "running", stage |-> 0]
<1>1. first \in Status /\ first # None
  BY BoundsAssumption, NoneAssumption DEF Status
<1>2. /\ refresh' = first /\ pc[i] = "unused" /\ pc' = [pc EXCEPT ![i] = "starting"]
      /\ final' = [final EXCEPT ![i] = first]
      /\ stored' = stored /\ writes' = writes
  BY DEF StartRefresh, NextRefresh, Goto
<1>3. Active = {}
  BY DEF StartRefresh, StatusInv, OneRefresh
<1>4. TypeOK'
  BY <1>1, <1>2 DEF StatusInv, TypeOK, Stages
<1>5. pc'[i] = "starting" /\ \A j \in Refreshes \ {i} : pc'[j] = pc[j]
  BY <1>2 DEF StatusInv, TypeOK
<1>6. Active' = {i}
  BY <1>3, <1>5 DEF Active
<1>7. OneRefresh'
  BY <1>1, <1>2, <1>6 DEF OneRefresh, Running
<1>8. \A j \in Refreshes : pc[j] # "unused" => j < i
  <2> SUFFICES ASSUME NEW j \in Refreshes, pc[j] # "unused", ~(j < i)
               PROVE  FALSE
    OBVIOUS
  <2>1. j # i
    BY <1>2
  <2>2. i < j
    BY <2>1, BoundsAssumption DEF Refreshes
  <2> QED
    BY <1>2, <2>2 DEF StatusInv, InOrder
<1>9. StoredNotAhead'
  <2> SUFFICES ASSUME NEW s \in writes \cup ({stored} \ {None})
               PROVE  /\ pc'[s.id] # "unused"
                      /\ s.id < i
                      /\ s.status # "running" => pc'[s.id] \in {"finishing", "over"}
    BY <1>2, BoundsAssumption, StatusTyped DEF StoredNotAhead, StatusInv, TypeOK, Refreshes
  <2>1. s \in Status
    BY DEF StatusInv, TypeOK
  <2>2. /\ pc[s.id] # "unused"
        /\ s.status # "running" => pc[s.id] \in {"finishing", "over"}
    BY DEF StatusInv, StoredNotAhead
  <2>3. s.id \in Refreshes /\ s.id < i
    BY <1>8, <2>1, <2>2, StatusTyped
  <2>4. pc'[s.id] = pc[s.id]
    BY <1>5, <2>3 DEF Refreshes
  <2> QED
    BY <2>2, <2>3, <2>4
<1>10. InOrder'
  <2>1. \A j \in Refreshes : pc'[j] # "unused" => j <= i
    BY <1>5, <1>8, BoundsAssumption DEF Refreshes
  <2>2. ASSUME NEW j \in Refreshes, NEW k \in Refreshes, j < k, pc'[j] = "unused"
        PROVE  pc'[k] = "unused"
    <3>1. j # i /\ pc[j] = "unused"
      BY <1>5, <2>2
    <3>2. pc[k] = "unused"
      BY <2>2, <3>1 DEF StatusInv, InOrder
    <3>3. ~(j < i)
      BY <3>1 DEF StartRefresh, NextRefresh, Refreshes
    <3> QED
      BY <1>5, <2>2, <3>1, <3>2, <3>3, BoundsAssumption DEF Refreshes
  <2> QED
    BY <1>2, <1>5, <2>1, <2>2 DEF InOrder
<1>11. FinalsHeld'
  <2> SUFFICES ASSUME NEW j \in Refreshes
               PROVE  /\ pc'[j] = "starting" => final'[j] = first
                      /\ pc'[j] = "finishing" => /\ final'[j] # None /\ final'[j].id = j
                                                 /\ final'[j].status # "running"
                                                 /\ j # i
    BY <1>2 DEF FinalsHeld
  <2>1. CASE j = i
    BY <1>2, <1>5, <2>1 DEF StatusInv, TypeOK
  <2>2. CASE j # i
    <3>1. pc'[j] = pc[j] /\ final'[j] = final[j]
      BY <1>2, <1>5, <2>2 DEF StatusInv, TypeOK
    <3>2. pc[j] # "starting"
      BY <1>3 DEF Active
    <3> QED
      BY <2>2, <3>1, <3>2 DEF StatusInv, FinalsHeld
  <2> QED
    BY <2>1, <2>2
<1> QED
  BY <1>4, <1>7, <1>9, <1>10, <1>11 DEF StatusInv

-----------------------------------------------------------------------------

\* The refresh a step of i is about is the service's, while it is active.
LEMMA ActiveIsService ==
  ASSUME StatusInv, NEW i \in Refreshes, pc[i] \in {"starting", "running"}
  PROVE  /\ refresh \in Status /\ refresh # None
         /\ refresh.id = i /\ refresh.status = "running"
         /\ \A j \in Refreshes \ {i} : pc[j] \notin {"starting", "running"}
BY DEF StatusInv, TypeOK, OneRefresh, Active, Running

\* The request writes the first record of the refresh.
LEMMA LaunchKeeps ==
  ASSUME StatusInv, NEW i \in Refreshes, LaunchRefresh(i)
  PROVE  StatusInv'
<1>1. /\ pc[i] = "starting" /\ pc' = [pc EXCEPT ![i] = "running"]
      /\ refresh' = refresh /\ writes' = writes /\ final' = final
      /\ stored' \in {stored, refresh}
  BY DEF LaunchRefresh, Goto, Store, StatusInv, FinalsHeld
<1>2. /\ refresh \in Status /\ refresh # None
      /\ refresh.id = i /\ refresh.status = "running"
      /\ \A j \in Refreshes \ {i} : pc[j] \notin {"starting", "running"}
  BY <1>1, ActiveIsService
<1>3. pc'[i] = "running" /\ \A j \in Refreshes \ {i} : pc'[j] = pc[j]
  BY <1>1 DEF StatusInv, TypeOK
<1>4. TypeOK'
  BY <1>1, <1>2 DEF StatusInv, TypeOK, Stages
<1>5. Active' = {i}
  BY <1>2, <1>3 DEF Active
<1>6. OneRefresh'
  BY <1>1, <1>2, <1>5 DEF OneRefresh, Running
<1>7. StoredNotAhead'
  <2> SUFFICES ASSUME NEW s \in writes \cup ({stored'} \ {None})
               PROVE  /\ pc'[s.id] # "unused"
                      /\ s.id <= i
                      /\ s.id = i => /\ s.stage <= refresh.stage
                                     /\ s.status # "running" => s = refresh
                      /\ s.status # "running" => pc'[s.id] \in {"finishing", "over"}
    BY <1>1, <1>2 DEF StoredNotAhead
  <2>1. CASE s = refresh
    BY <1>2, <1>3, <2>1, BoundsAssumption, StatusTyped DEF Refreshes
  <2>2. CASE s \in writes \cup ({stored} \ {None})
    <3>1. s \in Status
      BY <2>2 DEF StatusInv, TypeOK
    <3>2. /\ pc[s.id] # "unused"
          /\ s.id <= i
          /\ s.id = i => /\ s.stage <= refresh.stage
                         /\ s.status # "running" => s = refresh
          /\ s.status # "running" => pc[s.id] \in {"finishing", "over"}
      BY <1>2, <2>2 DEF StatusInv, StoredNotAhead
    <3>3. s.id \in Refreshes
      BY <3>1, StatusTyped
    <3> QED
      BY <1>1, <1>3, <3>2, <3>3
  <2> QED
    BY <1>1, <2>1, <2>2
<1>8. InOrder'
  BY <1>1, <1>2, <1>3 DEF StatusInv, InOrder
<1>9. FinalsHeld'
  BY <1>1, <1>2, <1>3 DEF StatusInv, FinalsHeld
<1> QED
  BY <1>4, <1>6, <1>7, <1>8, <1>9 DEF StatusInv

\* A stage moves the service's record on and leaves a write behind.
LEMMA StageKeeps ==
  ASSUME StatusInv, NEW i \in Refreshes, SetRefreshStage(i)
  PROVE  StatusInv'
<1> DEFINE next == [refresh EXCEPT !.stage = @ + 1]
<1>1. /\ pc[i] = "running" /\ refresh.stage < LastStage
      /\ refresh' = next /\ writes' = writes \cup {next}
      /\ pc' = pc /\ stored' = stored /\ final' = final
  BY DEF SetRefreshStage
<1>2. /\ refresh \in Status /\ refresh # None
      /\ refresh.id = i /\ refresh.status = "running"
      /\ \A j \in Refreshes \ {i} : pc[j] \notin {"starting", "running"}
  BY <1>1, ActiveIsService
<1>3. /\ next \in Status /\ next.id = i /\ next.status = "running"
      /\ next.stage = refresh.stage + 1
  BY <1>1, <1>2, BoundsAssumption DEF Status
<1>4. next # None
  BY <1>3, StatusTyped
<1>5. TypeOK'
  BY <1>1, <1>3 DEF StatusInv, TypeOK
<1>6. OneRefresh'
  BY <1>1, <1>2, <1>3, <1>4 DEF StatusInv, OneRefresh, Running, Active
<1>7. StoredNotAhead'
  <2> SUFFICES ASSUME NEW s \in writes \cup {next} \cup ({stored} \ {None})
               PROVE  /\ pc[s.id] # "unused"
                      /\ s.id <= i
                      /\ s.id = i => /\ s.stage <= next.stage
                                     /\ s.status # "running" => s = next
                      /\ s.status # "running" => pc[s.id] \in {"finishing", "over"}
    BY <1>1, <1>3 DEF StoredNotAhead
  <2>1. CASE s = next
    <3>1. refresh.stage \in Int /\ i \in Int
      BY <1>2, StatusTyped, BoundsAssumption DEF Refreshes
    <3> HIDE DEF next
    <3>2. i <= i /\ next.stage <= next.stage
      BY <1>3, <3>1
    <3> QED
      BY <1>1, <1>3, <2>1, <3>2
  <2>2. CASE s \in writes \cup ({stored} \ {None})
    <3>1. s \in Status
      BY <2>2 DEF StatusInv, TypeOK
    <3>2. /\ pc[s.id] # "unused"
          /\ s.id <= i
          /\ s.id = i => s.stage <= refresh.stage
          /\ s.status # "running" => pc[s.id] \in {"finishing", "over"}
      BY <1>2, <2>2 DEF StatusInv, StoredNotAhead
    <3>3. s.id = i => s.status = "running"
      BY <1>1, <3>2
    <3>4. s.stage \in Int /\ refresh.stage \in Int
      BY <1>2, <3>1, StatusTyped, BoundsAssumption
    <3> QED
      BY <1>3, <3>2, <3>3, <3>4
  <2> QED
    BY <2>1, <2>2
<1>8. InOrder'
  BY <1>1, <1>2, <1>3 DEF StatusInv, InOrder
<1>9. FinalsHeld'
  BY <1>1, <1>2, <1>3 DEF StatusInv, FinalsHeld
<1> QED
  BY <1>5, <1>6, <1>7, <1>8, <1>9 DEF StatusInv

\* RunCycle returned: the record there was of this refresh was a running one.
LEMMA FinishKeeps ==
  ASSUME StatusInv, NEW i \in Refreshes, FinishRefresh(i)
  PROVE  StatusInv'
<1>1. PICK outcome \in {"completed", "failed"} :
        refresh' = [refresh EXCEPT !.status = outcome]
  BY DEF FinishRefresh
<1> DEFINE last == [refresh EXCEPT !.status = outcome]
<1>2. /\ pc[i] = "running" /\ pc' = [pc EXCEPT ![i] = "finishing"]
      /\ refresh' = last /\ final' = [final EXCEPT ![i] = last]
      /\ writes' = writes /\ stored' = stored
  BY <1>1 DEF FinishRefresh, Goto
<1>3. /\ refresh \in Status /\ refresh # None
      /\ refresh.id = i /\ refresh.status = "running"
      /\ \A j \in Refreshes \ {i} : pc[j] \notin {"starting", "running"}
  BY <1>2, ActiveIsService
<1>4. /\ last \in Status /\ last.id = i /\ last.status # "running"
      /\ last.stage = refresh.stage
  BY <1>3 DEF Status
<1>5. last # None
  BY <1>4, StatusTyped
<1>6. pc'[i] = "finishing" /\ \A j \in Refreshes \ {i} : pc'[j] = pc[j]
  BY <1>2 DEF StatusInv, TypeOK
<1>7. TypeOK'
  BY <1>2, <1>4 DEF StatusInv, TypeOK, Stages
<1>8. OneRefresh'
  BY <1>2, <1>3, <1>4, <1>6 DEF OneRefresh, Running, Active
<1>9. StoredNotAhead'
  <2> SUFFICES ASSUME NEW s \in writes \cup ({stored} \ {None})
               PROVE  /\ pc'[s.id] # "unused"
                      /\ s.id <= i
                      /\ s.id = i => s.stage <= refresh.stage /\ s.status = "running"
                      /\ s.status # "running" => pc'[s.id] \in {"finishing", "over"}
    BY <1>2, <1>4 DEF StoredNotAhead
  <2>1. s \in Status
    BY DEF StatusInv, TypeOK
  <2>2. /\ pc[s.id] # "unused"
        /\ s.id <= i
        /\ s.id = i => s.stage <= refresh.stage
        /\ s.status # "running" => pc[s.id] \in {"finishing", "over"}
    BY <1>3 DEF StatusInv, StoredNotAhead
  <2>3. s.id \in Refreshes
    BY <2>1, StatusTyped
  <2> QED
    BY <1>2, <1>6, <2>2, <2>3
<1>10. InOrder'
  BY <1>2, <1>3, <1>4, <1>6 DEF StatusInv, InOrder
<1>11. FinalsHeld'
  <2> SUFFICES ASSUME NEW j \in Refreshes
               PROVE  /\ pc'[j] = "starting" => final'[j] = last
                      /\ pc'[j] = "finishing" =>
                           /\ final'[j] # None /\ final'[j].id = j
                           /\ final'[j].status # "running"
                           /\ j = i => final'[j] = last
    BY <1>2, <1>4 DEF FinalsHeld
  <2>1. CASE j = i
    BY <1>2, <1>4, <1>5, <1>6, <2>1 DEF StatusInv, TypeOK
  <2>2. CASE j # i
    <3>1. pc'[j] = pc[j] /\ final'[j] = final[j]
      BY <1>2, <1>6, <2>2 DEF StatusInv, TypeOK
    <3> QED
      BY <1>3, <2>2, <3>1 DEF StatusInv, FinalsHeld
  <2> QED
    BY <2>1, <2>2
<1> QED
  BY <1>7, <1>8, <1>9, <1>10, <1>11 DEF StatusInv

\* A late write of a stage only moves a record from writes to Redis.
LEMMA WriteStageKeeps ==
  ASSUME StatusInv, NEW status \in writes, WriteStage(status)
  PROVE  StatusInv'
<1>1. /\ stored' \in {stored, status} /\ writes' \subseteq writes
      /\ refresh' = refresh /\ pc' = pc /\ final' = final
  BY DEF WriteStage, Store
<1>2. status \in Status
  BY DEF StatusInv, TypeOK
<1>3. TypeOK'
  BY <1>1, <1>2 DEF StatusInv, TypeOK
<1>4. StoredNotAhead'
  BY <1>1 DEF StatusInv, StoredNotAhead
<1> QED
  BY <1>1, <1>3, <1>4 DEF StatusInv, OneRefresh, Running, Active, InOrder, FinalsHeld

\* The last record is the refresh's real end, whichever refresh runs by then.
LEMMA WriteFinalKeeps ==
  ASSUME StatusInv, NEW i \in Refreshes, WriteFinal(i)
  PROVE  StatusInv'
<1>1. /\ pc[i] = "finishing" /\ pc' = [pc EXCEPT ![i] = "over"]
      /\ stored' \in {stored, final[i]}
      /\ refresh' = refresh /\ writes' = writes /\ final' = final
  BY DEF WriteFinal, Goto, Store
<1>2. /\ final[i] # None /\ final[i].id = i /\ final[i].status # "running"
      /\ refresh # None /\ refresh.id = i => final[i] = refresh
  BY <1>1 DEF StatusInv, FinalsHeld
<1>3. final[i] \in Status
  BY <1>2 DEF StatusInv, TypeOK
<1>4. pc'[i] = "over" /\ \A j \in Refreshes \ {i} : pc'[j] = pc[j]
  BY <1>1 DEF StatusInv, TypeOK
<1>5. TypeOK'
  BY <1>1, <1>3 DEF StatusInv, TypeOK, Stages
<1>6. Active' = Active
  BY <1>1, <1>4 DEF Active
<1>7. OneRefresh'
  <2>1. \A j \in Active : j # i
    BY <1>1 DEF Active
  <2> QED
    BY <1>1, <1>6, <2>1 DEF StatusInv, OneRefresh, Running
<1>8. StoredNotAhead'
  <2> SUFFICES ASSUME NEW s \in writes \cup ({stored'} \ {None})
               PROVE  /\ pc'[s.id] # "unused"
                      /\ refresh # None => s.id <= refresh.id
                      /\ refresh # None /\ s.id = refresh.id =>
                           /\ s.stage <= refresh.stage
                           /\ s.status # "running" => s = refresh
                      /\ s.status # "running" => pc'[s.id] \in {"finishing", "over"}
    BY <1>1 DEF StoredNotAhead
  <2>1. CASE s = final[i]
    <3>1. refresh # None => i <= refresh.id
      BY <1>1 DEF StatusInv, InOrder
    <3>2. s.stage <= s.stage
      BY <1>3, <2>1, StatusTyped, BoundsAssumption
    <3> QED
      BY <1>2, <1>4, <2>1, <3>1, <3>2
  <2>2. CASE s \in writes \cup ({stored} \ {None})
    <3>1. s \in Status
      BY <2>2 DEF StatusInv, TypeOK
    <3>2. /\ pc[s.id] # "unused"
          /\ refresh # None => s.id <= refresh.id
          /\ refresh # None /\ s.id = refresh.id =>
               /\ s.stage <= refresh.stage
               /\ s.status # "running" => s = refresh
          /\ s.status # "running" => pc[s.id] \in {"finishing", "over"}
      BY <2>2 DEF StatusInv, StoredNotAhead
    <3>3. s.id \in Refreshes
      BY <3>1, StatusTyped
    <3> QED
      BY <1>4, <3>2, <3>3
  <2> QED
    BY <1>1, <2>1, <2>2
<1>9. InOrder'
  <2>1. refresh # None => refresh.id \in Refreshes
    BY StatusTyped DEF StatusInv, TypeOK
  <2> QED
    BY <1>1, <1>4, <2>1 DEF StatusInv, InOrder
<1>10. FinalsHeld'
  BY <1>1, <1>4 DEF StatusInv, FinalsHeld
<1> QED
  BY <1>5, <1>7, <1>8, <1>9, <1>10 DEF StatusInv

\* A fresh process has no record; what Redis keeps is of refreshes that are over.
LEMMA RestartKeeps ==
  ASSUME StatusInv, Restart
  PROVE  StatusInv'
<1>1. /\ refresh' = None /\ writes' = {} /\ stored' = stored /\ final' = final
      /\ pc' = [j \in Refreshes |-> IF pc[j] = "unused" THEN "unused" ELSE "over"]
  BY DEF Restart
<1>2. \A j \in Refreshes : pc'[j] = IF pc[j] = "unused" THEN "unused" ELSE "over"
  BY <1>1
<1>3. TypeOK'
  BY <1>1 DEF StatusInv, TypeOK, Stages
<1>4. StoredNotAhead'
  <2> SUFFICES ASSUME NEW s \in {stored} \ {None}
               PROVE  pc'[s.id] = "over"
    BY <1>1 DEF StoredNotAhead
  <2>1. s \in Status /\ pc[s.id] # "unused"
    BY DEF StatusInv, TypeOK, StoredNotAhead
  <2> QED
    BY <1>2, <2>1, StatusTyped
<1>5. OneRefresh' /\ InOrder' /\ FinalsHeld'
  BY <1>1, <1>2 DEF StatusInv, OneRefresh, Active, Running, InOrder, FinalsHeld
<1> QED
  BY <1>3, <1>4, <1>5 DEF StatusInv

\* The key expires, or nothing changes.
LEMMA RestKeeps ==
  ASSUME StatusInv, ExpireStatus \/ UNCHANGED vars
  PROVE  StatusInv'
<1>1. /\ refresh' = refresh /\ writes' = writes /\ pc' = pc /\ final' = final
      /\ stored' \in {stored, None}
  BY DEF ExpireStatus
<1>2. TypeOK' /\ StoredNotAhead'
  BY <1>1 DEF StatusInv, TypeOK, StoredNotAhead
<1> QED
  BY <1>1, <1>2 DEF StatusInv, OneRefresh, Running, Active, InOrder, FinalsHeld

-----------------------------------------------------------------------------

\* The invariant holds throughout, for every number of refreshes and stages.
THEOREM StatusInvariant == Spec => []StatusInv
<1>1. Init => StatusInv
  BY InitStatus
<1>2. StatusInv /\ [Next]_vars => StatusInv'
  <2> SUFFICES ASSUME StatusInv, [Next]_vars PROVE StatusInv'
    OBVIOUS
  <2>1. CASE \E i \in Refreshes : StartRefresh(i) \/ RefreshStep(i)
    BY <2>1, StartKeeps, LaunchKeeps, StageKeeps, FinishKeeps, WriteFinalKeeps
    DEF RefreshStep
  <2>2. CASE \E status \in writes : WriteStage(status)
    BY <2>2, WriteStageKeeps
  <2>3. CASE Restart
    BY <2>3, RestartKeeps
  <2>4. CASE ExpireStatus \/ UNCHANGED vars
    BY <2>4, RestKeeps
  <2> QED
    BY <2>1, <2>2, <2>3, <2>4 DEF Next
<1> QED
  BY <1>1, <1>2, PTL DEF Spec

\* One refresh runs at a time, and the service's record is its: no stage and no end
\* is booked on another one, for any number of refreshes.
THEOREM OneRefreshHolds == Spec => []OneRefresh
<1>1. StatusInv => OneRefresh
  BY DEF StatusInv
<1> QED
  BY <1>1, StatusInvariant, PTL

\* Redis never runs ahead of the service, however the writes of the stages race,
\* fail or are cut off by a restart.
THEOREM StoredNotAheadHolds == Spec => []StoredNotAhead
<1>1. StatusInv => StoredNotAhead
  BY DEF StatusInv
<1> QED
  BY <1>1, StatusInvariant, PTL
=============================================================================
