-------------------------- MODULE TranscriptBudget --------------------------
(***************************************************************************)
(* What the YouTube transcript request ledger promises, whatever store     *)
(* keeps it: a video is charged to one month at most once, no month is     *)
(* charged beyond the ceiling, and the provider is called at most once for *)
(* a video, and only after the video was charged.                          *)
(***************************************************************************)
EXTENDS Integers, FiniteSets

CONSTANTS Videos, Months, MonthlyLimit, None

VARIABLES
  charged,    \* [Videos -> month the claim was charged to, or None]
  requests    \* [Videos -> number of provider calls made for the video]

budgetVars == <<charged, requests>>

ChargedIn(m) == {v \in Videos : charged[v] = m}

Init ==
  /\ charged = [v \in Videos |-> None]
  /\ requests = [v \in Videos |-> 0]

Charge(v, m) ==
  /\ charged[v] = None
  /\ Cardinality(ChargedIn(m)) < MonthlyLimit
  /\ charged' = [charged EXCEPT ![v] = m]
  /\ UNCHANGED requests

Request(v) ==
  /\ charged[v] # None
  /\ requests[v] = 0
  /\ requests' = [requests EXCEPT ![v] = 1]
  /\ UNCHANGED charged

Next ==
  \E v \in Videos :
    \/ \E m \in Months : Charge(v, m)
    \/ Request(v)

Spec == Init /\ [][Next]_budgetVars
=============================================================================
