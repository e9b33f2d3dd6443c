--------------------------- MODULE ServiceProofs ---------------------------
(***************************************************************************)
(* OwnersSound and WorkersSound, for every value of the constants.         *)
(*                                                                         *)
(* Owners: OwnersTyped says that the clock counts the transactions, so no  *)
(* two began at the same time; SavesInv, that every row is a commit's own, *)
(* and that what a commit deleted it had seen.  The newest row of an owner *)
(* is then one, and was deleted by no later save.                          *)
(*                                                                         *)
(* Workers: WorkTyped says that a candidate is one worker's until it has   *)
(* its result; PaidInv counts, for each capture, what was asked for and    *)
(* what may still be (Open) against what was excused and what is kept.     *)
(*                                                                         *)
(* Each part's lemmas take one action each.                                *)
(***************************************************************************)
EXTENDS Service, FiniteSetTheorems, WellFoundedInduction, TLAPS

\* A step of the service is a step of one part, or none, to each of the two.
LEMMA PartSteps ==
  ASSUME [Next]_vars
  PROVE  [Scope!OwnerNext]_(Scope!ownerVars) /\ [Work!SynthesisNext]_(Work!synthesisVars)
BY DEF Next, InboxNext, SynthesisNext, OwnersNext, vars, workVars, scopeVars,
       Scope!ownerVars, Work!synthesisVars

-----------------------------------------------------------------------------

\* "Less than" on the natural numbers is a well-founded relation.
LEMMA LessThan == \E R : IsWellFoundedOn(R, Nat) /\ \A x, y \in Nat : <<x, y>> \in R <=> x < y
<1>1. \A x, y \in Nat : <<x, y>> \in OpToRel(<, Nat) <=> x < y
  BY DEF OpToRel
<1> WITNESS OpToRel(<, Nat)
<1> QED
  BY <1>1, NatLessThanWellFounded

\* Natural numbers, where there are any, have a least one among them.
LEMMA LeastExists ==
  ASSUME NEW T, T \subseteq Nat, T # {}
  PROVE  \E x \in T : \A y \in T : x <= y
<1>1. PICK R : IsWellFoundedOn(R, Nat) /\ \A x, y \in Nat : <<x, y>> \in R <=> x < y
  BY LessThan
<1>2. IsWellFoundedOn(R, Nat)
  BY <1>1
<1>3. \E x \in T : \A y \in T : ~ (<<y, x>> \in R)
  <2> HIDE <1>1
  <2> QED
    BY <1>2, WFMin, ZenonT(30)
<1>4. PICK x \in T : \A y \in T : ~ (<<y, x>> \in R)
  BY <1>3
<1>5. \A y \in T : ~(y < x)
  BY <1>1, <1>4
<1> QED
  BY <1>4, <1>5

\* Bounded ones have a newest one among them.
LEMMA NewestExists ==
  ASSUME NEW n \in Nat, NEW S \in SUBSET (1 .. n), S # {}
  PROVE  \E e \in S : \A d \in S : d <= e
<1> DEFINE T == {k \in Nat : \A d \in S : d <= k}
<1>1. T \subseteq Nat /\ n \in T
  OBVIOUS
<1>2. PICK k \in T : \A j \in T : k <= j
  BY <1>1, LeastExists
<1>3. k \in S
  <2> SUFFICES ASSUME k \notin S PROVE FALSE
    OBVIOUS
  <2>1. k \in Nat /\ \A d \in S : d \in 1 .. n /\ d <= k /\ d # k
    BY <1>2
  <2>2. k >= 1 /\ \A d \in S : d <= k - 1
    <3>0. \E d : d \in S
      OBVIOUS
    <3>1. PICK d \in S : d \in 1 .. n /\ d <= k
      BY <2>1, <3>0
    <3>2. ASSUME NEW c \in S PROVE c <= k - 1
      <4>1. c \in Int /\ c <= k /\ c # k
        BY <2>1
      <4> QED
        BY <2>1, <4>1
    <3> QED
      BY <2>1, <3>1, <3>2
  <2>3. k - 1 \in T
    BY <2>1, <2>2
  <2> QED
    BY <1>2, <2>1, <2>3
<1> QED
  BY <1>2, <1>3

-----------------------------------------------------------------------------

\* Requests that change a workspace.

USE DEF Scope!At, Scope!world, Scope!table, Scope!Requests, Scope!Mine

Requests == Scope!Requests
Owners == Scope!Owners

OwnerSetting ==
  /\ LastRequest \in Nat
  /\ PublicOwner \notin Users /\ None \notin Users \cup Playlists \cup {PublicOwner}
  /\ None \notin Scope!Row

\* What the owners' proof needs of the constants.
LEMMA OwnerSettingHolds == OwnerSetting
BY LimitsAssumption, SourcesAssumption, NoneAssumption DEF OwnerSetting

Early == {"unused", "resolving", "checking"}
Saving == {"deleting", "waiting", "inserting", "committing", "saved"}

Request ==
  [step : Scope!Steps, user : Users \cup {None}, owner : Owners \cup {None},
   playlist : Playlists \cup {None}, began : 0 .. LastRequest, others : SUBSET Playlists]

\* A request that has come has a user and a playlist, one that saves has an owner.
Known(q) ==
  /\ q.step # "unused" => q.user \in Users /\ q.playlist \in Playlists
  /\ q.step \in Saving \cup {"checking"} => q.owner \in Owners

Begun == {r \in Requests : request[r].began # 0}

\* The clock counts the transactions, so no two began at the same time.
Clocked ==
  /\ clock <= Cardinality(Begun)
  /\ \A r \in Requests :
       /\ request[r].began <= clock
       /\ request[r].step \in Early => request[r].began = 0
       /\ request[r].step \in Saving => request[r].began # 0
       /\ \A q \in Requests : request[q].began = request[r].began => q = r \/ r \notin Begun

OwnersTyped ==
  /\ Scope!OwnerTypeOK
  /\ \A r \in Requests : Known(request[r])
  /\ Clocked
  /\ Scope!WorkspacesApart

\* The step of r leaves the other requests alone, and of r what it says.
Moves(r, step) ==
  /\ request' \in [Requests -> Request]
  /\ request'[r].step = step
  /\ \A q \in Requests \ {r} : request'[q] = request[q]

KeepsOwner(r) ==
  /\ request'[r].user = request[r].user /\ request'[r].playlist = request[r].playlist
  /\ request'[r].owner = request[r].owner

KeepsSave(r) ==
  request'[r].began = request[r].began /\ request'[r].others = request[r].others

\* No request has come.
LEMMA OwnersInitTyped == ASSUME OwnerSetting, Scope!Init PROVE OwnersTyped
<1>1. Cardinality({}) = 0
  BY FS_EmptySet
<1>2. Begun = {}
  BY DEF Begun, Scope!Init, Requests
<1>3. Scope!OwnerTypeOK
  BY DEF OwnerSetting, Scope!Init, Scope!OwnerTypeOK, Scope!Steps, Scope!Owners
<1>4. Clocked
  BY <1>1, <1>2 DEF OwnerSetting, Clocked, Scope!Init, Saving, Requests
<1>5. \A r \in Requests : Known(request[r])
  BY DEF Scope!Init, Known, Saving, Requests
<1>6. Scope!WorkspacesApart
  BY DEF OwnerSetting, Scope!Init, Scope!WorkspacesApart, Scope!Owners
<1> QED
  BY <1>3, <1>4, <1>5, <1>6 DEF OwnersTyped

\* The requests are typed.
LEMMA TypedRequests ==
  ASSUME OwnersTyped
  PROVE  request \in [Requests -> Request]
BY DEF OwnersTyped, Scope!OwnerTypeOK, Requests, Request, Owners

\* A step that only goes on moves its request, and changes nothing else of it.
LEMMA GoesOn ==
  ASSUME OwnersTyped, NEW r \in Requests, NEW s \in Scope!Steps, Scope!Goto(r, s)
  PROVE  Moves(r, s) /\ KeepsOwner(r) /\ KeepsSave(r)
BY TypedRequests DEF Scope!Goto, Moves, KeepsOwner, KeepsSave, Request

\* What is known of one request stays known of all.
LEMMA StaysKnown ==
  ASSUME OwnersTyped, NEW r \in Requests, NEW s, Moves(r, s), Known(request'[r])
  PROVE  \A q \in Requests : Known(request'[q])
BY DEF OwnersTyped, Moves

\* A step that keeps the times of the requests keeps the clock.
LEMMA StaysClocked ==
  ASSUME OwnersTyped, NEW r \in Requests, NEW s, Moves(r, s),
         request'[r].began = request[r].began, clock' = clock,
         s \in Early => request[r].step \in Early,
         s \in Saving => request[r].step \in Saving
  PROVE  Clocked'
<1>1. \A q \in Requests : request'[q].began = request[q].began
  BY DEF Moves
<1>2. Begun' = Begun
  BY <1>1 DEF Begun
<1> QED
  BY <1>1, <1>2 DEF OwnersTyped, Clocked, Moves

\* Where the tables and profiles are left alone, only the request has to be looked at.
LEMMA RequestTyped ==
  ASSUME OwnersTyped, NEW r \in Requests, NEW s, Moves(r, s), Known(request'[r]), Clocked',
         UNCHANGED <<profile, rows>>, clock' \in 0 .. LastRequest,
         prior' \in [Requests -> SUBSET Requests],
         request'[r].owner \in {request'[r].user, PublicOwner, None}
  PROVE  OwnersTyped'
<1>1. Scope!OwnerTypeOK'
  BY DEF OwnersTyped, Scope!OwnerTypeOK, Moves, Requests, Request, Owners
<1>2. Scope!WorkspacesApart'
  BY DEF OwnersTyped, Scope!WorkspacesApart, Moves, Requests
<1>3. \A q \in Requests : Known(request[q])'
  BY StaysKnown
<1> QED
  BY <1>1, <1>2, <1>3 DEF OwnersTyped

-----------------------------------------------------------------------------

\* A request comes, with a user and a playlist.
LEMMA ArriveTyped ==
  ASSUME OwnerSetting, OwnersTyped, NEW r \in Requests, NEW u \in Users, NEW p \in Playlists,
         Scope!Arrive(r, u, p)
  PROVE  OwnersTyped'
<1>1. /\ Moves(r, "resolving") /\ KeepsSave(r)
      /\ request'[r].user = u /\ request'[r].playlist = p
      /\ request'[r].owner \in {PublicOwner, None}
  BY TypedRequests DEF Scope!Arrive, Moves, KeepsSave, Request, Scope!Steps, Owners, Scope!Owners
<1>2. request[r].step = "unused" /\ UNCHANGED <<profile, rows, clock, prior>>
  BY DEF Scope!Arrive
<1>3. Clocked'
  BY <1>1, <1>2, StaysClocked DEF Early, Saving, KeepsSave
<1>4. Known(request'[r])
  BY <1>1 DEF Known, Moves, Saving
<1> QED
  BY <1>1, <1>2, <1>3, <1>4, RequestTyped DEF OwnersTyped, Scope!OwnerTypeOK, Requests

\* A profile is bound to a user who has no other.
LEMMA BindTyped ==
  ASSUME OwnerSetting, OwnersTyped, NEW r \in Requests, NEW o \in Owners,
         request[r].step = "resolving", request[r].owner = o,
         o \in {PublicOwner, request[r].user},
         \/ /\ Scope!Bound(request[r].user) \subseteq {o}
            /\ profile' = [profile EXCEPT ![o] = request[r].user]
            /\ Scope!Resolved(r, o)
         \/ Scope!Goto(r, "failed") /\ UNCHANGED profile,
         UNCHANGED <<rows, clock, prior>>
  PROVE  OwnersTyped'
<1>1. request[r].user \in Users
  BY DEF OwnersTyped, Known
<1>2. \E s \in {"checking", "failed"} : Moves(r, s) /\ KeepsOwner(r) /\ KeepsSave(r)
  <2>1. ASSUME Scope!Resolved(r, o) PROVE Moves(r, "checking") /\ KeepsOwner(r) /\ KeepsSave(r)
    BY <2>1, TypedRequests DEF Scope!Resolved, Moves, KeepsOwner, KeepsSave, Request, Scope!Steps
  <2>2. "failed" \in Scope!Steps
    BY DEF Scope!Steps
  <2> QED
    BY <2>1, <2>2, GoesOn
<1>3. PICK s \in {"checking", "failed"} : Moves(r, s) /\ KeepsOwner(r) /\ KeepsSave(r)
  BY <1>2
<1>4. Clocked'
  BY <1>3, StaysClocked DEF Early, Saving, KeepsSave
<1>5. \A q \in Requests : Known(request'[q])
  <2>1. Known(request'[r])
    BY <1>1, <1>3 DEF Known, Moves, KeepsOwner, OwnersTyped, Saving
  <2> QED
    BY <1>3, <2>1, StaysKnown
<1>6. /\ profile' \in [Owners -> Users \cup {None}]
      /\ \A u \in Users : profile'[u] \in {u, None}
      /\ \A p, q \in Owners : profile'[p] = profile'[q] /\ profile'[p] # None => p = q
  <2>0. /\ profile \in [Owners -> Users \cup {None}] /\ Users \subseteq Owners
        /\ \A u \in Users : profile[u] \in {u, None}
        /\ \A p, q \in Owners : profile[p] = profile[q] /\ profile[p] # None => p = q
    BY DEF OwnersTyped, Scope!OwnerTypeOK, Scope!WorkspacesApart, Owners, Scope!Owners
  <2>1. CASE UNCHANGED profile
    BY <2>0, <2>1
  <2>2. CASE /\ Scope!Bound(request[r].user) \subseteq {o}
             /\ profile' = [profile EXCEPT ![o] = request[r].user]
    <3>1. \A p \in Owners : profile[p] = request[r].user => p = o
      BY <2>2 DEF Scope!Bound, Owners
    <3>2. /\ profile'[o] = request[r].user
          /\ \A p \in Owners \ {o} : profile'[p] = profile[p] /\ profile[p] # request[r].user
      BY <2>0, <2>2, <3>1
    <3>3. profile' \in [Owners -> Users \cup {None}]
      BY <1>1, <2>0, <2>2
    <3>4. \A u \in Users : profile'[u] \in {u, None}
      BY <1>1, <2>0, <3>2 DEF OwnerSetting
    <3>5. \A p, q \in Owners : profile'[p] = profile'[q] /\ profile'[p] # None => p = q
      BY <2>0, <3>2
    <3> QED
      BY <3>3, <3>4, <3>5
  <2> QED
    BY <2>1, <2>2
<1>7. Scope!OwnerTypeOK'
  BY <1>3, <1>6 DEF OwnersTyped, Scope!OwnerTypeOK, Moves, Requests, Request, Owners
<1>8. Scope!WorkspacesApart'
  BY <1>3, <1>6 DEF OwnersTyped, Scope!WorkspacesApart, Moves, KeepsOwner, Requests, Owners
<1> QED
  BY <1>4, <1>5, <1>7, <1>8 DEF OwnersTyped

\* A request is resolved to the owner it finds, makes, or takes.
LEMMA ResolveTyped ==
  ASSUME OwnerSetting, OwnersTyped, NEW r \in Requests,
         \/ Scope!TakePublicOwner(r) \/ Scope!FindOwner(r) \/ Scope!FindNoOwner(r)
         \/ Scope!InsertOwner(r)
  PROVE  OwnersTyped'
<1>0. request[r].step = "resolving" /\ request[r].user \in Users
  BY DEF Scope!TakePublicOwner, Scope!FindOwner, Scope!FindNoOwner, Scope!InsertOwner,
         OwnersTyped, Known
<1>1. CASE Scope!TakePublicOwner(r)
  BY <1>0, <1>1, BindTyped DEF Scope!TakePublicOwner, Owners, Scope!Owners
<1>2. CASE Scope!InsertOwner(r)
  BY <1>0, <1>2, BindTyped DEF Scope!InsertOwner, Owners, Scope!Owners
<1>3. CASE Scope!FindOwner(r)
  <2>1. PICK o \in Scope!Bound(request[r].user) : Scope!Resolved(r, o)
    BY <1>3 DEF Scope!FindOwner
  <2>2. o \in Owners /\ profile[o] = request[r].user
    BY DEF Scope!Bound, Owners
  <2>3. o \in {request[r].user, PublicOwner}
    BY <1>0, <2>2 DEF OwnersTyped, Scope!WorkspacesApart, Owners, Scope!Owners, OwnerSetting
  <2>4. /\ Moves(r, "checking") /\ KeepsSave(r)
        /\ request'[r].user = request[r].user /\ request'[r].playlist = request[r].playlist
        /\ request'[r].owner = o
    BY <2>1, <2>2, TypedRequests DEF Scope!Resolved, Moves, KeepsSave, Request, Scope!Steps
  <2>5. Clocked'
    BY <1>0, <1>3, <2>4, StaysClocked DEF Scope!FindOwner, Early, Saving, KeepsSave
  <2>6. Known(request'[r])
    BY <1>0, <2>2, <2>4 DEF Known, Moves, OwnersTyped
  <2> QED
    BY <1>3, <2>3, <2>4, <2>5, <2>6, RequestTyped
       DEF Scope!FindOwner, OwnersTyped, Scope!OwnerTypeOK, Requests
<1>4. CASE Scope!FindNoOwner(r)
  <2>1. /\ Moves(r, "resolving") /\ KeepsSave(r)
        /\ request'[r].user = request[r].user /\ request'[r].playlist = request[r].playlist
        /\ request'[r].owner = request[r].user
    BY <1>0, <1>4, TypedRequests
       DEF Scope!FindNoOwner, Moves, KeepsSave, Request, Owners, Scope!Owners
  <2>2. Clocked'
    BY <1>0, <1>4, <2>1, StaysClocked DEF Scope!FindNoOwner, Early, Saving, KeepsSave
  <2>3. Known(request'[r])
    BY <1>0, <2>1 DEF Known, Moves, OwnersTyped, Saving
  <2> QED
    BY <1>4, <2>1, <2>2, <2>3, RequestTyped
       DEF Scope!FindNoOwner, OwnersTyped, Scope!OwnerTypeOK, Requests
<1> QED
  BY <1>1, <1>2, <1>3, <1>4

\* A transaction begins at a time at which no other began.
LEMMA BeginSaveTyped ==
  ASSUME OwnerSetting, OwnersTyped, NEW r \in Requests, Scope!BeginSave(r)
  PROVE  OwnersTyped'
<1>1. request[r].step = "checking" /\ clock' = clock + 1 /\ request[r].began = 0
  BY DEF Scope!BeginSave, OwnersTyped, Clocked, Early
<1>2. /\ clock \in 0 .. LastRequest /\ clock <= Cardinality(Begun)
      /\ \A q \in Requests : request[q].began <= clock /\ request[q].began \in Nat
  <2>1. clock \in 0 .. LastRequest /\ clock <= Cardinality(Begun)
          /\ \A q \in Requests : request[q].began <= clock
    BY DEF OwnersTyped, Scope!OwnerTypeOK, Clocked
  <2>2. \A q \in Requests : request[q].began \in Nat
    BY TypedRequests DEF Request
  <2> QED
    BY <2>1, <2>2
<1>3. r \notin Begun /\ Begun \cup {r} \subseteq Requests
  BY <1>1 DEF Begun
<1>4. IsFiniteSet(Requests) /\ Cardinality(Requests) = LastRequest
  <2>1. IsFiniteSet(1 .. LastRequest) /\ Cardinality(1 .. LastRequest) = LastRequest
    BY FS_Interval DEF OwnerSetting
  <2> QED
    BY <2>1 DEF Requests
<1>5. IsFiniteSet(Begun) /\ Cardinality(Begun) \in Nat
  BY <1>3, <1>4, FS_Subset, FS_CardinalityType
<1>6. Cardinality(Begun \cup {r}) = Cardinality(Begun) + 1
  BY <1>3, <1>5, FS_AddElement
<1>7. Cardinality(Begun \cup {r}) <= LastRequest
  BY <1>3, <1>4, FS_Subset
<1>8. clock + 1 \in 1 .. LastRequest
  BY <1>2, <1>5, <1>6, <1>7 DEF OwnerSetting
<1>9. /\ Moves(r, "deleting") /\ KeepsOwner(r)
      /\ request'[r].began = clock + 1 /\ request'[r].others = request[r].others
  BY <1>1, <1>8, TypedRequests
     DEF Scope!BeginSave, Moves, KeepsOwner, Request, Scope!Steps, OwnerSetting
<1>10. Clocked'
  <2>1. Begun' = Begun \cup {r}
    BY <1>2, <1>9 DEF Begun, Moves
  <2>2. \A q \in Requests : request'[q].began \in Nat /\ request'[q].began <= clock + 1
    BY <1>2, <1>9 DEF Moves
  <2>3. \A q \in Requests \ {r} : request'[q].began # request'[r].began
    BY <1>2, <1>9 DEF Moves
  <2>4. \A q \in Requests : /\ request'[q].step \in Early => request'[q].began = 0
                            /\ request'[q].step \in Saving => request'[q].began # 0
    BY <1>2, <1>9 DEF Moves, Early, OwnersTyped, Clocked
  <2>5. \A p, q \in Requests :
          request'[q].began = request'[p].began => q = p \/ p \notin Begun'
    BY <1>9, <2>3, <2>1 DEF Moves, OwnersTyped, Clocked
  <2>6. clock' <= Cardinality(Begun')
    BY <1>1, <1>2, <1>5, <1>6, <2>1
  <2> QED
    BY <1>1, <2>2, <2>4, <2>5, <2>6 DEF Clocked
<1>11. Known(request'[r])
  BY <1>1, <1>9 DEF Known, Moves, KeepsOwner, OwnersTyped
<1>12. prior' \in [Requests -> SUBSET Requests]
  BY DEF Scope!BeginSave, Scope!Committed, OwnersTyped, Scope!OwnerTypeOK, Requests
<1>13. request'[r].owner \in {request'[r].user, PublicOwner, None}
  BY <1>9 DEF KeepsOwner, OwnersTyped, Scope!WorkspacesApart, Requests
<1>14. UNCHANGED <<profile, rows>> /\ clock' \in 0 .. LastRequest
  BY <1>1, <1>8 DEF Scope!BeginSave
<1> QED
  BY <1>9, <1>10, <1>11, <1>12, <1>13, <1>14, RequestTyped

\* The delete sees the other rows, waits for them, and the insert for its own.
LEMMA DeleteMoves ==
  ASSUME OwnersTyped, NEW r \in Requests,
         Scope!BeginDelete(r) \/ Scope!EndDelete(r) \/ Scope!InsertPlaylist(r)
  PROVE  /\ KeepsOwner(r) /\ request'[r].began = request[r].began
         /\ \E s \in Saving \ {"saved"} : Moves(r, s)
         /\ request[r].step \in Saving \ {"saved"}
         /\ UNCHANGED <<profile, rows, clock, prior>>
<1>1. CASE Scope!BeginDelete(r)
  <2>1. Scope!Others(r) \subseteq Playlists
    BY DEF Scope!Others
  <2>2. Moves(r, "waiting") /\ KeepsOwner(r) /\ request'[r].began = request[r].began
    BY <1>1, <2>1, TypedRequests
       DEF Scope!BeginDelete, Moves, KeepsOwner, Request, Scope!Steps
  <2> QED
    BY <1>1, <2>2 DEF Scope!BeginDelete, Saving
<1>2. CASE Scope!EndDelete(r)
  <2>1. Moves(r, "inserting") /\ KeepsOwner(r) /\ request'[r].began = request[r].began
    BY <1>2, TypedRequests DEF Scope!EndDelete, Moves, KeepsOwner, Request, Scope!Steps
  <2> QED
    BY <1>2, <2>1 DEF Scope!EndDelete, Saving
<1>3. CASE Scope!InsertPlaylist(r)
  <2>1. "committing" \in Scope!Steps
    BY DEF Scope!Steps
  <2> QED
    BY <1>3, <2>1, GoesOn DEF Scope!InsertPlaylist, Saving, KeepsSave
<1> QED
  BY <1>1, <1>2, <1>3

\* What a delete sees are playlists.
LEMMA DeleteTyped ==
  ASSUME OwnersTyped, NEW r \in Requests,
         Scope!BeginDelete(r) \/ Scope!EndDelete(r) \/ Scope!InsertPlaylist(r)
  PROVE  OwnersTyped'
<1>1. PICK s \in Saving \ {"saved"} : Moves(r, s)
  BY DeleteMoves
<1>2. Clocked'
  BY <1>1, DeleteMoves, StaysClocked DEF Early, Saving
<1>3. Known(request'[r])
  <2>1. request[r].step \in Saving /\ request[r].step # "unused"
    BY DeleteMoves DEF Saving
  <2> QED
    BY <2>1, DeleteMoves DEF Known, KeepsOwner, OwnersTyped
<1>4. request'[r].owner \in {request'[r].user, PublicOwner, None}
  BY DeleteMoves DEF KeepsOwner, OwnersTyped, Scope!WorkspacesApart, Requests
<1> QED
  BY <1>1, <1>2, <1>3, <1>4, DeleteMoves, RequestTyped
     DEF OwnersTyped, Scope!OwnerTypeOK, Requests

\* A transaction commits or is rolled back.
LEMMA EndTyped ==
  ASSUME OwnerSetting, OwnersTyped, NEW r \in Requests, Scope!Commit(r) \/ Scope!Abort(r)
  PROVE  OwnersTyped'
<1>1. /\ \E s \in {"saved", "failed"} : Moves(r, s) /\ (s = "saved" => Scope!Commit(r))
      /\ KeepsOwner(r) /\ KeepsSave(r)
  <2>1. {"saved", "failed"} \subseteq Scope!Steps
    BY DEF Scope!Steps
  <2> QED
    BY <2>1, GoesOn DEF Scope!Commit, Scope!Abort
<1>2. PICK s \in {"saved", "failed"} : Moves(r, s) /\ (s = "saved" => Scope!Commit(r))
  BY <1>1
<1>3. UNCHANGED <<profile, clock, prior>> /\ request[r].step # "unused"
  BY DEF Scope!Commit, Scope!Abort
<1>4. Clocked'
  BY <1>1, <1>2, <1>3, StaysClocked DEF Early, Saving, KeepsSave, Scope!Commit
<1>5. Known(request'[r])
  BY <1>1, <1>2, <1>3 DEF Known, Moves, KeepsOwner, OwnersTyped, Saving, Scope!Commit
<1>6. rows' \in [Owners -> [Playlists -> Scope!Row \cup {None}]]
  <2>0. rows \in [Owners -> [Playlists -> Scope!Row \cup {None}]]
    BY DEF OwnersTyped, Scope!OwnerTypeOK, Owners
  <2>1. CASE Scope!Commit(r)
    <3>1. request[r].step = "committing" /\ request[r].began \in 0 .. LastRequest
            /\ request[r].began # 0
      BY <2>1, TypedRequests DEF Scope!Commit, OwnersTyped, Clocked, Saving, Request
    <3>2. [at |-> request[r].began, by |-> r] \in Scope!Row
      BY <3>1 DEF Scope!Row, OwnerSetting, Requests
    <3> QED
      BY <2>0, <2>1, <3>2 DEF Scope!Commit
  <2> QED
    BY <2>0, <2>1 DEF Scope!Abort
<1>7. Scope!OwnerTypeOK'
  BY <1>2, <1>3, <1>6 DEF OwnersTyped, Scope!OwnerTypeOK, Moves, Requests, Request, Owners
<1>8. Scope!WorkspacesApart'
  BY <1>1, <1>2, <1>3 DEF OwnersTyped, Scope!WorkspacesApart, Moves, KeepsOwner, Requests
<1>9. \A q \in Requests : Known(request'[q])
  BY <1>2, <1>5, StaysKnown
<1> QED
  BY <1>4, <1>7, <1>8, <1>9 DEF OwnersTyped

\* The types, the clock and the profiles keep, whatever requests do.
LEMMA OwnersNextTyped ==
  ASSUME OwnerSetting, OwnersTyped, [Scope!OwnerNext]_(Scope!ownerVars)
  PROVE  OwnersTyped'
<1>1. CASE Scope!MoveEmail
  <2>1. UNCHANGED <<profile, request, rows, clock, prior>>
    BY <1>1 DEF Scope!MoveEmail
  <2> QED
    BY <2>1 DEF OwnersTyped, Scope!OwnerTypeOK, Scope!WorkspacesApart, Clocked, Begun
<1>2. ASSUME NEW r \in Requests, NEW u \in Users, NEW p \in Playlists, Scope!Arrive(r, u, p)
      PROVE  OwnersTyped'
  BY <1>2, ArriveTyped
<1>3. CASE UNCHANGED Scope!ownerVars
  BY <1>3 DEF Scope!ownerVars, OwnersTyped, Scope!OwnerTypeOK, Scope!WorkspacesApart, Clocked,
     Begun
<1> QED
  BY <1>1, <1>2, <1>3, ResolveTyped, BeginSaveTyped, DeleteTyped, EndTyped
     DEF Scope!OwnerNext, Requests

-----------------------------------------------------------------------------

\* A row is that of a save, which began when the row says.
Rowed(o, p) ==
  rows[o][p] # None =>
    LET q == request[rows[o][p].by]
    IN  q.step = "saved" /\ q.owner = o /\ q.playlist = p /\ q.began = rows[o][p].at

\* What was saved before r began is deleted by r, once r has seen it, or replaced.
Deletes(r) ==
  LET q == request[r]
  IN  q.owner \in Owners => \A p \in Playlists :
        rows[q.owner][p] # None /\ rows[q.owner][p].by \in prior[r] =>
          /\ q.step \in {"waiting", "inserting", "committing"} => p \in q.others \cup {q.playlist}
          /\ q.step # "saved"

SavesInv ==
  /\ \A r \in Requests : prior[r] \subseteq Scope!Committed /\ Deletes(r)
  /\ \A o \in Owners : \A p \in Playlists : Rowed(o, p)
  /\ \A o \in Owners : Scope!SavesOf(o) # {} => \E p \in Playlists : rows[o][p] # None

\* Nothing is saved.
LEMMA SavesInit == ASSUME Scope!Init PROVE SavesInv
BY DEF Scope!Init, SavesInv, Deletes, Rowed, Scope!SavesOf, Scope!Committed, Requests, Owners

\* A step that commits nothing has to account for its own request alone.
LEMMA SavesKept ==
  ASSUME OwnersTyped, SavesInv, NEW r \in Requests, NEW s, Moves(r, s), UNCHANGED rows,
         s # "saved", request[r].step # "saved", Deletes(r)',
         prior'[r] \subseteq Scope!Committed,
         \A q \in Requests \ {r} : prior'[q] = prior[q]
  PROVE  SavesInv'
<1>1. Scope!Committed' = Scope!Committed
  BY DEF Scope!Committed, Moves, Requests
<1>2. \A o \in Owners : Scope!SavesOf(o)' = Scope!SavesOf(o)
  BY <1>1 DEF Scope!SavesOf, Scope!Committed, Moves, Requests
<1>3. \A q \in Requests : Deletes(q)'
  BY DEF SavesInv, Deletes, Moves
<1>4. ASSUME NEW o \in Owners, NEW p \in Playlists PROVE Rowed(o, p)'
  <2>1. CASE rows[o][p] = None
    BY <2>1 DEF Rowed
  <2>2. CASE rows[o][p] # None
    <3>1. Rowed(o, p) /\ rows[o][p].by \in Requests
      BY <2>2 DEF SavesInv, OwnersTyped, Scope!OwnerTypeOK, Scope!Row, Requests, Owners
    <3>2. request[rows[o][p].by].step = "saved"
      BY <2>2, <3>1 DEF Rowed
    <3>3. rows[o][p].by \in Requests \ {r}
      BY <3>1, <3>2
    <3>4. request'[rows[o][p].by] = request[rows[o][p].by]
      BY <3>3 DEF Moves
    <3> QED
      BY <3>1, <3>4 DEF Rowed
  <2> QED
    BY <2>1, <2>2
<1> QED
  BY <1>1, <1>2, <1>3, <1>4 DEF SavesInv

\* Before a transaction begins, and after it is rolled back, there is nothing to delete.
LEMMA ResolveSaves ==
  ASSUME OwnerSetting, OwnersTyped, SavesInv, NEW r \in Requests,
         \/ \E u \in Users, p \in Playlists : Scope!Arrive(r, u, p)
         \/ Scope!TakePublicOwner(r) \/ Scope!FindOwner(r) \/ Scope!FindNoOwner(r)
         \/ Scope!InsertOwner(r) \/ Scope!BeginSave(r) \/ Scope!Abort(r)
  PROVE  SavesInv'
<1> DEFINE Kept == UNCHANGED rows /\ \A q \in Requests \ {r} : prior'[q] = prior[q]
<1>1. \E s \in {"resolving", "checking", "failed", "deleting"} : Moves(r, s)
  <2>1. OwnersTyped'
    BY ArriveTyped, ResolveTyped, BeginSaveTyped, EndTyped
  <2>2. request' \in [Requests -> Request]
    BY <2>1 DEF OwnersTyped, Scope!OwnerTypeOK, Requests, Request, Owners
  <2>3. \A q \in Requests \ {r} : request'[q] = request[q]
    BY TypedRequests
       DEF Scope!Arrive, Scope!TakePublicOwner, Scope!FindOwner, Scope!FindNoOwner,
           Scope!InsertOwner, Scope!BeginSave, Scope!Abort, Scope!Goto, Scope!Resolved
  <2>4. request'[r].step \in {"resolving", "checking", "failed", "deleting"}
    <3>1. ASSUME NEW u \in Users, NEW p \in Playlists, Scope!Arrive(r, u, p)
          PROVE  request'[r].step = "resolving"
      BY <3>1, TypedRequests DEF Scope!Arrive, Request
    <3>2. CASE Scope!FindNoOwner(r)
      BY <3>2, TypedRequests DEF Scope!FindNoOwner, Request
    <3>3. CASE Scope!TakePublicOwner(r) \/ Scope!FindOwner(r) \/ Scope!InsertOwner(r)
      BY <3>3, TypedRequests DEF Scope!TakePublicOwner, Scope!FindOwner, Scope!InsertOwner,
                                 Scope!Goto, Scope!Resolved, Request
    <3>4. CASE Scope!BeginSave(r)
      BY <3>4, TypedRequests DEF Scope!BeginSave, Request
    <3>5. CASE Scope!Abort(r)
      BY <3>5, TypedRequests DEF Scope!Abort, Scope!Goto, Request
    <3> QED
      BY <3>1, <3>2, <3>3, <3>4, <3>5
  <2> QED
    BY <2>2, <2>3, <2>4 DEF Moves
<1>2. request[r].step # "saved"
  BY DEF Scope!Arrive, Scope!TakePublicOwner, Scope!FindOwner, Scope!FindNoOwner,
         Scope!InsertOwner, Scope!BeginSave, Scope!Abort
<1>3. UNCHANGED rows /\ (prior' = prior \/ prior' = [prior EXCEPT ![r] = Scope!Committed])
  BY DEF Scope!Arrive, Scope!TakePublicOwner, Scope!FindOwner, Scope!FindNoOwner,
         Scope!InsertOwner, Scope!BeginSave, Scope!Abort
<1>4. /\ prior'[r] \subseteq Scope!Committed
      /\ \A q \in Requests \ {r} : prior'[q] = prior[q]
  BY <1>3 DEF SavesInv, OwnersTyped, Scope!OwnerTypeOK, Requests
<1>5. PICK s \in {"resolving", "checking", "failed", "deleting"} : Moves(r, s)
  BY <1>1
<1>6. Deletes(r)'
  BY <1>5 DEF Deletes, Moves
<1>7. s # "saved"
  OBVIOUS
<1> QED
  BY <1>2, <1>3, <1>4, <1>5, <1>6, <1>7, SavesKept

\* The delete sees every row that was there when the transaction began, and passes over
\* only what is deleted meanwhile.
LEMMA DeleteSaves ==
  ASSUME OwnersTyped, SavesInv, NEW r \in Requests,
         Scope!BeginDelete(r) \/ Scope!EndDelete(r) \/ Scope!InsertPlaylist(r)
  PROVE  SavesInv'
<1>1. PICK s \in Saving \ {"saved"} : Moves(r, s)
  BY DeleteMoves
<1>2. /\ UNCHANGED <<rows, prior>> /\ KeepsOwner(r) /\ request[r].step # "saved"
      /\ s # "saved" /\ request'[r].step = s
  BY <1>1, DeleteMoves DEF Moves
<1>3. Deletes(r)
  BY DEF SavesInv
<1>4. ASSUME NEW p \in Playlists, rows[request[r].owner][p] # None,
             rows[request[r].owner][p].by \in prior[r],
             request[r].owner \in Owners, s \in {"waiting", "inserting", "committing"}
      PROVE  p \in request'[r].others \cup {request[r].playlist}
  <2>1. CASE Scope!BeginDelete(r)
    <3>1. request'[r].others = Scope!Others(r)
      BY <2>1, TypedRequests DEF Scope!BeginDelete, Request
    <3> QED
      BY <1>4, <3>1 DEF Scope!Others
  <2>2. CASE Scope!EndDelete(r)
    <3>1. request'[r].others = {o \in request[r].others : rows[request[r].owner][o] # None}
      BY <2>2, TypedRequests DEF Scope!EndDelete, Request
    <3>2. p \in request[r].others \cup {request[r].playlist}
      BY <1>3, <1>4, <2>2 DEF Deletes, Scope!EndDelete
    <3> QED
      BY <1>4, <3>1, <3>2
  <2>3. CASE Scope!InsertPlaylist(r)
    <3>1. request'[r].others = request[r].others
      BY <2>3, TypedRequests DEF Scope!InsertPlaylist, Scope!Goto, Request
    <3> QED
      BY <1>3, <1>4, <2>3, <3>1 DEF Deletes, Scope!InsertPlaylist
  <2> QED
    BY <2>1, <2>2, <2>3
<1>5. Deletes(r)'
  BY <1>2, <1>4 DEF Deletes, KeepsOwner
<1>6. prior'[r] \subseteq Scope!Committed
  BY <1>2 DEF SavesInv
<1> QED
  BY <1>1, <1>2, <1>5, <1>6, SavesKept

\* A commit deletes what r has seen and puts the row of r in place of its playlist's.
LEMMA CommitSaves ==
  ASSUME OwnerSetting, OwnersTyped, SavesInv, NEW r \in Requests, Scope!Commit(r)
  PROVE  SavesInv'
<1> DEFINE me == request[r].owner
           mine == request[r].playlist
           row == [at |-> request[r].began, by |-> r]
<1>1. request[r].step = "committing" /\ me \in Owners /\ mine \in Playlists
  BY DEF Scope!Commit, OwnersTyped, Known, Saving
<1>2. Moves(r, "saved") /\ KeepsOwner(r) /\ KeepsSave(r) /\ prior' = prior
  <2>1. "saved" \in Scope!Steps
    BY DEF Scope!Steps
  <2> QED
    BY <2>1, GoesOn DEF Scope!Commit
<1>3. rows \in [Owners -> [Playlists -> Scope!Row \cup {None}]]
  BY DEF OwnersTyped, Scope!OwnerTypeOK, Owners
<1>4. /\ rows'[me][mine] = row
      /\ \A p \in Playlists \ {mine} :
           rows'[me][p] = IF p \in request[r].others THEN None ELSE rows[me][p]
      /\ \A o \in Owners \ {me} : rows'[o] = rows[o]
  BY <1>1, <1>3 DEF Scope!Commit
<1>5. row \in Scope!Row /\ row # None
  <2>1. request[r].began \in 0 .. LastRequest /\ request[r].began # 0
    BY <1>1, TypedRequests DEF OwnersTyped, Clocked, Saving, Request
  <2>2. row \in Scope!Row
    BY <2>1 DEF Scope!Row, OwnerSetting, Requests
  <2> QED
    BY <2>2 DEF OwnerSetting
<1>6. Scope!Committed' = Scope!Committed \cup {r} /\ r \notin Scope!Committed
  BY <1>1, <1>2 DEF Scope!Committed, Moves, Requests
<1>7. \A q \in Requests : prior'[q] \subseteq Scope!Committed' /\ r \notin prior[q]
  BY <1>2, <1>6 DEF SavesInv
<1>8. row.by = r /\ row.at = request[r].began
  OBVIOUS
<1> HIDE DEF row
<1>9. ASSUME NEW q \in Requests PROVE Deletes(q)'
  <2>1. CASE q # r
    <3>1. request'[q] = request[q] /\ Deletes(q)
      BY <1>2, <2>1 DEF Moves, SavesInv
    <3>2. ASSUME NEW p \in Playlists, request[q].owner \in Owners,
                 rows'[request[q].owner][p] # None, rows'[request[q].owner][p].by \in prior[q]
          PROVE  rows'[request[q].owner][p] = rows[request[q].owner][p]
      <4>1. CASE request[q].owner = me
        BY <1>4, <1>7, <1>8, <3>2, <4>1
      <4>2. CASE request[q].owner # me
        BY <1>4, <3>2, <4>2
      <4> QED
        BY <4>1, <4>2
    <3> QED
      BY <1>2, <3>1, <3>2 DEF Deletes
  <2>2. CASE q = r
    <3>1. ASSUME NEW p \in Playlists, rows'[me][p] # None, rows'[me][p].by \in prior[r]
          PROVE  FALSE
      <4>1. p # mine
        BY <1>4, <1>7, <1>8, <3>1
      <4>2. p \notin request[r].others /\ rows'[me][p] = rows[me][p]
        BY <1>4, <3>1, <4>1
      <4>3. Deletes(r)
        BY DEF SavesInv
      <4> QED
        BY <1>1, <3>1, <4>1, <4>2, <4>3 DEF Deletes
    <3>2. request'[r].owner = me
      BY <1>2 DEF KeepsOwner
    <3> QED
      BY <1>2, <2>2, <3>1, <3>2 DEF Deletes
  <2> QED
    BY <2>1, <2>2
<1>10. ASSUME NEW o \in Owners, NEW p \in Playlists, rows'[o][p] # None PROVE Rowed(o, p)'
  <2>1. CASE o = me /\ p = mine
    BY <1>2, <1>4, <1>8, <2>1 DEF Rowed, Moves, KeepsOwner, KeepsSave
  <2>2. CASE ~(o = me /\ p = mine)
    <3>1. rows'[o][p] = rows[o][p]
      BY <1>4, <1>10, <2>2
    <3>2. Rowed(o, p) /\ rows[o][p].by \in Requests
      BY <1>10, <3>1 DEF SavesInv, OwnersTyped, Scope!OwnerTypeOK, Scope!Row, Requests, Owners
    <3>3. request[rows[o][p].by].step = "saved"
      BY <1>10, <3>1, <3>2 DEF Rowed
    <3>4. rows[o][p].by \in Requests \ {r}
      BY <1>1, <3>2, <3>3
    <3>5. request'[rows[o][p].by] = request[rows[o][p].by]
      BY <1>2, <3>4 DEF Moves
    <3> QED
      BY <3>1, <3>2, <3>5 DEF Rowed
  <2> QED
    BY <2>1, <2>2
<1>11. ASSUME NEW o \in Owners, Scope!SavesOf(o)' # {}
       PROVE  \E p \in Playlists : rows'[o][p] # None
  <2>1. CASE o = me
    BY <1>1, <1>4, <1>5, <2>1
  <2>2. CASE o # me
    <3>1. Scope!SavesOf(o)' = Scope!SavesOf(o)
      BY <1>2, <1>6, <2>2 DEF Scope!SavesOf, Scope!Committed, Moves, KeepsOwner, Requests
    <3>2. \E p \in Playlists : rows[o][p] # None
      BY <1>11, <3>1 DEF SavesInv
    <3> QED
      BY <1>4, <2>2, <3>2
  <2> QED
    BY <2>1, <2>2
<1>12. \A o \in Owners : \A p \in Playlists : Rowed(o, p)'
  BY <1>10 DEF Rowed
<1> QED
  BY <1>7, <1>9, <1>11, <1>12 DEF SavesInv

\* Every step keeps what the saves have to account for.
LEMMA SavesNext ==
  ASSUME OwnerSetting, OwnersTyped, SavesInv, [Scope!OwnerNext]_(Scope!ownerVars)
  PROVE  SavesInv'
<1>1. CASE Scope!MoveEmail \/ UNCHANGED Scope!ownerVars
  <2>1. UNCHANGED <<request, rows, prior>>
    BY <1>1 DEF Scope!MoveEmail, Scope!ownerVars
  <2> QED
    BY <2>1 DEF SavesInv, Deletes, Rowed, Scope!SavesOf, Scope!Committed
<1> QED
  BY <1>1, ResolveSaves, DeleteSaves, CommitSaves DEF Scope!OwnerNext, Requests

-----------------------------------------------------------------------------

\* Of the rows of an owner one is the newest.
LEMMA OneShown ==
  ASSUME OwnerSetting, OwnersTyped, SavesInv, NEW o \in Owners, Scope!SavesOf(o) # {}
  PROVE  Cardinality(Scope!Shown(o)) = 1
<1> DEFINE some == {p \in Playlists : rows[o][p] # None}
           times == {rows[o][p].at : p \in some}
<1>1. some # {} /\ times # {}
  BY DEF SavesInv
<1>2. \A p \in some : rows[o][p] \in Scope!Row
  BY DEF OwnersTyped, Scope!OwnerTypeOK, Owners
<1>3. \A p \in some : rows[o][p].at \in 1 .. LastRequest /\ rows[o][p].by \in Requests
  BY <1>2 DEF Scope!Row, Requests
<1>4. times \subseteq 1 .. LastRequest
  BY <1>3
<1>5. PICK e \in times : \A d \in times : d <= e
  <2> HIDE DEF times
  <2> QED
    BY <1>1, <1>4, NewestExists DEF OwnerSetting
<1>6. PICK p \in some : rows[o][p].at = e
  BY <1>5
<1>7. Scope!Shown(o) = {t \in some : \A q \in some : rows[o][q].at <= rows[o][t].at}
  BY DEF Scope!Shown
<1>8. p \in Scope!Shown(o)
  BY <1>5, <1>6, <1>7
<1>9. ASSUME NEW q \in Scope!Shown(o) PROVE q = p
  <2>1. q \in some /\ rows[o][q].at <= rows[o][p].at /\ rows[o][p].at <= rows[o][q].at
    BY <1>6, <1>7, <1>8
  <2>2. rows[o][q].at = rows[o][p].at
    BY <1>3, <2>1
  <2>3. Rowed(o, p) /\ Rowed(o, q)
    BY <2>1 DEF SavesInv
  <2>4. rows[o][p].by \in Begun
    BY <1>3, <2>3 DEF Rowed, Begun
  <2>5. rows[o][p].by = rows[o][q].by
    BY <1>3, <2>1, <2>2, <2>3, <2>4 DEF Rowed, OwnersTyped, Clocked
  <2> QED
    BY <2>1, <2>3, <2>5 DEF Rowed
<1>10. Scope!Shown(o) = {p}
  BY <1>8, <1>9
<1> QED
  BY <1>10, FS_Singleton

\* What each commit accounts for is what OwnersSound claims.
LEMMA SavesStand ==
  ASSUME OwnerSetting, OwnersTyped, SavesInv
  PROVE  Scope!OwnersSound
<1>1. \A S : Scope!Cardinality(S) = Cardinality(S)
  BY DEF Scope!Cardinality, Cardinality
<1>2. ASSUME NEW o \in Owners, NEW p \in Playlists, rows[o][p] # None,
             NEW s \in Scope!SavesOf(o)
      PROVE  rows[o][p].by \notin prior[s]
  BY <1>2 DEF SavesInv, Deletes, Scope!SavesOf, Scope!Committed, Requests
<1>3. Scope!PlaylistStands
  BY <1>1, <1>2, OneShown DEF Scope!PlaylistStands, Owners
<1> QED
  BY <1>3 DEF Scope!OwnersSound, OwnersTyped

\* A saved playlist stands until a later save, in the workspace of its user: for any users,
\* requests, playlists and moves of the public email, and whatever transactions overlap.
THEOREM SavesAreTheirOwners == Spec => []OwnersSound
<1> DEFINE Inv == OwnersTyped /\ SavesInv
<1>1. Init => Inv
  BY OwnerSettingHolds, OwnersInitTyped, SavesInit DEF Init
<1>2. Inv /\ [Next]_vars => Inv'
  BY OwnerSettingHolds, PartSteps, OwnersNextTyped, SavesNext
<1>3. Inv => OwnersSound
  BY OwnerSettingHolds, SavesStand DEF OwnersSound
<1> QED
  BY <1>1, <1>2, <1>3, PTL DEF Spec

-----------------------------------------------------------------------------

\* The synthesis of the sources of a refresh.

USE DEF Work!Capture, Work!Free, Work!lookup, Work!provider

Captured == Work!SynthesisSources
Versions == Work!Versions
Result == Work!Record \cup {None}

WorkSetting ==
  /\ LastVersion \in Nat \ {0} /\ Lists \subseteq Seq(Captured)
  /\ None \notin Work!Makers /\ None \notin Work!Record

\* What the workers' proof needs of the constants.
LEMMA WorkSettingHolds == WorkSetting
BY LimitsAssumption, ListsAssumption, NoneAssumption DEF WorkSetting, Captured

Places == 1 .. Len(candidates)
HeldSteps == {"taken", "prompt", "compact", "judge"}

\* Before they are looked up, and when all are done, no worker has a candidate.
Resting == \A w \in Workers : held[w] = Work!Free

\* A worker has one of the candidates given out, without a result, for itself.
Holds(w) ==
  /\ held[w].step \in HeldSteps /\ held[w].at \in Places /\ held[w].at < next
  /\ processed[held[w].at] = None
  /\ \A x \in Workers : held[x].at = held[w].at => x = w

WorkTypes ==
  /\ version \in [Captured -> Versions]
  /\ records \in [Captured -> [Versions -> Work!Makers \cup {None}]]
  /\ asked \in [Captured -> [Versions -> Nat]] /\ excused \in [Captured -> [Versions -> Nat]]
  /\ cycle \in {"idle", "looking", "working", "saving"}
  /\ candidates \in Seq([source : Captured, version : Versions])
  /\ processed \in [Places -> Result]
  /\ held \in [Workers -> [at : 0 .. Len(candidates), step : HeldSteps \cup {"none"}]]
  /\ next \in 1 .. Len(candidates) + 1
  /\ \A i \in Places : candidates[i].version = version[candidates[i].source]

\* The stages of a cycle.
Staged ==
  /\ cycle = "idle" => candidates = <<>>
  /\ cycle \in {"idle", "looking"} => next = 1 /\ \A i \in Places : processed[i] = None
  /\ cycle # "working" => Resting
  /\ cycle = "working" =>
       /\ exact \in [Places -> Result] /\ bySource \in [Places -> Result]
       /\ \A w \in Workers : held[w] # Work!Free => Holds(w)
       /\ \A i \in Places :
            /\ i < next => processed[i] # None \/ \E w \in Workers : held[w].at = i
            /\ next <= i => processed[i] = None
  /\ cycle = "saving" => \A i \in Places : processed[i] # None

\* What is found of a candidate, and what is made of it, is its own.
Found(i) ==
  /\ exact[i] # None =>
       exact[i].source = candidates[i].source /\ exact[i].version = candidates[i].version
  /\ bySource[i] # None => bySource[i].source = candidates[i].source /\ bySource[i].cached

OwnResult(i, result) ==
  /\ result.source = candidates[i].source
  /\ result.version = candidates[i].version \/ (result.source \in Posts /\ result.cached)

WorkTyped ==
  /\ WorkTypes
  /\ Staged
  /\ cycle = "working" => \A i \in Places : Found(i)
  /\ \A i \in Places : processed[i] # None => OwnResult(i, processed[i])

-----------------------------------------------------------------------------

\* The workers count as FiniteSets does.
LEMMA WorkCardinality == \A S : Work!Cardinality(S) = Cardinality(S)
BY DEF Work!Cardinality, Cardinality

\* No cycle has begun.
LEMMA WorkInitTyped == ASSUME WorkSetting, Work!Init PROVE WorkTyped
<1>1. candidates = <<>> /\ Len(candidates) = 0 /\ Places = {} /\ processed = <<>>
  BY DEF Work!Init, Places
<1>2. 1 \in Versions
  BY DEF WorkSetting, Versions, Work!Versions
<1>3. WorkTypes
  BY <1>1, <1>2 DEF WorkTypes, Work!Init, Captured, Versions, WorkSetting
<1> QED
  BY <1>1, <1>3 DEF WorkTyped, Staged, Resting, Work!Init

\* An edit between cycles.
LEMMA EditTyped ==
  ASSUME WorkSetting, WorkTyped, NEW s \in Captured, Work!Edit(s)
  PROVE  WorkTyped'
<1>1. /\ UNCHANGED <<records, cycle, candidates, exact, bySource, next, held, processed,
                     asked, excused>>
      /\ cycle = "idle" /\ candidates = <<>> /\ Places = {}
  BY DEF Work!Edit, WorkTyped, Staged, Places
<1>2. version[s] \in Versions /\ version[s] + 1 \in Versions
  BY DEF WorkTyped, WorkTypes, Work!Edit, Versions, Work!Versions, WorkSetting
<1>3. version' \in [Captured -> Versions]
  BY <1>2 DEF WorkTyped, WorkTypes, Work!Edit
<1>4. Places' = {}
  BY <1>1 DEF Places
<1>5. WorkTypes'
  BY <1>1, <1>3, <1>4 DEF WorkTyped, WorkTypes
<1>6. Staged'
  BY <1>1, <1>4 DEF WorkTyped, Staged, Resting
<1> QED
  BY <1>1, <1>4, <1>5, <1>6 DEF WorkTyped

\* The candidates of a cycle are the captures of this moment.
LEMMA BeginTyped ==
  ASSUME WorkSetting, WorkTyped, NEW list \in Lists, Work!Begin(list)
  PROVE  WorkTyped'
<1>1. list \in Seq(Captured) /\ Len(list) \in Nat /\ DOMAIN list = 1 .. Len(list)
        /\ \A i \in 1 .. Len(list) : list[i] \in Captured
  BY DEF WorkSetting
<1>2. /\ UNCHANGED <<version, records, exact, bySource, next, held, asked>>
      /\ cycle = "idle" /\ cycle' = "looking" /\ next = 1 /\ Resting
  BY DEF Work!Begin, WorkTyped, Staged
<1>3. candidates' = [i \in 1 .. Len(list) |->
                       [source |-> list[i], version |-> version[list[i]]]]
  BY <1>1 DEF Work!Begin
<1>4. candidates' \in Seq([source : Captured, version : Versions])
        /\ Len(candidates') = Len(list)
  <2>1. \A i \in 1 .. Len(list) : version[list[i]] \in Versions
    BY <1>1 DEF WorkTyped, WorkTypes
  <2>2. \A i \in 1 .. Len(list) :
          [source |-> list[i], version |-> version[list[i]]] \in [source : Captured,
            version : Versions]
    BY <1>1, <2>1
  <2> QED
    BY <1>1, <1>3, <2>2
<1>5. Places' = 1 .. Len(list)
  BY <1>4 DEF Places
<1>6. processed' = [i \in Places' |-> None]
  BY <1>1, <1>5 DEF Work!Begin
<1>7. excused' \in [Captured -> [Versions -> Nat]]
  <2> DEFINE n(s) == Work!Cardinality({i \in DOMAIN list : list[i] = s})
  <2>1. ASSUME NEW s \in Captured PROVE n(s) \in Nat
    <3>1. {i \in DOMAIN list : list[i] = s} \subseteq 1 .. Len(list)
      BY <1>1
    <3>2. IsFiniteSet({i \in DOMAIN list : list[i] = s})
      <4>1. IsFiniteSet(1 .. Len(list))
        BY <1>1, FS_Interval
      <4> QED
        BY <3>1, <4>1, FS_Subset
    <3> QED
      BY <3>2, FS_CardinalityType, WorkCardinality
  <2>2. \A s \in Captured : (IF n(s) > 1 THEN n(s) - 1 ELSE 0) \in Nat
    BY <2>1
  <2>3. excused' = [s \in Captured |-> [excused[s] EXCEPT ![version[s]] =
                      @ + (IF n(s) > 1 THEN n(s) - 1 ELSE 0)]]
    BY DEF Work!Begin, Captured
  <2> HIDE DEF n
  <2> QED
    BY <2>2, <2>3 DEF WorkTyped, WorkTypes
<1>8. \A i \in Places' : candidates'[i].version = version'[candidates'[i].source]
  BY <1>2, <1>3, <1>5
<1>9. held' \in [Workers -> [at : 0 .. Len(candidates'), step : HeldSteps \cup {"none"}]]
  BY <1>1, <1>2, <1>4 DEF Resting, WorkTyped, WorkTypes
<1>10. WorkTypes'
  BY <1>1, <1>2, <1>4, <1>6, <1>7, <1>8, <1>9 DEF WorkTyped, WorkTypes, Result
<1>11. Staged'
  BY <1>2, <1>6 DEF Staged, Resting
<1> QED
  BY <1>2, <1>6, <1>10, <1>11 DEF WorkTyped

\* A candidate is a capture, and its place one of the list's.
LEMMA CandidatesTyped ==
  ASSUME WorkTyped
  PROVE  \A i \in Places : /\ candidates[i] \in [source : Captured, version : Versions]
                           /\ i \in Nat /\ 1 <= i /\ i <= Len(candidates)
<1> DEFINE C == [source : Captured, version : Versions]
<1>1. candidates \in Seq(C)
  BY DEF WorkTyped, WorkTypes
<1> HIDE DEF C
<1>2. Len(candidates) \in Nat
  BY <1>1
<1>3. ASSUME NEW i \in Places PROVE candidates[i] \in C
  BY <1>1 DEF Places
<1>4. \A i \in Places : i \in Nat /\ 1 <= i /\ i <= Len(candidates)
  BY <1>2 DEF Places
<1> QED
  BY <1>3, <1>4 DEF C

\* The latest version that has a record, or 0.
LEMMA LatestIsGreatest ==
  ASSUME WorkSetting, NEW s \in Captured
  PROVE  /\ Work!LatestVersion(s) \in Versions \cup {0}
         /\ Work!LatestVersion(s) # 0 => records[s][Work!LatestVersion(s)] # None
         /\ \A v \in Versions : records[s][v] # None => v <= Work!LatestVersion(s)
<1> DEFINE made == {v \in Versions : records[s][v] # None}
<1>1. Work!LatestVersion(s) = CHOOSE v \in made \cup {0} : \A w \in made : w <= v
  BY DEF Work!LatestVersion, Versions
<1>2. made \subseteq 1 .. LastVersion /\ LastVersion \in Nat
  BY DEF Versions, Work!Versions, WorkSetting
<1>3. \E v \in made \cup {0} : \A w \in made : w <= v
  <2>1. CASE made = {}
    BY <2>1
  <2>2. CASE made # {}
    <3> HIDE DEF made
    <3> QED
      BY <1>2, <2>2, NewestExists
  <2> QED
    BY <2>1, <2>2
<1>4. Work!LatestVersion(s) \in made \cup {0} /\ \A w \in made : w <= Work!LatestVersion(s)
  <2> HIDE DEF made
  <2> QED
    BY <1>1, <1>3
<1> QED
  BY <1>4

\* A record that is found is one of that capture.
LEMMA FoundIsRecord ==
  ASSUME WorkSetting, WorkTyped, NEW s \in Captured, NEW v \in Versions \cup {0}
  PROVE  /\ Work!Found(s, v) \in Result
         /\ Work!Found(s, v) # None =>
              /\ Work!Found(s, v).source = s /\ Work!Found(s, v).version = v
              /\ Work!Found(s, v).cached
         /\ v # 0 /\ records[s][v] # None => Work!Found(s, v) # None
<1>1. CASE v = 0 \/ records[s][v] = None
  BY <1>1 DEF Work!Found, Result
<1>2. CASE v # 0 /\ records[s][v] # None
  <2> DEFINE found == [source |-> s, version |-> v, by |-> records[s][v], cached |-> TRUE]
  <2>1. v \in Versions /\ records[s][v] \in Work!Makers
    BY <1>2 DEF WorkTyped, WorkTypes
  <2>2. found \in Work!Record
    BY <2>1 DEF Work!Record, Captured, Versions
  <2>3. Work!Found(s, v) = found
    BY <1>2 DEF Work!Found
  <2>4. found.source = s /\ found.version = v /\ found.cached
    OBVIOUS
  <2> HIDE DEF found
  <2> QED
    BY <2>2, <2>3, <2>4 DEF Result, WorkSetting
<1> QED
  BY <1>1, <1>2

\* An excuse adds one, or nothing.
LEMMA ExcuseTyped ==
  ASSUME excused \in [Captured -> [Versions -> Nat]], Work!Excuse
  PROVE  /\ excused' \in [Captured -> [Versions -> Nat]]
         /\ \A s \in Captured : \A v \in Versions :
              excused'[s][v] = excused[s][v]
                + (IF \E i \in DOMAIN candidates : candidates[i] = [source |-> s, version |-> v]
                   THEN 1 ELSE 0)
<1> DEFINE Had(s, v) == \E i \in DOMAIN candidates : candidates[i] = [source |-> s, version |-> v]
<1>1. excused' = [s \in Captured |-> [v \in Versions |->
                   IF Had(s, v) THEN excused[s][v] + 1 ELSE excused[s][v]]]
  BY DEF Work!Excuse, Captured, Versions
<1> HIDE DEF Had
<1>2. \A s \in Captured : \A v \in Versions :
        excused[s][v] \in Nat
          /\ (IF Had(s, v) THEN excused[s][v] + 1 ELSE excused[s][v])
               = excused[s][v] + (IF Had(s, v) THEN 1 ELSE 0)
          /\ (IF Had(s, v) THEN excused[s][v] + 1 ELSE excused[s][v]) \in Nat
  OBVIOUS
<1> QED
  BY <1>1, <1>2 DEF Had

\* Looking up finds records of the candidates, or nothing.
LEMMA LookUpTyped ==
  ASSUME WorkSetting, WorkTyped, Work!LookUp
  PROVE  /\ WorkTyped'
         /\ cycle = "looking" /\ cycle' = "working"
         /\ \/ /\ excused' = excused
               /\ \A i \in Places :
                    /\ exact'[i] = Work!Found(candidates[i].source, candidates[i].version)
                    /\ bySource'[i] = Work!Found(candidates[i].source,
                                                 Work!LatestVersion(candidates[i].source))
            \/ Work!Excuse
<1>1. /\ UNCHANGED <<version, records, candidates, next, held, processed, asked>>
      /\ cycle = "looking" /\ cycle' = "working" /\ next = 1 /\ Resting
      /\ \A i \in Places : processed[i] = None
  BY DEF Work!LookUp, WorkTyped, Staged
<1>2. \A i \in Places : candidates[i].source \in Captured /\ candidates[i].version \in Versions
  <2>1. ASSUME NEW i \in Places PROVE candidates[i] \in [source : Captured, version : Versions]
    BY CandidatesTyped
  <2> QED
    BY <2>1
<1>3. DOMAIN candidates = Places
  BY DEF WorkTyped, WorkTypes, Places
<1> DEFINE one == [i \in Places |-> Work!Found(candidates[i].source, candidates[i].version)]
           any == [i \in Places |-> Work!Found(candidates[i].source,
                                               Work!LatestVersion(candidates[i].source))]
           none == [i \in Places |-> None]
<1>4. PICK captures \in {"ok", "failed"}, sources \in {"ok", "failed"} :
        /\ exact' = IF captures = "failed" THEN none ELSE one
        /\ bySource' = IF sources = "failed" THEN none ELSE any
        /\ IF "failed" \in {captures, sources} THEN Work!Excuse ELSE UNCHANGED excused
  BY <1>3 DEF Work!LookUp, Work!Nothing
<1>5. \A i \in Places :
        /\ Work!LatestVersion(candidates[i].source) \in Versions \cup {0}
        /\ one[i] \in Result /\ any[i] \in Result
        /\ one[i] # None => one[i].source = candidates[i].source
                              /\ one[i].version = candidates[i].version
        /\ any[i] # None => any[i].source = candidates[i].source /\ any[i].cached
  BY <1>2, LatestIsGreatest, FoundIsRecord
<1>6. exact' \in [Places -> Result] /\ bySource' \in [Places -> Result]
  BY <1>4, <1>5 DEF Result
<1>7. \A i \in Places : Found(i)'
  BY <1>1, <1>4, <1>5 DEF Found
<1>8. excused' \in [Captured -> [Versions -> Nat]]
  <2>1. excused \in [Captured -> [Versions -> Nat]]
    BY DEF WorkTyped, WorkTypes
  <2>2. CASE Work!Excuse
    BY <2>1, <2>2, ExcuseTyped
  <2> QED
    BY <1>4, <2>1, <2>2
<1>9. Places' = Places
  BY <1>1 DEF Places
<1>10. WorkTypes'
  BY <1>1, <1>8, <1>9 DEF WorkTyped, WorkTypes
<1>11. Staged'
  <2>1. \A i \in Places : ~(i < next)
    BY <1>1 DEF Places
  <2> QED
    BY <1>1, <1>6, <1>9, <2>1 DEF Staged, Resting
<1>12. \/ captures # "failed" /\ sources # "failed" /\ excused' = excused
       \/ Work!Excuse
  BY <1>4
<1>13. captures # "failed" /\ sources # "failed" => \A i \in Places :
         exact'[i] = one[i] /\ bySource'[i] = any[i]
  BY <1>4
<1> QED
  BY <1>1, <1>7, <1>9, <1>10, <1>11, <1>12, <1>13 DEF WorkTyped

-----------------------------------------------------------------------------

\* Variables a worker never changes.
AtWork == UNCHANGED <<version, records, cycle, cycles, candidates, exact, bySource, excused>>

\* A worker that has something is at work, and has a candidate of its own.
LEMMA HoldsOne ==
  ASSUME WorkTyped, NEW w \in Workers, held[w].step \in HeldSteps
  PROVE  cycle = "working" /\ Holds(w)
<1>1. held[w] # Work!Free
  <2>1. "none" \notin HeldSteps
    BY DEF HeldSteps
  <2> QED
    BY <2>1
<1> QED
  BY <1>1 DEF WorkTyped, Staged, Resting

\* A worker takes a candidate that nobody has.
LEMMA TakeTyped ==
  ASSUME WorkSetting, WorkTyped, NEW w \in Workers, Work!Take(w)
  PROVE  WorkTyped'
<1>1. /\ AtWork /\ UNCHANGED <<processed, asked>>
      /\ cycle = "working" /\ held[w] = Work!Free /\ next \in Places /\ next' = next + 1
  BY DEF Work!Take, AtWork, WorkTyped, WorkTypes, Places
<1>2. held' = [held EXCEPT ![w] = [at |-> next, step |-> "taken"]] /\ "taken" \in HeldSteps
  BY DEF Work!Take, HeldSteps
<1>3. Places' = Places /\ Len(candidates) \in Nat
  BY <1>1 DEF Places, AtWork, WorkTyped, WorkTypes
<1>4. /\ held \in [Workers -> [at : 0 .. Len(candidates), step : HeldSteps \cup {"none"}]]
      /\ \A x \in Workers : held[x] # Work!Free => Holds(x)
      /\ \A i \in Places :
            /\ i < next => processed[i] # None \/ \E x \in Workers : held[x].at = i
            /\ next <= i => processed[i] = None
  BY <1>1 DEF WorkTyped, WorkTypes, Staged
<1>5. held'[w].at = next /\ held'[w].step = "taken" /\ \A x \in Workers \ {w} : held'[x] = held[x]
  BY <1>2, <1>4
<1>6. held' \in [Workers -> [at : 0 .. Len(candidates), step : HeldSteps \cup {"none"}]]
  BY <1>1, <1>2, <1>3, <1>4 DEF Places
<1>7. \A x \in Workers \ {w} : held[x].at # next
  BY <1>1, <1>4 DEF Holds, Places
<1>8. ASSUME NEW x \in Workers, held'[x] # Work!Free PROVE Holds(x)'
  <2>1. CASE x = w
    BY <1>1, <1>2, <1>3, <1>4, <1>5, <1>7, <2>1 DEF Holds, Places
  <2>2. CASE x # w
    <3>1. Holds(x) /\ held'[x] = held[x]
      BY <1>4, <1>5, <1>8, <2>2
    <3>2. held[x].at < next'
      BY <1>1, <3>1 DEF Holds, Places
    <3> QED
      BY <1>1, <1>3, <1>5, <1>7, <3>1, <3>2 DEF Holds
  <2> QED
    BY <2>1, <2>2
<1>9. ASSUME NEW i \in Places
      PROVE  /\ i < next' => processed[i] # None \/ \E x \in Workers : held'[x].at = i
             /\ next' <= i => processed[i] = None
  <2>1. i \in Nat /\ next \in Nat
    BY <1>1 DEF Places
  <2>2. ASSUME i < next' PROVE processed[i] # None \/ \E x \in Workers : held'[x].at = i
    <3>1. CASE i = next
      BY <1>5, <3>1
    <3>2. CASE i # next
      <4>1. i < next
        BY <1>1, <2>1, <2>2, <3>2
      <4>2. CASE processed[i] = None
        <5>1. PICK x \in Workers : held[x].at = i
          BY <1>4, <4>1, <4>2
        <5>2. x # w
          BY <1>1, <5>1 DEF Places
        <5> QED
          BY <1>5, <5>1, <5>2
      <4> QED
        BY <4>2
    <3> QED
      BY <3>1, <3>2
  <2> QED
    BY <1>1, <1>4, <2>1, <2>2
<1>10. next' \in 1 .. Len(candidates) + 1
  BY <1>1, <1>3 DEF Places
<1>11. WorkTypes'
  BY <1>1, <1>3, <1>6, <1>10 DEF WorkTyped, WorkTypes, AtWork
<1>12. Staged'
  BY <1>1, <1>3, <1>8, <1>9 DEF WorkTyped, Staged, AtWork, Resting
<1>13. \A i \in Places : Found(i)'
  BY <1>1 DEF AtWork, WorkTyped, Found
<1> QED
  BY <1>1, <1>3, <1>11, <1>12, <1>13 DEF WorkTyped, AtWork, OwnResult

\* The worker goes on with what it has.
LEMMA StepTyped ==
  ASSUME WorkSetting, WorkTyped, NEW w \in Workers, held[w].step \in HeldSteps,
         NEW step \in HeldSteps, Work!Step(w, step), AtWork, UNCHANGED <<next, processed>>,
         asked' \in [Captured -> [Versions -> Nat]]
  PROVE  /\ WorkTyped'
         /\ held'[w].at = held[w].at /\ held'[w].step = step
         /\ \A x \in Workers \ {w} : held'[x] = held[x]
<1>1. cycle = "working" /\ Holds(w)
  BY HoldsOne
<1>2. held \in [Workers -> [at : 0 .. Len(candidates), step : HeldSteps \cup {"none"}]]
  BY DEF WorkTyped, WorkTypes
<1>3. /\ held'[w].at = held[w].at /\ held'[w].step = step
      /\ \A x \in Workers \ {w} : held'[x] = held[x]
      /\ held' \in [Workers -> [at : 0 .. Len(candidates), step : HeldSteps \cup {"none"}]]
  BY <1>2 DEF Work!Step
<1>4. \A x \in Workers : held'[x].at = held[x].at
  BY <1>3
<1>5. Places' = Places
  BY DEF Places, AtWork
<1>6. \A x \in Workers : held'[x] # Work!Free => Holds(x)'
  BY <1>1, <1>3, <1>4, <1>5 DEF WorkTyped, Staged, Holds
<1>7. WorkTypes'
  BY <1>3, <1>5 DEF WorkTyped, WorkTypes, AtWork
<1>8. Staged'
  BY <1>1, <1>4, <1>5, <1>6 DEF WorkTyped, Staged, AtWork, Resting
<1>9. \A i \in Places : Found(i)'
  BY <1>1 DEF AtWork, WorkTyped, Found
<1> QED
  BY <1>3, <1>5, <1>7, <1>8, <1>9 DEF WorkTyped, AtWork, OwnResult

\* The worker puts a result of its candidate in its place, and is free.
LEMMA PutTyped ==
  ASSUME WorkSetting, WorkTyped, NEW w \in Workers, held[w].step \in HeldSteps,
         NEW result \in Work!Record, OwnResult(held[w].at, result), Work!Put(w, result), AtWork,
         UNCHANGED <<next, asked>>
  PROVE  /\ WorkTyped'
         /\ held[w].at \in Places /\ processed'[held[w].at] = result /\ held'[w] = Work!Free
         /\ \A x \in Workers \ {w} : held'[x] = held[x] /\ held[x].at # held[w].at
         /\ \A i \in Places \ {held[w].at} : processed'[i] = processed[i]
<1>1. cycle = "working" /\ Holds(w)
  BY HoldsOne
<1>2. held \in [Workers -> [at : 0 .. Len(candidates), step : HeldSteps \cup {"none"}]]
        /\ processed \in [Places -> Result] /\ Len(candidates) \in Nat
  BY DEF WorkTyped, WorkTypes
<1>3. held[w].at \in Places
  BY <1>1 DEF Holds
<1>4. /\ held'[w] = Work!Free /\ \A x \in Workers \ {w} : held'[x] = held[x]
      /\ held' \in [Workers -> [at : 0 .. Len(candidates), step : HeldSteps \cup {"none"}]]
  BY <1>2 DEF Work!Put
<1>5. /\ processed'[held[w].at] = result /\ result # None
      /\ \A i \in Places \ {held[w].at} : processed'[i] = processed[i]
      /\ processed' \in [Places -> Result]
  BY <1>2, <1>3 DEF Work!Put, Result, WorkSetting
<1>6. \A x \in Workers \ {w} : held[x].at # held[w].at
  BY <1>1 DEF Holds
<1>7. Places' = Places
  BY DEF Places, AtWork
<1>8. ASSUME NEW x \in Workers, held'[x] # Work!Free PROVE Holds(x)'
  <2>1. x # w /\ held'[x] = held[x]
    BY <1>4, <1>8
  <2>2. Holds(x)
    BY <1>1, <1>8, <2>1 DEF WorkTyped, Staged
  <2>3. processed'[held'[x].at] = None
    BY <1>5, <1>6, <2>1, <2>2 DEF Holds
  <2>4. ASSUME NEW y \in Workers, held'[y].at = held'[x].at PROVE y = x
    <3>1. y # w
      BY <1>4, <2>1, <2>2, <2>4 DEF Holds, Places
    <3> QED
      BY <1>4, <2>1, <2>2, <2>4, <3>1 DEF Holds
  <2> QED
    BY <1>7, <2>1, <2>2, <2>3, <2>4 DEF Holds
<1>9. ASSUME NEW i \in Places
      PROVE  /\ i < next => processed'[i] # None \/ \E x \in Workers : held'[x].at = i
             /\ next <= i => processed'[i] = None
  <2>0. /\ i < next => processed[i] # None \/ \E x \in Workers : held[x].at = i
        /\ next <= i => processed[i] = None
    BY <1>1 DEF WorkTyped, Staged
  <2>1. CASE i = held[w].at
    <3>1. i < next /\ i \in Nat /\ next \in Nat
      BY <1>1, <2>1 DEF Holds, Places, WorkTyped, WorkTypes
    <3>2. ~(next <= i)
      BY <3>1
    <3> QED
      BY <1>5, <2>1, <3>2
  <2>2. CASE i # held[w].at
    BY <1>4, <1>5, <2>0, <2>2
  <2> QED
    BY <2>1, <2>2
<1>10. WorkTypes'
  BY <1>4, <1>5, <1>7 DEF WorkTyped, WorkTypes, AtWork
<1>11. Staged'
  BY <1>1, <1>5, <1>7, <1>8, <1>9 DEF WorkTyped, Staged, AtWork, Resting
<1>12. \A i \in Places : Found(i)'
  BY <1>1 DEF AtWork, WorkTyped, Found
<1>13. \A i \in Places : (processed[i] # None => OwnResult(i, processed[i]))'
  BY <1>5 DEF WorkTyped, OwnResult, AtWork
<1> QED
  BY <1>3, <1>4, <1>5, <1>6, <1>7, <1>10, <1>11, <1>12, <1>13 DEF WorkTyped, AtWork

\* A result that was made is the candidate's own, and not a cached one.
LEMMA FinishTyped ==
  ASSUME WorkSetting, WorkTyped, NEW w \in Workers, held[w].step \in HeldSteps,
         NEW by \in Work!Makers, Work!Finish(w, by), AtWork, UNCHANGED <<next, asked>>
  PROVE  /\ WorkTyped'
         /\ held[w].at \in Places /\ held'[w] = Work!Free
         /\ processed'[held[w].at] # None /\ ~processed'[held[w].at].cached
         /\ \A x \in Workers \ {w} : held'[x] = held[x] /\ held[x].at # held[w].at
         /\ \A i \in Places \ {held[w].at} : processed'[i] = processed[i]
<1> DEFINE c == candidates[held[w].at]
           result == [source |-> c.source, version |-> c.version, by |-> by, cached |-> FALSE]
<1>1. held[w].at \in Places
  BY HoldsOne DEF Holds
<1>2. c.source \in Captured /\ c.version \in Versions
  BY <1>1, CandidatesTyped
<1>3. result \in Work!Record
  BY <1>2 DEF Work!Record, Captured, Versions
<1>4. OwnResult(held[w].at, result) /\ ~result.cached
  BY DEF OwnResult
<1>5. Work!Put(w, result)
  BY DEF Work!Finish
<1>6. result # None
  BY <1>3 DEF WorkSetting
<1> HIDE DEF result
<1> QED
  BY <1>3, <1>4, <1>5, <1>6, PutTyped

\* A record that is found may stand for the candidate.
LEMMA CachedIsMade ==
  ASSUME WorkSetting, WorkTyped, cycle = "working", NEW i \in Places, Work!Cached(i) # None
  PROVE  Work!Cached(i) \in Work!Record /\ OwnResult(i, Work!Cached(i))
<1>1. exact[i] \in Result /\ bySource[i] \in Result /\ Found(i)
  BY DEF WorkTyped, Staged
<1>2. CASE exact[i] # None
  BY <1>1, <1>2 DEF Work!Cached, Found, OwnResult, Result
<1>3. CASE exact[i] = None
  <2>1. candidates[i].source \in Posts /\ Work!Cached(i) = bySource[i]
    BY <1>3 DEF Work!Cached
  <2> QED
    BY <1>1, <2>1 DEF Found, OwnResult, Result
<1> QED
  BY <1>2, <1>3

\* A worker puts the record that was found.
LEMMA UseCachedTyped ==
  ASSUME WorkSetting, WorkTyped, NEW w \in Workers, Work!UseCached(w)
  PROVE  /\ WorkTyped' /\ AtWork /\ UNCHANGED <<next, asked>>
         /\ held[w].step = "taken" /\ held[w].at \in Places /\ held'[w] = Work!Free
         /\ \A x \in Workers \ {w} : held'[x] = held[x] /\ held[x].at # held[w].at
         /\ \A i \in Places \ {held[w].at} : processed'[i] = processed[i]
<1>1. held[w].step \in HeldSteps /\ AtWork /\ UNCHANGED <<next, asked>>
  BY DEF Work!UseCached, HeldSteps, AtWork
<1>2. cycle = "working" /\ held[w].at \in Places
  BY <1>1, HoldsOne DEF Holds
<1>3. Work!Put(w, Work!Cached(held[w].at)) /\ Work!Cached(held[w].at) # None
        /\ held[w].step = "taken"
  BY DEF Work!UseCached
<1>4. Work!Cached(held[w].at) \in Work!Record /\ OwnResult(held[w].at, Work!Cached(held[w].at))
  BY <1>2, <1>3, CachedIsMade
<1> QED
  BY <1>1, <1>3, <1>4, PutTyped

\* The model is asked for the worker's candidate, once.
LEMMA PromptTyped ==
  ASSUME WorkSetting, WorkTyped, NEW w \in Workers, Work!Prompt(w)
  PROVE  /\ WorkTyped' /\ AtWork /\ UNCHANGED <<next, processed>>
         /\ held[w].step = "taken" /\ held[w].at \in Places /\ held'[w].step = "prompt"
         /\ held'[w].at = held[w].at /\ \A x \in Workers \ {w} : held'[x] = held[x]
         /\ \A s \in Captured : \A v \in Versions :
              asked'[s][v] = asked[s][v] +
                (IF candidates[held[w].at].source = s /\ candidates[held[w].at].version = v
                 THEN 1 ELSE 0)
<1> DEFINE c == candidates[held[w].at]
<1>1. held[w].step \in HeldSteps /\ "prompt" \in HeldSteps /\ AtWork /\ UNCHANGED <<next,
        processed>>
  BY DEF Work!Prompt, HeldSteps, AtWork
<1>2. held[w].at \in Places
  BY <1>1, HoldsOne DEF Holds
<1>3. c.source \in Captured /\ c.version \in Versions
  BY <1>2, CandidatesTyped
<1>4. asked' = [asked EXCEPT ![c.source][c.version] = @ + 1]
  BY DEF Work!Prompt
<1>5. asked \in [Captured -> [Versions -> Nat]]
  BY DEF WorkTyped, WorkTypes
<1> HIDE DEF c
<1>6. asked' \in [Captured -> [Versions -> Nat]]
  BY <1>3, <1>4, <1>5
<1>7. \A s \in Captured : \A v \in Versions :
        asked'[s][v] = asked[s][v] + (IF c.source = s /\ c.version = v THEN 1 ELSE 0)
  BY <1>3, <1>4, <1>5
<1>8. Work!Step(w, "prompt") /\ held[w].step = "taken"
  BY DEF Work!Prompt
<1> QED
  BY <1>1, <1>2, <1>6, <1>7, <1>8, StepTyped DEF c

\* Answers, of the model or of the judge.
LEMMA AnswerTyped ==
  ASSUME WorkSetting, WorkTyped, NEW w \in Workers,
         Work!Answer(w) \/ Work!CompactAnswer(w) \/ Work!Judge(w)
  PROVE  /\ WorkTyped' /\ AtWork /\ UNCHANGED <<next, asked>>
         /\ held[w].step \in {"prompt", "compact", "judge"} /\ held[w].at \in Places
         /\ \A x \in Workers \ {w} : held'[x] = held[x] /\ held[x].at # held[w].at
         /\ \A i \in Places \ {held[w].at} : processed'[i] = processed[i]
         /\ \/ held'[w].at = held[w].at /\ held'[w].step \in {"prompt", "compact", "judge"}
            \/ /\ held'[w] = Work!Free
               /\ processed'[held[w].at] # None /\ ~processed'[held[w].at].cached
<1>1. /\ AtWork /\ UNCHANGED <<next, asked>>
      /\ held[w].step \in {"prompt", "compact", "judge"} /\ held[w].step \in HeldSteps
  BY DEF Work!Answer, Work!CompactAnswer, Work!Judge, AtWork, HeldSteps
<1>2. \/ \E step \in {"compact", "judge"} : Work!Step(w, step) /\ UNCHANGED processed
      \/ \E by \in {"fallback", "model", "judge"} : Work!Finish(w, by)
  BY DEF Work!Answer, Work!CompactAnswer, Work!Judge, Work!Fallback
<1>3. held[w].at \in Places /\ \A x \in Workers \ {w} : held[x].at # held[w].at
  BY <1>1, HoldsOne DEF Holds
<1>4. ASSUME NEW step \in {"compact", "judge"}, Work!Step(w, step), UNCHANGED processed
      PROVE  /\ WorkTyped' /\ held'[w].at = held[w].at /\ held'[w].step = step
             /\ \A x \in Workers \ {w} : held'[x] = held[x]
  <2>1. step \in HeldSteps /\ asked' \in [Captured -> [Versions -> Nat]]
    BY <1>1 DEF HeldSteps, WorkTyped, WorkTypes
  <2> QED
    BY <1>1, <1>4, <2>1, StepTyped
<1>5. CASE \E step \in {"compact", "judge"} : Work!Step(w, step) /\ UNCHANGED processed
  BY <1>1, <1>3, <1>4, <1>5
<1>6. CASE \E by \in {"fallback", "model", "judge"} : Work!Finish(w, by)
  <2>1. PICK by \in Work!Makers : Work!Finish(w, by)
    BY <1>6 DEF Work!Makers
  <2> QED
    BY <1>1, <2>1, FinishTyped
<1> QED
  BY <1>2, <1>5, <1>6

-----------------------------------------------------------------------------

\* All have their results when nobody is at work and none is left.
LEMMA AllDoneTyped ==
  ASSUME WorkTyped, Work!AllDone
  PROVE  WorkTyped'
<1>1. /\ UNCHANGED <<version, records, candidates, exact, bySource, held, processed, asked,
                     excused>>
      /\ cycle = "working" /\ cycle' = "saving" /\ next' = 1 /\ Resting
      /\ next > Len(candidates)
  BY DEF Work!AllDone, Resting
<1>2. ASSUME NEW i \in Places PROVE processed[i] # None
  <2>1. i < next /\ i # 0
    <3>1. i \in Nat /\ 1 <= i /\ i <= Len(candidates) /\ Len(candidates) \in Nat
      BY CandidatesTyped DEF WorkTyped, WorkTypes
    <3>2. next \in Nat
      BY DEF WorkTyped, WorkTypes
    <3> QED
      BY <1>1, <3>1, <3>2
  <2>2. \A w \in Workers : held[w].at = 0
    BY <1>1 DEF Resting
  <2> QED
    BY <1>1, <2>1, <2>2 DEF WorkTyped, Staged
<1>3. Places' = Places /\ Len(candidates) \in Nat
  BY <1>1 DEF Places, WorkTyped, WorkTypes
<1>4. WorkTypes'
  BY <1>1, <1>3 DEF WorkTyped, WorkTypes
<1>5. Staged'
  BY <1>1, <1>2, <1>3 DEF Staged, Resting
<1> QED
  BY <1>1, <1>3, <1>4, <1>5 DEF WorkTyped, OwnResult

\* The sources are saved one by one, in their order.
LEMMA SaveSourceTyped ==
  ASSUME WorkSetting, WorkTyped, Work!SaveSource
  PROVE  /\ WorkTyped'
         /\ next \in Places /\ processed[next] \in Work!Record /\ OwnResult(next, processed[next])
         /\ \A s \in Captured : \A v \in Versions :
              records'[s][v] = IF processed[next].source = s /\ processed[next].version = v
                               THEN processed[next].by ELSE records[s][v]
<1>1. /\ UNCHANGED <<version, cycle, candidates, exact, bySource, held, processed, asked,
                     excused>>
      /\ cycle = "saving" /\ next' = next + 1 /\ next <= Len(candidates)
  BY DEF Work!SaveSource
<1>2. next \in Places /\ Len(candidates) \in Nat
  BY <1>1 DEF WorkTyped, WorkTypes, Places
<1>3. processed[next] \in Work!Record /\ OwnResult(next, processed[next])
  BY <1>1, <1>2 DEF WorkTyped, WorkTypes, Staged, Result
<1> DEFINE p == processed[next]
<1>4. p.source \in Captured /\ p.version \in Versions /\ p.by \in Work!Makers
  BY <1>3 DEF Work!Record, Captured, Versions
<1>5. records' = [records EXCEPT ![p.source][p.version] = p.by]
  BY DEF Work!SaveSource
<1>6. records \in [Captured -> [Versions -> Work!Makers \cup {None}]]
  BY DEF WorkTyped, WorkTypes
<1> HIDE DEF p
<1>7. /\ records' \in [Captured -> [Versions -> Work!Makers \cup {None}]]
      /\ \A s \in Captured : \A v \in Versions :
           records'[s][v] = IF p.source = s /\ p.version = v THEN p.by ELSE records[s][v]
  BY <1>4, <1>5, <1>6
<1>8. Places' = Places /\ next' \in 1 .. Len(candidates) + 1
  BY <1>1, <1>2 DEF Places
<1>9. WorkTypes'
  BY <1>1, <1>7, <1>8 DEF WorkTyped, WorkTypes
<1>10. Staged'
  BY <1>1, <1>8 DEF WorkTyped, Staged, Resting
<1> QED
  BY <1>1, <1>2, <1>3, <1>7, <1>8, <1>9, <1>10 DEF WorkTyped, OwnResult, p

\* A cycle that is over, or cut short, leaves nothing behind it.
LEMMA EndCycleTyped ==
  ASSUME WorkSetting, WorkTyped, Work!EndCycle, UNCHANGED records,
         excused' \in [Captured -> [Versions -> Nat]]
  PROVE  WorkTyped' /\ Places' = {} /\ cycle' = "idle"
<1>1. /\ UNCHANGED <<version, records, asked>>
      /\ cycle' = "idle" /\ next' = 1 /\ candidates' = <<>> /\ processed' = <<>>
      /\ held' = [w \in Workers |-> Work!Free]
  BY DEF Work!EndCycle
<1>2. Len(candidates') = 0 /\ Places' = {}
        /\ candidates' \in Seq([source : Captured, version : Versions])
  BY <1>1 DEF Places
<1>3. held' \in [Workers -> [at : 0 .. 0, step : HeldSteps \cup {"none"}]]
  BY <1>1
<1>4. WorkTypes'
  BY <1>1, <1>2, <1>3 DEF WorkTyped, WorkTypes
<1>5. Staged'
  BY <1>1, <1>2 DEF Staged, Resting
<1> QED
  BY <1>1, <1>2, <1>4, <1>5 DEF WorkTyped

\* Every step keeps the types and the stages.
LEMMA WorkNextTyped ==
  ASSUME WorkSetting, WorkTyped, [Work!SynthesisNext]_(Work!synthesisVars)
  PROVE  WorkTyped'
<1>1. CASE Work!Saved \/ Work!Crash
  <2>1. Work!EndCycle /\ UNCHANGED records /\ (UNCHANGED excused \/ Work!Excuse)
    BY <1>1 DEF Work!Saved, Work!Crash
  <2>2. excused' \in [Captured -> [Versions -> Nat]]
    <3>1. excused \in [Captured -> [Versions -> Nat]]
      BY DEF WorkTyped, WorkTypes
    <3> QED
      BY <2>1, <3>1, ExcuseTyped
  <2> QED
    BY <2>1, <2>2, EndCycleTyped
<1>2. CASE UNCHANGED Work!synthesisVars
  <2>1. UNCHANGED <<version, records, cycle, candidates, exact, bySource, next, held,
                    processed, asked, excused>>
    BY <1>2 DEF Work!synthesisVars
  <2>2. Places' = Places
    BY <2>1 DEF Places
  <2>3. WorkTypes'
    BY <2>1, <2>2 DEF WorkTyped, WorkTypes
  <2>4. Staged'
    BY <2>1, <2>2 DEF WorkTyped, Staged, Resting, Holds
  <2> QED
    BY <2>1, <2>2, <2>3, <2>4 DEF WorkTyped, Found, OwnResult
<1>3. ASSUME NEW w \in Workers, Work!Work(w) PROVE WorkTyped'
  BY <1>3, TakeTyped, UseCachedTyped, PromptTyped, AnswerTyped DEF Work!Work
<1> QED
  BY <1>1, <1>2, <1>3, EditTyped, BeginTyped, LookUpTyped, AllDoneTyped, SaveSourceTyped
     DEF Work!SynthesisNext, Captured

-----------------------------------------------------------------------------

\* What is paid: the candidates of a capture that the model may still be asked for are
\* few enough, and what it gave is kept, in hand, or excused.

Of(s, v) == {i \in Places : candidates[i].source = s /\ candidates[i].version = v}

Taken(i) == \E w \in Workers : held[w].at = i /\ held[w].step = "taken"

Open(s, v) == {i \in Of(s, v) : Work!Cached(i) = None /\ (next <= i \/ Taken(i))}

\* The model has been asked, and what it gave is not saved yet.
InHand(i) ==
  \/ \E w \in Workers : held[w].at = i /\ held[w].step \in {"prompt", "compact", "judge"}
  \/ processed[i] # None /\ ~processed[i].cached /\ (cycle = "saving" => next <= i)

Kept(s, v) == IF records[s][v] # None THEN 1 ELSE 0

Paid(s, v) ==
  /\ cycle \in {"idle", "looking"} =>
       asked[s][v] + Cardinality(Of(s, v))
         <= excused[s][v] + Kept(s, v) + (IF Of(s, v) = {} THEN 0 ELSE 1)
  /\ cycle = "working" => asked[s][v] + Cardinality(Open(s, v)) <= excused[s][v] + 1
  /\ asked[s][v] <= excused[s][v] + 1
  /\ asked[s][v] <= excused[s][v] + Kept(s, v) \/ \E i \in Of(s, v) : InHand(i)

\* A post is asked for only where nothing of it was kept, or found.
PaidPost(s) ==
  /\ \A v, w \in Versions :
       v < w /\ asked[s][v] > 0 /\ asked[s][w] > 0 => excused[s][v] + excused[s][w] > 0
  /\ cycle = "working" => \A i \in Places :
       candidates[i].source = s /\ Work!Cached(i) = None =>
         excused[s][version[s]] > 0 \/ \A v \in Versions : records[s][v] = None

PaidInv ==
  /\ \A s \in Captured : \A v \in Versions : Paid(s, v)
  /\ \A s \in Captured \cap Posts : PaidPost(s)

-----------------------------------------------------------------------------

\* The candidates of a capture can be counted.
LEMMA Counts ==
  ASSUME WorkTyped, NEW s \in Captured, NEW v \in Versions
  PROVE  /\ IsFiniteSet(Of(s, v)) /\ Cardinality(Of(s, v)) \in Nat
         /\ Of(s, v) # {} => Cardinality(Of(s, v)) >= 1
         /\ \A T \in SUBSET Of(s, v) : IsFiniteSet(T) /\ Cardinality(T) \in Nat
                                         /\ Cardinality(T) <= Cardinality(Of(s, v))
         /\ asked[s][v] \in Nat /\ excused[s][v] \in Nat /\ Kept(s, v) \in {0, 1}
<1>1. Len(candidates) \in Nat
  BY DEF WorkTyped, WorkTypes
<1>2. IsFiniteSet(Places)
  BY <1>1, FS_Interval DEF Places
<1>3. Of(s, v) \subseteq Places
  BY DEF Of
<1>4. IsFiniteSet(Of(s, v))
  BY <1>2, <1>3, FS_Subset
<1>5. Cardinality(Of(s, v)) \in Nat
  BY <1>4, FS_CardinalityType
<1>6. Of(s, v) # {} => Cardinality(Of(s, v)) # 0
  BY <1>4, FS_EmptySet
<1>7. \A T \in SUBSET Of(s, v) : IsFiniteSet(T) /\ Cardinality(T) <= Cardinality(Of(s, v))
  BY <1>4, FS_Subset
<1>8. \A T \in SUBSET Of(s, v) : Cardinality(T) \in Nat
  BY <1>7, FS_CardinalityType
<1>9. asked[s][v] \in Nat /\ excused[s][v] \in Nat
  BY DEF WorkTyped, WorkTypes
<1> QED
  BY <1>4, <1>5, <1>6, <1>7, <1>8, <1>9 DEF Kept

\* Nothing is asked for.
LEMMA PaidInit == ASSUME WorkSetting, Work!Init PROVE PaidInv
<1>1. candidates = <<>> /\ Places = {} /\ Cardinality({}) = 0 /\ cycle = "idle"
  BY FS_EmptySet DEF Work!Init, Places
<1>2. \A s \in Captured : \A v \in Versions :
        asked[s][v] = 0 /\ excused[s][v] = 0 /\ Of(s, v) = {} /\ records[s][v] = None
  BY <1>1 DEF Work!Init, Captured, Versions, Of
<1>3. ASSUME NEW s \in Captured, NEW v \in Versions PROVE Paid(s, v)
  <2>1. asked[s][v] = 0 /\ excused[s][v] = 0 /\ Of(s, v) = {} /\ Kept(s, v) = 0
    BY <1>2 DEF Kept
  <2>2. Cardinality(Of(s, v)) = 0
    BY <1>1, <2>1
  <2> QED
    BY <1>1, <2>1, <2>2 DEF Paid
<1>4. \A s \in Captured \cap Posts : PaidPost(s)
  BY <1>1, <1>2 DEF PaidPost
<1> QED
  BY <1>3, <1>4 DEF PaidInv

\* Before the pool begins nothing is in hand.
LEMMA NothingInHand ==
  ASSUME WorkTyped, cycle \in {"idle", "looking"}, NEW s \in Captured, NEW v \in Versions,
         Paid(s, v)
  PROVE  asked[s][v] <= excused[s][v] + Kept(s, v)
<1>1. \A i \in Of(s, v) : processed[i] = None /\ \A w \in Workers : held[w].step = "none"
  BY DEF WorkTyped, Staged, Resting, Of
<1>2. \A i \in Of(s, v) : ~InHand(i)
  BY <1>1 DEF InHand
<1> QED
  BY <1>2 DEF Paid

\* An edit, of which the counts know nothing: the cycle is over.
LEMMA EditPaid ==
  ASSUME WorkTyped, PaidInv, NEW s \in Captured, Work!Edit(s)
  PROVE  PaidInv'
<1>1. UNCHANGED <<records, cycle, candidates, exact, bySource, next, held, processed, asked,
                  excused>> /\ cycle = "idle"
  BY DEF Work!Edit
<1>2. ASSUME NEW q \in Captured, NEW v \in Versions PROVE Paid(q, v)'
  <2>1. Of(q, v)' = Of(q, v) /\ Kept(q, v)' = Kept(q, v)
    BY <1>1 DEF Of, Kept, Places
  <2>2. \A i : InHand(i)' <=> InHand(i)
    BY <1>1 DEF InHand
  <2>3. Paid(q, v)
    BY DEF PaidInv
  <2> QED
    BY <1>1, <2>1, <2>2, <2>3 DEF Paid
<1>3. \A q \in Captured \cap Posts : PaidPost(q)'
  BY <1>1 DEF PaidInv, PaidPost
<1> QED
  BY <1>2, <1>3 DEF PaidInv

\* The candidates of a capture that are one too many are excused.
LEMMA BeginPaid ==
  ASSUME WorkSetting, WorkTyped, PaidInv, NEW list \in Lists, Work!Begin(list)
  PROVE  PaidInv'
<1>1. list \in Seq(Captured) /\ Len(list) \in Nat /\ DOMAIN list = 1 .. Len(list)
        /\ \A i \in 1 .. Len(list) : list[i] \in Captured
  BY DEF WorkSetting
<1>2. /\ UNCHANGED <<version, records, exact, bySource, next, held, asked>>
      /\ cycle = "idle" /\ cycle' = "looking" /\ Places = {}
      /\ version \in [Captured -> Versions]
  BY DEF Work!Begin, WorkTyped, WorkTypes, Staged, Places
<1>3. candidates' = [i \in 1 .. Len(list) |->
                       [source |-> list[i], version |-> version[list[i]]]]
  BY <1>1 DEF Work!Begin
<1>4. Places' = 1 .. Len(list)
  BY <1>1, <1>3 DEF Places
<1> DEFINE Had(s) == {i \in DOMAIN list : list[i] = s}
           n(s) == Cardinality(Had(s))
           Over(s) == IF n(s) > 1 THEN n(s) - 1 ELSE 0
<1>5. excused' = [s \in Captured |-> [excused[s] EXCEPT ![version[s]] = @ + Over(s)]]
  BY WorkCardinality DEF Work!Begin, Captured
<1>6. ASSUME NEW s \in Captured
      PROVE  n(s) \in Nat /\ (Had(s) = {} => n(s) = 0) /\ (Had(s) # {} => n(s) # 0)
  <2>1. Had(s) \subseteq 1 .. Len(list)
    BY <1>1
  <2>2. IsFiniteSet(1 .. Len(list))
    BY <1>1, FS_Interval
  <2>3. IsFiniteSet(Had(s))
    BY <2>1, <2>2, FS_Subset
  <2> HIDE DEF Had
  <2> QED
    BY <2>3, FS_CardinalityType, FS_EmptySet
<1>7. ASSUME NEW s \in Captured, NEW v \in Versions
      PROVE  /\ Of(s, v)' = IF v = version[s] THEN Had(s) ELSE {}
             /\ excused'[s][v] = excused[s][v] + (IF v = version[s] THEN Over(s) ELSE 0)
             /\ Over(s) \in Nat
  <2>1. Of(s, v)' = {i \in 1 .. Len(list) : list[i] = s /\ version[list[i]] = v}
    BY <1>3, <1>4 DEF Of
  <2>2. Of(s, v)' = IF v = version[s] THEN Had(s) ELSE {}
    BY <1>1, <2>1
  <2>3. Over(s) \in Nat
    BY <1>6
  <2> HIDE DEF Over
  <2>4. excused \in [Captured -> [Versions -> Nat]]
    BY DEF WorkTyped, WorkTypes
  <2>5. excused'[s][v] = excused[s][v] + (IF v = version[s] THEN Over(s) ELSE 0)
    BY <1>5, <2>3, <2>4
  <2> QED
    BY <2>2, <2>3, <2>5
<1>8. ASSUME NEW s \in Captured, NEW v \in Versions PROVE Paid(s, v)'
  <2>1. /\ Of(s, v) = {} /\ Cardinality({}) = 0 /\ Paid(s, v)
        /\ asked[s][v] \in Nat /\ excused[s][v] \in Nat /\ Kept(s, v) \in {0, 1}
    BY <1>2, FS_EmptySet, Counts DEF Of, PaidInv
  <2>2. asked[s][v] <= excused[s][v] + Kept(s, v)
    BY <1>2, <2>1, NothingInHand
  <2>3. Kept(s, v)' = Kept(s, v) /\ asked' = asked
    BY <1>2 DEF Kept
  <2>4. CASE v = version[s] /\ Had(s) # {}
    <3>1. Of(s, v)' = Had(s) /\ excused'[s][v] = excused[s][v] + n(s) - 1 /\ n(s) \in Nat
            /\ n(s) # 0
      BY <1>6, <1>7, <2>1, <2>4
    <3>2. asked[s][v] + n(s) <= excused'[s][v] + Kept(s, v) + 1
      BY <2>1, <2>2, <3>1
    <3>3. asked[s][v] <= excused'[s][v] + Kept(s, v) /\ asked[s][v] <= excused'[s][v] + 1
      BY <2>1, <2>2, <3>1
    <3> HIDE DEF Had
    <3> QED
      BY <1>2, <2>3, <2>4, <3>1, <3>2, <3>3 DEF Paid
  <2>5. CASE ~(v = version[s] /\ Had(s) # {})
    <3>1. Of(s, v)' = {} /\ excused'[s][v] = excused[s][v]
      <4>1. Over(s) = 0 \/ v # version[s]
        BY <1>6, <2>5
      <4> HIDE DEF Over, Had
      <4>2. Of(s, v)' = {}
        BY <1>7, <2>5
      <4>3. excused'[s][v] = excused[s][v] + 0
        BY <1>7, <4>1
      <4> QED
        BY <2>1, <4>2, <4>3
    <3>2. asked[s][v] <= excused[s][v] + 1
      BY <2>1, <2>2
    <3>3. asked[s][v] + 0 <= excused[s][v] + Kept(s, v) + 0
      BY <2>1, <2>2
    <3> QED
      BY <1>2, <2>1, <2>2, <2>3, <3>1, <3>2, <3>3 DEF Paid
  <2> QED
    BY <2>4, <2>5
<1>9. ASSUME NEW s \in Captured \cap Posts PROVE PaidPost(s)'
  <2>1. ASSUME NEW v \in Versions
        PROVE  /\ excused'[s][v] >= excused[s][v] /\ excused'[s][v] \in Nat
               /\ excused[s][v] \in Nat
    <3>1. excused[s][v] \in Nat
      BY Counts
    <3>2. /\ Over(s) \in Nat
          /\ excused'[s][v] = excused[s][v] + (IF v = version[s] THEN Over(s) ELSE 0)
      BY <1>7
    <3> HIDE DEF Over
    <3> QED
      BY <3>1, <3>2
  <2> QED
    BY <1>2, <2>1 DEF PaidInv, PaidPost
<1> QED
  BY <1>8, <1>9 DEF PaidInv

\* What is found is not asked for; what could not be looked up is excused.
LEMMA LookUpPaid ==
  ASSUME WorkSetting, WorkTyped, PaidInv, Work!LookUp
  PROVE  PaidInv'
<1>1. /\ UNCHANGED <<version, records, candidates, next, held, processed, asked>>
      /\ cycle = "looking" /\ cycle' = "working" /\ next = 1
  BY DEF Work!LookUp, WorkTyped, Staged
<1>2. Places' = Places /\ DOMAIN candidates = Places
  BY <1>1 DEF Places, WorkTyped, WorkTypes
<1> DEFINE Found2 ==
      /\ excused' = excused
      /\ \A i \in Places :
           /\ exact'[i] = Work!Found(candidates[i].source, candidates[i].version)
           /\ bySource'[i] = Work!Found(candidates[i].source,
                                        Work!LatestVersion(candidates[i].source))
<1>3. Found2 \/ Work!Excuse
  BY LookUpTyped
<1>4. excused \in [Captured -> [Versions -> Nat]]
  BY DEF WorkTyped, WorkTypes
<1>5. ASSUME Work!Excuse, NEW s \in Captured, NEW v \in Versions
      PROVE  /\ Of(s, v) # {} => excused'[s][v] = excused[s][v] + 1
             /\ Of(s, v) = {} => excused'[s][v] = excused[s][v]
  <2>1. (\E i \in DOMAIN candidates : candidates[i] = [source |-> s, version |-> v])
          <=> Of(s, v) # {}
    <3>1. ASSUME NEW i \in Places
          PROVE  candidates[i] = [source |-> s, version |-> v]
                   <=> candidates[i].source = s /\ candidates[i].version = v
      BY CandidatesTyped
    <3> QED
      BY <1>2, <3>1 DEF Of
  <2> QED
    BY <1>4, <1>5, <2>1, ExcuseTyped
<1>6. ASSUME NEW s \in Captured, NEW v \in Versions PROVE Paid(s, v)'
  <2>1. Of(s, v)' = Of(s, v) /\ Kept(s, v)' = Kept(s, v)
    BY <1>1, <1>2 DEF Of, Kept
  <2>2. Paid(s, v) /\ asked[s][v] <= excused[s][v] + Kept(s, v)
    BY <1>1, NothingInHand DEF PaidInv
  <2>3. Open(s, v)' \subseteq Of(s, v)
    BY <2>1 DEF Open
  <2>4. /\ Cardinality(Of(s, v)) \in Nat /\ Cardinality(Open(s, v)') \in Nat
        /\ Cardinality(Open(s, v)') <= Cardinality(Of(s, v))
        /\ asked[s][v] \in Nat /\ excused[s][v] \in Nat /\ Kept(s, v) \in {0, 1}
    BY <2>3, Counts
  <2>5. asked[s][v] + Cardinality(Of(s, v))
          <= excused[s][v] + Kept(s, v) + (IF Of(s, v) = {} THEN 0 ELSE 1)
    BY <1>1, <2>2 DEF Paid
  <2>6. CASE Of(s, v) = {}
    <3>1. Open(s, v)' = {}
      BY <2>3, <2>6
    <3>2. Cardinality(Open(s, v)') = 0
      BY <3>1, FS_EmptySet
    <3>3. excused'[s][v] = excused[s][v]
      BY <1>3, <1>5, <2>6
    <3>4. asked[s][v] <= excused[s][v] + 1
      BY <2>2, <2>4
    <3> QED
      BY <1>1, <2>1, <2>2, <2>4, <3>2, <3>3, <3>4 DEF Paid
  <2>7. CASE Of(s, v) # {} /\ Work!Excuse
    <3>1. excused'[s][v] = excused[s][v] + 1
      BY <1>5, <2>7
    <3>2. asked[s][v] + Cardinality(Open(s, v)') <= excused'[s][v] + 1
      BY <2>4, <2>5, <2>7, <3>1
    <3>3. asked[s][v] <= excused'[s][v] + 1 /\ asked[s][v] <= excused'[s][v] + Kept(s, v)
      BY <2>2, <2>4, <3>1
    <3> QED
      BY <1>1, <2>1, <3>2, <3>3 DEF Paid
  <2>8. CASE Of(s, v) # {} /\ Found2 /\ records[s][v] = None
    <3>1. Kept(s, v) = 0
      BY <2>8 DEF Kept
    <3>2. asked[s][v] + Cardinality(Open(s, v)') <= excused[s][v] + 1
      BY <2>4, <2>5, <2>8, <3>1
    <3>3. asked[s][v] <= excused[s][v] + 1 /\ asked[s][v] <= excused[s][v] + Kept(s, v)
      BY <2>2, <2>4
    <3> QED
      BY <1>1, <2>1, <2>8, <3>2, <3>3 DEF Paid
  <2>9. CASE Of(s, v) # {} /\ Found2 /\ records[s][v] # None
    <3>1. \A i \in Of(s, v) : exact'[i] # None
      <4>1. v # 0 /\ v \in Versions \cup {0}
        BY DEF Versions, Work!Versions
      <4>2. Work!Found(s, v) # None
        BY <2>9, <4>1, FoundIsRecord
      <4> QED
        BY <2>9, <4>2 DEF Of
    <3>2. Open(s, v)' = {}
      BY <2>1, <3>1 DEF Open, Work!Cached
    <3>3. Cardinality(Open(s, v)') = 0
      BY <3>2, FS_EmptySet
    <3>4. asked[s][v] + 0 <= excused[s][v] + 1 /\ asked[s][v] <= excused[s][v] + 1
      BY <2>2, <2>4
    <3> QED
      BY <1>1, <2>1, <2>2, <2>9, <3>3, <3>4 DEF Paid
  <2> QED
    BY <1>3, <2>6, <2>7, <2>8, <2>9
<1>7. ASSUME NEW s \in Captured \cap Posts PROVE PaidPost(s)'
  <2>1. ASSUME NEW v \in Versions
        PROVE  excused[s][v] \in Nat /\ excused'[s][v] \in Nat /\ excused'[s][v] >= excused[s][v]
    <3>1. excused[s][v] \in Nat
      BY <1>4
    <3> QED
      BY <1>3, <1>5, <3>1
  <2>2. \A v, w \in Versions :
          v < w /\ asked'[s][v] > 0 /\ asked'[s][w] > 0 => excused'[s][v] + excused'[s][w] > 0
    BY <1>1, <2>1 DEF PaidInv, PaidPost
  <2>3. ASSUME NEW i \in Places, candidates[i].source = s, Work!Cached(i)' = None
        PROVE  excused'[s][version[s]] > 0 \/ \A v \in Versions : records[s][v] = None
    <3>1. candidates[i].version = version[s] /\ version[s] \in Versions
      BY <2>3 DEF WorkTyped, WorkTypes
    <3>2. CASE Work!Excuse
      <4>1. Of(s, version[s]) # {}
        BY <2>3, <3>1 DEF Of
      <4>2. excused'[s][version[s]] = excused[s][version[s]] + 1
        BY <1>5, <3>1, <3>2, <4>1
      <4> QED
        BY <2>1, <3>1, <4>2
    <3>3. CASE Found2
      <4>1. bySource'[i] = None
        BY <1>1, <2>3 DEF Work!Cached
      <4>2. Work!Found(s, Work!LatestVersion(s)) = None
        BY <2>3, <3>3, <4>1
      <4>3. Work!LatestVersion(s) = 0
        BY <4>2, LatestIsGreatest, FoundIsRecord
      <4>4. \A v \in Versions : ~(v <= 0)
        BY DEF Versions, Work!Versions
      <4> QED
        BY <4>3, <4>4, LatestIsGreatest
    <3> QED
      BY <1>3, <3>2, <3>3
  <2>4. \A i \in Places' : candidates'[i].source = s /\ Work!Cached(i)' = None =>
          excused'[s][version'[s]] > 0 \/ \A v \in Versions : records'[s][v] = None
    BY <1>1, <1>2, <2>3
  <2> QED
    BY <2>2, <2>4 DEF PaidPost
<1> QED
  BY <1>6, <1>7 DEF PaidInv

-----------------------------------------------------------------------------

\* A step of the pool that asks for nothing: what may be asked for stays, what is in hand
\* stays in hand.
LEMMA PoolKeepsPaid ==
  ASSUME WorkTyped, PaidInv, AtWork, UNCHANGED asked,
         \A i \in Places : Work!Cached(i) = None =>
            ((next' <= i \/ Taken(i)') <=> (next <= i \/ Taken(i))),
         \A i \in Places : InHand(i) => InHand(i)'
  PROVE  PaidInv'
<1>1. \A i \in Places : Work!Cached(i)' = Work!Cached(i)
  BY DEF Work!Cached, AtWork
<1>2. Places' = Places
  BY DEF Places, AtWork
<1>3. ASSUME NEW s \in Captured, NEW v \in Versions PROVE Paid(s, v)'
  <2>1. Of(s, v)' = Of(s, v) /\ Kept(s, v)' = Kept(s, v) /\ Of(s, v) \subseteq Places
    BY <1>2 DEF Of, Kept, AtWork
  <2>2. Open(s, v)' = Open(s, v)
    BY <1>1, <2>1 DEF Open
  <2>3. Paid(s, v)
    BY DEF PaidInv
  <2> QED
    BY <2>1, <2>2, <2>3 DEF Paid, AtWork
<1>4. \A s \in Captured \cap Posts : PaidPost(s)'
  BY <1>1, <1>2 DEF PaidInv, PaidPost, AtWork
<1> QED
  BY <1>3, <1>4 DEF PaidInv

\* A candidate that is taken could be asked for before, and still can.
LEMMA TakePaid ==
  ASSUME WorkSetting, WorkTyped, PaidInv, NEW w \in Workers, Work!Take(w)
  PROVE  PaidInv'
<1>1. /\ AtWork /\ UNCHANGED <<processed, asked>>
      /\ held[w] = Work!Free /\ next \in Places /\ next' = next + 1
      /\ held' = [held EXCEPT ![w] = [at |-> next, step |-> "taken"]]
  BY DEF Work!Take, AtWork, WorkTyped, WorkTypes, Places
<1>2. held \in [Workers -> [at : 0 .. Len(candidates), step : HeldSteps \cup {"none"}]]
  BY DEF WorkTyped, WorkTypes
<1>3. /\ held'[w].at = next /\ held'[w].step = "taken"
      /\ \A x \in Workers \ {w} : held'[x] = held[x]
      /\ held[w].at = 0 /\ held[w].step = "none"
  BY <1>1, <1>2
<1>4. ASSUME NEW i \in Places
      PROVE  (next' <= i \/ Taken(i)') <=> (next <= i \/ Taken(i))
  <2>1. i \in Nat /\ i # 0 /\ next \in Nat
    BY <1>1, CandidatesTyped
  <2>2. Taken(i)' <=> Taken(i) \/ i = next
    BY <1>3, <2>1 DEF Taken
  <2> QED
    BY <1>1, <2>1, <2>2
<1>5. ASSUME NEW i \in Places, InHand(i) PROVE InHand(i)'
  <2>1. cycle # "saving" /\ cycle' = cycle
    BY DEF Work!Take
  <2>2. CASE processed[i] # None /\ ~processed[i].cached
    BY <1>1, <2>1, <2>2 DEF InHand
  <2>3. CASE \E x \in Workers : held[x].at = i /\ held[x].step \in {"prompt", "compact", "judge"}
    <3>1. PICK x \in Workers : held[x].at = i /\ held[x].step \in {"prompt", "compact", "judge"}
      BY <2>3
    <3>2. x # w
      BY <1>3, <3>1
    <3> QED
      BY <1>3, <3>1, <3>2 DEF InHand
  <2> QED
    BY <1>5, <2>2, <2>3 DEF InHand
<1> QED
  BY <1>1, <1>4, <1>5, PoolKeepsPaid

\* A candidate whose record was found was not to be asked for.
LEMMA UseCachedPaid ==
  ASSUME WorkSetting, WorkTyped, PaidInv, NEW w \in Workers, Work!UseCached(w)
  PROVE  PaidInv'
<1>1. /\ AtWork /\ UNCHANGED <<next, asked>>
      /\ held[w].step = "taken" /\ held[w].at \in Places /\ held'[w] = Work!Free
      /\ \A x \in Workers \ {w} : held'[x] = held[x] /\ held[x].at # held[w].at
      /\ \A i \in Places \ {held[w].at} : processed'[i] = processed[i]
  BY UseCachedTyped
<1>2. Work!Cached(held[w].at) # None
  BY DEF Work!UseCached
<1>3. processed[held[w].at] = None /\ cycle = "working"
  BY <1>1, HoldsOne DEF Holds, HeldSteps
<1>4. ASSUME NEW i \in Places, i # held[w].at PROVE Taken(i)' <=> Taken(i)
  <2>1. held'[w].at # i
    BY <1>1, CandidatesTyped
  <2> QED
    BY <1>1, <1>4, <2>1 DEF Taken
<1>5. ASSUME NEW i \in Places, InHand(i) PROVE InHand(i)'
  <2>1. i # held[w].at
    BY <1>1, <1>3, <1>5 DEF InHand
  <2> QED
    BY <1>1, <1>3, <1>5, <2>1 DEF InHand, AtWork
<1> QED
  BY <1>1, <1>2, <1>4, <1>5, PoolKeepsPaid

\* What was asked for stays in hand, with the worker or as the result.
LEMMA AnswerPaid ==
  ASSUME WorkSetting, WorkTyped, PaidInv, NEW w \in Workers,
         Work!Answer(w) \/ Work!CompactAnswer(w) \/ Work!Judge(w)
  PROVE  PaidInv'
<1>1. /\ AtWork /\ UNCHANGED <<next, asked>>
      /\ held[w].step \in {"prompt", "compact", "judge"} /\ held[w].at \in Places
      /\ \A x \in Workers \ {w} : held'[x] = held[x] /\ held[x].at # held[w].at
      /\ \A i \in Places \ {held[w].at} : processed'[i] = processed[i]
      /\ \/ held'[w].at = held[w].at /\ held'[w].step \in {"prompt", "compact", "judge"}
         \/ /\ held'[w] = Work!Free
            /\ processed'[held[w].at] # None /\ ~processed'[held[w].at].cached
  BY AnswerTyped
<1>2. cycle = "working" /\ cycle' = "working"
  BY <1>1, HoldsOne DEF HeldSteps, AtWork
<1>3. held[w].step # "taken" /\ held'[w].step # "taken"
  BY <1>1
<1>4. \A i \in Places : Taken(i)' <=> Taken(i)
  BY <1>1, <1>3 DEF Taken
<1>5. ASSUME NEW i \in Places, InHand(i) PROVE InHand(i)'
  <2>1. CASE i = held[w].at
    BY <1>1, <1>2, <2>1 DEF InHand
  <2>2. CASE i # held[w].at
    BY <1>1, <1>2, <1>5, <2>2 DEF InHand
  <2> QED
    BY <2>1, <2>2
<1> QED
  BY <1>1, <1>4, <1>5, PoolKeepsPaid

\* The model is asked for one candidate that it could be asked for.
LEMMA PromptPaid ==
  ASSUME WorkSetting, WorkTyped, PaidInv, NEW w \in Workers, Work!Prompt(w)
  PROVE  PaidInv'
<1> DEFINE at == held[w].at
           c == candidates[at]
<1>1. /\ AtWork /\ UNCHANGED <<next, processed>>
      /\ held[w].step = "taken" /\ at \in Places /\ held'[w].step = "prompt"
      /\ held'[w].at = at /\ \A x \in Workers \ {w} : held'[x] = held[x]
      /\ \A s \in Captured : \A v \in Versions :
           asked'[s][v] = asked[s][v] + (IF c.source = s /\ c.version = v THEN 1 ELSE 0)
  BY PromptTyped
<1>2. cycle = "working" /\ cycle' = "working" /\ at < next
        /\ \A x \in Workers \ {w} : held[x].at # at
  BY <1>1, HoldsOne DEF HeldSteps, AtWork, Holds
<1>3. Work!Cached(at) = None /\ \A i \in Places : Work!Cached(i)' = Work!Cached(i)
  BY <1>1 DEF Work!Prompt, Work!Cached, AtWork
<1>4. c.source \in Captured /\ c.version \in Versions /\ c.version = version[c.source]
  BY <1>1, CandidatesTyped DEF WorkTyped, WorkTypes
<1>5. Places' = Places
  BY <1>1 DEF Places, AtWork
<1>6. \A i \in Places : InHand(i) => InHand(i)'
  BY <1>1, <1>2 DEF InHand
<1>7. \A i : i = at => InHand(i)'
  BY <1>1 DEF InHand
<1>8. \A i \in Places : Taken(i)' <=> Taken(i) /\ i # at
  BY <1>1, <1>2 DEF Taken
<1>9. ~(next <= at) /\ Taken(at)
  <2>1. at \in Nat
    BY <1>1, CandidatesTyped
  <2>2. Len(candidates) \in Nat /\ next \in 1 .. Len(candidates) + 1
    BY DEF WorkTyped, WorkTypes
  <2>3. ~(next <= at)
    BY <1>2, <2>1, <2>2
  <2>4. Taken(at)
    BY <1>1 DEF Taken
  <2> QED
    BY <2>3, <2>4
<1>10. ASSUME NEW s \in Captured, NEW v \in Versions
       PROVE  /\ Of(s, v)' = Of(s, v) /\ Of(s, v) \subseteq Places
              /\ Open(s, v)' = Open(s, v) \ {at}
              /\ at \in Of(s, v) <=> c.source = s /\ c.version = v
              /\ at \in Of(s, v) => at \in Open(s, v)
              /\ Kept(s, v)' = Kept(s, v)
  <2>1. Of(s, v)' = Of(s, v) /\ Of(s, v) \subseteq Places /\ Kept(s, v)' = Kept(s, v)
    BY <1>1, <1>5 DEF Of, AtWork, Kept
  <2>2. Open(s, v)' = Open(s, v) \ {at}
    BY <1>1, <1>3, <1>8, <1>9, <2>1 DEF Open
  <2>3. at \in Of(s, v) <=> c.source = s /\ c.version = v
    BY <1>1 DEF Of
  <2>4. at \in Of(s, v) => at \in Open(s, v)
    BY <1>3, <1>9 DEF Open
  <2> QED
    BY <2>1, <2>2, <2>3, <2>4
<1> HIDE DEF at, c
<1>11. ASSUME NEW s \in Captured, NEW v \in Versions PROVE Paid(s, v)'
  <2>1. Paid(s, v) /\ UNCHANGED excused
    BY <1>1 DEF PaidInv, AtWork
  <2>2. Open(s, v) \subseteq Of(s, v)
    BY DEF Open
  <2>3. /\ asked[s][v] \in Nat /\ excused[s][v] \in Nat /\ Kept(s, v) \in {0, 1}
        /\ IsFiniteSet(Open(s, v)) /\ Cardinality(Open(s, v)) \in Nat
    BY <2>2, Counts
  <2>4. asked[s][v] + Cardinality(Open(s, v)) <= excused[s][v] + 1
    BY <1>2, <2>1 DEF Paid
  <2>5. CASE at \in Of(s, v)
    <3>1. asked'[s][v] = asked[s][v] + 1
      BY <1>1, <1>10, <2>5
    <3>2. Cardinality(Open(s, v)') = Cardinality(Open(s, v)) - 1
      BY <1>10, <2>3, <2>5, FS_RemoveElement
    <3>3. Cardinality(Open(s, v)') \in Nat
      BY <1>10, <2>3, FS_RemoveElement, FS_Subset, FS_CardinalityType
    <3>4. /\ asked'[s][v] + Cardinality(Open(s, v)') <= excused[s][v] + 1
          /\ asked'[s][v] <= excused[s][v] + 1
      BY <2>3, <2>4, <3>1, <3>2, <3>3
    <3>5. at \in Of(s, v)'
      BY <1>10, <2>5
    <3>6. cycle' \notin {"idle", "looking"}
      BY <1>2
    <3>7. asked'[s][v] <= excused'[s][v] + 1
            /\ asked'[s][v] + Cardinality(Open(s, v)') <= excused'[s][v] + 1
      BY <2>1, <3>4
    <3>8. \E i \in Of(s, v)' : InHand(i)'
      BY <1>7, <3>5
    <3> QED
      BY <3>6, <3>7, <3>8 DEF Paid
  <2>6. CASE at \notin Of(s, v)
    <3>1. asked'[s][v] = asked[s][v]
      BY <1>1, <1>10, <2>3, <2>6
    <3>2. Open(s, v)' = Open(s, v)
      BY <1>10, <2>2, <2>6
    <3> QED
      BY <1>2, <1>6, <1>10, <2>1, <3>1, <3>2 DEF Paid
  <2> QED
    BY <2>5, <2>6
<1>12. ASSUME NEW s \in Captured \cap Posts PROVE PaidPost(s)'
  <2>1. PaidPost(s) /\ UNCHANGED <<excused, records, version, candidates>>
    BY <1>1 DEF PaidInv, AtWork
  <2>2. \A v \in Versions : asked[s][v] \in Nat /\ excused[s][v] \in Nat
    BY Counts
  <2>3. ASSUME NEW v \in Versions, NEW u \in Versions, v # u,
               asked'[s][v] > 0, asked'[s][u] > 0
        PROVE  excused[s][v] + excused[s][u] > 0
    <3>1. CASE c.source # s \/ c.version \notin {v, u}
      <4>1. asked'[s][v] = asked[s][v] /\ asked'[s][u] = asked[s][u]
        BY <1>1, <2>2, <3>1
      <4>2. v < u \/ u < v
        BY <2>3 DEF Versions, Work!Versions
      <4> QED
        BY <2>1, <2>2, <2>3, <4>1, <4>2 DEF PaidPost
    <3>2. CASE c.source = s /\ c.version \in {v, u}
      <4>1. PICK o \in {v, u} : o # version[s]
        BY <1>4, <2>3, <3>2
      <4>2. version[s] \in {v, u} /\ o \in Versions
        BY <1>4, <3>2
      <4>3. asked'[s][o] = asked[s][o] /\ asked[s][o] > 0
        BY <1>1, <1>4, <2>2, <2>3, <3>2, <4>1, <4>2
      <4>4. CASE excused[s][version[s]] > 0
        BY <2>2, <4>2, <4>4
      <4>5. CASE \A q \in Versions : records[s][q] = None
        <5>1. Of(s, o) = {}
          BY <4>1 DEF Of, WorkTyped, WorkTypes
        <5>2. Paid(s, o) /\ Kept(s, o) = 0
          BY <4>2, <4>5 DEF PaidInv, Kept
        <5>3. asked[s][o] <= excused[s][o] + 0
          BY <5>1, <5>2 DEF Paid
        <5> QED
          BY <2>2, <4>2, <4>3, <5>3
      <4> QED
        BY <1>1, <1>2, <1>3, <2>1, <3>2, <4>4, <4>5 DEF PaidPost, at, c
    <3> QED
      BY <3>1, <3>2
  <2>4. \A v, u \in Versions :
          v < u /\ asked'[s][v] > 0 /\ asked'[s][u] > 0 => excused'[s][v] + excused'[s][u] > 0
    <3>1. \A v, u \in Versions : v < u => v # u
      BY DEF Versions, Work!Versions
    <3> QED
      BY <2>1, <2>3, <3>1
  <2> QED
    BY <1>2, <1>3, <1>5, <2>1, <2>4 DEF PaidPost
<1> QED
  BY <1>11, <1>12 DEF PaidInv

-----------------------------------------------------------------------------

\* The results are in hand until they are saved.
LEMMA AllDonePaid ==
  ASSUME WorkTyped, PaidInv, Work!AllDone
  PROVE  PaidInv'
<1>1. /\ UNCHANGED <<version, records, candidates, processed, asked, excused>>
      /\ cycle = "working" /\ cycle' = "saving" /\ next' = 1
      /\ \A w \in Workers : held[w] = Work!Free
  BY DEF Work!AllDone
<1>2. ASSUME NEW i \in Places, InHand(i) PROVE InHand(i)'
  <2>1. processed[i] # None /\ ~processed[i].cached
    BY <1>1, <1>2 DEF InHand
  <2>2. 1 <= i
    BY CandidatesTyped
  <2> QED
    BY <1>1, <2>1, <2>2 DEF InHand
<1>3. ASSUME NEW s \in Captured, NEW v \in Versions PROVE Paid(s, v)'
  <2>1. Of(s, v)' = Of(s, v) /\ Kept(s, v)' = Kept(s, v) /\ Of(s, v) \subseteq Places
    BY <1>1 DEF Of, Kept, Places
  <2>2. Paid(s, v)
    BY DEF PaidInv
  <2> QED
    BY <1>1, <1>2, <2>1, <2>2 DEF Paid
<1>4. \A s \in Captured \cap Posts : PaidPost(s)'
  BY <1>1 DEF PaidInv, PaidPost
<1> QED
  BY <1>3, <1>4 DEF PaidInv

\* What the model gave of a capture is saved as that of the capture.
LEMMA SaveSourcePaid ==
  ASSUME WorkSetting, WorkTyped, PaidInv, Work!SaveSource
  PROVE  PaidInv'
<1>1. /\ UNCHANGED <<version, candidates, held, processed, asked, excused>>
      /\ cycle = "saving" /\ cycle' = "saving" /\ next' = next + 1
  BY DEF Work!SaveSource
<1>2. /\ next \in Places /\ processed[next] \in Work!Record /\ OwnResult(next, processed[next])
      /\ \A s \in Captured : \A v \in Versions :
           records'[s][v] = IF processed[next].source = s /\ processed[next].version = v
                            THEN processed[next].by ELSE records[s][v]
  BY SaveSourceTyped
<1>3. processed[next].by # None
  BY <1>2 DEF Work!Record, WorkSetting
<1>4. ASSUME NEW s \in Captured, NEW v \in Versions PROVE Paid(s, v)'
  <2>1. Of(s, v)' = Of(s, v) /\ Of(s, v) \subseteq Places
    BY <1>1 DEF Of, Places
  <2>2. Paid(s, v) /\ asked[s][v] \in Nat /\ excused[s][v] \in Nat /\ Kept(s, v) \in {0, 1}
    BY Counts DEF PaidInv
  <2>3. Kept(s, v)' \in {0, 1} /\ Kept(s, v)' >= Kept(s, v)
    BY <1>2, <1>3 DEF Kept
  <2>4. CASE asked[s][v] <= excused[s][v] + Kept(s, v)
    <3>1. asked[s][v] <= excused[s][v] + Kept(s, v)'
      BY <2>2, <2>3, <2>4
    <3> QED
      BY <1>1, <2>1, <2>2, <3>1 DEF Paid
  <2>5. CASE \E i \in Of(s, v) : InHand(i)
    <3>1. PICK i \in Of(s, v) : InHand(i)
      BY <2>5
    <3>2. \A w \in Workers : held[w] = Work!Free
      BY <1>1 DEF WorkTyped, Staged, Resting
    <3>3. processed[i] # None /\ ~processed[i].cached /\ next <= i
      BY <1>1, <3>1, <3>2 DEF InHand
    <3>4. CASE i = next
      <4>1. processed[next].source = s /\ processed[next].version = v
        BY <1>2, <3>1, <3>3, <3>4 DEF Of, OwnResult
      <4>2. Kept(s, v)' = 1
        BY <1>2, <1>3, <4>1 DEF Kept
      <4> QED
        BY <1>1, <2>1, <2>2, <4>2 DEF Paid
    <3>5. CASE i # next
      <4>1. next + 1 <= i
        BY <1>2, <2>1, <3>1, <3>3, <3>5, CandidatesTyped
      <4>2. InHand(i)'
        BY <1>1, <3>3, <4>1 DEF InHand
      <4> QED
        BY <1>1, <2>1, <2>2, <3>1, <4>2 DEF Paid
    <3> QED
      BY <3>4, <3>5
  <2> QED
    BY <2>2, <2>4, <2>5 DEF Paid
<1>5. \A s \in Captured \cap Posts : PaidPost(s)'
  BY <1>1 DEF PaidInv, PaidPost
<1> QED
  BY <1>4, <1>5 DEF PaidInv

\* When a cycle is over, nothing in hand is lost that is not excused.
LEMMA EndPaid ==
  ASSUME WorkSetting, WorkTyped, PaidInv, Work!Saved \/ Work!Crash
  PROVE  PaidInv'
<1>1. UNCHANGED <<version, records, asked>> /\ cycle' = "idle" /\ candidates' = <<>>
  BY DEF Work!Saved, Work!Crash, Work!EndCycle
<1>2. excused \in [Captured -> [Versions -> Nat]] /\ DOMAIN candidates = Places
  BY DEF WorkTyped, WorkTypes, Places
<1>3. ASSUME NEW s \in Captured, NEW v \in Versions
      PROVE  excused'[s][v] \in Nat /\ excused'[s][v] >= excused[s][v]
  <2>1. excused[s][v] \in Nat
    BY <1>2
  <2>2. UNCHANGED excused \/ Work!Excuse
    BY DEF Work!Saved, Work!Crash
  <2>3. CASE UNCHANGED excused
    BY <2>1, <2>3
  <2>4. CASE Work!Excuse
    <3> DEFINE more == IF \E i \in DOMAIN candidates : candidates[i] = [source |-> s,
      version |-> v]
                       THEN 1 ELSE 0
    <3>1. excused'[s][v] = excused[s][v] + more
      BY <1>2, <2>4, ExcuseTyped
    <3>2. more \in Nat
      OBVIOUS
    <3> HIDE DEF more
    <3> QED
      BY <2>1, <3>1, <3>2
  <2> QED
    BY <2>2, <2>3, <2>4
<1>4. ASSUME NEW s \in Captured, NEW v \in Versions PROVE Paid(s, v)'
  <2>1. Paid(s, v) /\ asked[s][v] \in Nat /\ excused[s][v] \in Nat /\ Kept(s, v) \in {0, 1}
    BY Counts DEF PaidInv
  <2>2. Of(s, v)' = {} /\ Cardinality({}) = 0 /\ Kept(s, v)' = Kept(s, v)
    <3>1. Places' = {}
      BY <1>1 DEF Places
    <3> QED
      BY <1>1, <3>1, FS_EmptySet DEF Of, Kept
  <2>3. asked[s][v] <= excused'[s][v] + Kept(s, v)
    <3>1. CASE asked[s][v] <= excused[s][v] + Kept(s, v)
      BY <1>3, <2>1, <3>1
    <3>2. CASE \E i \in Of(s, v) : InHand(i)
      <4>1. PICK i \in Of(s, v) : InHand(i)
        BY <3>2
      <4>2. i \in Places /\ candidates[i] = [source |-> s, version |-> v]
        BY CandidatesTyped DEF Of
      <4>3. CASE Work!Crash
        <5>1. excused'[s][v] = excused[s][v] + 1
          BY <1>2, <4>2, <4>3, ExcuseTyped DEF Work!Crash
        <5> QED
          BY <2>1, <5>1 DEF Paid
      <4>4. CASE Work!Saved
        <5>1. cycle = "saving" /\ next > Len(candidates) /\ next \in Nat /\ i \in Nat
                /\ i <= Len(candidates) /\ Len(candidates) \in Nat
          <6>1. cycle = "saving" /\ next > Len(candidates)
            BY <4>4 DEF Work!Saved
          <6>2. Len(candidates) \in Nat /\ next \in 1 .. Len(candidates) + 1
            BY DEF WorkTyped, WorkTypes
          <6>3. i \in Nat /\ i <= Len(candidates)
            BY <4>2, CandidatesTyped
          <6> QED
            BY <6>1, <6>2, <6>3
        <5>2. \A w \in Workers : held[w] = Work!Free
          BY <5>1 DEF WorkTyped, Staged, Resting
        <5>3. next <= i
          BY <4>1, <5>1, <5>2 DEF InHand
        <5> QED
          BY <5>1, <5>3
      <4> QED
        BY <4>3, <4>4
    <3> QED
      BY <2>1, <3>1, <3>2 DEF Paid
  <2>4. asked[s][v] <= excused'[s][v] + 1
    BY <1>3, <2>1, <2>3
  <2>5. asked[s][v] + 0 <= excused'[s][v] + Kept(s, v) + 0
    BY <1>3, <2>1, <2>3
  <2>6. Cardinality(Of(s, v)') = 0
    BY <2>2
  <2> QED
    BY <1>1, <2>2, <2>3, <2>4, <2>5, <2>6 DEF Paid
<1>5. ASSUME NEW s \in Captured \cap Posts PROVE PaidPost(s)'
  <2>1. \A v \in Versions : excused[s][v] \in Nat
    BY Counts
  <2> QED
    BY <1>1, <1>3, <2>1 DEF PaidInv, PaidPost
<1> QED
  BY <1>4, <1>5 DEF PaidInv

\* Every step keeps the counts.
LEMMA PaidNext ==
  ASSUME WorkSetting, WorkTyped, PaidInv, [Work!SynthesisNext]_(Work!synthesisVars)
  PROVE  PaidInv'
<1>1. CASE UNCHANGED Work!synthesisVars
  <2>1. AtWork /\ UNCHANGED <<next, held, processed, asked>>
    BY <1>1 DEF Work!synthesisVars, AtWork
  <2>2. \A i \in Places : (InHand(i) <=> InHand(i)') /\ (Taken(i) <=> Taken(i)')
    BY <2>1 DEF InHand, Taken, AtWork
  <2> QED
    BY <2>1, <2>2, PoolKeepsPaid
<1>2. ASSUME NEW w \in Workers, Work!Work(w) PROVE PaidInv'
  BY <1>2, TakePaid, UseCachedPaid, PromptPaid, AnswerPaid DEF Work!Work
<1> QED
  BY <1>1, <1>2, EditPaid, BeginPaid, LookUpPaid, AllDonePaid, SaveSourcePaid, EndPaid
     DEF Work!SynthesisNext, Captured

\* The counts bound what WorkersSound bounds.
LEMMA PaidIsSound ==
  ASSUME WorkTyped, PaidInv
  PROVE  WorkersSound
<1>1. Work!ResultsInOrder
  BY DEF Work!ResultsInOrder, WorkTyped, WorkTypes, OwnResult
<1>2. ASSUME NEW s \in Captured, NEW v \in Versions PROVE asked[s][v] <= 1 + excused[s][v]
  BY Counts DEF PaidInv, Paid
<1>3. Work!PaidOnce
  BY <1>2 DEF Work!PaidOnce, PaidInv, PaidPost, Captured, Versions
<1> QED
  BY <1>1, <1>3 DEF WorkersSound, Work!WorkersSound

\* The model is paid once for a capture but for what was lost, not found or listed twice,
\* and a result is its candidate's: for any workers, lists and cycles, with a failed lookup
\* or a death at any step of a cycle.
THEOREM WorkersAreSound == Spec => []WorkersSound
<1> DEFINE Inv == WorkTyped /\ PaidInv
<1>1. Init => Inv
  BY WorkSettingHolds, WorkInitTyped, PaidInit DEF Init
<1>2. Inv /\ [Next]_vars => Inv'
  BY WorkSettingHolds, PartSteps, WorkNextTyped, PaidNext
<1>3. Inv => WorkersSound
  BY PaidIsSound
<1> QED
  BY <1>1, <1>2, <1>3, PTL DEF Spec

-----------------------------------------------------------------------------

\* What the inbox shows: lists first.

\* What holds at 0 and goes on to the next number holds up to n.
LEMMA UpTo ==
  ASSUME NEW n \in Nat, NEW T, 0 \in T, \A k \in 1 .. n : k - 1 \in T => k \in T
  PROVE  0 .. n \subseteq T
<1> SUFFICES ASSUME (0 .. n) \ T # {} PROVE FALSE
  OBVIOUS
<1>0. (0 .. n) \ T \subseteq Nat
  OBVIOUS
<1>1. PICK k \in (0 .. n) \ T : \A j \in (0 .. n) \ T : k <= j
  BY <1>0, LeastExists
<1>2. k # 0 /\ k - 1 \in 0 .. n /\ ~(k <= k - 1)
  BY <1>1
<1> QED
  BY <1>1, <1>2

\* f is the recursion from a, by the steps of g, in S.
Recursion(f, n, S, a, g) ==
  /\ f \in [0 .. n -> S]
  /\ f[0] = a
  /\ \A k \in 1 .. n : f[k] = g[k][f[k - 1]]

\* A recursion whose steps stay in S has a solution.
LEMMA RecursionExists ==
  ASSUME NEW n \in Nat, NEW S, NEW a \in S, NEW g \in [1 .. n -> [S -> S]]
  PROVE  \E f : Recursion(f, n, S, a, g)
<1> DEFINE Solved(f, m) == f[0] = a /\ \A k \in 1 .. m : f[k] = g[k][f[k - 1]]
           T == {m \in 0 .. n : \E f \in [0 .. n -> S] : Solved(f, m)}
<1>1. 0 \in T
  <2>1. [k \in 0 .. n |-> a] \in [0 .. n -> S] /\ Solved([k \in 0 .. n |-> a], 0)
    OBVIOUS
  <2>2. 0 \in 0 .. n
    OBVIOUS
  <2> HIDE DEF Solved
  <2> QED
    BY <2>1, <2>2
<1>2. ASSUME NEW m \in 1 .. n, m - 1 \in T PROVE m \in T
  <2>1. PICK f \in [0 .. n -> S] : Solved(f, m - 1)
    BY <1>2
  <2> DEFINE h == [f EXCEPT ![m] = g[m][f[m - 1]]]
  <2>2. h \in [0 .. n -> S]
    OBVIOUS
  <2>3. \A k \in 0 .. n : h[k] = IF k = m THEN g[m][f[m - 1]] ELSE f[k]
    OBVIOUS
  <2>4. Solved(h, m)
    <3> HIDE DEF h
    <3>1. ASSUME NEW k \in 1 .. m PROVE h[k] = g[k][h[k - 1]]
      <4>1. k \in 0 .. n /\ k - 1 \in 0 .. n /\ k - 1 # m /\ (k # m => k \in 1 .. m - 1)
        OBVIOUS
      <4> QED
        BY <2>1, <2>3, <4>1
    <3>2. h[0] = a
      BY <2>1, <2>3
    <3> QED
      BY <3>1, <3>2
  <2> HIDE DEF h, Solved
  <2> QED
    BY <2>2, <2>4
<1>3. n \in T
  <2> HIDE DEF T
  <2>1. 0 .. n \subseteq T
    BY <1>1, <1>2, UpTo
  <2> QED
    BY <2>1
<1> QED
  BY <1>3 DEF Recursion

\* One more item.
LEMMA RangeOfAppend ==
  ASSUME NEW S, NEW s \in Seq(S), NEW x \in S
  PROVE  In!Range(Append(s, x)) = In!Range(s) \cup {x}
<1>1. /\ DOMAIN Append(s, x) = 1 .. Len(s) + 1 /\ DOMAIN s = 1 .. Len(s) /\ Len(s) \in Nat
      /\ \A i \in 1 .. Len(s) + 1 : Append(s, x)[i] = IF i <= Len(s) THEN s[i] ELSE x
  OBVIOUS
<1>2. \A y \in In!Range(Append(s, x)) : y \in In!Range(s) \cup {x}
  BY <1>1 DEF In!Range
<1>3. \A y \in In!Range(s) \cup {x} : y \in In!Range(Append(s, x))
  <2>1. \A i \in DOMAIN s : i \in 1 .. Len(s) + 1 /\ i <= Len(s)
    BY <1>1
  <2>2. Len(s) + 1 \in 1 .. Len(s) + 1 /\ ~(Len(s) + 1 <= Len(s))
    BY <1>1
  <2> QED
    BY <1>1, <2>1, <2>2 DEF In!Range
<1> QED
  BY <1>2, <1>3

\* At keeps the items of these places.
LEMMA AtSolved ==
  ASSUME NEW S, NEW s \in Seq(S), NEW places
  PROVE  \E at \in [0 .. Len(s) -> Seq(S)] :
           /\ In!At(s, places) = at[Len(s)]
           /\ at[0] = <<>>
           /\ \A n \in 1 .. Len(s) :
                at[n] = IF n \in places THEN Append(at[n - 1], s[n]) ELSE at[n - 1]
<1> DEFINE Step(f, n) == IF n \in places THEN Append(f[n - 1], s[n]) ELSE f[n - 1]
           Solves(f) == f = [n \in 0 .. Len(s) |-> IF n = 0 THEN <<>> ELSE Step(f, n)]
           g == [n \in 1 .. Len(s) |-> [kept \in Seq(S) |->
                   IF n \in places THEN Append(kept, s[n]) ELSE kept]]
<1>1. g \in [1 .. Len(s) -> [Seq(S) -> Seq(S)]]
  OBVIOUS
<1>2. Len(s) \in Nat /\ <<>> \in Seq(S)
  OBVIOUS
<1>3. PICK f : Recursion(f, Len(s), Seq(S), <<>>, g)
  <2> HIDE DEF g
  <2> QED
    BY <1>1, <1>2, RecursionExists
<1>31. /\ f \in [0 .. Len(s) -> Seq(S)]
       /\ f[0] = <<>> /\ \A k \in 1 .. Len(s) : f[k] = g[k][f[k - 1]]
  <2> HIDE DEF g
  <2> QED
    BY <1>3 DEF Recursion
<1>4. \A k \in 1 .. Len(s) : f[k - 1] \in Seq(S)
  <2> DEFINE all == Seq(S)
             n == Len(s)
  <2>1. f \in [0 .. n -> all] /\ n \in Nat
    BY <1>2, <1>31
  <2> HIDE DEF all, n
  <2>2. \A k \in 1 .. n : f[k - 1] \in all
    BY <2>1
  <2> QED
    BY <2>2 DEF all, n
<1>5. \A k \in 1 .. Len(s) : f[k] = Step(f, k)
  BY <1>2, <1>31, <1>4
<1>6. Solves(f)
  <2> HIDE DEF Step
  <2>1. \A k \in 0 .. Len(s) : f[k] = IF k = 0 THEN <<>> ELSE Step(f, k)
    BY <1>2, <1>31, <1>5
  <2>2. f = [k \in 0 .. Len(s) |-> f[k]]
    BY <1>31
  <2> QED
    BY <2>1, <2>2
<1> DEFINE at == CHOOSE h : Solves(h)
<1>7. Solves(at)
  <2> HIDE DEF Solves
  <2> QED
    BY <1>6
<1>8. In!At(s, places) = at[Len(s)]
  BY DEF In!At
<1> HIDE DEF at
<1>9. \A n \in 0 .. Len(s) : at[n] = IF n = 0 THEN <<>> ELSE Step(at, n)
  BY <1>7
<1>10. \A n \in 0 .. Len(s) : at[n] \in Seq(S)
  <2> DEFINE T == {n \in 0 .. Len(s) : at[n] \in Seq(S)}
  <2>1. 0 \in T
    <3>1. 0 \in 0 .. Len(s) /\ at[0] = <<>>
      BY <1>2, <1>9
    <3> QED
      BY <1>2, <3>1
  <2>2. ASSUME NEW k \in 1 .. Len(s), k - 1 \in T PROVE k \in T
    <3>1. at[k] = Step(at, k) /\ at[k - 1] \in Seq(S) /\ s[k] \in S
      BY <1>2, <1>9, <2>2
    <3>2. Append(at[k - 1], s[k]) \in Seq(S)
      BY <3>1
    <3>3. at[k] \in Seq(S)
      BY <3>1, <3>2
    <3> QED
      BY <3>3
  <2>3. 0 .. Len(s) \subseteq T
    <3> HIDE DEF T
    <3> QED
      BY <1>2, <2>1, <2>2, UpTo
  <2> QED
    BY <2>3
<1>11. at = [n \in 0 .. Len(s) |-> IF n = 0 THEN <<>> ELSE Step(at, n)]
  BY <1>7
<1>12. at \in [0 .. Len(s) -> Seq(S)]
  <2> HIDE DEF Step
  <2> QED
    BY <1>10, <1>11
<1>13. at[0] = <<>> /\ \A n \in 1 .. Len(s) : at[n] = Step(at, n)
  BY <1>2, <1>9
<1> QED
  BY <1>8, <1>12, <1>13

KeptOf(s, places, n) == {s[i] : i \in places \cap (1 .. n)}

KeepsInSteps(s, places, at) ==
  /\ In!At(s, places) = at[Len(s)]
  /\ at[0] = <<>>
  /\ \A n \in 1 .. Len(s) :
       at[n] = IF n \in places THEN Append(at[n - 1], s[n]) ELSE at[n - 1]
  /\ \A n \in 0 .. Len(s) : In!Range(at[n]) = KeptOf(s, places, n)

\* After n items, At has kept those of the first n places.
LEMMA AtRanges ==
  ASSUME NEW S, NEW s \in Seq(S), NEW places
  PROVE  \E at \in [0 .. Len(s) -> Seq(S)] : KeepsInSteps(s, places, at)
<1>1. PICK at \in [0 .. Len(s) -> Seq(S)] :
           /\ In!At(s, places) = at[Len(s)]
           /\ at[0] = <<>>
           /\ \A n \in 1 .. Len(s) :
                at[n] = IF n \in places THEN Append(at[n - 1], s[n]) ELSE at[n - 1]
  BY AtSolved
<1> USE DEF KeptOf
<1> DEFINE Met(n) == {s[i] : i \in places \cap (1 .. n)}
           T == {n \in 0 .. Len(s) : In!Range(at[n]) = Met(n)}
<1>2. 0 \in T
  BY <1>1 DEF In!Range
<1>3. ASSUME NEW n \in 1 .. Len(s), n - 1 \in T PROVE n \in T
  <2>1. at[n - 1] \in Seq(S) /\ s[n] \in S
    OBVIOUS
  <2>2. In!Range(at[n - 1]) = Met(n - 1)
    BY <1>3
  <2>3. 1 .. n = (1 .. n - 1) \cup {n}
    OBVIOUS
  <2>4. CASE n \in places
    <3>1. at[n] = Append(at[n - 1], s[n])
      BY <1>1, <2>4
    <3>2. In!Range(at[n]) = In!Range(at[n - 1]) \cup {s[n]}
      BY <2>1, <3>1, RangeOfAppend
    <3>3. Met(n) = Met(n - 1) \cup {s[n]}
      BY <2>3, <2>4
    <3> QED
      BY <2>2, <3>2, <3>3
  <2>5. CASE n \notin places
    <3>1. at[n] = at[n - 1]
      BY <1>1, <2>5
    <3>2. Met(n) = Met(n - 1)
      BY <2>3, <2>5
    <3> QED
      BY <2>2, <3>1, <3>2
  <2> QED
    BY <2>4, <2>5
<1>4. 0 .. Len(s) \subseteq T
  <2> HIDE DEF T
  <2>1. Len(s) \in Nat
    OBVIOUS
  <2> QED
    BY <1>2, <1>3, <2>1, UpTo
<1> QED
  BY <1>1, <1>4 DEF KeepsInSteps

\* What At keeps: the items of s at these places, and no others.
LEMMA AtKeeps ==
  ASSUME NEW S, NEW s \in Seq(S), NEW places
  PROVE  /\ In!At(s, places) \in Seq(S)
         /\ In!Range(In!At(s, places)) = {s[i] : i \in places \cap DOMAIN s}
<1>1. PICK at \in [0 .. Len(s) -> Seq(S)] : KeepsInSteps(s, places, at)
  BY AtRanges
<1>2. Len(s) \in 0 .. Len(s) /\ DOMAIN s = 1 .. Len(s)
  OBVIOUS
<1> QED
  BY <1>1, <1>2 DEF KeptOf, KeepsInSteps

\* At places with different items, At lists none twice.
LEMMA AtOnce ==
  ASSUME NEW S, NEW s \in Seq(S), NEW places,
         \A i, j \in places \cap DOMAIN s : s[i] = s[j] => i = j
  PROVE  \A k, m \in DOMAIN In!At(s, places) :
           In!At(s, places)[k] = In!At(s, places)[m] => k = m
<1>1. PICK at \in [0 .. Len(s) -> Seq(S)] : KeepsInSteps(s, places, at)
  BY AtRanges
<1> USE DEF KeepsInSteps
<1> DEFINE Once(t) == \A k, m \in DOMAIN t : t[k] = t[m] => k = m
           T == {n \in 0 .. Len(s) : Once(at[n])}
<1>2. 0 \in T
  BY <1>1
<1>3. ASSUME NEW n \in 1 .. Len(s), n - 1 \in T PROVE n \in T
  <2>1. at[n - 1] \in Seq(S) /\ n \in 0 .. Len(s) /\ n - 1 \in 0 .. Len(s) /\ s[n] \in S
    OBVIOUS
  <2>2. Once(at[n - 1])
    BY <1>3
  <2>3. CASE n \in places
    <3>1. at[n] = Append(at[n - 1], s[n])
      BY <1>1, <2>3
    <3>2. s[n] \notin In!Range(at[n - 1])
      <4>1. In!Range(at[n - 1]) = KeptOf(s, places, n - 1)
        BY <1>1, <2>1
      <4>2. \A i \in places \cap (1 .. n - 1) : s[i] # s[n]
        <5>1. \A i \in 1 .. n - 1 : i \in DOMAIN s /\ i # n
          OBVIOUS
        <5>2. n \in DOMAIN s
          OBVIOUS
        <5> QED
          BY <2>3, <5>1, <5>2
      <4> QED
        BY <4>1, <4>2 DEF KeptOf
    <3>3. \A k \in DOMAIN at[n - 1] : at[n - 1][k] # s[n]
      BY <3>2 DEF In!Range
    <3>4. Once(at[n])
      <4> DEFINE t == at[n - 1]
      <4>1. t \in Seq(S) /\ Len(t) \in Nat /\ DOMAIN t = 1 .. Len(t)
        BY <2>1
      <4>2. /\ DOMAIN at[n] = 1 .. Len(t) + 1
            /\ \A k \in 1 .. Len(t) + 1 : at[n][k] = IF k = Len(t) + 1 THEN s[n] ELSE t[k]
        BY <2>1, <3>1, <4>1
      <4>3. \A k \in 1 .. Len(t) + 1 : k # Len(t) + 1 => k \in DOMAIN t
        <5> HIDE DEF t
        <5> SUFFICES ASSUME NEW k \in 1 .. Len(t) + 1, k # Len(t) + 1 PROVE k \in 1 .. Len(t)
          BY <4>1
        <5> QED
          BY <4>1
      <4> QED
        BY <2>2, <3>3, <4>2, <4>3
    <3> QED
      BY <2>1, <3>4
  <2>4. CASE n \notin places
    BY <1>1, <2>1, <2>2, <2>4
  <2> QED
    BY <2>3, <2>4
<1>4. 0 .. Len(s) \subseteq T
  <2> HIDE DEF T
  <2>1. Len(s) \in Nat
    OBVIOUS
  <2> QED
    BY <1>2, <1>3, <2>1, UpTo
<1>5. Once(at[Len(s)])
  <2>1. Len(s) \in 0 .. Len(s)
    OBVIOUS
  <2> QED
    BY <1>4, <2>1
<1> QED
  BY <1>1, <1>5

\* At lists an item no later than it was.
LEMMA AtEarly ==
  ASSUME NEW S, NEW s \in Seq(S), NEW places, NEW i \in places \cap DOMAIN s
  PROVE  \E k \in DOMAIN In!At(s, places) : k <= i /\ In!At(s, places)[k] = s[i]
<1> USE DEF KeepsInSteps
<1>1. PICK at \in [0 .. Len(s) -> Seq(S)] : KeepsInSteps(s, places, at)
  BY AtRanges
<1> DEFINE T == {n \in 0 .. Len(s) :
                   /\ Len(at[n]) <= n
                   /\ i <= n => \E k \in DOMAIN at[n] : k <= i /\ at[n][k] = s[i]}
<1>2. i \in 1 .. Len(s) /\ i \in places
  OBVIOUS
<1>3. 0 \in T
  BY <1>1, <1>2
<1>4. ASSUME NEW n \in 1 .. Len(s), n - 1 \in T PROVE n \in T
  <2> DEFINE t == at[n - 1]
  <2>1. /\ t \in Seq(S) /\ Len(t) \in Nat /\ DOMAIN t = 1 .. Len(t) /\ Len(t) <= n - 1
        /\ s[n] \in S
    BY <1>4
  <2>2. i <= n - 1 => \E k \in DOMAIN t : k <= i /\ t[k] = s[i]
    BY <1>4
  <2>3. CASE n \in places
    <3>1. at[n] = Append(t, s[n])
      BY <1>1, <2>3
    <3> HIDE DEF t
    <3>2. /\ Len(at[n]) = Len(t) + 1 /\ DOMAIN at[n] = 1 .. Len(t) + 1
          /\ \A k \in 1 .. Len(t) : at[n][k] = t[k]
          /\ at[n][Len(t) + 1] = s[n]
      BY <2>1, <3>1
    <3>3. i <= n => \E k \in DOMAIN at[n] : k <= i /\ at[n][k] = s[i]
      <4>1. CASE i <= n - 1
        BY <1>2, <2>1, <2>2, <3>2, <4>1
      <4>2. CASE i = n
        <5>1. Len(t) + 1 \in DOMAIN at[n] /\ Len(t) + 1 <= i
          BY <2>1, <3>2, <4>2
        <5> QED
          BY <3>2, <4>2, <5>1
      <4> QED
        BY <1>2, <4>1, <4>2
    <3> QED
      BY <2>1, <3>2, <3>3
  <2>4. CASE n \notin places
    <3>1. at[n] = t
      BY <1>1, <2>4
    <3>2. i <= n => i <= n - 1
      BY <1>2, <2>4
    <3> HIDE DEF t
    <3> QED
      BY <2>1, <2>2, <3>1, <3>2
  <2> QED
    BY <2>3, <2>4
<1>5. Len(s) \in T
  <2>1. Len(s) \in Nat
    OBVIOUS
  <2> HIDE DEF T
  <2>2. 0 .. Len(s) \subseteq T
    BY <1>3, <1>4, <2>1, UpTo
  <2> QED
    BY <2>1, <2>2
<1> QED
  BY <1>1, <1>2, <1>5

\* Distinct lists every item, and none twice.
LEMMA DistinctKeeps ==
  ASSUME NEW S, NEW s \in Seq(S)
  PROVE  /\ In!Distinct(s) \in Seq(S)
         /\ In!Range(In!Distinct(s)) = In!Range(s)
         /\ \A k, m \in DOMAIN In!Distinct(s) :
              In!Distinct(s)[k] = In!Distinct(s)[m] => k = m
<1> DEFINE first == {i \in DOMAIN s : \A j \in 1 .. i - 1 : s[j] # s[i]}
<1>1. In!Distinct(s) = In!At(s, first)
  BY DEF In!Distinct
<1>2. \A i, j \in first \cap DOMAIN s : s[i] = s[j] => i = j
  <2> SUFFICES ASSUME NEW i \in first, NEW j \in first, s[i] = s[j], i < j PROVE FALSE
    OBVIOUS
  <2>1. i \in 1 .. j - 1
    OBVIOUS
  <2> QED
    BY <2>1
<1>3. {s[i] : i \in first \cap DOMAIN s} = In!Range(s)
  <2>1. ASSUME NEW i \in DOMAIN s PROVE \E j \in first : s[j] = s[i]
    <3> DEFINE same == {j \in DOMAIN s : s[j] = s[i]}
    <3>1. same \subseteq Nat /\ same # {}
      OBVIOUS
    <3>2. PICK j \in same : \A k \in same : j <= k
      <4> HIDE DEF same
      <4> QED
        BY <3>1, LeastExists
    <3>3. \A k \in 1 .. j - 1 : k \in DOMAIN s /\ ~(j <= k)
      OBVIOUS
    <3> QED
      BY <3>2, <3>3
  <2> QED
    BY <2>1 DEF In!Range
<1> HIDE DEF first
<1>4. /\ In!At(s, first) \in Seq(S)
      /\ In!Range(In!At(s, first)) = {s[i] : i \in first \cap DOMAIN s}
  BY AtKeeps, ZenonT(30)
<1>5. \A k, m \in DOMAIN In!At(s, first) : In!At(s, first)[k] = In!At(s, first)[m] => k = m
  BY <1>2, AtOnce, ZenonT(30)
<1> QED
  BY <1>1, <1>3, <1>4, <1>5

\* Distinct lists an item no later than it was.
LEMMA DistinctEarly ==
  ASSUME NEW S, NEW s \in Seq(S), NEW i \in DOMAIN s
  PROVE  \E k \in DOMAIN In!Distinct(s) : k <= i /\ In!Distinct(s)[k] = s[i]
<1> DEFINE first == {j \in DOMAIN s : \A k \in 1 .. j - 1 : s[k] # s[j]}
           same == {j \in DOMAIN s : s[j] = s[i]}
<1>1. In!Distinct(s) = In!At(s, first)
  BY DEF In!Distinct
<1>2. same \subseteq Nat /\ same # {}
  OBVIOUS
<1>3. PICK j \in same : \A k \in same : j <= k
  <2> HIDE DEF same
  <2> QED
    BY <1>2, LeastExists
<1>4. j \in first \cap DOMAIN s /\ j <= i /\ s[j] = s[i]
  <2>1. \A k \in 1 .. j - 1 : k \in DOMAIN s /\ ~(j <= k)
    OBVIOUS
  <2> QED
    BY <1>3, <2>1
<1> HIDE DEF first, same
<1>5. \E k \in DOMAIN In!At(s, first) : k <= j /\ In!At(s, first)[k] = s[j]
  BY <1>4, AtEarly
<1>6. Len(In!At(s, first)) \in Nat /\ DOMAIN In!At(s, first) = 1 .. Len(In!At(s, first))
  <2>1. In!At(s, first) \in Seq(S)
    BY AtKeeps
  <2> QED
    BY <2>1
<1>7. i \in Nat /\ j \in Nat
  BY <1>4
<1> QED
  BY <1>1, <1>4, <1>5, <1>6, <1>7

\* The first n items of a list, or all.
LEMMA FirstNKeeps ==
  ASSUME NEW S, NEW s \in Seq(S), NEW n \in Nat
  PROVE  /\ In!FirstN(s, n) \in Seq(S)
         /\ Len(In!FirstN(s, n)) = IF Len(s) < n THEN Len(s) ELSE n
         /\ \A i \in DOMAIN In!FirstN(s, n) : i \in DOMAIN s /\ In!FirstN(s, n)[i] = s[i]
         /\ In!Range(In!FirstN(s, n)) \subseteq In!Range(s)
<1> DEFINE m == IF Len(s) < n THEN Len(s) ELSE n
<1>1. m \in 0 .. Len(s) /\ In!FirstN(s, n) = SubSeq(s, 1, m)
  BY DEF In!FirstN
<1>2. /\ SubSeq(s, 1, m) \in Seq(S) /\ Len(SubSeq(s, 1, m)) = m
      /\ DOMAIN SubSeq(s, 1, m) = 1 .. m
      /\ \A i \in 1 .. m : i \in DOMAIN s /\ SubSeq(s, 1, m)[i] = s[i]
  <2> HIDE DEF m
  <2> QED
    BY <1>1
<1>3. In!Range(SubSeq(s, 1, m)) \subseteq In!Range(s)
  <2> HIDE DEF m
  <2> QED
    BY <1>2 DEF In!Range
<1> QED
  BY <1>1, <1>2, <1>3

\* The instance counts as this module does.
LEMMA SameCardinality == \A T : In!Cardinality(T) = Cardinality(T)
BY DEF In!Cardinality, Cardinality

\* Two lists in a row.
LEMMA ConcatIs ==
  ASSUME NEW S, NEW s \in Seq(S), NEW t \in Seq(S)
  PROVE  /\ s \o t \in Seq(S)
         /\ Len(s \o t) = Len(s) + Len(t)
         /\ \A k \in 1 .. Len(s) + Len(t) :
              (s \o t)[k] = IF k <= Len(s) THEN s[k] ELSE t[k - Len(s)]
OBVIOUS

\* A place is inserted after some of the others.
InsertedAfter(t, n, places, i, a) ==
  /\ t \in [1 .. n + 1 -> Nat]
  /\ \A k \in 1 .. n + 1 :
       t[k] = IF k <= a THEN places[k] ELSE IF k = a + 1 THEN i ELSE places[k - 1]

\* The others keep their order around it.
LEMMA InsertedIs ==
  ASSUME NEW n \in Nat, NEW places \in [1 .. n -> Nat], NEW i \in Nat, NEW before
  PROVE  \E a \in 0 .. n :
           /\ a = Cardinality({k \in 1 .. n : <<i, places[k]>> \notin before})
           /\ InsertedAfter(In!Inserted(places, i, before), n, places, i, a)
<1> DEFINE behind == {k \in DOMAIN places : <<i, places[k]>> \notin before}
           a == Cardinality(behind)
<1>1. a \in 0 .. n
  <2>1. IsFiniteSet(1 .. n) /\ Cardinality(1 .. n) = n
    BY FS_Interval
  <2>2. behind \subseteq 1 .. n
    OBVIOUS
  <2>3. IsFiniteSet(behind) /\ a <= n
    <3>1. IsFiniteSet(behind) /\ Cardinality(behind) <= Cardinality(1 .. n)
      <4> HIDE DEF behind
      <4> QED
        BY <2>1, <2>2, FS_Subset
    <3> QED
      BY <2>1, <3>1
  <2>4. a \in Nat
    <3> HIDE DEF behind
    <3> QED
      BY <2>3, FS_CardinalityType
  <2> QED
    BY <2>3, <2>4
<1> DEFINE t == SubSeq(places, 1, a) \o <<i>> \o SubSeq(places, a + 1, Len(places))
<1>2. In!Inserted(places, i, before) = t
  BY SameCardinality DEF In!Inserted
<1>3. places \in Seq(Nat) /\ Len(places) = n
  OBVIOUS
<1> HIDE DEF a
<1>4. /\ t \in [1 .. n + 1 -> Nat]
      /\ \A k \in 1 .. n + 1 :
           t[k] = IF k <= a THEN places[k] ELSE IF k = a + 1 THEN i ELSE places[k - 1]
  <2> DEFINE low == SubSeq(places, 1, a)
             high == SubSeq(places, a + 1, n)
             mid == low \o <<i>>
  <2>1. /\ low \in Seq(Nat) /\ Len(low) = a /\ \A k \in 1 .. a : low[k] = places[k]
    BY <1>1, <1>3
  <2>2. /\ high \in Seq(Nat) /\ Len(high) = n - a
        /\ \A k \in 1 .. n - a : high[k] = places[k + a]
    BY <1>1, <1>3
  <2> HIDE DEF low, high
  <2>3. /\ mid \in Seq(Nat) /\ Len(mid) = a + 1
        /\ \A k \in 1 .. a + 1 : mid[k] = IF k <= a THEN places[k] ELSE i
    BY <1>1, <2>1
  <2> HIDE DEF mid
  <2>4. /\ mid \o high \in Seq(Nat) /\ Len(mid \o high) = n + 1
        /\ \A k \in 1 .. n + 1 :
             (mid \o high)[k] = IF k <= a + 1 THEN mid[k] ELSE high[k - (a + 1)]
    <3>1. a \in Int /\ (a + 1) + (n - a) = n + 1
      BY <1>1
    <3>2. /\ mid \o high \in Seq(Nat)
          /\ Len(mid \o high) = Len(mid) + Len(high)
          /\ \A k \in 1 .. Len(mid) + Len(high) :
               (mid \o high)[k] = IF k <= Len(mid) THEN mid[k] ELSE high[k - Len(mid)]
      BY <2>2, <2>3, ConcatIs
    <3> QED
      BY <2>2, <2>3, <3>1, <3>2
  <2>5. t = mid \o high
    BY <1>3 DEF low, high, mid
  <2>6. \A k \in 1 .. n + 1 : k > a + 1 => high[k - (a + 1)] = places[k - 1]
    <3> SUFFICES ASSUME NEW k \in 1 .. n + 1, k > a + 1
                 PROVE high[k - (a + 1)] = places[k - 1]
      OBVIOUS
    <3>1. k - (a + 1) \in 1 .. n - a /\ (k - (a + 1)) + a = k - 1
      BY <1>1
    <3> QED
      BY <2>2, <3>1
  <2> HIDE DEF t
  <2>7. t \in [1 .. n + 1 -> Nat]
    <3>1. t \in Seq(Nat) /\ Len(t) = n + 1
      BY <2>4, <2>5
    <3> QED
      BY <3>1
  <2>8. ASSUME NEW k \in 1 .. n + 1
        PROVE  t[k] = IF k <= a THEN places[k] ELSE IF k = a + 1 THEN i ELSE places[k - 1]
    <3>1. a \in Int /\ (k <= a => k <= a + 1) /\ (~(k <= a) /\ k # a + 1 => k > a + 1)
      BY <1>1
    <3>2. k <= a + 1 => k \in 1 .. a + 1
      BY <1>1
    <3>3. t[k] = IF k <= a + 1 THEN mid[k] ELSE high[k - (a + 1)]
      BY <2>4, <2>5
    <3>4. CASE k <= a + 1
      BY <2>3, <3>1, <3>2, <3>3, <3>4
    <3>5. CASE ~(k <= a + 1)
      <4>1. k > a + 1 /\ ~(k <= a) /\ k # a + 1
        BY <1>1, <3>5
      <4> QED
        BY <2>6, <3>3, <3>5, <4>1
    <3> QED
      BY <3>4, <3>5
  <2> QED
    BY <2>7, <2>8
<1>5. InsertedAfter(In!Inserted(places, i, before), n, places, i, a)
  <2> HIDE DEF t
  <2> QED
    BY <1>2, <1>4 DEF InsertedAfter
<1>6. a = Cardinality({k \in 1 .. n : <<i, places[k]>> \notin before})
  BY DEF a
<1> HIDE DEF t
<1> QED
  BY <1>1, <1>5, <1>6

\* An inserted place comes beside those that were there.
LEMMA InsertedKeeps ==
  ASSUME NEW n \in Nat, NEW places \in [1 .. n -> Nat], NEW i \in Nat, NEW before
  PROVE  /\ In!Inserted(places, i, before) \in [1 .. n + 1 -> Nat]
         /\ In!Range(In!Inserted(places, i, before)) = In!Range(places) \cup {i}
<1> DEFINE t == In!Inserted(places, i, before)
<1>1. PICK a \in 0 .. n : InsertedAfter(t, n, places, i, a)
  BY InsertedIs
<1>4. /\ t \in [1 .. n + 1 -> Nat]
      /\ \A k \in 1 .. n + 1 :
           t[k] = IF k <= a THEN places[k] ELSE IF k = a + 1 THEN i ELSE places[k - 1]
  BY <1>1 DEF InsertedAfter
<1> HIDE DEF t
<1>5. In!Range(t) = In!Range(places) \cup {i}
  <2>1. ASSUME NEW k \in 1 .. n + 1 PROVE t[k] \in In!Range(places) \cup {i}
    <3>1. k <= a => k \in 1 .. n
      BY <1>1
    <3>2. k > a + 1 => k - 1 \in 1 .. n
      BY <1>1
    <3>3. k <= a \/ k = a + 1 \/ k > a + 1
      BY <1>1
    <3> QED
      BY <1>4, <3>1, <3>2, <3>3 DEF In!Range
  <2>2. ASSUME NEW k \in 1 .. n PROVE \E j \in 1 .. n + 1 : t[j] = places[k]
    <3>1. CASE k <= a
      <4>1. k \in 1 .. n + 1
        OBVIOUS
      <4> QED
        BY <1>4, <3>1, <4>1
    <3>2. CASE k > a
      <4>1. /\ k + 1 \in 1 .. n + 1 /\ ~(k + 1 <= a) /\ k + 1 # a + 1 /\ (k + 1) - 1 = k
        BY <1>1, <3>2
      <4> QED
        BY <1>4, <4>1
    <3> QED
      BY <1>1, <3>1, <3>2
  <2>3. a + 1 \in 1 .. n + 1 /\ t[a + 1] = i
    <3>1. a + 1 \in 1 .. n + 1 /\ ~(a + 1 <= a)
      BY <1>1
    <3> QED
      BY <1>4, <3>1
  <2> QED
    BY <1>4, <2>1, <2>2, <2>3 DEF In!Range
<1> QED
  BY <1>4, <1>5 DEF t

\* The places are inserted one after the other.
InsertsInSteps(h, n, before) ==
  /\ h[0] = <<>>
  /\ \A k \in 1 .. n : h[k] = In!Inserted(h[k - 1], k, before)

\* The sorting inserts one place after the other.
LEMMA SortedSolved ==
  ASSUME NEW n \in Nat, NEW before
  PROVE  \E h : In!Sorted(n, before) = h[n] /\ InsertsInSteps(h, n, before)
<1> DEFINE Step(f, k) == In!Inserted(f[k - 1], k, before)
           Solves(f) == f = [k \in 0 .. n |-> IF k = 0 THEN <<>> ELSE Step(f, k)]
           all == Seq(Nat)
           none == <<>>
           g == [k \in 1 .. n |-> [places \in all |-> In!Inserted(places, k, before)]]
<1>1. none \in all /\ 0 \in 0 .. n
  OBVIOUS
<1>2. \A places \in all, k \in Nat : In!Inserted(places, k, before) \in all
  <2> SUFFICES ASSUME NEW places \in Seq(Nat), NEW k \in Nat
               PROVE  In!Inserted(places, k, before) \in Seq(Nat)
    OBVIOUS
  <2>1. Len(places) \in Nat /\ places \in [1 .. Len(places) -> Nat]
    OBVIOUS
  <2>2. In!Inserted(places, k, before) \in [1 .. Len(places) + 1 -> Nat]
    BY <2>1, InsertedKeeps
  <2> QED
    BY <2>1, <2>2
<1> HIDE DEF all, none
<1>3. g \in [1 .. n -> [all -> all]]
  BY <1>2
<1> HIDE DEF g
<1>4. PICK f : Recursion(f, n, all, none, g)
  BY <1>1, <1>3, RecursionExists
<1>5. \A k \in 0 .. n : f[k] = IF k = 0 THEN <<>> ELSE Step(f, k)
  <2>1. \A k \in 1 .. n : k \in 0 .. n /\ k - 1 \in 0 .. n /\ k # 0
    OBVIOUS
  <2>2. \A k \in 0 .. n : k = 0 \/ k \in 1 .. n
    OBVIOUS
  <2> QED
    BY <1>4, <2>1, <2>2 DEF none, g, Recursion
<1>6. Solves(f)
  <2>1. f = [k \in 0 .. n |-> f[k]]
    BY <1>4 DEF Recursion
  <2> HIDE DEF Step
  <2> QED
    BY <1>5, <2>1
<1> DEFINE h == CHOOSE x : Solves(x)
<1>7. Solves(h)
  <2> HIDE DEF Solves
  <2> QED
    BY <1>6
<1>8. In!Sorted(n, before) = h[n]
  BY DEF In!Sorted
<1> HIDE DEF h
<1>9. \A k \in 0 .. n : h[k] = IF k = 0 THEN <<>> ELSE Step(h, k)
  BY <1>7
<1>10. InsertsInSteps(h, n, before)
  <2>1. \A k \in 1 .. n : k \in 0 .. n /\ k # 0
    OBVIOUS
  <2> QED
    BY <1>1, <1>9, <2>1 DEF InsertsInSteps
<1> QED
  BY <1>8, <1>10

\* The sorted places are the places, in some order.
LEMMA SortedKeeps ==
  ASSUME NEW n \in Nat, NEW before
  PROVE  In!Sorted(n, before) \in [1 .. n -> Nat] /\ In!Range(In!Sorted(n, before)) = 1 .. n
<1>8. PICK h : In!Sorted(n, before) = h[n] /\ InsertsInSteps(h, n, before)
  BY SortedSolved
<1>9. h[0] = <<>> /\ \A k \in 1 .. n : h[k] = In!Inserted(h[k - 1], k, before)
  BY <1>8 DEF InsertsInSteps
<1> DEFINE T == {k \in 0 .. n : h[k] \in [1 .. k -> Nat] /\ In!Range(h[k]) = 1 .. k}
<1>10. 0 \in T
  <2>1. h[0] = <<>> /\ 1 .. 0 = {} /\ 0 \in 0 .. n
    BY <1>9
  <2>2. In!Range(<<>>) = {}
    BY DEF In!Range
  <2>3. <<>> \in [1 .. 0 -> Nat]
    OBVIOUS
  <2> QED
    BY <2>1, <2>2, <2>3
<1>11. ASSUME NEW k \in 1 .. n, k - 1 \in T PROVE k \in T
  <2>1. k - 1 \in Nat /\ k \in Nat /\ (k - 1) + 1 = k /\ 1 .. k = (1 .. k - 1) \cup {k}
    OBVIOUS
  <2>2. h[k] = In!Inserted(h[k - 1], k, before)
    BY <1>9
  <2>3. h[k - 1] \in [1 .. k - 1 -> Nat] /\ In!Range(h[k - 1]) = 1 .. k - 1
    BY <1>11
  <2>4. /\ h[k] \in [1 .. (k - 1) + 1 -> Nat]
        /\ In!Range(h[k]) = In!Range(h[k - 1]) \cup {k}
    BY <2>1, <2>2, <2>3, InsertedKeeps
  <2>5. h[k] \in [1 .. k -> Nat] /\ In!Range(h[k]) = 1 .. k
    BY <2>1, <2>3, <2>4
  <2> QED
    BY <2>5
<1>12. n \in T
  <2> HIDE DEF T
  <2>1. 0 .. n \subseteq T
    BY <1>10, <1>11, UpTo
  <2> QED
    BY <2>1
<1> QED
  BY <1>8, <1>12

\* What a stable sort returns are the items, in some order.
LEMMA SortKeeps ==
  ASSUME NEW S, NEW s \in Seq(S), NEW before, NEW t,
         t = [k \in DOMAIN s |-> s[In!Sorted(Len(s), before)[k]]]
  PROVE  t \in Seq(S) /\ Len(t) = Len(s) /\ In!Range(t) = In!Range(s)
<1> DEFINE n == Len(s)
           p == In!Sorted(n, before)
<1>1. n \in Nat /\ DOMAIN s = 1 .. n /\ \A k \in 1 .. n : s[k] \in S
  OBVIOUS
<1>2. p \in [1 .. n -> Nat] /\ In!Range(p) = 1 .. n
  BY <1>1, SortedKeeps
<1>3. t = [k \in 1 .. n |-> s[p[k]]]
  BY <1>1
<1> HIDE DEF n, p
<1>4. \A k \in 1 .. n : p[k] \in 1 .. n
  BY <1>2 DEF In!Range
<1>5. \A j \in 1 .. n : \E k \in 1 .. n : p[k] = j
  BY <1>2 DEF In!Range
<1>6. t \in Seq(S) /\ Len(t) = n
  <2>1. t \in [1 .. n -> S]
    BY <1>1, <1>3, <1>4
  <2> QED
    BY <1>1, <2>1
<1>7. In!Range(t) = In!Range(s)
  <2>1. DOMAIN t = 1 .. n /\ \A k \in 1 .. n : t[k] = s[p[k]]
    BY <1>3
  <2>2. \A k \in DOMAIN t : t[k] \in In!Range(s)
    BY <1>1, <1>4, <2>1 DEF In!Range
  <2>3. \A j \in DOMAIN s : s[j] \in In!Range(t)
    BY <1>1, <1>5, <2>1 DEF In!Range
  <2>4. In!Range(t) = {t[k] : k \in DOMAIN t} /\ In!Range(s) = {s[j] : j \in DOMAIN s}
    BY DEF In!Range
  <2>5. In!Range(t) \subseteq In!Range(s)
    BY <2>2, <2>4
  <2>6. In!Range(s) \subseteq In!Range(t)
    BY <2>3, <2>4
  <2> QED
    BY <2>5, <2>6
<1> QED
  BY <1>6, <1>7 DEF n

-----------------------------------------------------------------------------

\* What a run is made of.

Captures == DOMAIN Made

Cluster ==
  [key : {x.key : x \in In!Insights}, score : Int, ids : Seq({x.id : x \in In!Insights})]

Theme == [key : UNION {Keywords[c] : c \in Captures}, sources : SUBSET Sources]

Group ==
  [key : {x.key : x \in In!Insights}, words : {x.words : x \in In!Insights},
   members : Seq(In!Insights)]

InboxSetting ==
  /\ {MaxGraph, MaxInsights, MaxClusters, MaxConnections, MaxEdges, MaxDegree} \subseteq Nat \ {0}
  /\ {LastRun, LastIssue} \subseteq Nat
  /\ Videos \subseteq Sources
  /\ Windows \subseteq Seq(Captures)
  /\ \A c \in Captures :
       /\ c.source \in Sources
       /\ Made[c] \subseteq Seq(In!Insights)
       /\ \A list \in Made[c] : \A i \in DOMAIN list : list[i].source = c.source
       /\ IsFiniteSet(Keywords[c])
  /\ \A x \in In!Insights :
       /\ x.source \in Sources
       /\ {x.id, x.domain, x.type, x.weight} \cup x.topics \subseteq Nat
       /\ IsFiniteSet(x.words)
  /\ Time \in [Sources -> Nat]
  /\ MaxInsights >= 2

\* What the inbox's proof needs of the constants.
LEMMA InboxSettingHolds == InboxSetting
<1>1. \A T : In!IsFiniteSet(T) => IsFiniteSet(T)
  BY DEF In!IsFiniteSet, IsFiniteSet
<1> QED
  BY <1>1, LimitsAssumption, SourcesAssumption, InboxAssumption DEF InboxSetting, Captures

\* The least of some numbers is one of them.
LEMMA MinIs == ASSUME NEW T, T \subseteq Nat, T # {} PROVE In!Min(T) \in T
<1>1. \E x \in T : \A y \in T : x <= y
  BY LeastExists
<1> QED
  BY <1>1 DEF In!Min

\* The group for an insight is one of them, or none.
LEMMA ClusterInRange ==
  ASSUME NEW groups \in Seq(Group), NEW x
  PROVE  /\ In!BestCluster(groups, x.words) \in 0 .. Len(groups)
         /\ In!ClusterOf(groups, x) \in 0 .. Len(groups)
<1> DEFINE n == Len(groups)
           i == In!ClusterOf(groups, x)
<1>1. n \in Nat /\ DOMAIN groups = 1 .. n /\ \A k \in 1 .. n : groups[k] \in Group
  OBVIOUS
<1>2. In!BestCluster(groups, x.words) \in 0 .. n
  <2> DEFINE Close(k) == In!Overlap(x.words, groups[k].words)
             near == {k \in DOMAIN groups : x.words # {} /\ 4 * Close(k)[1] >= Close(k)[2]}
             best == {k \in near : \A j \in near : ~In!Closer(Close(j), Close(k))}
  <2>1. In!BestCluster(groups, x.words) = IF best = {} THEN 0 ELSE In!Min(best)
    BY DEF In!BestCluster
  <2>2. best \subseteq 1 .. n /\ best \subseteq Nat
    BY <1>1
  <2> HIDE DEF best
  <2>3. best # {} => In!Min(best) \in best
    BY <2>2, MinIs
  <2>4. CASE best = {}
    BY <1>1, <2>1, <2>4
  <2>5. CASE best # {}
    <3>1. In!BestCluster(groups, x.words) = In!Min(best)
      BY <2>1, <2>5
    <3>2. In!Min(best) \in 1 .. n
      BY <2>2, <2>3, <2>5
    <3> QED
      BY <1>1, <3>1, <3>2
  <2> QED
    BY <2>4, <2>5
<1>3. i \in 0 .. n
  <2> DEFINE same == {k \in DOMAIN groups : groups[k].key = x.key}
  <2>1. i = IF same # {} THEN In!Min(same) ELSE In!BestCluster(groups, x.words)
    BY DEF In!ClusterOf
  <2>2. same \subseteq 1 .. n /\ same \subseteq Nat
    BY <1>1
  <2> HIDE DEF same
  <2>3. same # {} => In!Min(same) \in same
    BY <2>2, MinIs
  <2>4. CASE same = {}
    BY <1>2, <2>1, <2>4
  <2>5. CASE same # {}
    <3>1. i = In!Min(same)
      BY <2>1, <2>5
    <3>2. In!Min(same) \in 1 .. n
      BY <2>2, <2>3, <2>5
    <3> QED
      BY <1>1, <3>1, <3>2
  <2> QED
    BY <2>4, <2>5
<1> QED
  BY <1>2, <1>3

\* An insight joins a group, or begins one.
LEMMA JoinedTyped ==
  ASSUME NEW groups \in Seq(Group), NEW x \in In!Insights
  PROVE  In!Joined(groups, x) \in Seq(Group)
<1> DEFINE n == Len(groups)
           i == In!ClusterOf(groups, x)
<1>1. n \in Nat /\ DOMAIN groups = 1 .. n /\ \A k \in 1 .. n : groups[k] \in Group
  OBVIOUS
<1>3. i \in 0 .. n
  BY ClusterInRange
<1>4. In!Joined(groups, x) =
        IF i = 0 THEN Append(groups, [key |-> x.key, words |-> x.words, members |-> <<x>>])
        ELSE [groups EXCEPT ![i].members = Append(@, x)]
  BY DEF In!Joined
<1> HIDE DEF i
<1>5. CASE i = 0
  <2>1. [key |-> x.key, words |-> x.words, members |-> <<x>>] \in Group
    BY DEF Group
  <2> QED
    BY <1>4, <1>5, <2>1
<1>6. CASE i \in 1 .. n
  <2>1. groups[i] \in Group
    BY <1>1, <1>6
  <2>2. Append(groups[i].members, x) \in Seq(In!Insights)
    BY <2>1 DEF Group
  <2>3. [groups[i] EXCEPT !.members = Append(@, x)] \in Group
    BY <2>1, <2>2 DEF Group
  <2>4. [groups EXCEPT ![i] = [groups[i] EXCEPT !.members = Append(@, x)]] \in Seq(Group)
    <3> DEFINE e == [groups[i] EXCEPT !.members = Append(@, x)]
    <3> HIDE DEF e
    <3>1. e \in Group
      BY <2>3 DEF e
    <3>2. [groups EXCEPT ![i] = e] \in [1 .. n -> Group]
      BY <1>1, <3>1
    <3>3. [groups EXCEPT ![i] = e] \in Seq(Group)
      BY <1>1, <3>2
    <3> QED
      BY <3>3 DEF e
  <2>5. In!Joined(groups, x) = [groups EXCEPT ![i] = [groups[i] EXCEPT !.members = Append(@, x)]]
    <3>1. i # 0
      BY <1>1, <1>6
    <3>2. In!Joined(groups, x) = [groups EXCEPT ![i].members = Append(@, x)]
      BY <1>4, <3>1
    <3>3. [groups EXCEPT ![i].members = Append(@, x)]
            = [groups EXCEPT ![i] = [groups[i] EXCEPT !.members = Append(@, x)]]
      OBVIOUS
    <3> QED
      BY <3>2, <3>3
  <2> QED
    BY <2>4, <2>5
<1> QED
  BY <1>1, <1>3, <1>5, <1>6

\* Insights are grouped one by one.
GroupsInSteps(h, insights) ==
  /\ h[0] = <<>>
  /\ \A k \in 1 .. Len(insights) : h[k] = In!Joined(h[k - 1], insights[k])
  /\ \A k \in 0 .. Len(insights) : h[k] \in Seq(Group)

\* Grouping takes one insight after the other, and makes groups.
LEMMA GroupedTyped ==
  ASSUME NEW insights \in Seq(In!Insights), NEW h,
         h = CHOOSE f : f = [n \in 0 .. Len(insights) |->
                              IF n = 0 THEN <<>> ELSE In!Joined(f[n - 1], insights[n])]
  PROVE  GroupsInSteps(h, insights)
<1> DEFINE n == Len(insights)
           Step(f, k) == In!Joined(f[k - 1], insights[k])
           Solves(f) == f = [k \in 0 .. n |-> IF k = 0 THEN <<>> ELSE Step(f, k)]
           all == Seq(Group)
           none == <<>>
           g == [k \in 1 .. n |-> [groups \in all |-> In!Joined(groups, insights[k])]]
<1>1. n \in Nat /\ none \in all /\ \A k \in 1 .. n : insights[k] \in In!Insights
  OBVIOUS
<1>2. \A groups \in all, x \in In!Insights : In!Joined(groups, x) \in all
  BY JoinedTyped
<1>3. h = CHOOSE f : Solves(f)
  OBVIOUS
<1> HIDE DEF all, none, n
<1>4. g \in [1 .. n -> [all -> all]]
  BY <1>1, <1>2
<1> HIDE DEF g
<1>5. PICK f : Recursion(f, n, all, none, g)
  BY <1>1, <1>4, RecursionExists
<1>6. Solves(f)
  <2>1. f = [k \in 0 .. n |-> f[k]] /\ \A k \in 0 .. n : f[k] \in all
    BY <1>5 DEF Recursion
  <2>2. ASSUME NEW k \in 0 .. n PROVE f[k] = IF k = 0 THEN <<>> ELSE Step(f, k)
    <3>1. CASE k = 0
      BY <1>5, <3>1 DEF Recursion, none
    <3>2. CASE k # 0
      <4>1. k \in 1 .. n /\ k - 1 \in 0 .. n
        BY <1>1, <3>2
      <4>2. f[k] = g[k][f[k - 1]]
        BY <1>5, <4>1 DEF Recursion
      <4>3. f[k] = Step(f, k)
        BY <2>1, <4>1, <4>2 DEF g
      <4> QED
        BY <3>2, <4>3
    <3> QED
      BY <3>1, <3>2
  <2> HIDE DEF Step
  <2> QED
    BY <2>1, <2>2
<1>7. Solves(h)
  <2> HIDE DEF Solves
  <2> QED
    BY <1>3, <1>6
<1> DEFINE T == {k \in 0 .. n : h[k] \in all}
<1>8. 0 \in T
  <2>1. 0 \in 0 .. n
    BY <1>1
  <2>2. h[0] = none
    BY <1>7, <2>1 DEF none
  <2> QED
    BY <1>1, <2>1, <2>2
<1>9. ASSUME NEW k \in 1 .. n, k - 1 \in T PROVE k \in T
  <2>1. k \in 0 .. n /\ k # 0
    BY <1>1
  <2>2. h[k] = Step(h, k)
    BY <1>7, <2>1
  <2> QED
    BY <1>1, <1>2, <1>9, <2>1, <2>2
<1>10. 0 .. n \subseteq T
  <2> HIDE DEF T
  <2> QED
    BY <1>1, <1>8, <1>9, UpTo
<1>11. h[0] = <<>> /\ \A k \in 1 .. n : h[k] = In!Joined(h[k - 1], insights[k])
  <2>1. 0 \in 0 .. n /\ \A k \in 1 .. n : k \in 0 .. n /\ k # 0
    BY <1>1
  <2> QED
    BY <1>7, <2>1
<1> QED
  BY <1>10, <1>11 DEF n, all, GroupsInSteps

\* A function of a finite set has finitely many values.
LEMMA FiniteRange ==
  ASSUME NEW D, IsFiniteSet(D), NEW f, DOMAIN f = D
  PROVE  IsFiniteSet({f[x] : x \in D})
<1> DEFINE T == {f[x] : x \in D}
           h == [x \in D |-> f[x]]
<1>1. h \in Surjection(D, T)
  BY DEF Surjection
<1> HIDE DEF h, T
<1>2. IsFiniteSet(T)
  BY <1>1, FS_Surjection
<1> QED
  BY <1>2 DEF T

\* Clusters are clusters, no more than MaxClusters.
LEMMA ClustersTyped ==
  ASSUME InboxSetting, NEW insights \in Seq(In!Insights)
  PROVE  /\ In!Clusters(insights) \in Seq(Cluster)
         /\ Len(In!Clusters(insights)) <= MaxClusters
<1> DEFINE h == CHOOSE f : f = [n \in 0 .. Len(insights) |->
                              IF n = 0 THEN <<>> ELSE In!Joined(f[n - 1], insights[n])]
           all == h[Len(insights)]
           recurring == In!At(all, {i \in DOMAIN all : Len(all[i].members) >= 2})
           scored == [i \in DOMAIN recurring |->
             [key |-> recurring[i].key, score |-> In!DoubleScore(recurring[i].members),
              ids |-> [k \in DOMAIN recurring[i].members |-> recurring[i].members[k].id]]]
           before == {p \in (DOMAIN scored) \X (DOMAIN scored) :
                        \/ scored[p[1]].score > scored[p[2]].score
                        \/ scored[p[1]].score = scored[p[2]].score
                           /\ scored[p[1]].key < scored[p[2]].key}
           sorted == [k \in DOMAIN scored |-> scored[In!Sorted(Len(scored), before)[k]]]
<1>1. In!Clusters(insights) = In!FirstN(sorted, MaxClusters)
  BY DEF In!Clusters, In!Keep, In!StableSort
<1>2. all \in Seq(Group)
  <2>1. GroupsInSteps(h, insights) /\ Len(insights) \in 0 .. Len(insights)
    BY GroupedTyped
  <2> HIDE DEF h
  <2> QED
    BY <2>1 DEF GroupsInSteps
<1> HIDE DEF all
<1>3. recurring \in Seq(Group)
  BY <1>2, AtKeeps
<1> HIDE DEF recurring
<1>4. scored \in Seq(Cluster)
  <2>1. Len(recurring) \in Nat /\ DOMAIN recurring = 1 .. Len(recurring)
    BY <1>3
  <2>2. ASSUME NEW i \in DOMAIN recurring PROVE scored[i] \in Cluster
    <3> DEFINE m == recurring[i].members
    <3>1. recurring[i] \in Group
      BY <1>3
    <3>2. m \in Seq(In!Insights) /\ recurring[i].key \in {x.key : x \in In!Insights}
      BY <3>1 DEF Group
    <3>3. In!DoubleScore(m) \in Int
      <4> HIDE DEF m
      <4>1. Len(m) \in Nat /\ DOMAIN m = 1 .. Len(m)
        BY <3>2
      <4>2. IsFiniteSet({m[k].source : k \in DOMAIN m})
        <5> DEFINE f == [k \in DOMAIN m |-> m[k].source]
        <5>1. IsFiniteSet(DOMAIN m)
          BY <4>1, FS_Interval
        <5>2. {m[k].source : k \in DOMAIN m} = {f[k] : k \in DOMAIN m} /\ DOMAIN f = DOMAIN m
          OBVIOUS
        <5>3. IsFiniteSet({f[k] : k \in DOMAIN m})
          <6> HIDE DEF f
          <6> QED
            BY <5>1, <5>2, FiniteRange
        <5> QED
          BY <5>2, <5>3
      <4>3. Cardinality({m[k].source : k \in DOMAIN m}) \in Nat
        BY <4>2, FS_CardinalityType
      <4> QED
        BY <4>1, <4>3, SameCardinality DEF In!DoubleScore
    <3>4. [k \in DOMAIN m |-> m[k].id] \in Seq({x.id : x \in In!Insights})
      <4> HIDE DEF m
      <4>1. Len(m) \in Nat /\ DOMAIN m = 1 .. Len(m) /\ \A k \in DOMAIN m : m[k] \in In!Insights
        BY <3>2
      <4>2. [k \in DOMAIN m |-> m[k].id] \in [1 .. Len(m) -> {x.id : x \in In!Insights}]
        BY <4>1
      <4> QED
        BY <4>1, <4>2
    <3>5. scored[i] = [key |-> recurring[i].key, score |-> In!DoubleScore(m),
                       ids |-> [k \in DOMAIN m |-> m[k].id]]
      OBVIOUS
    <3> HIDE DEF m, scored
    <3> QED
      BY <3>2, <3>3, <3>4, <3>5 DEF Cluster
  <2>3. scored = [i \in 1 .. Len(recurring) |-> scored[i]]
    BY <2>1
  <2> HIDE DEF scored
  <2>4. scored \in [1 .. Len(recurring) -> Cluster]
    BY <2>1, <2>2, <2>3
  <2> QED
    BY <2>1, <2>4
<1> HIDE DEF scored
<1>5. sorted \in Seq(Cluster)
  BY <1>4, SortKeeps
<1> HIDE DEF sorted
<1>6. MaxClusters \in Nat
  BY DEF InboxSetting
<1> QED
  BY <1>1, <1>5, <1>6, FirstNKeeps

\* Lists are put in a row one by one.
FlattensInSteps(row, seqs) ==
  /\ row[0] = <<>>
  /\ \A k \in 1 .. Len(seqs) : row[k] = row[k - 1] \o seqs[k]

\* Flattening puts one list after the other.
LEMMA FlattenSolved ==
  ASSUME NEW S, NEW seqs \in Seq(Seq(S))
  PROVE  \E row \in [0 .. Len(seqs) -> Seq(S)] :
           In!FlattenSeq(seqs) = row[Len(seqs)] /\ FlattensInSteps(row, seqs)
<1> DEFINE n == Len(seqs)
           Step(f, k) == IF k = 1 THEN seqs[k] ELSE f[k - 1] \o seqs[k]
           Solves(f) == f = [k \in 1 .. n |-> Step(f, k)]
           all == Seq(S)
           none == <<>>
           g == [k \in 1 .. n |-> [t \in all |-> IF k = 1 THEN seqs[k] ELSE t \o seqs[k]]]
           h == CHOOSE f : Solves(f)
<1>1. n \in Nat /\ none \in all /\ \A k \in 1 .. n : seqs[k] \in all
  OBVIOUS
<1>2. In!FlattenSeq(seqs) = IF n = 0 THEN seqs ELSE h[n]
  BY DEF In!FlattenSeq
<1>4. \A t, u \in all : t \o u \in all
  <2> SUFFICES ASSUME NEW t \in Seq(S), NEW u \in Seq(S) PROVE t \o u \in Seq(S)
    OBVIOUS
  <2> QED
    BY ConcatIs
<1> HIDE DEF all, none, n
<1>5. g \in [1 .. n -> [all -> all]]
  BY <1>1, <1>4
<1> HIDE DEF g
<1>6. PICK f : Recursion(f, n, all, none, g)
  BY <1>1, <1>5, RecursionExists
<1> DEFINE e == [k \in 1 .. n |-> f[k]]
<1>7. Solves(e)
  <2>1. ASSUME NEW k \in 1 .. n PROVE e[k] = Step(e, k)
    <3>1. e[k] = g[k][f[k - 1]] /\ f[k - 1] \in all
      <4>1. k - 1 \in 0 .. n
        BY <1>1
      <4> QED
        BY <1>6, <4>1 DEF Recursion
    <3>2. e[k] = IF k = 1 THEN seqs[k] ELSE f[k - 1] \o seqs[k]
      BY <3>1 DEF g
    <3>3. k # 1 => e[k - 1] = f[k - 1]
      <4>1. k # 1 => k - 1 \in 1 .. n
        BY <1>1
      <4> QED
        BY <4>1
    <3> QED
      BY <3>2, <3>3
  <2>2. e = [k \in 1 .. n |-> e[k]]
    OBVIOUS
  <2> HIDE DEF e, Step
  <2> QED
    BY <2>1, <2>2
<1>8. Solves(h)
  <2> HIDE DEF Solves, e
  <2> QED
    BY <1>7
<1> HIDE DEF h
<1>9. \A k \in 1 .. n : h[k] = Step(h, k)
  BY <1>8
<1> DEFINE row == [k \in 0 .. n |-> IF k = 0 THEN none ELSE h[k]]
           T == {k \in 0 .. n : row[k] \in all}
<1>10. \A k \in 1 .. n : row[k] = row[k - 1] \o seqs[k]
  <2> SUFFICES ASSUME NEW k \in 1 .. n PROVE row[k] = row[k - 1] \o seqs[k]
    OBVIOUS
  <2>1. k \in 0 .. n /\ k - 1 \in 0 .. n /\ k # 0 /\ (k = 1 <=> k - 1 = 0)
    BY <1>1
  <2>2. row[k] = h[k] /\ (k # 1 => row[k - 1] = h[k - 1]) /\ (k = 1 => row[k - 1] = none)
    BY <2>1
  <2>3. none \o seqs[k] = seqs[k]
    <3>1. seqs[k] \in Seq(S)
      BY <1>1 DEF all
    <3> QED
      BY <3>1 DEF none
  <2> QED
    BY <1>9, <2>2, <2>3
<1>11. 0 \in T
  BY <1>1
<1>12. ASSUME NEW k \in 1 .. n, k - 1 \in T PROVE k \in T
  <2>1. k \in 0 .. n
    BY <1>1
  <2> HIDE DEF row
  <2> QED
    BY <1>1, <1>4, <1>10, <1>12, <2>1
<1>13. 0 .. n \subseteq T
  <2> HIDE DEF T
  <2> QED
    BY <1>1, <1>11, <1>12, UpTo
<1>14. row \in [0 .. n -> all] /\ row[0] = none
  BY <1>1, <1>13
<1>15. In!FlattenSeq(seqs) = row[n]
  <2>1. n \in 0 .. n /\ (n = 0 => seqs = none)
    BY <1>1 DEF n, none
  <2> QED
    BY <1>2, <2>1
<1> HIDE DEF row
<1> QED
  BY <1>10, <1>14, <1>15 DEF n, all, none, FlattensInSteps

\* Lists in a row are a list.
LEMMA FlattenTyped ==
  ASSUME NEW S, NEW seqs \in Seq(Seq(S))
  PROVE  In!FlattenSeq(seqs) \in Seq(S)
<1>1. Len(seqs) \in 0 .. Len(seqs)
  OBVIOUS
<1> QED
  BY <1>1, FlattenSolved

\* The insights of some sources are insights.
LEMMA OfSourcesTyped ==
  ASSUME NEW S, NEW insights \in Seq(S), NEW sources, NEW n \in Nat, DOMAIN sources = 1 .. n
  PROVE  In!OfSources(sources, insights) \in Seq(S)
<1> DEFINE From(i) == In!At(insights, {k \in DOMAIN insights : insights[k].source = sources[i]})
           seqs == [i \in DOMAIN sources |-> From(i)]
<1>1. In!OfSources(sources, insights) = In!FlattenSeq(seqs)
  BY DEF In!OfSources, In!Keep
<1>2. \A i \in 1 .. n : From(i) \in Seq(S)
  BY AtKeeps
<1> HIDE DEF From
<1>3. seqs \in [1 .. n -> Seq(S)]
  BY <1>2
<1>4. seqs \in Seq(Seq(S))
  <2> DEFINE all == Seq(S)
  <2>1. seqs \in [1 .. n -> all]
    BY <1>3
  <2> HIDE DEF all, seqs
  <2>2. seqs \in Seq(all)
    BY <2>1
  <2> QED
    BY <2>2 DEF all
<1> HIDE DEF seqs
<1> QED
  BY <1>1, <1>4, FlattenTyped

\* The sources of insights, each once.
LEMMA SourcesOfTyped ==
  ASSUME NEW insights \in Seq(In!Insights), InboxSetting
  PROVE  /\ In!SourcesOf(insights) \in Seq(Sources)
         /\ In!Range(In!SourcesOf(insights)) = {insights[i].source : i \in DOMAIN insights}
<1> DEFINE listed == [i \in DOMAIN insights |-> insights[i].source]
<1>1. Len(insights) \in Nat /\ DOMAIN insights = 1 .. Len(insights)
  OBVIOUS
<1>2. \A i \in DOMAIN insights : insights[i].source \in Sources
  BY DEF InboxSetting
<1>3. listed \in [1 .. Len(insights) -> Sources]
  BY <1>1, <1>2
<1>4. listed \in Seq(Sources)
  BY <1>1, <1>3
<1>5. In!Range(listed) = {insights[i].source : i \in DOMAIN insights}
  BY DEF In!Range
<1>6. In!SourcesOf(insights) = In!Distinct(listed)
  BY DEF In!SourcesOf
<1> HIDE DEF listed
<1> QED
  BY <1>4, <1>5, <1>6, DistinctKeeps

\* A ranking is the same insights, in another order.
LEMMA RankKeeps ==
  ASSUME NEW S, NEW insights \in Seq(S), NEW clusters
  PROVE  /\ In!Rank(insights, clusters) \in Seq(S)
         /\ Len(In!Rank(insights, clusters)) = Len(insights)
         /\ In!Range(In!Rank(insights, clusters)) = In!Range(insights)
<1> DEFINE Score(x) == In!RankScore(clusters, x)
           before == {p \in (DOMAIN insights) \X (DOMAIN insights) :
                        \/ Score(insights[p[1]]) > Score(insights[p[2]])
                        \/ /\ Score(insights[p[1]]) = Score(insights[p[2]])
                           /\ insights[p[1]].id < insights[p[2]].id}
           sorted == [k \in DOMAIN insights |-> insights[In!Sorted(Len(insights), before)[k]]]
<1>1. In!Rank(insights, clusters) = sorted
  BY DEF In!Rank, In!StableSort
<1> HIDE DEF before
<1>2. sorted \in Seq(S) /\ Len(sorted) = Len(insights) /\ In!Range(sorted) = In!Range(insights)
  BY SortKeeps
<1> QED
  BY <1>1, <1>2

\* Clusters that are made, or were.
LEMMA EnsureClustersTyped ==
  ASSUME InboxSetting, NEW insights \in Seq(In!Insights), NEW clusters \in Seq(Cluster),
         Len(clusters) <= MaxClusters
  PROVE  /\ In!EnsureClusters(insights, clusters) \in Seq(Cluster)
         /\ Len(In!EnsureClusters(insights, clusters)) <= MaxClusters
<1> DEFINE sources == In!SourcesOf(insights)
           ordered == In!OfSources(sources, insights)
<1>1. sources \in Seq(Sources)
  BY SourcesOfTyped
<1>2. Len(sources) \in Nat /\ DOMAIN sources = 1 .. Len(sources)
  BY <1>1
<1> HIDE DEF sources
<1>3. ordered \in Seq(In!Insights)
  BY <1>2, OfSourcesTyped
<1>4. In!EnsureClusters(insights, clusters) =
        IF clusters # <<>> THEN clusters ELSE In!Clusters(ordered)
  BY DEF In!EnsureClusters, sources
<1> HIDE DEF ordered
<1>5. /\ In!Clusters(ordered) \in Seq(Cluster)
      /\ Len(In!Clusters(ordered)) <= MaxClusters
  BY <1>3, ClustersTyped
<1> QED
  BY <1>4, <1>5

\* The members of a finite set, in a row.
LEMMA SetToSeqTyped ==
  ASSUME NEW T, IsFiniteSet(T)
  PROVE  In!SetToSeq(T) \in Seq(T)
<1> DEFINE n == Cardinality(T)
<1>1. n \in Nat /\ ExistsBijection(1 .. n, T)
  BY FS_CardinalityType
<1>2. In!SetToSeq(T) = CHOOSE f \in [1 .. n -> T] : In!IsInjective(f)
  BY SameCardinality DEF In!SetToSeq
<1> HIDE DEF n
<1>3. \E f \in [1 .. n -> T] : In!IsInjective(f)
  <2>1. PICK f : f \in Bijection(1 .. n, T)
    BY <1>1 DEF ExistsBijection
  <2>2. f \in [1 .. n -> T] /\ \A a, b \in 1 .. n : f[a] = f[b] => a = b
    BY <2>1 DEF Bijection, Injection, Surjection, IsInjective
  <2>3. In!IsInjective(f)
    BY <2>2 DEF In!IsInjective
  <2> QED
    BY <2>2, <2>3
<1>4. In!SetToSeq(T) \in [1 .. n -> T]
  BY <1>2, <1>3
<1> QED
  BY <1>1, <1>4

\* Themes are of sources that were given, no more than MaxClusters.
LEMMA ThemesTyped ==
  ASSUME InboxSetting, NEW sources \in Seq(Sources), NEW keywords,
         \A s \in In!Range(sources) : \E c \in Captures : keywords[s] = Keywords[c]
  PROVE  /\ In!Themes(sources, keywords) \in Seq(Theme)
         /\ Len(In!Themes(sources, keywords)) <= MaxClusters
<1> DEFINE R == In!Range(sources)
           Sharing(k) == {s \in R : k \in keywords[s]}
           shared == {k \in UNION {keywords[s] : s \in R} : In!Cardinality(Sharing(k)) >= 2}
           made == {[key |-> k, sources |-> Sharing(k)] : k \in shared}
           all == In!SetToSeq(made)
           before == {p \in (DOMAIN all) \X (DOMAIN all) :
                        \/ In!Cardinality(all[p[1]].sources) > In!Cardinality(all[p[2]].sources)
                        \/ /\ In!Cardinality(all[p[1]].sources)
                                  = In!Cardinality(all[p[2]].sources)
                           /\ all[p[1]].key < all[p[2]].key}
           sorted == [k \in DOMAIN all |-> all[In!Sorted(Len(all), before)[k]]]
<1>1. In!Themes(sources, keywords) = In!FirstN(sorted, MaxClusters)
  BY DEF In!Themes, In!StableSort
<1>2. IsFiniteSet(R) /\ R \subseteq Sources
  <2>1. IsFiniteSet(DOMAIN sources)
    <3>1. DOMAIN sources = 1 .. Len(sources) /\ Len(sources) \in Nat
      OBVIOUS
    <3>2. IsFiniteSet(1 .. Len(sources))
      <4> DEFINE n == Len(sources)
      <4>1. n \in Nat
        BY <3>1
      <4> HIDE DEF n
      <4>2. IsFiniteSet(1 .. n)
        BY <4>1, FS_Interval
      <4> QED
        BY <4>2 DEF n
    <3> QED
      BY <3>1, <3>2
  <2>2. IsFiniteSet({sources[i] : i \in DOMAIN sources})
    BY <2>1, FiniteRange
  <2> QED
    BY <2>2 DEF In!Range
<1>3. IsFiniteSet(UNION {keywords[s] : s \in R})
  <2> DEFINE f == [s \in R |-> keywords[s]]
  <2>1. {keywords[s] : s \in R} = {f[s] : s \in R} /\ DOMAIN f = R
    OBVIOUS
  <2>2. IsFiniteSet({f[s] : s \in R})
    <3> HIDE DEF f, R
    <3> QED
      BY <1>2, <2>1, FiniteRange
  <2>3. \A T \in {keywords[s] : s \in R} : IsFiniteSet(T)
    BY DEF InboxSetting
  <2> HIDE DEF f, R
  <2> QED
    BY <2>1, <2>2, <2>3, FS_UNION
<1>4. IsFiniteSet(made)
  <2>1. IsFiniteSet(shared)
    <3>1. shared \subseteq UNION {keywords[s] : s \in R}
      OBVIOUS
    <3> HIDE DEF shared
    <3> QED
      BY <1>3, <3>1, FS_Subset
  <2> DEFINE f == [k \in shared |-> [key |-> k, sources |-> Sharing(k)]]
  <2>2. made = {f[k] : k \in shared} /\ DOMAIN f = shared
    OBVIOUS
  <2>3. IsFiniteSet({f[k] : k \in shared})
    <3> HIDE DEF f, shared
    <3> QED
      BY <2>1, <2>2, FiniteRange
  <2> HIDE DEF made, f, shared
  <2> QED
    BY <2>2, <2>3
<1>5. made \subseteq Theme
  <2> SUFFICES ASSUME NEW k \in shared PROVE [key |-> k, sources |-> Sharing(k)] \in Theme
    OBVIOUS
  <2>1. k \in UNION {Keywords[c] : c \in Captures}
    OBVIOUS
  <2>2. Sharing(k) \subseteq Sources
    BY <1>2
  <2> QED
    BY <2>1, <2>2 DEF Theme
<1>6. all \in Seq(made)
  <2> HIDE DEF made
  <2> QED
    BY <1>4, SetToSeqTyped
<1>7. all \in Seq(Theme)
  <2> HIDE DEF made, all
  <2> QED
    BY <1>5, <1>6
<1> HIDE DEF all
<1>8. sorted \in Seq(Theme)
  <2> HIDE DEF before
  <2> QED
    BY <1>7, SortKeeps
<1> HIDE DEF sorted
<1>9. MaxClusters \in Nat
  BY DEF InboxSetting
<1> QED
  BY <1>1, <1>8, <1>9, FirstNKeeps

\* Connections are pairs of sources that were given, no more than MaxConnections.
LEMMA ConnectionsTyped ==
  ASSUME InboxSetting, NEW sources \in Seq(Sources), NEW keywords
  PROVE  /\ In!Connections(sources, keywords) \in Seq(Sources \X Sources)
         /\ Len(In!Connections(sources, keywords)) <= MaxConnections
<1> DEFINE n == Len(sources)
           After(i) == [d \in 1 .. n - i |-> <<sources[i], sources[i + d]>>]
           seqs == [i \in DOMAIN sources |-> After(i)]
           pairs == In!FlattenSeq(seqs)
           kept == In!At(pairs, {i \in DOMAIN pairs :
                     In!Cardinality(keywords[pairs[i][1]] \cap keywords[pairs[i][2]]) >= 2})
           Pairs == Sources \X Sources
<1>1. In!Connections(sources, keywords) = In!FirstN(kept, MaxConnections)
  BY DEF In!Connections, In!ConnectedPairs, In!Keep
<1>2. n \in Nat /\ DOMAIN sources = 1 .. n /\ \A i \in 1 .. n : sources[i] \in Sources
  OBVIOUS
<1>3. \A i \in 1 .. n : After(i) \in Seq(Pairs)
  <2> SUFFICES ASSUME NEW i \in 1 .. n PROVE After(i) \in Seq(Pairs)
    OBVIOUS
  <2>1. n - i \in Nat /\ \A d \in 1 .. n - i : i + d \in 1 .. n
    BY <1>2
  <2>2. After(i) \in [1 .. n - i -> Pairs]
    BY <1>2, <2>1
  <2> QED
    BY <2>1, <2>2
<1>4. seqs \in Seq(Seq(Pairs))
  <2> DEFINE each == Seq(Pairs)
  <2>1. seqs \in [1 .. n -> each]
    BY <1>2, <1>3
  <2> HIDE DEF each, seqs, n
  <2>2. seqs \in Seq(each)
    BY <1>2, <2>1
  <2> QED
    BY <2>2 DEF each
<1>5. pairs \in Seq(Pairs)
  <2> HIDE DEF seqs, Pairs
  <2> QED
    BY <1>4, FlattenTyped
<1> HIDE DEF pairs, Pairs
<1>6. kept \in Seq(Pairs)
  BY <1>5, AtKeeps
<1> HIDE DEF kept
<1>7. MaxConnections \in Nat
  BY DEF InboxSetting
<1>8. In!FirstN(kept, MaxConnections) \in Seq(Pairs)
      /\ Len(In!FirstN(kept, MaxConnections)) <= MaxConnections
  BY <1>6, <1>7, FirstNKeeps
<1> QED
  BY <1>1, <1>8 DEF Pairs

-----------------------------------------------------------------------------

Run ==
  [summaries : Seq(Captures), insights : Seq(In!Insights), bookmarks : Seq(Sources \ Videos),
   videos : Seq(Videos), clusters : Seq(Cluster), themes : Seq(Theme),
   connections : Seq(Sources \X Sources)]

\* A run is within its limits.
Limited(r) ==
  /\ Len(r.clusters) <= MaxClusters /\ Len(r.themes) <= MaxClusters
  /\ Len(r.connections) <= MaxConnections

InboxTyped ==
  /\ run \in Run /\ Limited(run)
  /\ digested \subseteq Sources
  /\ runs \in 0 .. LastRun /\ issues \in 0 .. LastIssue

Processing == [capture : Captures, insights : Seq(In!Insights)]

\* Before the first refresh there is nothing.
LEMMA InboxInitTyped == ASSUME InboxSetting, In!Init PROVE InboxTyped
<1>1. run = [summaries |-> <<>>, insights |-> <<>>, bookmarks |-> <<>>, videos |-> <<>>,
             clusters |-> <<>>, themes |-> <<>>, connections |-> <<>>]
  BY DEF In!Init
<1>2. \A S : <<>> \in Seq(S)
  OBVIOUS
<1>3. run \in Run
  BY <1>1, <1>2 DEF Run
<1>4. Limited(run)
  <2>1. Len(run.clusters) = 0 /\ Len(run.themes) = 0 /\ Len(run.connections) = 0
    BY <1>1
  <2> QED
    BY <2>1 DEF Limited, InboxSetting
<1> QED
  BY <1>3, <1>4 DEF InboxTyped, In!Init, InboxSetting

\* What a list ranges over.
LEMMA SeqRange == ASSUME NEW S, NEW s \in Seq(S) PROVE In!Range(s) \subseteq S
BY DEF In!Range

\* What the proof knows of the types is what the run checks, and more.
LEMMA InboxTypedMeans == ASSUME InboxTyped PROVE In!InboxTypeOK
<1>1. /\ In!Range(run.summaries) \subseteq Captures
      /\ In!Range(run.insights) \subseteq In!Insights
      /\ In!Range(run.bookmarks) \subseteq Sources \ Videos
      /\ In!Range(run.videos) \subseteq Videos
  BY SeqRange DEF InboxTyped, Run
<1> QED
  BY <1>1 DEF InboxTyped, In!InboxTypeOK, Captures, Limited

\* A run read again is ranked again, and has clusters; the rest of it is as saved.
LEMMA LatestTyped ==
  ASSUME InboxSetting, InboxTyped
  PROVE  /\ In!Latest \in Run /\ Limited(In!Latest)
         /\ In!Latest.summaries = run.summaries
         /\ In!Latest.insights = In!RankAgain(run.insights, run.clusters)
<1> DEFINE clusters == In!EnsureClusters(run.insights, run.clusters)
           insights == In!RankAgain(run.insights, run.clusters)
<1>1. /\ run \in Run /\ Limited(run)
      /\ run.insights \in Seq(In!Insights) /\ run.clusters \in Seq(Cluster)
      /\ Len(run.clusters) <= MaxClusters
  BY DEF InboxTyped, Run, Limited
<1>2. In!Latest = [run EXCEPT !.clusters = clusters, !.insights = insights]
  BY DEF In!Latest, In!Normalized
<1>3. clusters \in Seq(Cluster) /\ Len(clusters) <= MaxClusters
  BY <1>1, EnsureClustersTyped
<1>4. insights \in Seq(In!Insights)
  BY <1>1, RankKeeps DEF In!RankAgain
<1> HIDE DEF clusters, insights
<1>5. /\ In!Latest \in Run
      /\ In!Latest.summaries = run.summaries /\ In!Latest.themes = run.themes
      /\ In!Latest.connections = run.connections
      /\ In!Latest.clusters = clusters /\ In!Latest.insights = insights
  BY <1>1, <1>2, <1>3, <1>4 DEF Run
<1> QED
  BY <1>1, <1>3, <1>5 DEF Limited, insights

\* What is processed is a capture, with insights.
LEMMA ProcessingsTyped ==
  ASSUME InboxSetting, InboxTyped, NEW c \in Captures
  PROVE  In!Processings(c) \subseteq Processing
<1> DEFINE kept == In!SummaryOf(run, c.source)
           again == In!OfSources(<<c.source>>, In!Latest.insights)
<1>1. run.summaries \in Seq(Captures) /\ In!Latest.insights \in Seq(In!Insights)
  BY LatestTyped DEF InboxTyped, Run
<1>2. kept \in Seq(Captures)
  BY <1>1, AtKeeps DEF In!SummaryOf, In!Keep
<1>3. again \in Seq(In!Insights)
  <2>1. DOMAIN <<c.source>> = 1 .. 1 /\ 1 \in Nat
    OBVIOUS
  <2> QED
    BY <1>1, <2>1, OfSourcesTyped
<1>4. Made[c] \subseteq Seq(In!Insights)
  BY DEF InboxSetting
<1>5. \/ /\ kept # <<>>
         /\ In!Processings(c) = {[capture |-> kept[1], insights |-> again]}
      \/ In!Processings(c) = {[capture |-> c, insights |-> list] : list \in Made[c]}
  BY DEF In!Processings
<1>6. kept # <<>> => kept[1] \in Captures
  <2> HIDE DEF kept
  <2> QED
    BY <1>2
<1> HIDE DEF kept, again
<1> QED
  BY <1>3, <1>4, <1>5, <1>6 DEF Processing

\* Items that are merged were in one of the lists.
LEMMA MergedTyped ==
  ASSUME NEW S, NEW previous \in Seq(S), NEW fetched \in Seq(S)
  PROVE  In!MergedItems(previous, fetched) \in Seq(S)
<1>1. fetched \o previous \in Seq(S)
  BY ConcatIs
<1>2. In!Distinct(fetched \o previous) \in Seq(S)
  BY <1>1, DistinctKeeps
<1> QED
  BY <1>2 DEF In!MergedItems

\* A component of every item, in a row.
LEMMA MapTyped ==
  ASSUME NEW S, NEW s \in Seq(S), NEW T, NEW f, DOMAIN f = DOMAIN s,
         \A i \in DOMAIN s : f[i] \in T, f = [i \in DOMAIN s |-> f[i]]
  PROVE  f \in Seq(T)
<1>1. DOMAIN s = 1 .. Len(s) /\ Len(s) \in Nat
  OBVIOUS
<1>2. f \in [1 .. Len(s) -> T]
  BY <1>1
<1> QED
  BY <1>1, <1>2

\* What a refresh saves is a run.
LEMMA RefreshedTyped ==
  ASSUME InboxSetting, InboxTyped, NEW window \in Windows, NEW given \in Seq(Processing)
  PROVE  In!Refreshed(window, given) \in Run /\ Limited(In!Refreshed(window, given))
<1> DEFINE done == {given[i].capture.source : i \in DOMAIN given}
           listed == [i \in DOMAIN window |-> window[i].source]
           captured == [i \in DOMAIN given |-> given[i].capture]
           lists == [i \in DOMAIN given |-> given[i].insights]
           old == In!Latest.summaries
           oldInsights == In!Latest.insights
           stay == In!At(old, {i \in DOMAIN old : old[i].source \notin done})
           stayInsights == In!At(oldInsights,
             {i \in DOMAIN oldInsights : oldInsights[i].source \notin done})
           summaries == stay \o captured
           insights == stayInsights \o In!FlattenSeq(lists)
           named == [i \in DOMAIN summaries |-> summaries[i].source]
           sources == In!Distinct(named)
           Summary(x) == In!At(summaries, {i \in DOMAIN summaries : summaries[i].source = x})
           keywords == [x \in In!Range(sources) |-> Keywords[Summary(x)[1]]]
           clusters == In!Clusters(In!OfSources(sources, insights))
           posts == In!At(listed, {i \in DOMAIN listed : listed[i] \notin Videos})
           videos == In!At(listed, {i \in DOMAIN listed : listed[i] \in Videos})
<1>1. In!Refreshed(window, given) =
        [summaries |-> summaries,
         insights |-> In!Rank(insights, clusters),
         bookmarks |-> In!MergedItems(run.bookmarks, posts),
         videos |-> In!MergedItems(run.videos, videos),
         clusters |-> clusters,
         themes |-> In!Themes(sources, keywords),
         connections |-> In!Connections(sources, keywords)]
  BY DEF In!Refreshed, In!Keep
<1>2. old \in Seq(Captures) /\ oldInsights \in Seq(In!Insights)
  BY LatestTyped DEF Run
<1>3. stay \in Seq(Captures) /\ stayInsights \in Seq(In!Insights)
  BY <1>2, AtKeeps
<1>4. captured \in Seq(Captures) /\ lists \in Seq(Seq(In!Insights))
  <2>1. \A i \in DOMAIN given : captured[i] \in Captures /\ lists[i] \in Seq(In!Insights)
    <3>1. \A i \in DOMAIN given : given[i] \in Processing
      OBVIOUS
    <3> QED
      BY <3>1 DEF Processing
  <2>2. DOMAIN captured = DOMAIN given /\ captured = [i \in DOMAIN given |-> captured[i]]
    OBVIOUS
  <2>3. DOMAIN lists = DOMAIN given /\ lists = [i \in DOMAIN given |-> lists[i]]
    OBVIOUS
  <2> HIDE DEF captured, lists
  <2>4. captured \in Seq(Captures)
    BY <2>1, <2>2, MapTyped
  <2>5. lists \in Seq(Seq(In!Insights))
    BY <2>1, <2>3, MapTyped
  <2> QED
    BY <2>4, <2>5
<1> HIDE DEF stay, stayInsights, captured, lists
<1>5. summaries \in Seq(Captures)
  BY <1>3, <1>4, ConcatIs
<1>6. insights \in Seq(In!Insights)
  BY <1>3, <1>4, FlattenTyped, ConcatIs
<1> HIDE DEF summaries, insights
<1>7. named \in Seq(Sources)
  <2>1. \A i \in DOMAIN summaries : named[i] \in Sources
    BY <1>5 DEF InboxSetting
  <2>2. DOMAIN named = DOMAIN summaries /\ named = [i \in DOMAIN summaries |-> named[i]]
    OBVIOUS
  <2> HIDE DEF named
  <2> QED
    BY <1>5, <2>1, <2>2, MapTyped
<1>8. /\ sources \in Seq(Sources)
      /\ In!Range(sources) = {summaries[i].source : i \in DOMAIN summaries}
  <2>1. In!Range(named) = {summaries[i].source : i \in DOMAIN summaries}
    BY DEF In!Range
  <2> HIDE DEF named
  <2> QED
    BY <1>7, <2>1, DistinctKeeps
<1> HIDE DEF sources
<1>9. \A x \in In!Range(sources) : \E c \in Captures : keywords[x] = Keywords[c]
  <2> SUFFICES ASSUME NEW x \in In!Range(sources) PROVE Summary(x)[1] \in Captures
    OBVIOUS
  <2> DEFINE places == {i \in DOMAIN summaries : summaries[i].source = x}
             kept == In!At(summaries, places)
  <2>1. \E i \in places \cap DOMAIN summaries : TRUE
    BY <1>8
  <2>2. /\ kept \in Seq(Captures)
        /\ In!Range(kept) = {summaries[i] : i \in places \cap DOMAIN summaries}
    <3> HIDE DEF places
    <3> QED
      BY <1>5, AtKeeps
  <2>3. In!Range(kept) # {}
    BY <2>1, <2>2
  <2> HIDE DEF kept
  <2>4. kept # <<>>
    BY <2>3 DEF In!Range
  <2>5. kept[1] \in Captures
    BY <2>2, <2>4
  <2> QED
    BY <2>5 DEF kept
<1>10. clusters \in Seq(Cluster) /\ Len(clusters) <= MaxClusters
  <2>1. Len(sources) \in Nat /\ DOMAIN sources = 1 .. Len(sources)
    BY <1>8
  <2>2. In!OfSources(sources, insights) \in Seq(In!Insights)
    BY <1>6, <2>1, OfSourcesTyped
  <2> QED
    BY <2>2, ClustersTyped
<1> HIDE DEF clusters
<1>11. In!Rank(insights, clusters) \in Seq(In!Insights)
  BY <1>6, RankKeeps
<1> HIDE DEF keywords
<1>12. /\ In!Themes(sources, keywords) \in Seq(Theme)
       /\ Len(In!Themes(sources, keywords)) <= MaxClusters
  BY <1>8, <1>9, ThemesTyped
<1>13. /\ In!Connections(sources, keywords) \in Seq(Sources \X Sources)
       /\ Len(In!Connections(sources, keywords)) <= MaxConnections
  BY <1>8, ConnectionsTyped
<1>14. listed \in Seq(Sources)
  <2>1. window \in Seq(Captures)
    BY DEF InboxSetting
  <2>2. \A i \in DOMAIN window : listed[i] \in Sources
    BY <2>1 DEF InboxSetting
  <2>3. DOMAIN listed = DOMAIN window /\ listed = [i \in DOMAIN window |-> listed[i]]
    OBVIOUS
  <2> HIDE DEF listed
  <2> QED
    BY <2>1, <2>2, <2>3, MapTyped
<1> HIDE DEF listed
<1>15. posts \in Seq(Sources \ Videos) /\ videos \in Seq(Videos)
  <2>1. posts \in Seq(Sources) /\ In!Range(posts) \subseteq Sources \ Videos
    BY <1>14, AtKeeps
  <2>2. videos \in Seq(Sources) /\ In!Range(videos) \subseteq Videos
    BY <1>14, AtKeeps
  <2> HIDE DEF posts, videos
  <2>3. \A T : \A s \in Seq(Sources) : In!Range(s) \subseteq T => s \in Seq(T)
    BY DEF In!Range
  <2> QED
    BY <2>1, <2>2, <2>3
<1> HIDE DEF posts, videos
<1>16. /\ In!MergedItems(run.bookmarks, posts) \in Seq(Sources \ Videos)
       /\ In!MergedItems(run.videos, videos) \in Seq(Videos)
  <2>1. run.bookmarks \in Seq(Sources \ Videos) /\ run.videos \in Seq(Videos)
    BY DEF InboxTyped, Run
  <2> QED
    BY <1>15, <2>1, MergedTyped
<1> DEFINE r == In!Refreshed(window, given)
<1>17. r \in Run
  BY <1>1, <1>5, <1>10, <1>11, <1>12, <1>13, <1>16 DEF Run
<1>18. /\ r.clusters = clusters /\ r.themes = In!Themes(sources, keywords)
       /\ r.connections = In!Connections(sources, keywords)
  BY <1>1
<1> QED
  BY <1>10, <1>12, <1>13, <1>17, <1>18 DEF Limited

\* A refresh saves another run.
LEMMA RefreshTyped ==
  ASSUME InboxSetting, InboxTyped, NEW window \in Windows, In!Refresh(window)
  PROVE  InboxTyped'
<1> DEFINE new == In!At(window, {i \in DOMAIN window : ~In!Contains(run.summaries, window[i])})
           choices == UNION {In!Processings(new[i]) : i \in DOMAIN new}
<1>1. window \in Seq(Captures)
  BY DEF InboxSetting
<1>2. new \in Seq(Captures)
  BY <1>1, AtKeeps
<1>3. /\ runs < LastRun /\ runs' = runs + 1 /\ UNCHANGED <<issue, digested, issues>>
      /\ \E given \in [DOMAIN new -> choices] : run' = In!Refreshed(window, given)
  BY DEF In!Refresh, In!Keep
<1> HIDE DEF new
<1>4. DOMAIN new = 1 .. Len(new) /\ Len(new) \in Nat /\ \A i \in DOMAIN new : new[i] \in Captures
  BY <1>2
<1>5. choices \subseteq Processing
  BY <1>4, ProcessingsTyped
<1> HIDE DEF choices
<1>6. PICK given \in [DOMAIN new -> choices] : run' = In!Refreshed(window, given)
  BY <1>3
<1>7. given \in Seq(Processing)
  <2>1. given \in [1 .. Len(new) -> Processing]
    BY <1>4, <1>5
  <2> QED
    BY <1>4, <2>1
<1>8. run' \in Run /\ Limited(run')
  BY <1>6, <1>7, RefreshedTyped
<1>9. runs' \in 0 .. LastRun
  BY <1>3 DEF InboxTyped, InboxSetting
<1> QED
  BY <1>3, <1>8, <1>9 DEF InboxTyped, Limited, Run

\* What is new for an issue are sources.
LEMMA NewRefsTyped ==
  ASSUME InboxSetting, InboxTyped
  PROVE  In!NewRefs(In!Latest) \subseteq Sources \ digested
<1>1. In!Latest.summaries \in Seq(Captures) /\ In!Latest.insights \in Seq(In!Insights)
  BY LatestTyped DEF Run
<1>2. {c.source : c \in In!Range(In!Latest.summaries)} \subseteq Sources
  BY <1>1, SeqRange DEF InboxSetting
<1>3. In!Range(In!SourcesOf(In!Latest.insights)) \subseteq Sources
  BY <1>1, SourcesOfTyped, SeqRange
<1> QED
  BY <1>2, <1>3 DEF In!NewRefs

\* An issue adds its members to those of the others.
LEMMA DigestTyped ==
  ASSUME InboxSetting, InboxTyped, In!GenerateDigest
  PROVE  InboxTyped'
<1>1. /\ issues < LastIssue /\ issues' = issues + 1 /\ UNCHANGED <<run, runs>>
      /\ digested' = digested \cup In!NewRefs(In!Latest)
  BY DEF In!GenerateDigest
<1>2. digested' \subseteq Sources
  BY <1>1, NewRefsTyped DEF InboxTyped
<1>3. issues' \in 0 .. LastIssue
  BY <1>1 DEF InboxTyped, InboxSetting
<1> QED
  BY <1>1, <1>2, <1>3 DEF InboxTyped, Limited, Run

-----------------------------------------------------------------------------

\* The good ones are of those that are offered.
LEMMA GoodTyped ==
  ASSUME NEW S, NEW offered \in Seq(S)
  PROVE  /\ In!GoodInsights(offered) \in Seq(S)
         /\ In!Range(In!GoodInsights(offered)) \subseteq In!Range(offered)
<1> DEFINE places == {i \in DOMAIN offered : offered[i].quality = 0 \/ offered[i].quality >= 70}
           good == In!At(offered, places)
<1>1. In!GoodInsights(offered) = IF good = <<>> THEN offered ELSE good
  BY DEF In!GoodInsights, In!Keep
<1> HIDE DEF places
<1>2. good \in Seq(S) /\ In!Range(good) = {offered[i] : i \in places \cap DOMAIN offered}
  BY AtKeeps
<1>3. In!Range(good) \subseteq In!Range(offered)
  BY <1>2 DEF In!Range
<1> HIDE DEF good
<1> QED
  BY <1>1, <1>2, <1>3

\* Any order of some items is a list of them.
LEMMA OrderKeeps ==
  ASSUME NEW S, NEW good \in Seq(S), NEW p \in In!Bijection(DOMAIN good, DOMAIN good), NEW order,
         order = [i \in DOMAIN good |-> good[p[i]]]
  PROVE  order \in Seq(S) /\ In!Range(order) = In!Range(good)
<1> DEFINE D == DOMAIN good
<1>1. D = 1 .. Len(good) /\ Len(good) \in Nat /\ \A i \in D : good[i] \in S
  OBVIOUS
<1> HIDE DEF D
<1>2. p \in [D -> D] /\ \A w \in D : \E v \in D : p[v] = w
  BY DEF In!Bijection, In!Injection, In!Surjection, D
<1>3. order = [i \in D |-> good[p[i]]] /\ DOMAIN good = D
  BY DEF D
<1>4. order \in Seq(S)
  <2>1. order \in [D -> S]
    BY <1>1, <1>2, <1>3
  <2> QED
    BY <1>1, <2>1
<1>5. \A i \in D : order[i] \in In!Range(good)
  BY <1>2, <1>3 DEF In!Range
<1>6. \A j \in D : good[j] \in In!Range(order)
  <2> SUFFICES ASSUME NEW j \in D PROVE \E i \in DOMAIN order : order[i] = good[j]
    BY DEF In!Range
  <2>1. PICK i \in D : p[i] = j
    BY <1>2
  <2> QED
    BY <1>3, <2>1
<1>7. In!Range(order) = {order[i] : i \in D} /\ In!Range(good) = {good[i] : i \in D}
  BY <1>3 DEF In!Range
<1> QED
  BY <1>4, <1>5, <1>6, <1>7

\* What is selected: items of the order, each once, one of each kind there is.
LEMMA SelectedSound ==
  ASSUME InboxSetting, NEW order \in Seq(In!Insights)
  PROVE  LET chosen == In!Selected(order)
         IN  /\ In!Range(chosen) \subseteq In!Range(order)
             /\ \A i, j \in DOMAIN chosen : chosen[i] = chosen[j] => i = j
             /\ \A kind \in {Videos, Sources \ Videos} :
                  (\E x \in In!Range(order) : x.source \in kind) =>
                    \E x \in In!Range(chosen) : x.source \in kind
<1> DEFINE Where(kind) == {i \in DOMAIN order : order[i].source \in kind}
           OfKind(kind) == In!FirstN(In!At(order, Where(kind)), 1)
           a == OfKind(Videos)
           b == OfKind(Sources \ Videos)
           t == a \o b \o order
           d == In!Distinct(t)
           chosen == In!FirstN(d, MaxInsights)
<1>1. In!Selected(order) = chosen
  BY DEF In!Selected, In!Keep
<1>2. ASSUME NEW kind
      PROVE  /\ OfKind(kind) \in Seq(In!Insights) /\ Len(OfKind(kind)) <= 1
             /\ In!Range(OfKind(kind)) \subseteq In!Range(order)
             /\ \A k \in DOMAIN OfKind(kind) : OfKind(kind)[k].source \in kind
             /\ (\E x \in In!Range(order) : x.source \in kind) => Len(OfKind(kind)) = 1
  <2> DEFINE of == In!At(order, Where(kind))
  <2>1. /\ of \in Seq(In!Insights)
        /\ In!Range(of) = {order[i] : i \in Where(kind) \cap DOMAIN order}
    <3> HIDE DEF Where
    <3> QED
      BY AtKeeps
  <2>2. In!Range(of) \subseteq In!Range(order) /\ \A x \in In!Range(of) : x.source \in kind
    BY <2>1 DEF In!Range
  <2>3. (\E x \in In!Range(order) : x.source \in kind) => In!Range(of) # {}
    BY <2>1 DEF In!Range
  <2> HIDE DEF of
  <2>4. Len(of) \in Nat /\ DOMAIN of = 1 .. Len(of)
    BY <2>1
  <2>5. In!Range(of) # {} => Len(of) # 0
    BY <2>4 DEF In!Range
  <2>6. /\ In!FirstN(of, 1) \in Seq(In!Insights)
        /\ Len(In!FirstN(of, 1)) = IF Len(of) < 1 THEN Len(of) ELSE 1
        /\ \A k \in DOMAIN In!FirstN(of, 1) : k \in DOMAIN of /\ In!FirstN(of, 1)[k] = of[k]
        /\ In!Range(In!FirstN(of, 1)) \subseteq In!Range(of)
    BY <2>1, FirstNKeeps
  <2>7. \A k \in DOMAIN of : of[k].source \in kind
    BY <2>2 DEF In!Range
  <2>8. OfKind(kind) = In!FirstN(of, 1)
    BY DEF of
  <2> HIDE DEF OfKind
  <2>9. Len(In!FirstN(of, 1)) <= 1 /\ (Len(of) # 0 => Len(In!FirstN(of, 1)) = 1)
    BY <2>4, <2>6
  <2> QED
    BY <2>2, <2>3, <2>5, <2>6, <2>7, <2>8, <2>9
<1> HIDE DEF OfKind
<1>3. /\ a \in Seq(In!Insights) /\ Len(a) <= 1 /\ In!Range(a) \subseteq In!Range(order)
      /\ b \in Seq(In!Insights) /\ Len(b) <= 1 /\ In!Range(b) \subseteq In!Range(order)
  BY <1>2
<1>4. /\ \A k \in DOMAIN a : a[k].source \in Videos
      /\ \A k \in DOMAIN b : b[k].source \in Sources \ Videos
      /\ (\E x \in In!Range(order) : x.source \in Videos) => Len(a) = 1
      /\ (\E x \in In!Range(order) : x.source \in Sources \ Videos) => Len(b) = 1
  BY <1>2
<1> HIDE DEF a, b
<1>5. /\ Len(a) \in Nat /\ DOMAIN a = 1 .. Len(a) /\ Len(b) \in Nat /\ DOMAIN b = 1 .. Len(b)
      /\ Len(order) \in Nat /\ DOMAIN order = 1 .. Len(order)
  BY <1>3
<1>6. /\ t \in Seq(In!Insights) /\ Len(t) = Len(a) + Len(b) + Len(order)
      /\ DOMAIN t = 1 .. Len(a) + Len(b) + Len(order)
      /\ \A k \in 1 .. Len(a) : t[k] = a[k]
      /\ \A k \in 1 .. Len(b) : t[Len(a) + k] = b[k]
      /\ \A k \in 1 .. Len(order) : t[Len(a) + Len(b) + k] = order[k]
  <2> DEFINE u == a \o b
  <2>1. /\ u \in Seq(In!Insights) /\ Len(u) = Len(a) + Len(b)
        /\ \A k \in 1 .. Len(a) + Len(b) : u[k] = IF k <= Len(a) THEN a[k] ELSE b[k - Len(a)]
    BY <1>3, ConcatIs
  <2> HIDE DEF u
  <2>2. /\ u \o order \in Seq(In!Insights) /\ Len(u \o order) = Len(u) + Len(order)
        /\ \A k \in 1 .. Len(u) + Len(order) :
             (u \o order)[k] = IF k <= Len(u) THEN u[k] ELSE order[k - Len(u)]
    <3>1. u \in Seq(In!Insights) /\ order \in Seq(In!Insights)
      BY <2>1
    <3> QED
      BY <3>1, ConcatIs
  <2>3. t = u \o order
    BY DEF u
  <2> HIDE DEF t
  <2>4. ASSUME NEW k \in 1 .. Len(a) PROVE t[k] = a[k]
    <3>1. /\ k \in 1 .. Len(u) + Len(order) /\ k <= Len(u) /\ k <= Len(a)
          /\ k \in 1 .. Len(a) + Len(b)
      BY <1>5, <2>1
    <3> QED
      BY <2>1, <2>2, <2>3, <3>1
  <2>5. ASSUME NEW k \in 1 .. Len(b) PROVE t[Len(a) + k] = b[k]
    <3>1. /\ Len(a) + k \in 1 .. Len(u) + Len(order) /\ Len(a) + k <= Len(u)
          /\ ~(Len(a) + k <= Len(a)) /\ (Len(a) + k) - Len(a) = k
          /\ Len(a) + k \in 1 .. Len(a) + Len(b)
      BY <1>5, <2>1
    <3> QED
      BY <2>1, <2>2, <2>3, <3>1
  <2>6. ASSUME NEW k \in 1 .. Len(order) PROVE t[Len(a) + Len(b) + k] = order[k]
    <3>1. /\ Len(a) + Len(b) + k \in 1 .. Len(u) + Len(order)
          /\ ~(Len(a) + Len(b) + k <= Len(u)) /\ (Len(a) + Len(b) + k) - Len(u) = k
      BY <1>5, <2>1
    <3> QED
      BY <2>2, <2>3, <3>1
  <2>7. t \in Seq(In!Insights) /\ Len(t) = Len(a) + Len(b) + Len(order)
    BY <2>1, <2>2, <2>3
  <2>8. DOMAIN t = 1 .. Len(t)
    BY <2>7
  <2> QED
    BY <2>4, <2>5, <2>6, <2>7, <2>8
<1>7. In!Range(t) \subseteq In!Range(order)
  <2> SUFFICES ASSUME NEW k \in DOMAIN t PROVE t[k] \in In!Range(order)
    BY DEF In!Range
  <2> HIDE DEF t
  <2>1. CASE k <= Len(a)
    <3>1. k \in 1 .. Len(a)
      BY <1>5, <1>6, <2>1
    <3> QED
      BY <1>3, <1>5, <1>6, <3>1 DEF In!Range
  <2>2. CASE k > Len(a) /\ k <= Len(a) + Len(b)
    <3>1. k - Len(a) \in 1 .. Len(b) /\ Len(a) + (k - Len(a)) = k
      BY <1>5, <1>6, <2>2
    <3>2. t[k] = b[k - Len(a)]
      BY <1>6, <3>1
    <3> QED
      BY <1>3, <1>5, <3>1, <3>2 DEF In!Range
  <2>3. CASE k > Len(a) + Len(b)
    <3> DEFINE m == k - (Len(a) + Len(b))
    <3>1. m \in 1 .. Len(order) /\ Len(a) + Len(b) + m = k
      BY <1>5, <1>6, <2>3
    <3> HIDE DEF m
    <3>2. t[k] = order[m]
      BY <1>6, <3>1
    <3> QED
      BY <1>5, <3>1, <3>2 DEF In!Range
  <2>4. k \in Int
    BY <1>5, <1>6
  <2> QED
    BY <1>5, <2>1, <2>2, <2>3, <2>4
<1> HIDE DEF t
<1>8. /\ d \in Seq(In!Insights) /\ In!Range(d) = In!Range(t)
      /\ \A i, j \in DOMAIN d : d[i] = d[j] => i = j
  BY <1>6, DistinctKeeps
<1>9. \A i \in DOMAIN t : \E k \in DOMAIN d : k <= i /\ d[k] = t[i]
  BY <1>6, DistinctEarly
<1> HIDE DEF d
<1>10. MaxInsights \in Nat /\ MaxInsights >= 2
  BY DEF InboxSetting
<1>11. /\ chosen \in Seq(In!Insights)
       /\ Len(chosen) = IF Len(d) < MaxInsights THEN Len(d) ELSE MaxInsights
       /\ \A i \in DOMAIN chosen : i \in DOMAIN d /\ chosen[i] = d[i]
       /\ In!Range(chosen) \subseteq In!Range(d)
  BY <1>8, <1>10, FirstNKeeps
<1> HIDE DEF chosen
<1>12. Len(d) \in Nat /\ DOMAIN d = 1 .. Len(d) /\ DOMAIN chosen = 1 .. Len(chosen)
  BY <1>8, <1>11
<1>13. ASSUME NEW i \in DOMAIN t, i <= 2 PROVE t[i] \in In!Range(chosen)
  <2>1. PICK k \in DOMAIN d : k <= i /\ d[k] = t[i]
    BY <1>9
  <2>2. i \in Int
    BY <1>5, <1>6
  <2>3. k \in DOMAIN chosen
    BY <1>10, <1>11, <1>12, <1>13, <2>1, <2>2
  <2> QED
    BY <1>11, <2>1, <2>3 DEF In!Range
<1>14. ASSUME Len(a) = 1 PROVE \E x \in In!Range(chosen) : x.source \in Videos
  <2>1. 1 \in DOMAIN t /\ t[1] = a[1] /\ 1 \in DOMAIN a
    BY <1>5, <1>6, <1>14
  <2>2. t[1] \in In!Range(chosen)
    BY <1>13, <2>1
  <2> QED
    BY <1>4, <2>1, <2>2
<1>15. ASSUME Len(b) = 1 PROVE \E x \in In!Range(chosen) : x.source \in Sources \ Videos
  <2>1. /\ Len(a) + 1 \in DOMAIN t /\ t[Len(a) + 1] = b[1] /\ 1 \in DOMAIN b
        /\ Len(a) + 1 <= 2
    BY <1>3, <1>5, <1>6, <1>15
  <2>2. t[Len(a) + 1] \in In!Range(chosen)
    BY <1>13, <2>1
  <2> QED
    BY <1>4, <2>1, <2>2
<1>16. In!Range(chosen) \subseteq In!Range(order)
  BY <1>7, <1>8, <1>11
<1>17. \A i, j \in DOMAIN chosen : chosen[i] = chosen[j] => i = j
  BY <1>8, <1>11
<1> QED
  BY <1>1, <1>4, <1>14, <1>15, <1>16, <1>17

\* An issue of what is offered shows good insights, and when there are too many, each
\* once and both kinds.
LEMMA ChosenSound ==
  ASSUME InboxSetting, NEW offered \in Seq(In!Insights), NEW chosen \in In!Selections(offered)
  PROVE  LET good == In!GoodInsights(offered)
         IN  /\ In!Range(chosen) \subseteq In!Range(good)
             /\ MaxInsights < Len(good) =>
                  /\ \A i, j \in DOMAIN chosen : chosen[i] = chosen[j] => i = j
                  /\ \A kind \in {Videos, Sources \ Videos} :
                       (\E x \in In!Range(good) : x.source \in kind) =>
                         \E x \in In!Range(chosen) : x.source \in kind
<1> DEFINE good == In!GoodInsights(offered)
           Order(p) == [i \in DOMAIN good |-> good[p[i]]]
<1>1. good \in Seq(In!Insights) /\ Len(good) \in Nat
  <2>1. good \in Seq(In!Insights)
    BY GoodTyped
  <2> HIDE DEF good
  <2> QED
    BY <2>1
<1>2. chosen \in IF Len(good) <= MaxInsights THEN {good}
                 ELSE {In!Selected(Order(p)) : p \in In!Bijection(DOMAIN good, DOMAIN good)}
  BY DEF In!Selections
<1> HIDE DEF good
<1>3. CASE Len(good) <= MaxInsights
  BY <1>1, <1>2, <1>3 DEF InboxSetting, good
<1>4. CASE ~(Len(good) <= MaxInsights)
  <2>1. PICK p \in In!Bijection(DOMAIN good, DOMAIN good) : chosen = In!Selected(Order(p))
    BY <1>2, <1>4
  <2> DEFINE order == Order(p)
  <2>2. order \in Seq(In!Insights) /\ In!Range(order) = In!Range(good)
    BY <1>1, OrderKeeps
  <2>3. chosen = In!Selected(order)
    BY <2>1
  <2> HIDE DEF order
  <2> QED
    BY <2>2, <2>3, SelectedSound DEF good
<1> QED
  BY <1>3, <1>4

\* Themes that are cut to some sources are of these.
LEMMA CutThemes ==
  ASSUME NEW themes \in Seq(Theme), NEW refs
  PROVE  \A t \in In!Range(In!FilterThemes(themes, refs)) : t.sources \subseteq refs
<1> DEFINE cut == [i \in DOMAIN themes |-> [themes[i] EXCEPT !.sources = @ \cap refs]]
           places == {i \in DOMAIN cut : cut[i].sources # {}}
           All == {cut[i] : i \in DOMAIN themes}
<1>1. In!FilterThemes(themes, refs) = In!At(cut, places)
  BY DEF In!FilterThemes, In!Keep
<1>2. \A i \in DOMAIN themes : cut[i].sources \subseteq refs
  <2>1. \A i \in DOMAIN themes : themes[i] \in Theme
    OBVIOUS
  <2> QED
    BY <2>1 DEF Theme
<1>3. cut \in Seq(All)
  <2>1. DOMAIN cut = DOMAIN themes /\ cut = [i \in DOMAIN themes |-> cut[i]]
    OBVIOUS
  <2>2. \A i \in DOMAIN themes : cut[i] \in All
    OBVIOUS
  <2> HIDE DEF cut, All
  <2> QED
    BY <2>1, <2>2, MapTyped
<1> HIDE DEF places
<1>4. In!At(cut, places) \in Seq(All)
  <2> HIDE DEF cut, All
  <2> QED
    BY <1>3, AtKeeps
<1>5. In!Range(In!At(cut, places)) \subseteq All
  <2> HIDE DEF cut, All
  <2> QED
    BY <1>4, SeqRange
<1> HIDE DEF cut
<1> QED
  BY <1>1, <1>2, <1>5

\* Clusters that are cut to some insights are of these.
LEMMA CutClusters ==
  ASSUME NEW clusters \in Seq(Cluster), NEW ids
  PROVE  \A c \in In!Range(In!FilterClusters(clusters, ids)) : In!Range(c.ids) \subseteq ids
<1> DEFINE Left(c) == In!At(c.ids, {k \in DOMAIN c.ids : c.ids[k] \in ids})
           cut == [i \in DOMAIN clusters |-> [clusters[i] EXCEPT !.ids = Left(clusters[i])]]
           places == {i \in DOMAIN cut : cut[i].ids # <<>>}
           All == {cut[i] : i \in DOMAIN clusters}
<1>1. In!FilterClusters(clusters, ids) = In!At(cut, places)
  BY DEF In!FilterClusters, In!Keep
<1>2. \A i \in DOMAIN clusters : In!Range(cut[i].ids) \subseteq ids
  <2> SUFFICES ASSUME NEW i \in DOMAIN clusters PROVE In!Range(cut[i].ids) \subseteq ids
    OBVIOUS
  <2> DEFINE c == clusters[i]
             those == {k \in DOMAIN c.ids : c.ids[k] \in ids}
  <2>1. c \in Cluster
    OBVIOUS
  <2>2. c.ids \in Seq({x.id : x \in In!Insights})
    BY <2>1 DEF Cluster
  <2>3. cut[i].ids = In!At(c.ids, those)
    <3>1. cut[i] = [c EXCEPT !.ids = Left(c)]
      OBVIOUS
    <3> HIDE DEF c, Left
    <3>2. [c EXCEPT !.ids = Left(c)].ids = Left(c)
      BY <2>1 DEF Cluster
    <3> QED
      BY <3>1, <3>2 DEF Left
  <2> HIDE DEF c
  <2>4. In!Range(In!At(c.ids, those)) = {c.ids[k] : k \in those \cap DOMAIN c.ids}
    <3> HIDE DEF those
    <3> QED
      BY <2>2, AtKeeps
  <2> HIDE DEF cut
  <2> QED
    BY <2>3, <2>4
<1>3. cut \in Seq(All)
  <2>1. DOMAIN cut = DOMAIN clusters /\ cut = [i \in DOMAIN clusters |-> cut[i]]
    OBVIOUS
  <2>2. \A i \in DOMAIN clusters : cut[i] \in All
    OBVIOUS
  <2> HIDE DEF cut, All
  <2> QED
    BY <2>1, <2>2, MapTyped
<1> HIDE DEF places
<1>4. In!At(cut, places) \in Seq(All)
  <2> HIDE DEF cut, All
  <2> QED
    BY <1>3, AtKeeps
<1>5. In!Range(In!At(cut, places)) \subseteq All
  <2> HIDE DEF cut, All
  <2> QED
    BY <1>4, SeqRange
<1> HIDE DEF cut
<1> QED
  BY <1>1, <1>2, <1>5

\* Connections that are kept are between some sources.
LEMMA CutConnections ==
  ASSUME NEW connections \in Seq(Sources \X Sources), NEW refs
  PROVE  \A c \in In!Range(In!FilterConnections(connections, refs)) : In!Range(c) \subseteq refs
<1> DEFINE places == {i \in DOMAIN connections :
                        connections[i][1] \in refs /\ connections[i][2] \in refs}
<1>1. In!FilterConnections(connections, refs) = In!At(connections, places)
  BY DEF In!FilterConnections, In!Keep
<1>2. In!Range(In!At(connections, places)) =
        {connections[i] : i \in places \cap DOMAIN connections}
  <2> HIDE DEF places
  <2> QED
    BY AtKeeps
<1>3. ASSUME NEW c \in Sources \X Sources, c[1] \in refs, c[2] \in refs
      PROVE  In!Range(c) \subseteq refs
  <2>1. c = <<c[1], c[2]>>
    OBVIOUS
  <2>2. DOMAIN <<c[1], c[2]>> = {1, 2}
    OBVIOUS
  <2> QED
    BY <1>3, <2>1, <2>2 DEF In!Range
<1> QED
  BY <1>1, <1>2, <1>3

\* What an issue is offered, of sources that are new: theirs.
LEMMA InputsSound ==
  ASSUME InboxSetting, NEW latest \in Run, NEW refs
  PROVE  LET inputs == In!DigestInputs(latest, refs)
         IN  /\ inputs.offered \in Seq(In!Insights)
             /\ refs # {} =>
                  /\ \A x \in In!Range(inputs.offered) : x.source \in refs
                  /\ \A t \in In!Range(inputs.themes) : t.sources \subseteq refs
                  /\ \A c \in In!Range(inputs.clusters) :
                       In!Range(c.ids) \subseteq In!Ids(inputs.offered)
                  /\ \A c \in In!Range(inputs.connections) : In!Range(c) \subseteq refs
<1> DEFINE all == latest.insights
           theirs == {i \in DOMAIN all : all[i].source \in refs}
           offered == In!At(all, theirs)
           inputs == In!DigestInputs(latest, refs)
<1>1. /\ all \in Seq(In!Insights) /\ latest.themes \in Seq(Theme)
      /\ latest.clusters \in Seq(Cluster) /\ latest.connections \in Seq(Sources \X Sources)
  BY DEF Run
<1>2. /\ offered \in Seq(In!Insights)
      /\ In!Range(offered) = {all[i] : i \in theirs \cap DOMAIN all}
  <2> HIDE DEF theirs, all
  <2> QED
    BY <1>1, AtKeeps
<1>3. \A x \in In!Range(offered) : x.source \in refs
  BY <1>2
<1>4. CASE refs = {}
  <2>1. inputs = [offered |-> all, themes |-> latest.themes,
                  clusters |-> latest.clusters, connections |-> latest.connections]
    BY <1>4 DEF In!DigestInputs
  <2>2. inputs.offered = all
    BY <2>1
  <2> QED
    BY <1>1, <1>4, <2>2
<1>5. CASE refs # {}
  <2>1. inputs = [offered |-> offered,
                  themes |-> In!FilterThemes(latest.themes, refs),
                  clusters |-> In!FilterClusters(latest.clusters, In!Ids(offered)),
                  connections |-> In!FilterConnections(latest.connections, refs)]
    BY <1>5 DEF In!DigestInputs, In!Keep
  <2> HIDE DEF offered, inputs
  <2>2. /\ inputs.offered = offered
        /\ inputs.themes = In!FilterThemes(latest.themes, refs)
        /\ inputs.clusters = In!FilterClusters(latest.clusters, In!Ids(offered))
        /\ inputs.connections = In!FilterConnections(latest.connections, refs)
    BY <2>1
  <2>3. \A t \in In!Range(inputs.themes) : t.sources \subseteq refs
    BY <1>1, <2>2, CutThemes
  <2>4. \A c \in In!Range(inputs.clusters) : In!Range(c.ids) \subseteq In!Ids(inputs.offered)
    BY <1>1, <2>2, CutClusters
  <2>5. \A c \in In!Range(inputs.connections) : In!Range(c) \subseteq refs
    BY <1>1, <2>2, CutConnections
  <2> QED
    BY <1>2, <1>3, <2>2, <2>3, <2>4, <2>5 DEF inputs
<1> QED
  BY <1>4, <1>5

\* What an issue says is sound.
IssueIsSound(i) ==
  LET good == In!Range(In!GoodInsights(i.offered))
      shown == In!Range(i.insights)
  IN  /\ i.refs \cap i.earlier = {}
      /\ i.refs # {} =>
           /\ {x.source : x \in shown} \subseteq i.refs
           /\ \A t \in In!Range(i.themes) : t.sources \subseteq i.refs
           /\ \A c \in In!Range(i.clusters) : In!Range(c.ids) \subseteq In!Ids(i.offered)
           /\ \A c \in In!Range(i.connections) : In!Range(c) \subseteq i.refs
      /\ shown \subseteq good
      /\ MaxInsights < Len(In!GoodInsights(i.offered)) =>
           /\ \A j, k \in DOMAIN i.insights : i.insights[j] = i.insights[k] => j = k
           /\ \A kind \in {Videos, Sources \ Videos} :
                (\E x \in good : x.source \in kind) => \E x \in shown : x.source \in kind

\* The property, of the latest issue.
LEMMA IssueSoundMeans == In!IssueSound <=> (issue # <<>> => IssueIsSound(issue))
BY DEF In!IssueSound, IssueIsSound

\* A digest of the latest run is sound.
LEMMA DigestSound ==
  ASSUME InboxSetting, InboxTyped, In!GenerateDigest
  PROVE  IssueIsSound(issue')
<1> DEFINE refs == In!NewRefs(In!Latest)
           inputs == In!DigestInputs(In!Latest, refs)
<1>1. PICK chosen \in In!Selections(inputs.offered) :
        issue' = [refs |-> refs, earlier |-> digested, offered |-> inputs.offered,
                  insights |-> chosen, themes |-> inputs.themes,
                  clusters |-> inputs.clusters, connections |-> inputs.connections]
  BY DEF In!GenerateDigest
<1>2. refs \cap digested = {}
  BY NewRefsTyped
<1>3. In!Latest \in Run
  BY LatestTyped
<1> HIDE DEF refs
<1>4. /\ inputs.offered \in Seq(In!Insights)
      /\ refs # {} =>
           /\ \A x \in In!Range(inputs.offered) : x.source \in refs
           /\ \A t \in In!Range(inputs.themes) : t.sources \subseteq refs
           /\ \A c \in In!Range(inputs.clusters) :
                In!Range(c.ids) \subseteq In!Ids(inputs.offered)
           /\ \A c \in In!Range(inputs.connections) : In!Range(c) \subseteq refs
  BY <1>3, InputsSound
<1> HIDE DEF inputs
<1> DEFINE offered == inputs.offered
           good == In!GoodInsights(offered)
<1>5. /\ In!Range(chosen) \subseteq In!Range(good)
      /\ MaxInsights < Len(good) =>
           /\ \A i, j \in DOMAIN chosen : chosen[i] = chosen[j] => i = j
           /\ \A kind \in {Videos, Sources \ Videos} :
                (\E x \in In!Range(good) : x.source \in kind) =>
                  \E x \in In!Range(chosen) : x.source \in kind
  BY <1>1, <1>4, ChosenSound
<1>6. In!Range(good) \subseteq In!Range(offered)
  BY <1>4, GoodTyped
<1>7. /\ issue'.refs = refs /\ issue'.earlier = digested /\ issue'.offered = offered
      /\ issue'.insights = chosen /\ issue'.themes = inputs.themes
      /\ issue'.clusters = inputs.clusters /\ issue'.connections = inputs.connections
  BY <1>1
<1>8. refs # {} => {x.source : x \in In!Range(chosen)} \subseteq refs
  <2> HIDE DEF good, offered
  <2>1. refs # {} => \A x \in In!Range(offered) : x.source \in refs
    BY <1>4 DEF offered
  <2> QED
    BY <1>5, <1>6, <2>1
<1> DEFINE i == issue'
<1>9. i.refs \cap i.earlier = {}
  BY <1>2, <1>7
<1>10. i.refs # {} =>
         /\ {x.source : x \in In!Range(i.insights)} \subseteq i.refs
         /\ \A t \in In!Range(i.themes) : t.sources \subseteq i.refs
         /\ \A c \in In!Range(i.clusters) : In!Range(c.ids) \subseteq In!Ids(i.offered)
         /\ \A c \in In!Range(i.connections) : In!Range(c) \subseteq i.refs
  BY <1>4, <1>7, <1>8
<1>11. In!Range(i.insights) \subseteq In!Range(In!GoodInsights(i.offered))
  BY <1>5, <1>7
<1>12. MaxInsights < Len(In!GoodInsights(i.offered)) =>
         /\ \A j, k \in DOMAIN i.insights : i.insights[j] = i.insights[k] => j = k
         /\ \A kind \in {Videos, Sources \ Videos} :
              (\E x \in In!Range(In!GoodInsights(i.offered)) : x.source \in kind) =>
                \E x \in In!Range(i.insights) : x.source \in kind
  BY <1>5, <1>7
<1> HIDE DEF i
<1>13. IssueIsSound(i)
  BY <1>9, <1>10, <1>11, <1>12 DEF IssueIsSound
<1> QED
  BY <1>13 DEF i

InboxInv == InboxTyped /\ (issue # <<>> => IssueIsSound(issue))

\* Before the first refresh the inbox is empty.
LEMMA InboxInvInit == ASSUME Init PROVE InboxInv
BY InboxSettingHolds, InboxInitTyped DEF Init, In!Init, InboxInv

\* Every step keeps the inbox's types and the issue sound; those of the others leave it alone.
LEMMA InboxInvNext ==
  ASSUME InboxInv, [Next]_vars
  PROVE  InboxInv'
<1> USE InboxSettingHolds
<1> SUFFICES ASSUME InboxTyped, issue # <<>> => IssueIsSound(issue), [Next]_vars
             PROVE  InboxInv'
  BY DEF InboxInv
<1>1. ASSUME NEW window \in Windows, In!Refresh(window) PROVE InboxInv'
  <2>1. issue' = issue
    BY <1>1 DEF In!Refresh
  <2>2. InboxTyped'
    BY <1>1, RefreshTyped
  <2>3. (issue # <<>> => IssueIsSound(issue))'
    BY <2>1 DEF IssueIsSound
  <2> QED
    BY <2>2, <2>3 DEF InboxInv
<1>2. CASE In!GenerateDigest
  <2>1. InboxTyped'
    BY <1>2, DigestTyped
  <2>2. IssueIsSound(issue)'
    BY <1>2, DigestSound DEF IssueIsSound
  <2> QED
    BY <2>1, <2>2 DEF InboxInv
<1>3. CASE UNCHANGED inboxVars
  <2>1. InboxTyped'
    BY <1>3 DEF inboxVars, InboxTyped, Limited, Run
  <2>2. (issue # <<>> => IssueIsSound(issue))'
    BY <1>3 DEF inboxVars, IssueIsSound
  <2> QED
    BY <2>1, <2>2 DEF InboxInv
<1>4. \/ \E window \in Windows : In!Refresh(window)
      \/ In!GenerateDigest
      \/ UNCHANGED inboxVars
  BY DEF Next, InboxNext, SynthesisNext, OwnersNext, vars, In!InboxNext
<1> QED
  BY <1>1, <1>2, <1>3, <1>4

\* The invariant of the inbox.
LEMMA AlwaysInboxInv == Spec => []InboxInv
<1>1. Init => InboxInv
  BY InboxInvInit
<1>2. InboxInv /\ [Next]_vars => InboxInv'
  BY InboxInvNext
<1> QED
  BY <1>1, <1>2, PTL DEF Spec

\* An issue speaks of its members only, none of which an earlier one had, and shows a post
\* and a video, an insight once, and a poor one only when it is offered nothing better: for
\* any inbox, window of sources, answers of the synthesis, limits and scores.
THEOREM IssuesAreSound == Spec => []IssueSound
<1>1. InboxInv => IssueSound
  BY IssueSoundMeans DEF InboxInv, IssueSound
<1> QED
  BY <1>1, AlwaysInboxInv, PTL

-----------------------------------------------------------------------------

\* A set of numbers that has, with each, all before it.
LEMMA PrefixIs ==
  ASSUME NEW n \in Nat, NEW P, P \subseteq 1 .. n,
         \A k \in P : \A j \in 1 .. n : j < k => j \in P
  PROVE  P = 1 .. Cardinality(P)
<1> DEFINE T == {m \in Nat : m + 1 \notin P}
<1>1. PICK m \in T : \A y \in T : m <= y
  <2>1. n \in T
    OBVIOUS
  <2>2. T \subseteq Nat /\ T # {}
    BY <2>1
  <2> HIDE DEF T
  <2> QED
    BY <2>2, LeastExists
<1>2. m \in Nat /\ m + 1 \notin P
  OBVIOUS
<1>3. ASSUME NEW k \in 1 .. m PROVE k \in P
  <2>1. k - 1 \in Nat /\ ~(m <= k - 1) /\ (k - 1) + 1 = k
    BY <1>2
  <2> QED
    BY <1>1, <2>1
<1>4. ASSUME NEW k \in P PROVE k \in 1 .. m
  <2>1. k \in 1 .. n
    OBVIOUS
  <2> SUFFICES ASSUME m < k PROVE FALSE
    BY <1>2, <2>1
  <2>2. m + 1 # k
    BY <1>2
  <2>3. m + 1 \in 1 .. n /\ m + 1 < k
    BY <1>2, <2>1, <2>2
  <2> QED
    BY <1>2, <2>3
<1>5. P = 1 .. m
  BY <1>3, <1>4
<1>6. Cardinality(1 .. m) = m
  BY <1>2, FS_Interval
<1> QED
  BY <1>5, <1>6

\* A relation on 1 .. n by which things can be sorted.
Orders(before, n) ==
  /\ \A i, j \in 1 .. n : <<i, j>> \in before => <<j, i>> \notin before
  /\ \A i, j, k \in 1 .. n :
       <<i, j>> \notin before /\ <<j, k>> \notin before => <<i, k>> \notin before

InOrder(places, n, before) ==
  \A j, k \in 1 .. n : j < k => <<places[k], places[j]>> \notin before

\* A place that is inserted comes where it belongs.
LEMMA InsertedInOrder ==
  ASSUME NEW n \in Nat, NEW k \in 1 .. n, NEW before, Orders(before, n),
         NEW places \in [1 .. k - 1 -> 1 .. n], InOrder(places, k - 1, before),
         NEW t, t = In!Inserted(places, k, before)
  PROVE  InOrder(t, k, before)
<1> DEFINE behind == {j \in 1 .. k - 1 : <<k, places[j]>> \notin before}
<1>0. k - 1 \in Nat /\ k \in Nat /\ (k - 1) + 1 = k /\ places \in [1 .. k - 1 -> Nat]
  OBVIOUS
<1>1. PICK a \in 0 .. k - 1 :
        a = Cardinality(behind) /\ InsertedAfter(t, k - 1, places, k, a)
  BY <1>0, InsertedIs
<1>2. behind = 1 .. a
  <2>1. behind \subseteq 1 .. k - 1
    OBVIOUS
  <2>2. ASSUME NEW i \in behind, NEW j \in 1 .. k - 1, j < i PROVE j \in behind
    <3>1. <<k, places[i]>> \notin before /\ <<places[i], places[j]>> \notin before
      BY <2>2 DEF InOrder
    <3>2. places[i] \in 1 .. n /\ places[j] \in 1 .. n
      OBVIOUS
    <3>3. <<k, places[j]>> \notin before
      BY <3>1, <3>2 DEF Orders
    <3> QED
      BY <3>3
  <2> HIDE DEF behind
  <2> QED
    BY <1>0, <1>1, <2>1, <2>2, PrefixIs
<1>3. \A j \in 1 .. k :
        t[j] = IF j <= a THEN places[j] ELSE IF j = a + 1 THEN k ELSE places[j - 1]
  BY <1>0, <1>1 DEF InsertedAfter
<1>4. \A j \in 1 .. k - 1 : j <= a => <<k, places[j]>> \notin before
  <2> SUFFICES ASSUME NEW j \in 1 .. k - 1, j <= a PROVE <<k, places[j]>> \notin before
    OBVIOUS
  <2>1. j \in 1 .. a
    BY <1>1
  <2>2. j \in behind
    BY <1>2, <2>1
  <2> QED
    BY <2>2
<1>5. \A j \in 1 .. k - 1 : a < j => <<places[j], k>> \notin before
  <2> SUFFICES ASSUME NEW j \in 1 .. k - 1, a < j PROVE <<places[j], k>> \notin before
    OBVIOUS
  <2>1. j \notin behind
    <3>1. j \notin 1 .. a
      BY <1>1
    <3> QED
      BY <1>2, <3>1
  <2>2. <<k, places[j]>> \in before /\ places[j] \in 1 .. n
    BY <2>1
  <2> QED
    BY <2>2 DEF Orders
<1> HIDE DEF behind
<1> SUFFICES ASSUME NEW i \in 1 .. k, NEW j \in 1 .. k, i < j
             PROVE  <<t[j], t[i]>> \notin before
  BY DEF InOrder
<1>6. a \in Int
  BY <1>1
<1>7. CASE j <= a
  <2>1. t[j] = places[j] /\ t[i] = places[i] /\ i \in 1 .. k - 1 /\ j \in 1 .. k - 1
    BY <1>1, <1>3, <1>7
  <2> QED
    BY <2>1 DEF InOrder
<1>8. CASE j = a + 1
  <2>1. t[j] = k /\ t[i] = places[i] /\ i \in 1 .. k - 1 /\ i <= a
    BY <1>1, <1>3, <1>8
  <2> QED
    BY <1>4, <2>1
<1>9. CASE j > a + 1
  <2>1. t[j] = places[j - 1] /\ j - 1 \in 1 .. k - 1 /\ a < j - 1
    BY <1>1, <1>3, <1>9
  <2>2. CASE i <= a
    <3>1. t[i] = places[i] /\ i \in 1 .. k - 1 /\ i < j - 1
      BY <1>1, <1>3, <2>1, <2>2
    <3> QED
      BY <2>1, <3>1 DEF InOrder
  <2>3. CASE i = a + 1
    <3>1. t[i] = k
      BY <1>1, <1>3, <2>3
    <3> QED
      BY <1>5, <2>1, <3>1
  <2>4. CASE i > a + 1
    <3>1. ~(i <= a) /\ i # a + 1 /\ i - 1 \in 1 .. k - 1 /\ i - 1 < j - 1
      BY <1>1, <2>4
    <3>2. t[i] = places[i - 1]
      BY <1>3, <3>1
    <3> QED
      BY <2>1, <3>1, <3>2 DEF InOrder
  <2> QED
    BY <1>6, <2>2, <2>3, <2>4
<1> QED
  BY <1>6, <1>7, <1>8, <1>9

\* The sorted places are in order.
LEMMA SortedInOrder ==
  ASSUME NEW n \in Nat, NEW before, Orders(before, n)
  PROVE  InOrder(In!Sorted(n, before), n, before)
<1>1. PICK h : In!Sorted(n, before) = h[n] /\ InsertsInSteps(h, n, before)
  BY SortedSolved
<1>2. h[0] = <<>> /\ \A k \in 1 .. n : h[k] = In!Inserted(h[k - 1], k, before)
  BY <1>1 DEF InsertsInSteps
<1> DEFINE T == {k \in 0 .. n : /\ h[k] \in [1 .. k -> 1 .. n]
                                /\ InOrder(h[k], k, before)}
<1>3. 0 \in T
  <2>1. <<>> \in [1 .. 0 -> 1 .. n] /\ 0 \in 0 .. n
    OBVIOUS
  <2>2. InOrder(<<>>, 0, before)
    BY DEF InOrder
  <2> QED
    BY <1>2, <2>1, <2>2
<1>4. ASSUME NEW k \in 1 .. n, k - 1 \in T PROVE k \in T
  <2>1. k - 1 \in Nat /\ k \in Nat /\ (k - 1) + 1 = k /\ k \in 0 .. n
    OBVIOUS
  <2>2. h[k - 1] \in [1 .. k - 1 -> 1 .. n] /\ InOrder(h[k - 1], k - 1, before)
    BY <1>4
  <2>3. h[k] = In!Inserted(h[k - 1], k, before)
    BY <1>2
  <2>4. InOrder(h[k], k, before)
    BY <2>2, <2>3, InsertedInOrder
  <2>5. h[k - 1] \in [1 .. k - 1 -> Nat]
    BY <2>2
  <2>6. h[k] \in [1 .. k -> Nat] /\ In!Range(h[k]) = In!Range(h[k - 1]) \cup {k}
    BY <2>1, <2>3, <2>5, InsertedKeeps
  <2>7. \A j \in 1 .. k : h[k][j] \in 1 .. n
    BY <2>2, <2>6 DEF In!Range
  <2>8. h[k] \in [1 .. k -> 1 .. n]
    BY <2>6, <2>7
  <2> QED
    BY <2>1, <2>4, <2>8
<1>5. n \in T
  <2> HIDE DEF T
  <2>1. 0 .. n \subseteq T
    BY <1>3, <1>4, UpTo
  <2> QED
    BY <2>1
<1> QED
  BY <1>1, <1>5

\* Where nothing is out of order, sorting moves nothing.
LEMMA SortedStays ==
  ASSUME NEW n \in Nat, NEW before, \A j, k \in 1 .. n : j < k => <<k, j>> \notin before
  PROVE  In!Sorted(n, before) = [k \in 1 .. n |-> k]
<1>1. PICK h : In!Sorted(n, before) = h[n] /\ InsertsInSteps(h, n, before)
  BY SortedSolved
<1>2. h[0] = <<>> /\ \A k \in 1 .. n : h[k] = In!Inserted(h[k - 1], k, before)
  BY <1>1 DEF InsertsInSteps
<1> DEFINE T == {k \in 0 .. n : h[k] = [j \in 1 .. k |-> j]}
<1>3. 0 \in T
  <2>1. <<>> = [j \in 1 .. 0 |-> j] /\ 0 \in 0 .. n
    OBVIOUS
  <2> QED
    BY <1>2, <2>1
<1>4. ASSUME NEW k \in 1 .. n, k - 1 \in T PROVE k \in T
  <2>1. k - 1 \in Nat /\ k \in Nat /\ (k - 1) + 1 = k /\ k \in 0 .. n
    OBVIOUS
  <2> DEFINE places == [j \in 1 .. k - 1 |-> j]
             t == In!Inserted(places, k, before)
             behind == {j \in 1 .. k - 1 : <<k, places[j]>> \notin before}
  <2>2. h[k] = t /\ places \in [1 .. k - 1 -> Nat]
    BY <1>2, <1>4
  <2>3. behind = 1 .. k - 1
    OBVIOUS
  <2>4. Cardinality(1 .. k - 1) = k - 1
    BY <2>1, FS_Interval
  <2>5. PICK a \in 0 .. k - 1 :
          a = Cardinality(behind) /\ InsertedAfter(t, k - 1, places, k, a)
    <3> HIDE DEF places
    <3> QED
      BY <2>1, <2>2, InsertedIs
  <2>6. a = k - 1
    BY <2>3, <2>4, <2>5
  <2>7. t \in [1 .. k -> Nat] /\ \A j \in 1 .. k : t[j] = IF j <= a THEN places[j] ELSE k
    <3>1. /\ t \in [1 .. (k - 1) + 1 -> Nat]
          /\ \A j \in 1 .. (k - 1) + 1 :
               t[j] = IF j <= a THEN places[j] ELSE IF j = a + 1 THEN k ELSE places[j - 1]
      <4> HIDE DEF t, places
      <4> QED
        BY <2>5 DEF InsertedAfter
    <3>2. \A j \in 1 .. k : ~(j <= a) => j = a + 1
      BY <2>6
    <3> HIDE DEF t, places
    <3> QED
      BY <2>1, <3>1, <3>2
  <2> HIDE DEF t
  <2>8. \A j \in 1 .. k : t[j] = j
    BY <2>6, <2>7
  <2>9. t = [j \in 1 .. k |-> j]
    BY <2>7, <2>8
  <2> QED
    BY <2>1, <2>2, <2>9
<1>5. n \in T
  <2> HIDE DEF T
  <2>1. 0 .. n \subseteq T
    BY <1>3, <1>4, UpTo
  <2> QED
    BY <2>1
<1> QED
  BY <1>1, <1>5

-----------------------------------------------------------------------------

\* What the graph is made of.

EdgesOf(nodes) ==
  [source : In!Ids(nodes), target : In!Ids(nodes), weight : Nat, label : Nat]

\* The lesser and the greater of two numbers.
LEMMA TwoAre ==
  ASSUME NEW a \in Nat, NEW b \in Nat
  PROVE  In!Min({a, b}) \in {a, b} /\ In!Max({a, b}) \in {a, b}
<1>1. In!Min({a, b}) \in {a, b}
  BY MinIs
<1>2. \E x \in {a, b} : \A y \in {a, b} : x >= y
  OBVIOUS
<1> QED
  BY <1>1, <1>2 DEF In!Max

\* A relation of two nodes.
LEMMA EdgeTyped ==
  ASSUME InboxSetting, NEW nodes \in Seq(In!Insights), NEW i \in DOMAIN nodes,
         NEW j \in DOMAIN nodes
  PROVE  In!Edge(nodes[i], nodes[j]) \in EdgesOf(nodes)
<1> DEFINE a == nodes[i]
           b == nodes[j]
           reason == In!EdgeReason(a, b)
<1>1. a \in In!Insights /\ b \in In!Insights
  OBVIOUS
<1>2. /\ a.id \in Nat /\ a.domain \in Nat /\ a.type \in Nat /\ a.topics \subseteq Nat
      /\ b.id \in Nat
  BY <1>1 DEF InboxSetting
<1>3. a.id \in In!Ids(nodes) /\ b.id \in In!Ids(nodes)
  BY DEF In!Ids
<1> HIDE DEF a, b
<1>4. In!Min({a.id, b.id}) \in In!Ids(nodes) /\ In!Max({a.id, b.id}) \in In!Ids(nodes)
  BY <1>2, <1>3, TwoAre
<1>5. reason.weight \in Nat /\ reason.label \in Nat
  <2>1. a.topics \cap b.topics # {} => In!Min(a.topics \cap b.topics) \in Nat
    <3>1. a.topics \cap b.topics \subseteq Nat
      BY <1>2
    <3> QED
      BY <3>1, MinIs
  <2> QED
    BY <1>2, <2>1 DEF In!EdgeReason
<1> HIDE DEF reason
<1>6. In!Edge(a, b) = [source |-> In!Min({a.id, b.id}), target |-> In!Max({a.id, b.id}),
                       weight |-> reason.weight, label |-> reason.label]
  BY DEF In!Edge, reason
<1>7. In!Edge(a, b) \in EdgesOf(nodes)
  BY <1>4, <1>5, <1>6 DEF EdgesOf
<1> QED
  BY <1>7 DEF a, b

\* The relations of some nodes.
LEMMA RelatedTyped ==
  ASSUME InboxSetting, NEW nodes \in Seq(In!Insights)
  PROVE  In!RelatedEdges(nodes) \in Seq(EdgesOf(nodes))
<1> DEFINE n == Len(nodes)
           After(i) == [d \in 1 .. n - i |-> In!Edge(nodes[i], nodes[i + d])]
           seqs == [i \in DOMAIN nodes |-> After(i)]
           pairs == In!FlattenSeq(seqs)
           kept == In!At(pairs, {i \in DOMAIN pairs : pairs[i].weight > 0})
           Pairs == EdgesOf(nodes)
<1>1. In!RelatedEdges(nodes) = In!Distinct(kept)
  BY DEF In!RelatedEdges, In!Keep
<1>2. n \in Nat /\ DOMAIN nodes = 1 .. n
  OBVIOUS
<1>3. \A i \in 1 .. n : After(i) \in Seq(Pairs)
  <2> SUFFICES ASSUME NEW i \in 1 .. n PROVE After(i) \in Seq(Pairs)
    OBVIOUS
  <2>1. n - i \in Nat /\ \A d \in 1 .. n - i : i + d \in 1 .. n
    BY <1>2
  <2>2. \A d \in 1 .. n - i : In!Edge(nodes[i], nodes[i + d]) \in Pairs
    BY <1>2, <2>1, EdgeTyped
  <2> DEFINE m == n - i
             t == After(i)
  <2> HIDE DEF Pairs
  <2>3. t \in [1 .. m -> Pairs] /\ m \in Nat
    BY <2>1, <2>2
  <2> HIDE DEF t, m
  <2>4. t \in Seq(Pairs)
    BY <2>3
  <2> QED
    BY <2>4 DEF t
<1>4. seqs \in Seq(Seq(Pairs))
  <2> DEFINE each == Seq(Pairs)
  <2>1. seqs \in [1 .. n -> each]
    BY <1>2, <1>3
  <2> HIDE DEF each, seqs, n
  <2>2. seqs \in Seq(each)
    BY <1>2, <2>1
  <2> QED
    BY <2>2 DEF each
<1>5. pairs \in Seq(Pairs)
  <2> HIDE DEF seqs, Pairs
  <2> QED
    BY <1>4, FlattenTyped
<1> HIDE DEF pairs, Pairs
<1>6. kept \in Seq(Pairs)
  BY <1>5, AtKeeps
<1> HIDE DEF kept
<1> QED
  BY <1>1, <1>6, DistinctKeeps DEF Pairs

\* The edges of some nodes are compared by numbers.
LEMMA IdsTyped ==
  ASSUME InboxSetting, NEW nodes \in Seq(In!Insights)
  PROVE  In!Ids(nodes) \subseteq Nat
<1> SUFFICES ASSUME NEW i \in DOMAIN nodes PROVE nodes[i].id \in Nat
  BY DEF In!Ids
<1>1. nodes[i] \in In!Insights
  OBVIOUS
<1> QED
  BY <1>1 DEF InboxSetting

AnyEdge == [source : Nat, target : Nat, weight : Nat, label : Nat]

\* The order of the edges is one by which they can be sorted, and tells them apart.
LEMMA EdgesOrdered ==
  /\ \A e, f \in AnyEdge : In!EdgeBefore(e, f) => ~In!EdgeBefore(f, e)
  /\ \A e, f, g \in AnyEdge :
       ~In!EdgeBefore(e, f) /\ ~In!EdgeBefore(f, g) => ~In!EdgeBefore(e, g)
  /\ \A e, f \in AnyEdge : e # f => In!EdgeBefore(e, f) \/ In!EdgeBefore(f, e)
<1>1. \A e \in AnyEdge : e.source \in Nat /\ e.target \in Nat /\ e.weight \in Nat
        /\ e.label \in Nat
  BY DEF AnyEdge
<1>2. \A e, f \in AnyEdge :
        (e.source = f.source /\ e.target = f.target /\ e.weight = f.weight /\ e.label = f.label)
          => e = f
  BY DEF AnyEdge
<1>3. ASSUME NEW e \in AnyEdge, NEW f \in AnyEdge, In!EdgeBefore(e, f)
      PROVE  ~In!EdgeBefore(f, e)
  BY <1>1, <1>3 DEF In!EdgeBefore
<1>4. ASSUME NEW e \in AnyEdge, NEW f \in AnyEdge, NEW g \in AnyEdge,
             ~In!EdgeBefore(e, f), ~In!EdgeBefore(f, g)
      PROVE  ~In!EdgeBefore(e, g)
  BY <1>1, <1>4 DEF In!EdgeBefore
<1>5. ASSUME NEW e \in AnyEdge, NEW f \in AnyEdge, e # f
      PROVE  In!EdgeBefore(e, f) \/ In!EdgeBefore(f, e)
  BY <1>1, <1>2, <1>5 DEF In!EdgeBefore
<1> QED
  BY <1>3, <1>4, <1>5

\* Edges are taken one by one, while there is room.
TakesInSteps(taken, sorted) ==
  /\ taken[0] = <<>>
  /\ \A k \in 1 .. Len(sorted) : taken[k] = In!WithEdge(taken[k - 1], sorted[k])

\* The graph takes the related edges in their order.
LEMMA GraphSolved ==
  ASSUME InboxSetting, NEW nodes \in Seq(In!Insights)
  PROVE  \E sorted \in Seq(EdgesOf(nodes)) : \E taken :
           /\ In!Range(sorted) = In!Range(In!RelatedEdges(nodes))
           /\ \A j, k \in DOMAIN sorted : j < k => ~In!EdgeBefore(sorted[k], sorted[j])
           /\ TakesInSteps(taken, sorted)
           /\ \A k \in 0 .. Len(sorted) : taken[k] \in Seq(EdgesOf(nodes))
           /\ In!GraphEdges(nodes) = taken[Len(sorted)]
<1> DEFINE E == EdgesOf(nodes)
           edges == In!RelatedEdges(nodes)
           n == Len(edges)
           before == {p \in (DOMAIN edges) \X (DOMAIN edges) :
                        In!EdgeBefore(edges[p[1]], edges[p[2]])}
           sorted == [k \in DOMAIN edges |-> edges[In!Sorted(n, before)[k]]]
           Solves(f) == f = [k \in 0 .. Len(sorted) |->
                               IF k = 0 THEN <<>> ELSE In!WithEdge(f[k - 1], sorted[k])]
           h == CHOOSE f : Solves(f)
<1>1. In!GraphEdges(nodes) = h[Len(sorted)]
  BY DEF In!GraphEdges, In!StableSort
<1>2. edges \in Seq(E) /\ n \in Nat /\ DOMAIN edges = 1 .. n
  BY RelatedTyped
<1>3. \A i \in 1 .. n : edges[i] \in AnyEdge
  <2>1. E \subseteq AnyEdge
    BY IdsTyped DEF EdgesOf, AnyEdge
  <2> HIDE DEF E, edges
  <2>2. \A i \in 1 .. n : edges[i] \in E
    BY <1>2
  <2> QED
    BY <2>1, <2>2
<1> HIDE DEF E, edges
<1>4. Orders(before, n)
  <2>1. \A i, j \in 1 .. n : <<i, j>> \in before <=> In!EdgeBefore(edges[i], edges[j])
    BY <1>2
  <2> HIDE DEF before, n
  <2> QED
    BY <1>3, <2>1, EdgesOrdered DEF Orders
<1>5. InOrder(In!Sorted(n, before), n, before)
  <2> HIDE DEF before, n
  <2> QED
    BY <1>2, <1>4, SortedInOrder
<1>6. sorted \in Seq(E) /\ Len(sorted) = n /\ In!Range(sorted) = In!Range(edges)
  <2> HIDE DEF before
  <2> QED
    BY <1>2, SortKeeps
<1>7. \A j, k \in DOMAIN sorted : j < k => ~In!EdgeBefore(sorted[k], sorted[j])
  <2> SUFFICES ASSUME NEW j \in 1 .. n, NEW k \in 1 .. n, j < k
               PROVE  ~In!EdgeBefore(sorted[k], sorted[j])
    BY <1>2
  <2> DEFINE p == In!Sorted(n, before)
  <2>1. p \in [1 .. n -> Nat] /\ In!Range(p) = 1 .. n
    <3> HIDE DEF before, n
    <3> QED
      BY <1>2, SortedKeeps
  <2>2. p[j] \in 1 .. n /\ p[k] \in 1 .. n
    <3> HIDE DEF p
    <3> QED
      BY <2>1 DEF In!Range
  <2>3. sorted[j] = edges[p[j]] /\ sorted[k] = edges[p[k]]
    BY <1>2
  <2>4. <<p[k], p[j]>> \notin before
    <3> HIDE DEF before, n
    <3> QED
      BY <1>5 DEF InOrder
  <2> HIDE DEF p
  <2> QED
    BY <1>2, <2>2, <2>3, <2>4
<1> HIDE DEF sorted, n
<1> DEFINE m == Len(sorted)
           all == Seq(E)
           none == <<>>
           g == [k \in 1 .. m |-> [t \in all |-> In!WithEdge(t, sorted[k])]]
<1>8. m \in Nat /\ none \in all /\ 0 \in 0 .. m
  BY <1>6
<1>9. \A t \in all, k \in 1 .. m : In!WithEdge(t, sorted[k]) \in all
  <2>1. \A t \in Seq(E), k \in 1 .. m : Append(t, sorted[k]) \in Seq(E)
    BY <1>6
  <2> QED
    BY <2>1 DEF In!WithEdge
<1> HIDE DEF all, none, m
<1>10. g \in [1 .. m -> [all -> all]]
  BY <1>9
<1> HIDE DEF g
<1>11. PICK f : Recursion(f, m, all, none, g)
  BY <1>8, <1>10, RecursionExists
<1>12. f \in [0 .. m -> all] /\ f[0] = none /\ \A k \in 1 .. m : f[k] = g[k][f[k - 1]]
  BY <1>11 DEF Recursion
<1>13. \A k \in 1 .. m : k \in 0 .. m /\ k - 1 \in 0 .. m /\ k # 0
  BY <1>8
<1>14. \A k \in 1 .. m : f[k] = In!WithEdge(f[k - 1], sorted[k])
  BY <1>12, <1>13 DEF g
<1>15. \A k \in 0 .. m : k = 0 \/ k \in 1 .. m
  BY <1>8
<1>16. Solves(f)
  <2>1. f = [k \in 0 .. m |-> f[k]]
    BY <1>12
  <2>2. \A k \in 0 .. m : f[k] = IF k = 0 THEN <<>> ELSE In!WithEdge(f[k - 1], sorted[k])
    BY <1>12, <1>13, <1>14, <1>15 DEF none
  <2>3. f = [k \in 0 .. m |-> IF k = 0 THEN <<>> ELSE In!WithEdge(f[k - 1], sorted[k])]
    BY <2>1, <2>2
  <2> QED
    BY <2>3 DEF m
<1>17. Solves(h)
  <2> HIDE DEF Solves
  <2> QED
    BY <1>16
<1> HIDE DEF h
<1>18. /\ h[0] = <<>>
       /\ \A k \in 1 .. m : h[k] = In!WithEdge(h[k - 1], sorted[k])
  BY <1>8, <1>13, <1>17 DEF m
<1> DEFINE T == {k \in 0 .. m : h[k] \in all}
<1>19. 0 \in T
  BY <1>8, <1>18 DEF none
<1>20. ASSUME NEW k \in 1 .. m, k - 1 \in T PROVE k \in T
  BY <1>9, <1>13, <1>18, <1>20
<1>21. 0 .. m \subseteq T
  <2> HIDE DEF T
  <2> QED
    BY <1>8, <1>19, <1>20, UpTo
<1>22. TakesInSteps(h, sorted)
  BY <1>18 DEF TakesInSteps, m
<1> QED
  BY <1>1, <1>6, <1>7, <1>21, <1>22 DEF E, edges, m, all

-----------------------------------------------------------------------------

\* One more of some places.
LEMMA OneMore ==
  ASSUME NEW n \in Nat, NEW P, P \subseteq 1 .. n
  PROVE  /\ IsFiniteSet(P) /\ Cardinality(P) \in Nat
         /\ Cardinality(P \cup {n + 1}) = Cardinality(P) + 1
<1>1. IsFiniteSet(1 .. n)
  BY FS_Interval
<1>2. IsFiniteSet(P)
  BY <1>1, FS_Subset
<1>3. n + 1 \notin P
  OBVIOUS
<1> QED
  BY <1>2, <1>3, FS_AddElement, FS_CardinalityType

\* The degree of a node, and with one more edge.
LEMMA DegreeIs ==
  ASSUME NEW S, NEW s \in Seq(S), NEW e \in S, NEW id
  PROVE  /\ In!Degree(s, id) \in Nat
         /\ In!Degree(<<>>, id) = 0
         /\ In!Degree(Append(s, e), id) =
              In!Degree(s, id) + (IF e.source = id THEN 1 ELSE 0)
                               + (IF e.target = id THEN 1 ELSE 0)
<1> DEFINE n == Len(s)
           t == Append(s, e)
           Out(u) == {k \in DOMAIN u : u[k].source = id}
           Into(u) == {k \in DOMAIN u : u[k].target = id}
<1>1. \A u : In!Degree(u, id) = Cardinality(Out(u)) + Cardinality(Into(u))
  BY SameCardinality DEF In!Degree
<1>2. n \in Nat /\ DOMAIN s = 1 .. n /\ DOMAIN t = 1 .. n + 1
  OBVIOUS
<1>3. t[n + 1] = e /\ \A k \in 1 .. n : t[k] = s[k]
  OBVIOUS
<1>4. Out(s) \subseteq 1 .. n /\ Into(s) \subseteq 1 .. n
  BY <1>2
<1>5. 1 .. n + 1 = (1 .. n) \cup {n + 1}
  BY <1>2
<1>6. Out(t) = IF e.source = id THEN Out(s) \cup {n + 1} ELSE Out(s)
  <2> HIDE DEF t, n
  <2> QED
    BY <1>2, <1>3, <1>5
<1>7. Into(t) = IF e.target = id THEN Into(s) \cup {n + 1} ELSE Into(s)
  <2> HIDE DEF t, n
  <2> QED
    BY <1>2, <1>3, <1>5
<1>8. Out(<<>>) = {} /\ Into(<<>>) = {} /\ Cardinality({}) = 0
  BY FS_EmptySet
<1>9. In!Degree(s, id) = Cardinality(Out(s)) + Cardinality(Into(s))
  BY <1>1
<1>10. In!Degree(t, id) = Cardinality(Out(t)) + Cardinality(Into(t))
  BY <1>1
<1>11. In!Degree(<<>>, id) = 0
  <2>1. In!Degree(<<>>, id) = Cardinality(Out(<<>>)) + Cardinality(Into(<<>>))
    BY <1>1
  <2> HIDE DEF Out, Into
  <2>2. Cardinality(Out(<<>>)) + Cardinality(Into(<<>>)) = 0 + 0
    BY <1>8
  <2> QED
    BY <2>1, <2>2
<1> HIDE DEF Out, Into, t, n
<1>12. /\ Cardinality(Out(s)) \in Nat /\ Cardinality(Into(s)) \in Nat
       /\ Cardinality(Out(s) \cup {n + 1}) = Cardinality(Out(s)) + 1
       /\ Cardinality(Into(s) \cup {n + 1}) = Cardinality(Into(s)) + 1
  BY <1>2, <1>4, OneMore
<1> DEFINE x == Cardinality(Out(s))
           y == Cardinality(Into(s))
<1>13. Cardinality(Out(t)) = x + (IF e.source = id THEN 1 ELSE 0)
  BY <1>6, <1>12
<1>14. Cardinality(Into(t)) = y + (IF e.target = id THEN 1 ELSE 0)
  BY <1>7, <1>12
<1>15. x \in Nat /\ y \in Nat
  BY <1>12
<1> DEFINE v == IF e.source = id THEN 1 ELSE 0
           w == IF e.target = id THEN 1 ELSE 0
<1>16. v \in Nat /\ w \in Nat
  OBVIOUS
<1>17. In!Degree(t, id) = (x + v) + (y + w) /\ In!Degree(s, id) = x + y
  BY <1>9, <1>10, <1>13, <1>14
<1> HIDE DEF x, y, v, w
<1>18. (x + v) + (y + w) = x + y + v + w /\ x + y \in Nat
  BY <1>15, <1>16
<1> QED
  BY <1>11, <1>17, <1>18 DEF t, v, w

Looped(edges, id) == \E e \in In!Range(edges) : e.source = id /\ e.target = id

\* The edges are within their limits.
Sparse(edges) ==
  /\ Len(edges) <= MaxEdges
  /\ \A id : In!Degree(edges, id) <= MaxDegree + (IF Looped(edges, id) THEN 1 ELSE 0)

\* One more edge keeps to the limits.
LEMMA WithEdgeSparse ==
  ASSUME InboxSetting, NEW S, NEW s \in Seq(S), NEW e \in S, Sparse(s)
  PROVE  Sparse(In!WithEdge(s, e))
<1>0. MaxEdges \in Nat /\ MaxDegree \in Nat
  BY DEF InboxSetting
<1> DEFINE t == Append(s, e)
<1>1. CASE ~(Len(s) < MaxEdges /\ In!HasRoom(s, e))
  BY <1>1 DEF In!WithEdge
<1>2. CASE Len(s) < MaxEdges /\ In!HasRoom(s, e)
  <2>1. In!WithEdge(s, e) = t
    BY <1>2 DEF In!WithEdge
  <2>2. Len(t) <= MaxEdges
    BY <1>0, <1>2
  <2>3. In!Range(t) = In!Range(s) \cup {e}
    BY RangeOfAppend
  <2>4. ASSUME NEW id
        PROVE  In!Degree(t, id) <= MaxDegree + (IF Looped(t, id) THEN 1 ELSE 0)
    <3> DEFINE d == In!Degree(s, id)
    <3>1. d \in Nat /\ In!Degree(t, id) = d + (IF e.source = id THEN 1 ELSE 0)
                                           + (IF e.target = id THEN 1 ELSE 0)
      BY DegreeIs
    <3>2. d <= MaxDegree + (IF Looped(s, id) THEN 1 ELSE 0)
      BY DEF Sparse
    <3>3. Looped(t, id) <=> Looped(s, id) \/ (e.source = id /\ e.target = id)
      BY <2>3 DEF Looped
    <3>4. e.source = id \/ e.target = id => d < MaxDegree
      BY <1>2 DEF In!HasRoom
    <3> HIDE DEF d, t
    <3> QED
      BY <1>0, <3>1, <3>2, <3>3, <3>4
  <2> QED
    BY <2>1, <2>2, <2>4 DEF Sparse
<1> QED
  BY <1>1, <1>2

\* All that is taken keeps to the limits.
LEMMA TakenSparse ==
  ASSUME InboxSetting, NEW S, NEW sorted \in Seq(S), NEW taken, TakesInSteps(taken, sorted),
         \A k \in 0 .. Len(sorted) : taken[k] \in Seq(S)
  PROVE  \A k \in 0 .. Len(sorted) : Sparse(taken[k])
<1> DEFINE n == Len(sorted)
           T == {k \in 0 .. n : Sparse(taken[k])}
<1>1. n \in Nat /\ 0 \in 0 .. n
  OBVIOUS
<1>2. 0 \in T
  <2>1. MaxEdges \in Nat /\ MaxDegree \in Nat
    BY DEF InboxSetting
  <2>2. \A id : In!Degree(<<>>, id) = 0
    <3>1. <<>> \in Seq({0}) /\ 0 \in {0}
      OBVIOUS
    <3> QED
      BY <3>1, DegreeIs
  <2>3. Len(<<>>) = 0
    OBVIOUS
  <2>4. Sparse(<<>>)
    BY <2>1, <2>2, <2>3 DEF Sparse
  <2> QED
    BY <1>1, <2>4 DEF TakesInSteps
<1>3. ASSUME NEW k \in 1 .. n, k - 1 \in T PROVE k \in T
  <2>1. k - 1 \in 0 .. n /\ k \in 0 .. n /\ sorted[k] \in S
    BY <1>1
  <2>2. taken[k - 1] \in Seq(S) /\ Sparse(taken[k - 1])
    BY <1>3, <2>1
  <2>3. taken[k] = In!WithEdge(taken[k - 1], sorted[k])
    BY DEF TakesInSteps
  <2> QED
    BY <2>1, <2>2, <2>3, WithEdgeSparse
<1> HIDE DEF T
<1>4. 0 .. n \subseteq T
  BY <1>1, <1>2, <1>3, UpTo
<1> QED
  BY <1>4 DEF T

\* t begins with s, and what follows are items of "sorted" at places after k, up to m.
Continues(t, s, sorted, k, m) ==
  /\ Len(s) <= Len(t)
  /\ \A i \in 1 .. Len(s) : t[i] = s[i]
  /\ \A i \in 1 .. Len(t) : Len(s) < i => \E j \in k + 1 .. m : t[i] = sorted[j]

\* What was taken stays, and what is taken later comes later in the order.
LEMMA TakenContinues ==
  ASSUME NEW S, NEW sorted \in Seq(S), NEW taken, TakesInSteps(taken, sorted),
         \A k \in 0 .. Len(sorted) : taken[k] \in Seq(S),
         NEW k \in 0 .. Len(sorted)
  PROVE  \A m \in 0 .. Len(sorted) : k <= m => Continues(taken[m], taken[k], sorted, k, m)
<1> DEFINE n == Len(sorted)
           T == {m \in 0 .. n : k <= m => Continues(taken[m], taken[k], sorted, k, m)}
<1>1. n \in Nat /\ DOMAIN sorted = 1 .. n
  OBVIOUS
<1>2. Continues(taken[k], taken[k], sorted, k, k)
  <2>1. Len(taken[k]) \in Nat
    BY <1>1
  <2> QED
    BY <2>1 DEF Continues
<1>3. 0 \in T
  <2>1. k <= 0 => k = 0
    BY <1>1
  <2> QED
    BY <1>1, <1>2, <2>1
<1>4. ASSUME NEW m \in 1 .. n, m - 1 \in T PROVE m \in T
  <2>1. m - 1 \in 0 .. n /\ m \in 0 .. n /\ k \in Nat
    BY <1>1
  <2> SUFFICES ASSUME k <= m PROVE Continues(taken[m], taken[k], sorted, k, m)
    BY <2>1
  <2>2. CASE k = m
    BY <1>2, <2>2
  <2>3. CASE k # m
    <3>1. k <= m - 1 /\ k < m
      BY <2>1, <2>3
    <3> DEFINE s == taken[k]
               u == taken[m - 1]
               t == taken[m]
    <3>2. Continues(u, s, sorted, k, m - 1)
      BY <1>4, <3>1
    <3>3. s \in Seq(S) /\ u \in Seq(S) /\ sorted[m] \in S
      BY <1>1, <2>1
    <3>4. t = u \/ t = Append(u, sorted[m])
      BY DEF TakesInSteps, In!WithEdge
    <3> HIDE DEF s, u, t
    <3>5. CASE t = u
      <4>1. \A j \in k + 1 .. m - 1 : j \in k + 1 .. m
        BY <2>1
      <4>2. Continues(t, s, sorted, k, m)
        BY <3>2, <3>5, <4>1 DEF Continues
      <4> QED
        BY <4>2 DEF s, t
    <3>6. CASE t = Append(u, sorted[m])
      <4>1. /\ Len(t) = Len(u) + 1 /\ Len(u) \in Nat /\ Len(s) \in Nat
            /\ t[Len(u) + 1] = sorted[m] /\ \A i \in 1 .. Len(u) : t[i] = u[i]
        BY <3>3, <3>6
      <4>2. Len(s) <= Len(u) /\ \A i \in 1 .. Len(s) : u[i] = s[i]
        BY <3>2 DEF Continues
      <4>3. Len(s) <= Len(t) /\ \A i \in 1 .. Len(s) : t[i] = s[i]
        BY <4>1, <4>2
      <4>4. ASSUME NEW i \in 1 .. Len(t), Len(s) < i
            PROVE  \E j \in k + 1 .. m : t[i] = sorted[j]
        <5>1. CASE i \in 1 .. Len(u)
          <6>1. \E j \in k + 1 .. m - 1 : u[i] = sorted[j]
            BY <3>2, <4>4, <5>1 DEF Continues
          <6>2. \A j \in k + 1 .. m - 1 : j \in k + 1 .. m
            BY <2>1
          <6> QED
            BY <4>1, <5>1, <6>1, <6>2
        <5>2. CASE i \notin 1 .. Len(u)
          <6>1. i = Len(u) + 1
            BY <4>1, <5>2
          <6>2. m \in k + 1 .. m
            BY <2>1, <3>1
          <6> QED
            BY <4>1, <6>1, <6>2
        <5> QED
          BY <5>1, <5>2
      <4>5. Continues(t, s, sorted, k, m)
        BY <4>3, <4>4 DEF Continues
      <4> QED
        BY <4>5 DEF s, t
    <3> QED
      BY <3>4, <3>5, <3>6
  <2> QED
    BY <2>2, <2>3
<1> HIDE DEF T
<1>5. 0 .. n \subseteq T
  BY <1>1, <1>3, <1>4, UpTo
<1> QED
  BY <1>5 DEF T

\* The first items of a list.
LEMMA AtFirst ==
  ASSUME NEW S, NEW s \in Seq(S), NEW t \in Seq(S), Len(t) <= Len(s),
         \A i \in 1 .. Len(t) : s[i] = t[i],
         NEW places, places \cap DOMAIN s = 1 .. Len(t)
  PROVE  In!At(s, places) = t
<1>1. PICK at \in [0 .. Len(s) -> Seq(S)] :
           /\ In!At(s, places) = at[Len(s)]
           /\ at[0] = <<>>
           /\ \A n \in 1 .. Len(s) :
                at[n] = IF n \in places THEN Append(at[n - 1], s[n]) ELSE at[n - 1]
  BY AtSolved
<1> DEFINE m == Len(t)
           N == Len(s)
           Upto(n) == IF n <= m THEN n ELSE m
           T == {n \in 0 .. N : /\ Len(at[n]) = Upto(n)
                                /\ \A i \in 1 .. Upto(n) : at[n][i] = t[i]}
<1>2. m \in Nat /\ N \in Nat /\ m <= N /\ DOMAIN s = 1 .. N
  OBVIOUS
<1>3. 0 \in T
  <2>1. Len(<<>>) = 0 /\ Upto(0) = 0 /\ 0 \in 0 .. N
    BY <1>2
  <2> QED
    BY <1>1, <2>1
<1>4. ASSUME NEW n \in 1 .. N, n - 1 \in T PROVE n \in T
  <2>1. n - 1 \in 0 .. N /\ n \in 0 .. N
    BY <1>2
  <2>2. at[n - 1] \in Seq(S) /\ s[n] \in S
    BY <1>1, <2>1
  <2>3. Len(at[n - 1]) = Upto(n - 1) /\ \A i \in 1 .. Upto(n - 1) : at[n - 1][i] = t[i]
    BY <1>4
  <2>4. CASE n <= m
    <3>1. n \in places /\ s[n] = t[n] /\ Upto(n - 1) = n - 1 /\ Upto(n) = n
      BY <1>2, <2>4
    <3>2. at[n] = Append(at[n - 1], s[n])
      BY <1>1, <3>1
    <3>3. Len(at[n]) = n /\ at[n][n] = t[n] /\ \A i \in 1 .. n - 1 : at[n][i] = at[n - 1][i]
      BY <2>2, <2>3, <3>1, <3>2
    <3>4. \A i \in 1 .. n : i = n \/ i \in 1 .. n - 1
      BY <1>2
    <3>5. \A i \in 1 .. n : at[n][i] = t[i]
      BY <2>3, <3>1, <3>3, <3>4
    <3> QED
      BY <2>1, <3>1, <3>3, <3>5
  <2>5. CASE ~(n <= m)
    <3>1. n \notin 1 .. m /\ Upto(n - 1) = m /\ Upto(n) = m
      BY <1>2, <2>5
    <3>2. n \notin places
      BY <1>2, <3>1
    <3>3. at[n] = at[n - 1]
      BY <1>1, <3>2
    <3> QED
      BY <2>1, <2>3, <3>1, <3>3
  <2> QED
    BY <2>4, <2>5
<1>5. N \in T
  <2> HIDE DEF T
  <2>1. 0 .. N \subseteq T
    BY <1>2, <1>3, <1>4, UpTo
  <2> QED
    BY <1>2, <2>1
<1>6. Upto(N) = m
  BY <1>2
<1>7. at[N] \in Seq(S) /\ Len(at[N]) = m /\ \A i \in 1 .. m : at[N][i] = t[i]
  BY <1>1, <1>2, <1>5, <1>6
<1>8. at[N] = t
  BY <1>7
<1> QED
  BY <1>1, <1>8

-----------------------------------------------------------------------------

\* A relation is left out only for heavier ones that have taken its room.
Crowded(edges, e) ==
  LET heavier == In!Keep(edges, LAMBDA f : In!EdgeBefore(f, e))
  IN  \/ Len(heavier) = MaxEdges
      \/ In!Degree(heavier, e.source) >= MaxDegree
      \/ In!Degree(heavier, e.target) >= MaxDegree

\* The edges of a graph.
LEMMA GraphEdgesSound ==
  ASSUME InboxSetting, NEW nodes \in Seq(In!Insights)
  PROVE  /\ In!GraphEdges(nodes) \in Seq(EdgesOf(nodes))
         /\ Sparse(In!GraphEdges(nodes))
         /\ \A e \in In!Range(In!RelatedEdges(nodes)) \ In!Range(In!GraphEdges(nodes)) :
              Crowded(In!GraphEdges(nodes), e)
<1> DEFINE E == EdgesOf(nodes)
           edges == In!GraphEdges(nodes)
<1>0. PICK sorted \in Seq(E) : \E taken :
        /\ In!Range(sorted) = In!Range(In!RelatedEdges(nodes))
        /\ \A j, k \in DOMAIN sorted : j < k => ~In!EdgeBefore(sorted[k], sorted[j])
        /\ TakesInSteps(taken, sorted)
        /\ \A k \in 0 .. Len(sorted) : taken[k] \in Seq(E)
        /\ edges = taken[Len(sorted)]
  BY GraphSolved
<1>1. PICK taken :
        /\ In!Range(sorted) = In!Range(In!RelatedEdges(nodes))
        /\ \A j, k \in DOMAIN sorted : j < k => ~In!EdgeBefore(sorted[k], sorted[j])
        /\ TakesInSteps(taken, sorted)
        /\ \A k \in 0 .. Len(sorted) : taken[k] \in Seq(E)
        /\ edges = taken[Len(sorted)]
  BY <1>0
<1> DEFINE n == Len(sorted)
<1>2. n \in Nat /\ DOMAIN sorted = 1 .. n
  OBVIOUS
<1>3. E \subseteq AnyEdge
  BY IdsTyped DEF EdgesOf, AnyEdge
<1> HIDE DEF E, edges
<1>4. edges \in Seq(E) /\ edges = taken[n]
  BY <1>1, <1>2
<1>5. \A k \in 0 .. n : Sparse(taken[k])
  BY <1>1, TakenSparse
<1>6. ASSUME NEW e \in In!Range(In!RelatedEdges(nodes)) \ In!Range(edges)
      PROVE  Crowded(edges, e)
  <2>1. PICK k \in 1 .. n : sorted[k] = e
    BY <1>1, <1>2 DEF In!Range
  <2>2. k \in 0 .. n /\ k - 1 \in 0 .. n /\ k <= n /\ k - 1 <= n
    BY <1>2
  <2> DEFINE before == taken[k - 1]
  <2>3. taken[k] = In!WithEdge(before, e)
    BY <1>1, <2>1 DEF TakesInSteps
  <2>4. before \in Seq(E) /\ taken[k] \in Seq(E) /\ e \in E
    BY <1>1, <1>2, <2>1, <2>2
  <2>5. Continues(edges, taken[k], sorted, k, n)
    <3>1. \A m \in 0 .. n : k <= m => Continues(taken[m], taken[k], sorted, k, m)
      BY <1>1, <2>2, TakenContinues
    <3> QED
      BY <1>2, <1>4, <2>2, <3>1
  <2> HIDE DEF before
  <2>6. taken[k] = before
    <3> SUFFICES ASSUME taken[k] # before PROVE FALSE
      OBVIOUS
    <3>1. taken[k] = Append(before, e)
      BY <2>3 DEF In!WithEdge
    <3> DEFINE m == Len(before) + 1
    <3>2. Len(taken[k]) = m /\ m \in 1 .. m /\ taken[k][m] = e
      BY <2>4, <3>1
    <3>3. m \in 1 .. Len(edges) /\ edges[m] = e
      BY <1>4, <2>5, <3>2 DEF Continues
    <3>4. e \in In!Range(edges)
      BY <1>4, <3>3 DEF In!Range
    <3> QED
      BY <1>6, <3>4
  <2>7. ~(Len(before) < MaxEdges /\ In!HasRoom(before, e))
    <3>1. Append(before, e) # before
      <4>1. Len(Append(before, e)) = Len(before) + 1 /\ Len(before) \in Nat
        BY <2>4
      <4> QED
        BY <4>1
    <3> QED
      BY <2>3, <2>6, <3>1 DEF In!WithEdge
  <2> DEFINE heavier == In!Keep(edges, LAMBDA f : In!EdgeBefore(f, e))
             places == {i \in DOMAIN edges : In!EdgeBefore(edges[i], e)}
  <2>8. heavier = In!At(edges, places)
    BY DEF In!Keep
  <2>9. Len(before) <= Len(edges) /\ \A i \in 1 .. Len(before) : edges[i] = before[i]
    BY <2>5, <2>6 DEF Continues
  <2>10. ASSUME NEW i \in 1 .. Len(before) PROVE In!EdgeBefore(edges[i], e)
    <3>1. i \in DOMAIN edges /\ edges[i] \in E
      BY <1>4, <2>4, <2>9
    <3>2. edges[i] # e
      BY <1>6, <3>1 DEF In!Range
    <3>3. PICK j \in 1 .. n : j < k /\ edges[i] = sorted[j]
      <4>1. \A m \in 0 .. n : 0 <= m => Continues(taken[m], taken[0], sorted, 0, m)
        BY <1>1, <1>2, TakenContinues
      <4>2. Continues(before, <<>>, sorted, 0, k - 1)
        BY <1>1, <1>2, <2>2, <4>1 DEF TakesInSteps, before
      <4>3. Len(<<>>) = 0 /\ 0 < i
        OBVIOUS
      <4>4. PICK j \in 0 + 1 .. k - 1 : before[i] = sorted[j]
        BY <4>2, <4>3 DEF Continues
      <4>5. j \in 1 .. n /\ j < k
        BY <1>2
      <4> QED
        BY <2>9, <4>4, <4>5
    <3>4. ~In!EdgeBefore(e, edges[i])
      BY <1>1, <1>2, <2>1, <3>3
    <3> QED
      BY <1>3, <2>4, <3>1, <3>2, <3>4, EdgesOrdered
  <2>11. ASSUME NEW i \in 1 .. Len(edges), Len(before) < i PROVE ~In!EdgeBefore(edges[i], e)
    <3>1. PICK j \in k + 1 .. n : edges[i] = sorted[j]
      BY <2>5, <2>6, <2>11 DEF Continues
    <3>2. j \in 1 .. n /\ k < j
      BY <1>2
    <3> QED
      BY <1>1, <1>2, <2>1, <3>1, <3>2
  <2>12. places \cap DOMAIN edges = 1 .. Len(before)
    <3>1. DOMAIN edges = 1 .. Len(edges) /\ Len(edges) \in Nat /\ Len(before) \in Nat
      BY <1>4, <2>4
    <3>2. \A i \in 1 .. Len(before) : i \in 1 .. Len(edges)
      BY <2>9, <3>1
    <3>3. \A i \in 1 .. Len(edges) : i \in 1 .. Len(before) \/ Len(before) < i
      BY <3>1
    <3> QED
      BY <2>10, <2>11, <3>1, <3>2, <3>3
  <2>13. heavier = before
    <3> HIDE DEF heavier, places
    <3>1. /\ edges \in Seq(E) /\ before \in Seq(E) /\ Len(before) <= Len(edges)
          /\ \A i \in 1 .. Len(before) : edges[i] = before[i]
      BY <1>4, <2>4, <2>9
    <3>2. In!At(edges, places) = before
      BY ONLY <2>12, <3>1, AtFirst
    <3> QED
      BY <2>8, <3>2
  <2>14. Len(before) <= MaxEdges
    BY <1>5, <2>2 DEF before, Sparse
  <2>15. /\ MaxEdges \in Nat /\ MaxDegree \in Nat /\ Len(before) \in Nat
         /\ \A id : In!Degree(before, id) \in Nat
    BY <2>4, DegreeIs DEF InboxSetting
  <2>16. \/ Len(before) = MaxEdges
         \/ In!Degree(before, e.source) >= MaxDegree
         \/ In!Degree(before, e.target) >= MaxDegree
    BY <2>7, <2>14, <2>15 DEF In!HasRoom
  <2> QED
    BY <2>13, <2>16 DEF Crowded
<1>7. Sparse(edges)
  BY <1>2, <1>4, <1>5
<1> QED
  BY <1>4, <1>6, <1>7 DEF E, edges

\* The graph of the first of a list of insights.
LEMMA GraphIs ==
  ASSUME InboxSetting, NEW insights \in Seq(In!Insights), NEW limit \in Nat
  PROVE  LET graph == In!InsightGraph(insights, limit)
             nodes == In!FirstN(insights, limit)
         IN  /\ graph.nodes = nodes /\ graph.edges = In!GraphEdges(nodes)
             /\ nodes \in Seq(In!Insights)
             /\ Len(nodes) = IF Len(insights) < limit THEN Len(insights) ELSE limit
BY FirstNKeeps DEF In!InsightGraph

\* The first of the first.
LEMMA FirstOfFirst ==
  ASSUME NEW S, NEW s \in Seq(S), NEW m \in Nat, NEW n \in Nat, n <= m
  PROVE  In!FirstN(In!FirstN(s, m), n) = In!FirstN(s, n)
<1> DEFINE t == In!FirstN(s, m)
<1>1. /\ t \in Seq(S) /\ Len(t) = IF Len(s) < m THEN Len(s) ELSE m
      /\ \A i \in DOMAIN t : i \in DOMAIN s /\ t[i] = s[i]
  BY FirstNKeeps
<1> HIDE DEF t
<1>2. /\ In!FirstN(t, n) \in Seq(S) /\ Len(In!FirstN(t, n)) = IF Len(t) < n THEN Len(t) ELSE n
      /\ \A i \in DOMAIN In!FirstN(t, n) : i \in DOMAIN t /\ In!FirstN(t, n)[i] = t[i]
  BY <1>1, FirstNKeeps
<1>3. /\ In!FirstN(s, n) \in Seq(S) /\ Len(In!FirstN(s, n)) = IF Len(s) < n THEN Len(s) ELSE n
      /\ \A i \in DOMAIN In!FirstN(s, n) : i \in DOMAIN s /\ In!FirstN(s, n)[i] = s[i]
  BY FirstNKeeps
<1>4. Len(In!FirstN(t, n)) = Len(In!FirstN(s, n))
  BY <1>1, <1>2, <1>3
<1> DEFINE u == In!FirstN(t, n)
           v == In!FirstN(s, n)
<1>5. \A i \in DOMAIN u : u[i] = s[i]
  BY <1>1, <1>2
<1> HIDE DEF u, v
<1>6. u \in Seq(S) /\ v \in Seq(S) /\ Len(u) = Len(v) /\ \A i \in 1 .. Len(u) : u[i] = v[i]
  BY <1>2, <1>3, <1>4, <1>5 DEF u, v
<1>7. u = v
  BY <1>6
<1> QED
  BY <1>7 DEF t, u, v

\* A graph that is cut relates only what is left of it.
LEMMA CutGraph ==
  ASSUME InboxSetting, NEW insights \in Seq(In!Insights), NEW most \in Nat, NEW limit \in Nat
  PROVE  LET graph == In!LimitGraph(In!InsightGraph(insights, most), limit)
         IN  /\ graph.nodes = In!FirstN(In!FirstN(insights, most), limit)
             /\ \A e \in In!Range(graph.edges) :
                  e.source \in In!Ids(graph.nodes) /\ e.target \in In!Ids(graph.nodes)
<1> DEFINE graph == In!InsightGraph(insights, most)
           nodes == In!FirstN(graph.nodes, limit)
           places == {i \in DOMAIN graph.edges :
                        {graph.edges[i].source, graph.edges[i].target} \subseteq In!Ids(nodes)}
           kept == In!At(graph.edges, places)
           cut == IF Len(graph.nodes) <= limit THEN graph.edges ELSE kept
           limited == In!LimitGraph(graph, limit)
<1>1. limited.nodes = nodes /\ limited.edges = cut
  BY DEF In!LimitGraph, In!Keep
<1>2. /\ graph.nodes = In!FirstN(insights, most) /\ graph.nodes \in Seq(In!Insights)
      /\ graph.edges = In!GraphEdges(graph.nodes)
  BY GraphIs
<1> HIDE DEF graph
<1>3. graph.edges \in Seq(EdgesOf(graph.nodes))
  BY <1>2, GraphEdgesSound
<1>4. ASSUME NEW e \in In!Range(cut) PROVE e.source \in In!Ids(nodes)
        /\ e.target \in In!Ids(nodes)
  <2>1. CASE Len(graph.nodes) <= limit
    <3>1. nodes = graph.nodes
      <4>1. Len(nodes) = Len(graph.nodes) /\ nodes \in Seq(In!Insights)
            /\ \A i \in DOMAIN nodes : nodes[i] = graph.nodes[i]
        BY <1>2, <2>1, FirstNKeeps
      <4> HIDE DEF nodes
      <4> QED
        BY <1>2, <4>1
    <3>2. e \in EdgesOf(graph.nodes)
      BY <1>3, <1>4, <2>1, SeqRange
    <3> HIDE DEF nodes
    <3> QED
      BY <3>1, <3>2 DEF EdgesOf
  <2>2. CASE ~(Len(graph.nodes) <= limit)
    <3>1. e \in In!Range(kept)
      BY <1>4, <2>2
    <3>2. In!Range(kept) = {graph.edges[i] : i \in places \cap DOMAIN graph.edges}
      <4> HIDE DEF places
      <4> QED
        BY <1>3, AtKeeps
    <3> HIDE DEF kept
    <3> QED
      BY <3>1, <3>2
  <2> QED
    BY <2>1, <2>2
<1> QED
  BY <1>1, <1>2, <1>4 DEF graph

\* What is said of a graph, of the latest run.
LEMMA GraphsSound ==
  ASSUME InboxSetting, In!Latest.insights \in Seq(In!Insights)
  PROVE  In!GraphSound
<1> DEFINE all == In!Latest.insights
<1> SUFFICES ASSUME NEW limit \in In!PageLimits
             PROVE  /\ In!PublishedGraph(limit).nodes = In!CanonicalGraph(limit).nodes
                    /\ \A graph \in {In!PublishedGraph(limit), In!CanonicalGraph(limit)} :
                         \A e \in In!Range(graph.edges) :
                           {e.source, e.target} \subseteq In!Ids(graph.nodes)
                    /\ LET graph == In!CanonicalGraph(limit)
                           edges == graph.edges
                       IN  /\ \A id \in In!Ids(graph.nodes) :
                                In!Degree(edges, id)
                                  <= MaxDegree + (IF Looped(edges, id) THEN 1 ELSE 0)
                           /\ \A e \in In!Range(In!RelatedEdges(graph.nodes)) \ In!Range(edges) :
                                Crowded(edges, e)
  BY DEF In!GraphSound, Looped, Crowded
<1>1. limit \in Nat /\ MaxGraph \in Nat /\ limit <= MaxGraph
  BY DEF In!PageLimits, InboxSetting
<1> DEFINE nodes == In!FirstN(all, limit)
           canonical == In!CanonicalGraph(limit)
           published == In!PublishedGraph(limit)
<1>2. /\ canonical.nodes = nodes /\ canonical.edges = In!GraphEdges(nodes)
      /\ nodes \in Seq(In!Insights)
  BY <1>1, GraphIs DEF In!CanonicalGraph
<1>3. /\ published.nodes = In!FirstN(In!FirstN(all, MaxGraph), limit)
      /\ \A e \in In!Range(published.edges) :
           e.source \in In!Ids(published.nodes) /\ e.target \in In!Ids(published.nodes)
  BY <1>1, CutGraph DEF In!PublishedGraph
<1>4. published.nodes = nodes
  BY <1>1, <1>3, FirstOfFirst
<1> HIDE DEF nodes, canonical, published
<1>5. /\ In!GraphEdges(nodes) \in Seq(EdgesOf(nodes))
      /\ Sparse(In!GraphEdges(nodes))
      /\ \A e \in In!Range(In!RelatedEdges(nodes)) \ In!Range(In!GraphEdges(nodes)) :
           Crowded(In!GraphEdges(nodes), e)
  BY <1>2, GraphEdgesSound
<1>6. \A e \in In!Range(canonical.edges) :
        e.source \in In!Ids(canonical.nodes) /\ e.target \in In!Ids(canonical.nodes)
  <2> SUFFICES ASSUME NEW e \in In!Range(canonical.edges)
               PROVE  e.source \in In!Ids(nodes) /\ e.target \in In!Ids(nodes)
    BY <1>2
  <2>1. e \in EdgesOf(nodes)
    BY <1>2, <1>5, SeqRange
  <2> QED
    BY <2>1 DEF EdgesOf
<1> QED
  BY <1>2, <1>3, <1>4, <1>5, <1>6 DEF Sparse, canonical, published

-----------------------------------------------------------------------------

\* What is in order stays as it is.
LEMMA SortStays ==
  ASSUME NEW S, NEW s \in Seq(S), NEW before, NEW t,
         t = [k \in DOMAIN s |-> s[In!Sorted(Len(s), before)[k]]],
         \A j, k \in DOMAIN s : j < k => <<k, j>> \notin before
  PROVE  t = s
<1> DEFINE n == Len(s)
           p == In!Sorted(n, before)
<1>1. n \in Nat /\ DOMAIN s = 1 .. n /\ s = [k \in 1 .. n |-> s[k]]
  OBVIOUS
<1>2. p = [k \in 1 .. n |-> k]
  BY <1>1, SortedStays
<1>3. t = [k \in 1 .. n |-> s[p[k]]]
  BY <1>1
<1> HIDE DEF n, p
<1>4. t = [k \in 1 .. n |-> s[k]]
  BY <1>2, <1>3
<1> QED
  BY <1>1, <1>4

\* What is sorted is in order.
LEMMA SortOrders ==
  ASSUME NEW S, NEW s \in Seq(S), NEW before, NEW t,
         t = [k \in DOMAIN s |-> s[In!Sorted(Len(s), before)[k]]],
         Orders(before, Len(s))
  PROVE  \A j, k \in DOMAIN s : j < k =>
           \E a, b \in DOMAIN s : t[j] = s[a] /\ t[k] = s[b] /\ <<b, a>> \notin before
<1> DEFINE n == Len(s)
           p == In!Sorted(n, before)
<1>1. n \in Nat /\ DOMAIN s = 1 .. n
  OBVIOUS
<1>2. p \in [1 .. n -> Nat] /\ In!Range(p) = 1 .. n
  BY <1>1, SortedKeeps
<1>3. InOrder(p, n, before)
  BY <1>1, SortedInOrder
<1>4. t = [k \in 1 .. n |-> s[p[k]]]
  BY <1>1
<1> HIDE DEF n, p
<1>5. \A k \in 1 .. n : p[k] \in 1 .. n /\ t[k] = s[p[k]]
  BY <1>2, <1>4 DEF In!Range
<1> QED
  BY <1>1, <1>3, <1>5 DEF InOrder

-----------------------------------------------------------------------------

\* Sources by their times.

NewestOrder(s) == \A j, k \in DOMAIN s : j < k => ~(Time[s[k]] > Time[s[j]])

\* The newest first: the same sources, and those in this order stay as they are.
LEMMA NewestFirstIs ==
  ASSUME InboxSetting, NEW s \in Seq(Sources)
  PROVE  /\ In!NewestFirst(s) \in Seq(Sources) /\ Len(In!NewestFirst(s)) = Len(s)
         /\ In!Range(In!NewestFirst(s)) = In!Range(s)
         /\ NewestOrder(In!NewestFirst(s))
         /\ NewestOrder(s) => In!NewestFirst(s) = s
<1> DEFINE n == Len(s)
           before == {p \in (DOMAIN s) \X (DOMAIN s) : Time[s[p[1]]] > Time[s[p[2]]]}
           sorted == [k \in DOMAIN s |-> s[In!Sorted(n, before)[k]]]
<1>1. In!NewestFirst(s) = sorted
  BY DEF In!NewestFirst, In!StableSort
<1>2. n \in Nat /\ DOMAIN s = 1 .. n /\ \A i \in 1 .. n : s[i] \in Sources
  OBVIOUS
<1>3. \A i \in 1 .. n : Time[s[i]] \in Nat
  BY <1>2 DEF InboxSetting
<1>4. \A i, j \in 1 .. n : <<i, j>> \in before <=> Time[s[i]] > Time[s[j]]
  BY <1>2
<1> HIDE DEF before
<1>5. Orders(before, n)
  <2> HIDE DEF n
  <2>1. \A i, j \in 1 .. n : <<i, j>> \in before => <<j, i>> \notin before
    BY <1>3, <1>4
  <2>2. ASSUME NEW i \in 1 .. n, NEW j \in 1 .. n, NEW k \in 1 .. n,
               <<i, j>> \notin before, <<j, k>> \notin before
        PROVE  <<i, k>> \notin before
    <3> DEFINE a == Time[s[i]]
               b == Time[s[j]]
               c == Time[s[k]]
    <3>1. a \in Nat /\ b \in Nat /\ c \in Nat /\ ~(a > b) /\ ~(b > c)
      BY <1>3, <1>4, <2>2
    <3> HIDE DEF a, b, c
    <3>2. ~(a > c)
      BY <3>1
    <3> QED
      BY <1>4, <3>2 DEF a, c
  <2> QED
    BY <2>1, <2>2 DEF Orders
<1>6. sorted \in Seq(Sources) /\ Len(sorted) = n /\ In!Range(sorted) = In!Range(s)
  BY SortKeeps
<1>7. \A j, k \in DOMAIN s : j < k =>
        \E a, b \in DOMAIN s : sorted[j] = s[a] /\ sorted[k] = s[b] /\ <<b, a>> \notin before
  BY <1>5, SortOrders
<1>8. DOMAIN sorted = 1 .. n
  BY <1>2
<1> HIDE DEF sorted
<1>9. NewestOrder(sorted)
  <2> SUFFICES ASSUME NEW j \in 1 .. n, NEW k \in 1 .. n, j < k
               PROVE  ~(Time[sorted[k]] > Time[sorted[j]])
    BY <1>8 DEF NewestOrder
  <2>1. PICK a \in 1 .. n, b \in 1 .. n :
          sorted[j] = s[a] /\ sorted[k] = s[b] /\ <<b, a>> \notin before
    BY <1>2, <1>7
  <2> QED
    BY <1>4, <2>1
<1>10. NewestOrder(s) => sorted = s
  <2> SUFFICES ASSUME NewestOrder(s) PROVE sorted = s
    OBVIOUS
  <2>1. \A j, k \in DOMAIN s : j < k => <<k, j>> \notin before
    BY <1>2, <1>4 DEF NewestOrder
  <2> QED
    BY <2>1, SortStays DEF sorted
<1> QED
  BY <1>1, <1>6, <1>9, <1>10

\* The first of a list in order are in order.
LEMMA FirstNewest ==
  ASSUME NEW s \in Seq(Sources), NewestOrder(s), NEW limit \in Nat
  PROVE  NewestOrder(In!FirstN(s, limit))
<1>1. \A i \in DOMAIN In!FirstN(s, limit) : i \in DOMAIN s /\ In!FirstN(s, limit)[i] = s[i]
  BY FirstNKeeps
<1> QED
  BY <1>1 DEF NewestOrder

\* A longer page has what a shorter one has.
LEMMA LongerPage ==
  ASSUME NEW S, NEW s \in Seq(S), NEW limit \in Nat
  PROVE  In!Range(In!FirstN(s, limit)) \subseteq In!Range(In!FirstN(s, limit + 1))
<1> DEFINE t == In!FirstN(s, limit)
           u == In!FirstN(s, limit + 1)
<1>1. /\ t \in Seq(S) /\ Len(t) = IF Len(s) < limit THEN Len(s) ELSE limit
      /\ \A i \in DOMAIN t : i \in DOMAIN s /\ t[i] = s[i]
  BY FirstNKeeps
<1>2. /\ u \in Seq(S) /\ Len(u) = IF Len(s) < limit + 1 THEN Len(s) ELSE limit + 1
      /\ \A i \in DOMAIN u : i \in DOMAIN s /\ u[i] = s[i]
  BY FirstNKeeps
<1> HIDE DEF t, u
<1>3. \A i \in DOMAIN t : i \in DOMAIN u
  BY <1>1, <1>2
<1>4. \A i \in DOMAIN t : t[i] = u[i]
  BY <1>1, <1>2, <1>3
<1>5. In!Range(t) \subseteq In!Range(u)
  BY <1>3, <1>4 DEF In!Range
<1> QED
  BY <1>5 DEF t, u

\* The first of a list that is short enough are all of it.
LEMMA AllOfShort ==
  ASSUME NEW S, NEW s \in Seq(S), NEW limit \in Nat, Len(s) <= limit
  PROVE  In!FirstN(s, limit) = s
<1> DEFINE t == In!FirstN(s, limit)
<1>1. /\ t \in Seq(S) /\ Len(t) = IF Len(s) < limit THEN Len(s) ELSE limit
      /\ \A i \in DOMAIN t : i \in DOMAIN s /\ t[i] = s[i]
  BY FirstNKeeps
<1> HIDE DEF t
<1>2. Len(t) = Len(s)
  BY <1>1
<1>3. t = s
  BY <1>1, <1>2
<1> QED
  BY <1>3 DEF t

\* A page of posts or videos.
LEMMA SourcePages ==
  ASSUME InboxSetting, InboxTyped, NEW view \in {"bookmarks", "videos"}, NEW limit \in Nat
  PROVE  /\ In!CanonicalPage(view, limit) = In!RedisPage(view, limit)
         /\ In!Range(In!RedisPage(view, limit)) \subseteq In!Range(In!RedisPage(view, limit + 1))
<1> DEFINE s == run[view]
           t == In!NewestFirst(s)
           page == In!FirstN(t, limit)
<1>1. s \in Seq(Sources)
  <2>1. run.bookmarks \in Seq(Sources \ Videos) /\ run.videos \in Seq(Videos)
          /\ Videos \subseteq Sources
    BY DEF InboxTyped, Run, InboxSetting
  <2>2. run.bookmarks \in Seq(Sources) /\ run.videos \in Seq(Sources)
    BY <2>1
  <2> QED
    BY <2>2
<1>2. In!Latest[view] = s
  BY DEF In!Latest, In!Normalized, InboxTyped, Run
<1>3. view # "insights"
  OBVIOUS
<1>4. In!RedisPage(view, limit) = page /\ In!RedisPage(view, limit + 1) = In!FirstN(t, limit + 1)
  BY <1>2, <1>3 DEF In!RedisPage, In!RedisSources
<1>5. In!CanonicalPage(view, limit) = In!FirstN(In!NewestFirst(page), limit)
  BY <1>3 DEF In!CanonicalPage, In!NewestFirst
<1> HIDE DEF s
<1>6. t \in Seq(Sources) /\ NewestOrder(t)
  BY <1>1, NewestFirstIs
<1> HIDE DEF t
<1>7. page \in Seq(Sources) /\ Len(page) <= limit /\ NewestOrder(page)
  <2>1. NewestOrder(page)
    BY <1>6, FirstNewest
  <2>2. page \in Seq(Sources) /\ Len(page) = IF Len(t) < limit THEN Len(t) ELSE limit
    BY <1>6, FirstNKeeps
  <2>3. Len(t) \in Nat
    BY <1>6
  <2> HIDE DEF page
  <2> QED
    BY <2>1, <2>2, <2>3
<1> HIDE DEF page
<1>8. In!NewestFirst(page) = page
  BY <1>7, NewestFirstIs
<1>9. In!FirstN(page, limit) = page
  BY <1>7, AllOfShort
<1>10. In!Range(In!FirstN(t, limit)) \subseteq In!Range(In!FirstN(t, limit + 1))
  BY <1>6, LongerPage
<1> QED
  BY <1>4, <1>5, <1>8, <1>9, <1>10 DEF page

-----------------------------------------------------------------------------

\* Of some fractions one is the greatest.
LEMMA FractionsOrdered ==
  ASSUME NEW a \in Nat, NEW b \in Nat \ {0}, NEW c \in Nat, NEW d \in Nat \ {0},
         NEW e \in Nat, NEW f \in Nat \ {0}, a * d <= c * b, c * f <= e * d
  PROVE  a * f <= e * b
<1>1. \A x, y \in Nat, z \in Nat : x <= y => x * z <= y * z
  OBVIOUS
<1>2. \A x, y \in Nat, z \in Nat \ {0} : x * z <= y * z => x <= y
  OBVIOUS
<1>3. a * d \in Nat /\ c * b \in Nat /\ c * f \in Nat /\ e * d \in Nat /\ a * f \in Nat
        /\ e * b \in Nat
  OBVIOUS
<1>4. (a * d) * f <= (c * b) * f
  BY <1>1, <1>3
<1>5. (c * f) * b <= (e * d) * b
  BY <1>1, <1>3
<1>6. (a * d) * f = (a * f) * d /\ (c * b) * f = (c * f) * b /\ (e * d) * b = (e * b) * d
  OBVIOUS
<1>7. (a * f) * d <= (e * b) * d
  <2>1. (a * f) * d \in Nat /\ (c * f) * b \in Nat /\ (e * b) * d \in Nat
    BY <1>3
  <2> QED
    BY <1>4, <1>5, <1>6, <2>1
<1> QED
  BY <1>2, <1>3, <1>7

\* An insight has so much in common with a group, or an insight, that they are put together.
Near(words, x) ==
  /\ words # {}
  /\ 4 * Cardinality(words \cap x.words) >= Cardinality(words \cup x.words)

Takes(group, x) == group.key = x.key \/ Near(x.words, group)

\* Both ways, of two insights.
LEMMA TakesBoth ==
  ASSUME InboxSetting, NEW x \in In!Insights, NEW y \in In!Insights, Takes(x, y)
  PROVE  Takes(y, x)
<1> SUFFICES ASSUME Near(y.words, x) PROVE Near(x.words, y)
  BY DEF Takes
<1> DEFINE v == x.words
           w == y.words
<1>1. IsFiniteSet(v) /\ IsFiniteSet(w)
  BY DEF InboxSetting
<1>2. w # {} /\ 4 * Cardinality(w \cap v) >= Cardinality(w \cup v)
  BY DEF Near
<1> HIDE DEF v, w
<1>3. v # {}
  <2> SUFFICES ASSUME v = {} PROVE FALSE
    OBVIOUS
  <2>1. w \cap v = {} /\ w \cup v = w
    OBVIOUS
  <2>2. Cardinality({}) = 0 /\ Cardinality(w) \in Nat /\ Cardinality(w) # 0
    BY <1>1, <1>2, FS_EmptySet, FS_CardinalityType
  <2> QED
    BY <1>2, <2>1, <2>2
<1>4. w \cap v = v \cap w /\ w \cup v = v \cup w
  OBVIOUS
<1>5. v # {} /\ 4 * Cardinality(v \cap w) >= Cardinality(v \cup w)
  BY <1>2, <1>3, <1>4
<1> QED
  BY <1>5 DEF Near, v, w

\* Where some groups are near, one of them is the closest.
LEMMA BestFound ==
  ASSUME InboxSetting, NEW groups \in Seq(Group), NEW x \in In!Insights
  PROVE  In!BestCluster(groups, x.words) = 0 <=>
           \A i \in DOMAIN groups : ~Near(x.words, groups[i])
<1> DEFINE n == Len(groups)
           words == x.words
           Close(k) == In!Overlap(words, groups[k].words)
           near == {k \in DOMAIN groups : words # {} /\ 4 * Close(k)[1] >= Close(k)[2]}
           best == {k \in near : \A j \in near : ~In!Closer(Close(j), Close(k))}
           A(k) == Cardinality(words \cap groups[k].words)
           B(k) == Cardinality(words \cup groups[k].words)
<1>1. In!BestCluster(groups, words) = IF best = {} THEN 0 ELSE In!Min(best)
  BY DEF In!BestCluster
<1>2. n \in Nat /\ DOMAIN groups = 1 .. n /\ \A k \in 1 .. n : groups[k] \in Group
  OBVIOUS
<1>3. \A k : Close(k)[1] = A(k) /\ Close(k)[2] = B(k)
  BY SameCardinality DEF In!Overlap
<1>4. \A k \in 1 .. n : k \in near <=> Near(words, groups[k])
  BY <1>2, <1>3 DEF Near
<1>5. \A k \in near : A(k) \in Nat /\ B(k) \in Nat \ {0}
  <2> SUFFICES ASSUME NEW k \in near PROVE A(k) \in Nat /\ B(k) \in Nat \ {0}
    OBVIOUS
  <2>1. k \in 1 .. n /\ words # {}
    BY <1>2
  <2>2. groups[k].words \in {y.words : y \in In!Insights}
    BY <1>2, <2>1 DEF Group
  <2>3. IsFiniteSet(words) /\ IsFiniteSet(groups[k].words)
    BY <2>2 DEF InboxSetting
  <2> DEFINE v == groups[k].words
  <2> HIDE DEF v, words, near
  <2>4. IsFiniteSet(words \cap v) /\ IsFiniteSet(words \cup v)
    BY <2>3, FS_Intersection, FS_Union DEF v
  <2>5. words \cup v # {}
    BY <2>1
  <2>6. Cardinality(words \cap v) \in Nat /\ Cardinality(words \cup v) \in Nat \ {0}
    BY <2>4, <2>5, FS_CardinalityType, FS_EmptySet
  <2> QED
    BY <2>6 DEF v
<1>6. \A j, k \in near : In!Closer(Close(j), Close(k)) <=> ~(A(j) * B(k) <= A(k) * B(j))
  <2> SUFFICES ASSUME NEW j \in near, NEW k \in near
               PROVE  In!Closer(Close(j), Close(k)) <=> ~(A(j) * B(k) <= A(k) * B(j))
    OBVIOUS
  <2>1. In!Closer(Close(j), Close(k)) <=> A(j) * B(k) > A(k) * B(j)
    BY <1>3 DEF In!Closer
  <2>2. A(j) * B(k) \in Int /\ A(k) * B(j) \in Int
    <3> HIDE DEF A, B, near
    <3>1. A(j) \in Int /\ B(k) \in Int /\ A(k) \in Int /\ B(j) \in Int
      BY <1>5
    <3> QED
      BY <3>1
  <2> HIDE DEF A, B, near, Close
  <2> QED
    BY <2>1, <2>2
<1>7. near \subseteq 1 .. n
  BY <1>2
<1> HIDE DEF near, A, B, Close, words
<1> DEFINE Top(k, m) == k \in near /\ k <= m
                        /\ \A j \in near : j <= m => A(j) * B(k) <= A(k) * B(j)
           T == {m \in 0 .. n : (\E k \in near : k <= m) => \E k : Top(k, m)}
<1>8. 0 \in T
  BY <1>2, <1>7
<1>9. ASSUME NEW m \in 1 .. n, m - 1 \in T PROVE m \in T
  <2>1. m \in 0 .. n /\ \A k \in near : k \in Nat /\ (k <= m <=> k <= m - 1 \/ k = m)
    BY <1>2, <1>7
  <2>2. m \in near => A(m) * B(m) <= A(m) * B(m)
    <3> SUFFICES ASSUME m \in near PROVE A(m) * B(m) <= A(m) * B(m)
      OBVIOUS
    <3>1. A(m) \in Int /\ B(m) \in Int
      BY <1>5
    <3>2. A(m) * B(m) \in Int
      BY <3>1
    <3> QED
      BY <3>2
  <2>3. CASE m \notin near
    <3>1. ASSUME NEW k, Top(k, m - 1) PROVE Top(k, m)
      BY <2>1, <2>3, <3>1
    <3>2. (\E k \in near : k <= m) => \E k : Top(k, m - 1)
      BY <1>9, <2>1, <2>3
    <3> HIDE DEF Top
    <3> QED
      BY <2>1, <3>1, <3>2
  <2>4. CASE m \in near /\ ~\E k \in near : k <= m - 1
    <3>1. \A j \in near : j <= m => j = m
      BY <2>1, <2>4
    <3>2. Top(m, m)
      BY <2>1, <2>2, <2>4, <3>1
    <3> HIDE DEF Top
    <3> QED
      BY <2>1, <3>2
  <2>5. CASE m \in near /\ \E k \in near : k <= m - 1
    <3>1. PICK b : Top(b, m - 1)
      BY <1>9, <2>5
    <3>2. b \in near /\ b <= m /\ \A j \in near : j <= m - 1 => A(j) * B(b) <= A(b) * B(j)
      BY <2>1, <3>1
    <3>3. CASE A(m) * B(b) <= A(b) * B(m)
      <4>1. Top(b, m)
        BY <2>1, <3>2, <3>3
      <4> HIDE DEF Top
      <4> QED
        BY <2>1, <4>1
    <3>4. CASE ~(A(m) * B(b) <= A(b) * B(m))
      <4>1. A(b) * B(m) <= A(m) * B(b)
        <5>1. A(m) \in Int /\ B(b) \in Int /\ A(b) \in Int /\ B(m) \in Int
          BY <1>5, <2>5, <3>2
        <5>2. A(m) * B(b) \in Int /\ A(b) * B(m) \in Int
          BY <5>1
        <5> QED
          BY <3>4, <5>2
      <4>2. ASSUME NEW j \in near, j <= m - 1 PROVE A(j) * B(m) <= A(m) * B(j)
        <5>1. A(j) * B(b) <= A(b) * B(j)
          BY <3>2, <4>2
        <5>2. /\ A(j) \in Nat /\ B(j) \in Nat \ {0} /\ A(b) \in Nat /\ B(b) \in Nat \ {0}
              /\ A(m) \in Nat /\ B(m) \in Nat \ {0}
          BY <1>5, <2>5, <3>2
        <5> QED
          BY <4>1, <5>1, <5>2, FractionsOrdered
      <4>3. Top(m, m)
        BY <2>1, <2>2, <2>5, <4>2
      <4> HIDE DEF Top
      <4> QED
        BY <2>1, <4>3
    <3> QED
      BY <3>3, <3>4
  <2> QED
    BY <2>3, <2>4, <2>5
<1>10. n \in T
  <2> HIDE DEF T
  <2>1. 0 .. n \subseteq T
    BY <1>2, <1>8, <1>9, UpTo
  <2> QED
    BY <1>2, <2>1
<1>11. near # {} => best # {}
  <2> SUFFICES ASSUME near # {} PROVE \E k : k \in best
    OBVIOUS
  <2>1. \A k \in near : k <= n
    BY <1>2, <1>7
  <2>2. PICK k : Top(k, n)
    BY <1>10, <2>1
  <2>3. k \in best
    BY <1>6, <2>1, <2>2
  <2> QED
    BY <2>3
<1>12. best # {} => In!Min(best) \in best
  <2>1. best \subseteq Nat
    <3>1. best \subseteq near
      OBVIOUS
    <3>2. 1 .. n \subseteq Nat
      BY <1>2
    <3> HIDE DEF best
    <3> QED
      BY <1>7, <3>1, <3>2
  <2> HIDE DEF best
  <2> QED
    BY <2>1, MinIs
<1>13. In!BestCluster(groups, words) = 0 <=> near = {}
  <2>1. best \subseteq near /\ 0 \notin near
    BY <1>2, <1>7
  <2> HIDE DEF best
  <2> QED
    BY <1>1, <1>11, <1>12, <2>1
<1> QED
  BY <1>2, <1>4, <1>7, <1>13 DEF words

\* The group an insight is put into is one that takes it, if there is one.
LEMMA ClusterFound ==
  ASSUME InboxSetting, NEW groups \in Seq(Group), NEW x \in In!Insights
  PROVE  In!ClusterOf(groups, x) = 0 <=> \A i \in DOMAIN groups : ~Takes(groups[i], x)
<1> DEFINE n == Len(groups)
           same == {i \in DOMAIN groups : groups[i].key = x.key}
<1>1. In!ClusterOf(groups, x) = IF same # {} THEN In!Min(same) ELSE In!BestCluster(groups,
        x.words)
  BY DEF In!ClusterOf
<1>2. n \in Nat /\ DOMAIN groups = 1 .. n
  OBVIOUS
<1>3. \A i \in 1 .. n : i \in same <=> groups[i].key = x.key
  BY <1>2
<1>4. same \subseteq 1 .. n /\ same \subseteq Nat
  BY <1>2
<1> HIDE DEF same, n
<1>5. same # {} => In!Min(same) \in same
  BY <1>4, MinIs
<1>7. In!BestCluster(groups, x.words) = 0 <=> \A i \in DOMAIN groups : ~Near(x.words, groups[i])
  BY BestFound
<1>8. CASE same # {}
  <2>1. In!ClusterOf(groups, x) \in same /\ 0 \notin 1 .. n
    BY <1>1, <1>2, <1>5, <1>8
  <2>2. In!ClusterOf(groups, x) # 0
    BY <1>4, <2>1
  <2>3. ~\A i \in DOMAIN groups : ~Takes(groups[i], x)
    BY <1>2, <1>3, <1>4, <2>1 DEF Takes
  <2> QED
    BY <2>2, <2>3
<1>9. CASE same = {}
  <2>1. In!ClusterOf(groups, x) = In!BestCluster(groups, x.words)
    BY <1>1, <1>9
  <2>2. \A i \in DOMAIN groups : Takes(groups[i], x) <=> Near(x.words, groups[i])
    BY <1>2, <1>3, <1>9 DEF Takes
  <2> QED
    BY <1>7, <2>1, <2>2
<1> QED
  BY <1>8, <1>9

Alone(list) == \A i, j \in DOMAIN list : i # j => ~Takes(list[i], list[j])

\* Each insight so far has a group of its own.
Singles(groups, list, k) ==
  /\ Len(groups) = k
  /\ \A i \in 1 .. k : groups[i] = [key |-> list[i].key, words |-> list[i].words,
                                    members |-> <<list[i]>>]

Recurring(groups) == \E i \in DOMAIN groups : Len(groups[i].members) >= 2

\* With one more insight: none takes it, and it gets a group of its own, or one does,
\* and there is a group of two.
LEMMA JoinedSingles ==
  ASSUME InboxSetting, NEW list \in Seq(In!Insights), NEW k \in 1 .. Len(list),
         NEW groups \in Seq(Group), Singles(groups, list, k - 1)
  PROVE  LET t == In!Joined(groups, list[k])
         IN  \/ Singles(t, list, k) /\ \A i \in 1 .. k - 1 : ~Takes(list[i], list[k])
             \/ Recurring(t) /\ \E i \in 1 .. k - 1 : Takes(list[i], list[k])
<1> DEFINE x == list[k]
           c == In!ClusterOf(groups, x)
           t == In!Joined(groups, x)
           own == [key |-> x.key, words |-> x.words, members |-> <<x>>]
<1>1. x \in In!Insights /\ k \in Nat /\ k - 1 \in Nat /\ Len(groups) = k - 1
  BY DEF Singles
<1>2. DOMAIN groups = 1 .. k - 1
  BY <1>1
<1>3. \A i \in 1 .. k - 1 : Takes(groups[i], x) <=> Takes(list[i], x)
  <2> SUFFICES ASSUME NEW i \in 1 .. k - 1 PROVE Takes(groups[i], x) <=> Takes(list[i], x)
    OBVIOUS
  <2>1. groups[i].key = list[i].key /\ groups[i].words = list[i].words
    <3>1. groups[i] = [key |-> list[i].key, words |-> list[i].words, members |-> <<list[i]>>]
      BY DEF Singles
    <3> QED
      BY <3>1
  <2> HIDE DEF x
  <2> QED
    BY <2>1 DEF Takes, Near
<1>4. c \in 0 .. k - 1 /\ (c = 0 <=> \A i \in 1 .. k - 1 : ~Takes(list[i], x))
  <2>1. c \in 0 .. Len(groups) /\ (c = 0 <=> \A i \in DOMAIN groups : ~Takes(groups[i], x))
    BY <1>1, ClusterFound, ClusterInRange
  <2> QED
    BY <1>1, <1>2, <1>3, <2>1
<1>5. t = IF c = 0 THEN Append(groups, own) ELSE [groups EXCEPT ![c].members = Append(@, x)]
  BY DEF In!Joined
<1> HIDE DEF c, t
<1>6. CASE c = 0
  <2>1. t = Append(groups, own)
    BY <1>5, <1>6
  <2>2. Len(t) = k /\ t[k] = own /\ \A i \in 1 .. k - 1 : t[i] = groups[i]
    BY <1>1, <2>1
  <2>3. \A i \in 1 .. k : i = k \/ i \in 1 .. k - 1
    BY <1>1
  <2>4. Singles(t, list, k)
    BY <2>2, <2>3 DEF Singles
  <2> QED
    BY <1>4, <1>6, <2>4 DEF t
<1>7. CASE c # 0
  <2>1. c \in DOMAIN groups
    BY <1>1, <1>2, <1>4, <1>7
  <2>2. groups[c].members = <<list[c]>>
    BY <1>2, <2>1 DEF Singles
  <2>3. t = [groups EXCEPT ![c].members = Append(@, x)]
    BY <1>5, <1>7
  <2>4. c \in DOMAIN t /\ t[c].members = Append(groups[c].members, x)
    <3>1. groups[c] \in Group
      BY <2>1
    <3>2. DOMAIN t = DOMAIN groups /\ t[c] = [groups[c] EXCEPT !.members = Append(@, x)]
      BY <2>1, <2>3
    <3> QED
      BY <2>1, <3>1, <3>2 DEF Group
  <2>5. Len(Append(<<list[c]>>, x)) = 2
    OBVIOUS
  <2>6. Recurring(t)
    BY <2>2, <2>4, <2>5 DEF Recurring
  <2> QED
    BY <1>4, <1>7, <2>6 DEF t
<1> QED
  BY <1>6, <1>7

\* A group of two does not get smaller.
LEMMA JoinedRecurring ==
  ASSUME InboxSetting, NEW groups \in Seq(Group), NEW x \in In!Insights, Recurring(groups)
  PROVE  Recurring(In!Joined(groups, x))
<1> DEFINE c == In!ClusterOf(groups, x)
           t == In!Joined(groups, x)
           own == [key |-> x.key, words |-> x.words, members |-> <<x>>]
<1>1. t = IF c = 0 THEN Append(groups, own) ELSE [groups EXCEPT ![c].members = Append(@, x)]
  BY DEF In!Joined
<1>2. c \in 0 .. Len(groups)
  BY ClusterInRange
<1> HIDE DEF c, t, own
<1>3. PICK i \in DOMAIN groups : Len(groups[i].members) >= 2
  BY DEF Recurring
<1>4. groups[i] \in Group /\ groups[i].members \in Seq(In!Insights)
  <2>1. groups[i] \in Group
    BY <1>3
  <2> QED
    BY <2>1 DEF Group
<1>5. CASE c = 0
  <2>1. t = Append(groups, own)
    BY <1>1, <1>5
  <2>2. i \in DOMAIN t /\ t[i] = groups[i]
    BY <1>3, <2>1
  <2> QED
    BY <1>3, <2>2 DEF Recurring, t
<1>6. CASE c # 0
  <2>1. t = [groups EXCEPT ![c].members = Append(@, x)]
    BY <1>1, <1>6
  <2>2. i \in DOMAIN t
    BY <1>3, <2>1
  <2>3. CASE i = c
    <3>1. t[i] = [groups[i] EXCEPT !.members = Append(@, x)]
      BY <1>3, <2>1, <2>3
    <3>2. t[i].members = Append(groups[i].members, x)
      BY <1>4, <3>1 DEF Group
    <3> DEFINE m == groups[i].members
    <3>3. Len(Append(m, x)) = Len(m) + 1 /\ Len(m) \in Nat /\ Len(m) >= 2
      BY <1>3, <1>4
    <3>4. Len(t[i].members) >= 2
      BY <3>2, <3>3
    <3> QED
      BY <2>2, <3>4 DEF Recurring, t
  <2>4. CASE i # c
    <3>1. t[i] = groups[i]
      BY <1>3, <2>1, <2>4
    <3> QED
      BY <1>3, <2>2, <3>1 DEF Recurring, t
  <2> QED
    BY <2>3, <2>4
<1> QED
  BY <1>5, <1>6

-----------------------------------------------------------------------------

\* No group of two comes of insights that are alone, and of no others.
LEMMA AloneGroups ==
  ASSUME InboxSetting, NEW list \in Seq(In!Insights), NEW h, GroupsInSteps(h, list)
  PROVE  Alone(list) <=> ~Recurring(h[Len(list)])
<1> DEFINE n == Len(list)
           Parted(k) == \A j \in 1 .. k : \A i \in 1 .. j - 1 : ~Takes(list[i], list[j])
<1>1. n \in Nat /\ DOMAIN list = 1 .. n /\ \A k \in 1 .. n : list[k] \in In!Insights
  OBVIOUS
<1>2. /\ h[0] = <<>>
      /\ \A k \in 1 .. n : h[k] = In!Joined(h[k - 1], list[k])
      /\ \A k \in 0 .. n : h[k] \in Seq(Group)
  BY DEF GroupsInSteps
<1>3. \A k \in 1 .. n : k - 1 \in 0 .. n /\ k \in 0 .. n /\ (k - 1) + 1 = k
  BY <1>1
<1>4. 0 \in 0 .. n /\ n \in 0 .. n
  BY <1>1
<1> HIDE DEF n
<1>5. Singles(h[0], list, 0)
  <2>1. Len(<<>>) = 0 /\ 1 .. 0 = {}
    OBVIOUS
  <2> QED
    BY <1>2, <2>1 DEF Singles
<1>6. ASSUME NEW k \in 1 .. n, Singles(h[k - 1], list, k - 1)
      PROVE  \/ Singles(h[k], list, k) /\ \A i \in 1 .. k - 1 : ~Takes(list[i], list[k])
             \/ Recurring(h[k]) /\ \E i \in 1 .. k - 1 : Takes(list[i], list[k])
  <2>1. h[k - 1] \in Seq(Group) /\ h[k] = In!Joined(h[k - 1], list[k])
    BY <1>2, <1>3
  <2> QED
    BY <1>6, <2>1, JoinedSingles DEF n
<1>7. ASSUME Alone(list) PROVE ~Recurring(h[n])
  <2> DEFINE T == {k \in 0 .. n : Singles(h[k], list, k)}
  <2>1. 0 \in T
    BY <1>4, <1>5
  <2>2. ASSUME NEW k \in 1 .. n, k - 1 \in T PROVE k \in T
    <3>1. \A i \in 1 .. k - 1 : i \in 1 .. n /\ i # k
      BY <1>1
    <3>2. \A i \in 1 .. k - 1 : ~Takes(list[i], list[k])
      BY <1>1, <1>7, <3>1 DEF Alone
    <3>3. Singles(h[k - 1], list, k - 1)
      BY <2>2
    <3>4. Singles(h[k], list, k)
      BY <1>6, <3>2, <3>3
    <3> QED
      BY <1>3, <3>4
  <2>3. n \in T
    <3> HIDE DEF T
    <3>1. 0 .. n \subseteq T
      BY <1>1, <2>1, <2>2, UpTo
    <3> QED
      BY <1>4, <3>1
  <2>4. ASSUME NEW i \in DOMAIN h[n] PROVE ~(Len(h[n][i].members) >= 2)
    <3>1. Len(h[n]) = n /\ h[n] \in Seq(Group)
      BY <1>2, <1>4, <2>3 DEF Singles
    <3>2. i \in 1 .. n
      BY <2>4, <3>1
    <3>3. h[n][i] = [key |-> list[i].key, words |-> list[i].words, members |-> <<list[i]>>]
      BY <2>3, <3>2 DEF Singles
    <3>4. h[n][i].members = <<list[i]>> /\ Len(<<list[i]>>) = 1
      BY <3>3
    <3> QED
      BY <3>4
  <2> QED
    BY <2>4 DEF Recurring
<1>8. ASSUME ~Recurring(h[n]) PROVE Alone(list)
  <2>1. ASSUME NEW k \in 0 .. n, Recurring(h[k]) PROVE FALSE
    <3> DEFINE T == {m \in 0 .. n : k <= m => Recurring(h[m])}
    <3>1. 0 \in T
      <4>1. k <= 0 => k = 0
        BY <1>1
      <4> QED
        BY <1>4, <2>1, <4>1
    <3>2. ASSUME NEW m \in 1 .. n, m - 1 \in T PROVE m \in T
      <4>1. k <= m => k = m \/ k <= m - 1
        BY <1>1
      <4>2. k <= m - 1 => Recurring(h[m - 1])
        BY <3>2
      <4>3. Recurring(h[m - 1]) => Recurring(h[m])
        BY <1>1, <1>2, <1>3, JoinedRecurring
      <4> QED
        BY <1>3, <2>1, <4>1, <4>2, <4>3
    <3>3. 0 .. n \subseteq T
      <4> HIDE DEF T
      <4> QED
        BY <1>1, <3>1, <3>2, UpTo
    <3>4. Recurring(h[n])
      BY <1>1, <1>4, <3>3
    <3> QED
      BY <1>8, <3>4
  <2> DEFINE T == {k \in 0 .. n : Singles(h[k], list, k) /\ Parted(k)}
  <2>2. 0 \in T
    BY <1>4, <1>5
  <2>3. ASSUME NEW k \in 1 .. n, k - 1 \in T PROVE k \in T
    <3>1. Singles(h[k - 1], list, k - 1) /\ Parted(k - 1)
      BY <2>3
    <3>2. Singles(h[k], list, k) /\ \A i \in 1 .. k - 1 : ~Takes(list[i], list[k])
      BY <1>3, <1>6, <2>1, <3>1
    <3>3. \A j \in 1 .. k : j = k \/ j \in 1 .. k - 1
      BY <1>1
    <3>4. Parted(k)
      BY <3>1, <3>2, <3>3
    <3> QED
      BY <1>3, <3>2, <3>4
  <2>4. Parted(n)
    <3> HIDE DEF T
    <3>1. 0 .. n \subseteq T
      BY <1>1, <2>2, <2>3, UpTo
    <3>2. n \in T
      BY <1>4, <3>1
    <3> QED
      BY <3>2 DEF T
  <2> SUFFICES ASSUME NEW i \in 1 .. n, NEW j \in 1 .. n, i # j PROVE ~Takes(list[i], list[j])
    BY <1>1 DEF Alone
  <2>5. CASE i < j
    <3>1. i \in 1 .. j - 1
      BY <1>1, <2>5
    <3> QED
      BY <2>4, <3>1
  <2>6. CASE j < i
    <3>1. j \in 1 .. i - 1
      BY <1>1, <2>6
    <3>2. ~Takes(list[j], list[i])
      BY <2>4, <3>1
    <3>3. list[i] \in In!Insights /\ list[j] \in In!Insights
      BY <1>1
    <3> QED
      BY <3>2, <3>3, TakesBoth
  <2> QED
    BY <1>1, <2>5, <2>6
<1> QED
  BY <1>7, <1>8 DEF n

\* There are no clusters where all insights are alone, and nowhere else.
LEMMA NoClusters ==
  ASSUME InboxSetting, NEW list \in Seq(In!Insights)
  PROVE  In!Clusters(list) = <<>> <=> Alone(list)
<1> DEFINE h == CHOOSE f : f = [n \in 0 .. Len(list) |->
                              IF n = 0 THEN <<>> ELSE In!Joined(f[n - 1], list[n])]
           all == h[Len(list)]
           places == {i \in DOMAIN all : Len(all[i].members) >= 2}
           recurring == In!At(all, places)
           Scored(i) == [key |-> recurring[i].key, score |-> In!DoubleScore(recurring[i].members),
              ids |-> [k \in DOMAIN recurring[i].members |-> recurring[i].members[k].id]]
           scored == [i \in DOMAIN recurring |-> Scored(i)]
           before == {p \in (DOMAIN scored) \X (DOMAIN scored) :
                        \/ scored[p[1]].score > scored[p[2]].score
                        \/ scored[p[1]].score = scored[p[2]].score
                           /\ scored[p[1]].key < scored[p[2]].key}
           sorted == [k \in DOMAIN scored |-> scored[In!Sorted(Len(scored), before)[k]]]
<1>1. In!Clusters(list) = In!FirstN(sorted, MaxClusters)
  BY DEF In!Clusters, In!Keep, In!StableSort
<1>2. GroupsInSteps(h, list)
  BY GroupedTyped
<1>3. all \in Seq(Group)
  <2>1. Len(list) \in 0 .. Len(list)
    OBVIOUS
  <2> HIDE DEF h
  <2> QED
    BY <1>2, <2>1 DEF GroupsInSteps
<1>4. Alone(list) <=> ~Recurring(all)
  <2> HIDE DEF h
  <2> QED
    BY <1>2, AloneGroups
<1>5. Recurring(all) <=> places # {}
  BY DEF Recurring
<1> HIDE DEF all, places
<1>6. recurring \in Seq(Group) /\ In!Range(recurring) = {all[i] : i \in places \cap DOMAIN all}
  BY <1>3, AtKeeps
<1>7. places \subseteq DOMAIN all
  BY DEF places
<1>8. recurring = <<>> <=> places = {}
  <2>1. In!Range(recurring) = {} <=> places = {}
    BY <1>6, <1>7
  <2>2. In!Range(recurring) = {} <=> DOMAIN recurring = {}
    BY DEF In!Range
  <2> HIDE DEF recurring
  <2>3. recurring = <<>> <=> DOMAIN recurring = {}
    BY <1>6
  <2> QED
    BY <2>1, <2>2, <2>3
<1> HIDE DEF recurring
<1> DEFINE m == Len(recurring)
           S == {Scored(i) : i \in 1 .. m}
<1>9. m \in Nat /\ DOMAIN recurring = 1 .. m /\ (recurring = <<>> <=> m = 0)
  BY <1>6
<1>10. scored \in Seq(S) /\ Len(scored) = m
  <2> HIDE DEF Scored, m
  <2>1. scored \in [1 .. m -> S]
    BY <1>9
  <2> HIDE DEF scored, S
  <2> QED
    BY <1>9, <2>1
<1> HIDE DEF scored, S
<1>11. sorted \in Seq(S) /\ Len(sorted) = m
  <2> HIDE DEF before
  <2> QED
    BY <1>10, SortKeeps
<1> HIDE DEF sorted
<1>12. MaxClusters \in Nat \ {0}
  BY DEF InboxSetting
<1>13. /\ In!FirstN(sorted, MaxClusters) \in Seq(S)
       /\ Len(In!FirstN(sorted, MaxClusters)) = IF m < MaxClusters THEN m ELSE MaxClusters
  BY <1>11, <1>12, FirstNKeeps
<1> DEFINE t == In!FirstN(sorted, MaxClusters)
<1> HIDE DEF t, m
<1>14. t = <<>> <=> m = 0
  <2>1. t \in Seq(S) /\ (Len(t) = 0 <=> m = 0)
    BY <1>9, <1>12, <1>13 DEF t
  <2>2. t = <<>> <=> Len(t) = 0
    BY <2>1
  <2> QED
    BY <2>1, <2>2
<1> QED
  BY <1>1, <1>4, <1>5, <1>8, <1>9, <1>14 DEF t

-----------------------------------------------------------------------------

\* f has the items of s at these places, each once, in some order.
Mixes(f, s, m, places) ==
  /\ m \in [DOMAIN f -> places]
  /\ \A i, j \in DOMAIN f : m[i] = m[j] => i = j
  /\ \A p \in places : \E i \in DOMAIN f : m[i] = p
  /\ \A i \in DOMAIN f : f[i] = s[m[i]]

\* What At keeps.
LEMMA AtMixes ==
  ASSUME NEW S, NEW s \in Seq(S), NEW places
  PROVE  \E m : Mixes(In!At(s, places), s, m, places \cap DOMAIN s)
<1> DEFINE n == Len(s)
           own == [i \in 1 .. n |-> i]
           m == In!At(own, places)
<1>1. n \in Nat /\ DOMAIN s = 1 .. n
  OBVIOUS
<1>2. own \in Seq(Nat) /\ Len(own) = n /\ DOMAIN own = 1 .. n /\ \A i \in 1 .. n : own[i] = i
  BY <1>1
<1>0. In!At(s, places) \in Seq(S)
  BY AtKeeps
<1> HIDE DEF own
<1>3. m \in Seq(Nat) /\ In!Range(m) = places \cap DOMAIN s
  <2>1. m \in Seq(Nat) /\ In!Range(m) = {own[i] : i \in places \cap DOMAIN own}
    BY <1>2, AtKeeps
  <2> QED
    BY <1>1, <1>2, <2>1
<1>4. \A k, l \in DOMAIN m : m[k] = m[l] => k = l
  BY <1>2, AtOnce
<1>5. PICK at \in [0 .. n -> Seq(S)] :
        /\ In!At(s, places) = at[n]
        /\ at[0] = <<>>
        /\ \A k \in 1 .. n : at[k] = IF k \in places THEN Append(at[k - 1], s[k]) ELSE at[k - 1]
  BY AtSolved
<1>6. PICK bt \in [0 .. n -> Seq(Nat)] :
        /\ m = bt[n]
        /\ bt[0] = <<>>
        /\ \A k \in 1 .. n : bt[k] = IF k \in places THEN Append(bt[k - 1], own[k]) ELSE bt[k - 1]
  <2> HIDE DEF n
  <2>1. own \in Seq(Nat)
    BY <1>2
  <2>2. PICK bt \in [0 .. Len(own) -> Seq(Nat)] :
          KeepsInSteps(own, places, bt)
    BY <2>1, AtRanges
  <2> QED
    BY <1>2, <2>2 DEF KeepsInSteps
<1> HIDE DEF m
<1> DEFINE Same(a, b) == Len(a) = Len(b) /\ \A i \in 1 .. Len(a) : a[i] = s[b[i]]
           T == {k \in 0 .. n : Same(at[k], bt[k])}
<1>7. 0 \in T
  <2>1. 0 \in 0 .. n /\ Len(<<>>) = 0
    BY <1>1
  <2> QED
    BY <1>5, <1>6, <2>1
<1>8. ASSUME NEW k \in 1 .. n, k - 1 \in T PROVE k \in T
  <2> DEFINE a == at[k - 1]
             b == bt[k - 1]
  <2>1. k \in 0 .. n /\ k - 1 \in 0 .. n /\ own[k] = k /\ s[k] \in S /\ k \in Nat
    BY <1>1, <1>2
  <2>2. a \in Seq(S) /\ b \in Seq(Nat) /\ Same(a, b)
    BY <1>5, <1>6, <1>8, <2>1
  <2>3. CASE k \in places
    <3>1. at[k] = Append(a, s[k]) /\ bt[k] = Append(b, k)
      BY <1>5, <1>6, <2>1, <2>3
    <3> HIDE DEF a, b
    <3>2. /\ Len(at[k]) = Len(a) + 1 /\ at[k][Len(a) + 1] = s[k]
          /\ \A i \in 1 .. Len(a) : at[k][i] = a[i]
      BY <2>1, <2>2, <3>1
    <3>3. /\ Len(bt[k]) = Len(a) + 1 /\ bt[k][Len(a) + 1] = k
          /\ \A i \in 1 .. Len(a) : bt[k][i] = b[i]
      BY <2>1, <2>2, <3>1
    <3>4. \A i \in 1 .. Len(a) + 1 : i = Len(a) + 1 \/ i \in 1 .. Len(a)
      BY <2>2
    <3>5. Same(at[k], bt[k])
      BY <2>2, <3>2, <3>3, <3>4
    <3> QED
      BY <2>1, <3>5
  <2>4. CASE k \notin places
    <3>1. at[k] = a /\ bt[k] = b
      BY <1>5, <1>6, <2>1, <2>4
    <3> QED
      BY <2>1, <2>2, <3>1
  <2> QED
    BY <2>3, <2>4
<1>9. Same(at[n], bt[n])
  <2> HIDE DEF T, n
  <2>1. 0 .. n \subseteq T /\ n \in 0 .. n
    <3>1. 0 .. n \subseteq T
      BY <1>1, <1>7, <1>8, UpTo
    <3>2. n \in 0 .. n
      BY <1>1
    <3> QED
      BY <3>1, <3>2
  <2>2. n \in T
    BY <2>1
  <2> QED
    BY <2>2 DEF T
<1> DEFINE f == In!At(s, places)
<1>10. f \in Seq(S) /\ m \in Seq(Nat) /\ Len(f) = Len(m) /\ \A i \in 1 .. Len(f) : f[i] = s[m[i]]
  <2>1. f \in Seq(S)
    BY AtKeeps
  <2> QED
    BY <1>3, <1>5, <1>6, <1>9, <2>1
<1> HIDE DEF f
<1>11. DOMAIN f = DOMAIN m /\ DOMAIN f = 1 .. Len(f)
  BY <1>10
<1>12. Mixes(f, s, m, places \cap DOMAIN s)
  <2>1. m \in [DOMAIN f -> places \cap DOMAIN s]
    <3>1. \A i \in DOMAIN f : m[i] \in places \cap DOMAIN s
      BY <1>3, <1>11 DEF In!Range
    <3>2. m \in [DOMAIN m -> Nat]
      BY <1>3
    <3> QED
      BY <1>11, <3>1, <3>2
  <2>2. \A p \in places \cap DOMAIN s : \E i \in DOMAIN f : m[i] = p
    BY <1>3, <1>11 DEF In!Range
  <2> QED
    BY <1>4, <1>10, <1>11, <2>1, <2>2 DEF Mixes
<1> QED
  BY <1>12 DEF f

\* What is sorted.
LEMMA SortMixes ==
  ASSUME NEW S, NEW s \in Seq(S), NEW before, NEW t,
         t = [k \in DOMAIN s |-> s[In!Sorted(Len(s), before)[k]]]
  PROVE  \E m : Mixes(t, s, m, DOMAIN s)
<1> DEFINE n == Len(s)
           p == In!Sorted(n, before)
<1>1. n \in Nat /\ DOMAIN s = 1 .. n
  OBVIOUS
<1>2. p \in [1 .. n -> Nat] /\ In!Range(p) = 1 .. n
  BY <1>1, SortedKeeps
<1>3. t = [k \in 1 .. n |-> s[p[k]]]
  BY <1>1
<1> HIDE DEF n, p
<1>4. \A k \in 1 .. n : p[k] \in 1 .. n
  BY <1>2 DEF In!Range
<1>5. \A j \in 1 .. n : \E k \in 1 .. n : p[k] = j
  BY <1>2 DEF In!Range
<1>6. p \in [1 .. n -> 1 .. n]
  BY <1>2, <1>4
<1>7. \A i, j \in 1 .. n : p[i] = p[j] => i = j
  <2> DEFINE D == 1 .. n
  <2>0. IsFiniteSet(D)
    BY <1>1, FS_Interval
  <2>1. p \in [D -> D] /\ \A j \in D : \E k \in D : p[k] = j
    BY <1>5, <1>6
  <2> HIDE DEF D
  <2>2. p \in Surjection(D, D)
    BY <2>1 DEF Surjection
  <2>3. p \in Injection(D, D)
    BY <2>0, <2>2, FS_Surjection
  <2>4. \A i, j \in D : p[i] = p[j] => i = j
    BY <2>3 DEF Injection, IsInjective
  <2> QED
    BY <2>4 DEF D
<1>8. DOMAIN t = 1 .. n /\ \A k \in 1 .. n : t[k] = s[p[k]]
  BY <1>3
<1>9. Mixes(t, s, p, 1 .. n)
  BY <1>5, <1>6, <1>7, <1>8 DEF Mixes
<1> QED
  BY <1>1, <1>9

\* Two lists in a row.
LEMMA ConcatMixes ==
  ASSUME NEW S, NEW s, NEW f \in Seq(S), NEW g \in Seq(S), NEW m, NEW k, NEW P, NEW Q,
         Mixes(f, s, m, P), Mixes(g, s, k, Q), P \cap Q = {}
  PROVE  \E l : Mixes(f \o g, s, l, P \cup Q)
<1> DEFINE a == Len(f)
           b == Len(g)
           u == f \o g
           l == [i \in 1 .. a + b |-> IF i <= a THEN m[i] ELSE k[i - a]]
<1>1. a \in Nat /\ b \in Nat /\ DOMAIN f = 1 .. a /\ DOMAIN g = 1 .. b
  OBVIOUS
<1>2. /\ DOMAIN u = 1 .. a + b
      /\ \A i \in 1 .. a + b : u[i] = IF i <= a THEN f[i] ELSE g[i - a]
  OBVIOUS
<1>3. /\ m \in [1 .. a -> P] /\ \A i, j \in 1 .. a : m[i] = m[j] => i = j
      /\ \A p \in P : \E i \in 1 .. a : m[i] = p
      /\ \A i \in 1 .. a : f[i] = s[m[i]]
  BY <1>1 DEF Mixes
<1>4. /\ k \in [1 .. b -> Q] /\ \A i, j \in 1 .. b : k[i] = k[j] => i = j
      /\ \A p \in Q : \E i \in 1 .. b : k[i] = p
      /\ \A i \in 1 .. b : g[i] = s[k[i]]
  BY <1>1 DEF Mixes
<1> HIDE DEF a, b, u
<1>5. \A i \in 1 .. a + b : \/ i <= a /\ i \in 1 .. a
                            \/ ~(i <= a) /\ i - a \in 1 .. b
  BY <1>1
<1>6. \A i \in 1 .. a + b : /\ i <= a => l[i] = m[i] /\ l[i] \in P
                            /\ ~(i <= a) => l[i] = k[i - a] /\ l[i] \in Q
  BY <1>3, <1>4, <1>5
<1>7. l \in [1 .. a + b -> P \cup Q]
  <2>1. \A i \in 1 .. a + b : l[i] \in P \cup Q
    BY <1>6
  <2> QED
    BY <2>1
<1>8. DOMAIN l = 1 .. a + b
  OBVIOUS
<1> HIDE DEF l
<1>9. ASSUME NEW i \in 1 .. a + b, NEW j \in 1 .. a + b, l[i] = l[j] PROVE i = j
  <2>1. CASE i <= a /\ j <= a
    BY <1>3, <1>5, <1>6, <1>9, <2>1
  <2>2. CASE ~(i <= a) /\ ~(j <= a)
    <3>1. k[i - a] = k[j - a]
      BY <1>6, <1>9, <2>2
    <3>2. i - a \in 1 .. b /\ j - a \in 1 .. b
      BY <1>5, <2>2
    <3>3. i - a = j - a
      BY <1>4, <3>1, <3>2
    <3> QED
      BY <1>1, <3>3
  <2>3. CASE i <= a /\ ~(j <= a)
    BY <1>6, <1>9, <2>3
  <2>4. CASE ~(i <= a) /\ j <= a
    BY <1>6, <1>9, <2>4
  <2> QED
    BY <2>1, <2>2, <2>3, <2>4
<1>10. ASSUME NEW p \in P \cup Q PROVE \E i \in 1 .. a + b : l[i] = p
  <2>1. CASE p \in P
    <3>1. PICK i \in 1 .. a : m[i] = p
      BY <1>3, <2>1
    <3>2. i \in 1 .. a + b /\ i <= a
      BY <1>1
    <3> QED
      BY <1>6, <3>1, <3>2
  <2>2. CASE p \in Q
    <3>1. PICK i \in 1 .. b : k[i] = p
      BY <1>4, <2>2
    <3>2. a + i \in 1 .. a + b /\ ~(a + i <= a) /\ (a + i) - a = i
      BY <1>1
    <3> QED
      BY <1>6, <3>1, <3>2
  <2> QED
    BY <2>1, <2>2
<1>11. ASSUME NEW i \in 1 .. a + b PROVE u[i] = s[l[i]]
  <2>1. CASE i <= a
    BY <1>2, <1>3, <1>5, <1>6, <2>1
  <2>2. CASE ~(i <= a)
    <3>1. i - a \in 1 .. b
      BY <1>5, <2>2
    <3> QED
      BY <1>2, <1>4, <1>6, <2>2, <3>1
  <2> QED
    BY <2>1, <2>2
<1>12. Mixes(u, s, l, P \cup Q)
  BY <1>2, <1>7, <1>9, <1>10, <1>11 DEF Mixes
<1> QED
  BY <1>12 DEF u

\* The insights of some sources, each listed once.
LEMMA OfSourcesMixes ==
  ASSUME NEW S, NEW s \in Seq(S), NEW T, NEW sources \in Seq(T),
         \A i, j \in DOMAIN sources : sources[i] = sources[j] => i = j
  PROVE  \E m : Mixes(In!OfSources(sources, s), s, m,
                      {p \in DOMAIN s : s[p].source \in In!Range(sources)})
<1> DEFINE n == Len(sources)
           PlacesOf(i) == {p \in DOMAIN s : s[p].source = sources[i]}
           From(i) == In!At(s, PlacesOf(i))
           seqs == [i \in DOMAIN sources |-> From(i)]
           Until(k) == {p \in DOMAIN s : \E i \in 1 .. k : s[p].source = sources[i]}
<1>1. n \in Nat /\ DOMAIN sources = 1 .. n
  OBVIOUS
<1>2. In!OfSources(sources, s) = In!FlattenSeq(seqs)
  BY DEF In!OfSources, In!Keep
<1>3. \A i : From(i) \in Seq(S)
  BY AtKeeps
<1>4. \A i : \E m : Mixes(From(i), s, m, PlacesOf(i))
  <2> SUFFICES ASSUME NEW i PROVE \E m : Mixes(From(i), s, m, PlacesOf(i))
    OBVIOUS
  <2> DEFINE places == PlacesOf(i)
  <2>1. places \cap DOMAIN s = places
    OBVIOUS
  <2> HIDE DEF places
  <2>2. \E m : Mixes(In!At(s, places), s, m, places)
    BY <2>1, AtMixes
  <2> QED
    BY <2>2 DEF places
<1>5. \A i \in 1 .. n : seqs[i] = From(i)
  BY <1>1
<1> HIDE DEF From
<1>6. seqs \in Seq(Seq(S)) /\ Len(seqs) = n
  <2> DEFINE all == Seq(S)
  <2>1. seqs \in [1 .. n -> all]
    BY <1>1, <1>3
  <2> HIDE DEF all, seqs
  <2>2. seqs \in Seq(all) /\ Len(seqs) = n
    BY <1>1, <2>1
  <2> QED
    BY <2>2 DEF all
<1> HIDE DEF seqs, n
<1>7. PICK row \in [0 .. n -> Seq(S)] :
        In!FlattenSeq(seqs) = row[n] /\ FlattensInSteps(row, seqs)
  BY <1>6, FlattenSolved
<1>8. row[0] = <<>> /\ \A k \in 1 .. n : row[k] = row[k - 1] \o From(k)
  BY <1>5, <1>6, <1>7 DEF FlattensInSteps
<1> DEFINE U == {k \in 0 .. n : \E m : Mixes(row[k], s, m, Until(k))}
<1>9. 0 \in U
  <2>1. 0 \in 0 .. n /\ 1 .. 0 = {} /\ DOMAIN <<>> = {}
    BY <1>1
  <2>2. Until(0) = {}
    BY <2>1
  <2>3. <<>> \in [{} -> {}]
    BY <2>1
  <2>4. Mixes(<<>>, s, <<>>, {})
    BY <2>1, <2>3 DEF Mixes
  <2> QED
    BY <1>8, <2>1, <2>2, <2>4
<1>10. ASSUME NEW k \in 1 .. n, k - 1 \in U PROVE k \in U
  <2>1. k \in 0 .. n /\ k - 1 \in 0 .. n /\ \A i \in 1 .. k - 1 : i \in 1 .. n /\ i # k
    BY <1>1
  <2>2. PICK m : Mixes(row[k - 1], s, m, Until(k - 1))
    BY <1>10
  <2>3. PICK l : Mixes(From(k), s, l, PlacesOf(k))
    BY <1>4
  <2>4. Until(k - 1) \cap PlacesOf(k) = {}
    BY <1>1, <2>1
  <2>5. Until(k) = Until(k - 1) \cup PlacesOf(k)
    <3>1. 1 .. k = (1 .. k - 1) \cup {k}
      BY <1>1
    <3> QED
      BY <3>1
  <2>6. row[k - 1] \in Seq(S) /\ From(k) \in Seq(S)
    BY <1>3, <1>7, <2>1
  <2> HIDE DEF Until, PlacesOf
  <2>7. \E j : Mixes(row[k - 1] \o From(k), s, j, Until(k - 1) \cup PlacesOf(k))
    BY <2>2, <2>3, <2>4, <2>6, ConcatMixes
  <2> QED
    BY <1>8, <2>1, <2>5, <2>7
<1>11. n \in U
  <2> HIDE DEF U
  <2>1. 0 .. n \subseteq U
    BY <1>1, <1>9, <1>10, UpTo
  <2>2. n \in 0 .. n
    BY <1>1
  <2> QED
    BY <2>1, <2>2
<1>12. Until(n) = {p \in DOMAIN s : s[p].source \in In!Range(sources)}
  BY <1>1 DEF In!Range
<1> QED
  BY <1>2, <1>7, <1>11, <1>12

-----------------------------------------------------------------------------

\* Insights in another order are as much alone.
LEMMA AloneMixed ==
  ASSUME NEW S, NEW list \in Seq(S), NEW f, NEW m, NEW P, Mixes(f, list, m, P),
         P \subseteq DOMAIN list
  PROVE  /\ Alone(list) => Alone(f)
         /\ P = DOMAIN list => (Alone(f) => Alone(list))
<1>1. ASSUME Alone(list) PROVE Alone(f)
  <2> SUFFICES ASSUME NEW i \in DOMAIN f, NEW j \in DOMAIN f, i # j PROVE ~Takes(f[i], f[j])
    BY DEF Alone
  <2>1. m[i] \in DOMAIN list /\ m[j] \in DOMAIN list /\ m[i] # m[j]
    BY DEF Mixes
  <2>2. f[i] = list[m[i]] /\ f[j] = list[m[j]]
    BY DEF Mixes
  <2> QED
    BY <1>1, <2>1, <2>2 DEF Alone
<1>2. ASSUME P = DOMAIN list, Alone(f) PROVE Alone(list)
  <2> SUFFICES ASSUME NEW p \in DOMAIN list, NEW q \in DOMAIN list, p # q
               PROVE  ~Takes(list[p], list[q])
    BY DEF Alone
  <2>1. PICK i \in DOMAIN f : m[i] = p
    BY <1>2 DEF Mixes
  <2>2. PICK j \in DOMAIN f : m[j] = q
    BY <1>2 DEF Mixes
  <2>3. i # j /\ f[i] = list[p] /\ f[j] = list[q]
    BY <2>1, <2>2 DEF Mixes
  <2> QED
    BY <1>2, <2>3 DEF Alone
<1> QED
  BY <1>1, <1>2

-----------------------------------------------------------------------------

\* A score is a number.
LEMMA ScoreIs ==
  ASSUME InboxSetting, NEW clusters \in Seq(Cluster), NEW x \in In!Insights
  PROVE  In!RankScore(clusters, x) \in Int /\ x.id \in Nat
<1> DEFINE n == Len(clusters)
           P == {j \in DOMAIN clusters : In!Contains(clusters[j].ids, x.id)}
           Scores(k) == {0} \cup {clusters[i].score : i \in P \cap 1 .. k}
           best == In!ClusterScore(clusters, x.id)
           T == {k \in 0 .. n : \E b \in Scores(k) : b \in Int /\ \A a \in Scores(k) : a <= b
             /\ a \in Int}
<1>1. n \in Nat /\ DOMAIN clusters = 1 .. n /\ \A i \in 1 .. n : clusters[i].score \in Int
  <2>1. n \in Nat /\ DOMAIN clusters = 1 .. n /\ \A i \in 1 .. n : clusters[i] \in Cluster
    OBVIOUS
  <2> HIDE DEF n
  <2> QED
    BY <2>1 DEF Cluster
<1>2. 0 \in T
  <2>1. 0 \in 0 .. n /\ 1 .. 0 = {}
    BY <1>1
  <2>2. Scores(0) = {0}
    BY <2>1
  <2> QED
    BY <2>1, <2>2
<1>3. ASSUME NEW k \in 1 .. n, k - 1 \in T PROVE k \in T
  <2>1. k \in 0 .. n /\ 1 .. k = (1 .. k - 1) \cup {k}
    BY <1>1
  <2>2. PICK b \in Scores(k - 1) : b \in Int /\ \A a \in Scores(k - 1) : a <= b /\ a \in Int
    BY <1>3
  <2>3. Scores(k) = Scores(k - 1) \cup (IF k \in P THEN {clusters[k].score} ELSE {})
    BY <2>1
  <2>4. clusters[k].score \in Int
    BY <1>1
  <2> DEFINE c == clusters[k].score
  <2> HIDE DEF Scores, P, c
  <2>5. \E d \in Scores(k) : d \in Int /\ \A a \in Scores(k) : a <= d /\ a \in Int
    <3>1. CASE k \notin P
      BY <2>2, <2>3, <3>1
    <3>2. CASE k \in P /\ c <= b
      BY <2>2, <2>3, <2>4, <3>2 DEF c
    <3>3. CASE k \in P /\ ~(c <= b)
      BY <2>2, <2>3, <2>4, <3>3 DEF c
    <3> QED
      BY <3>1, <3>2, <3>3
  <2> QED
    BY <2>1, <2>5
<1>4. n \in T
  <2> HIDE DEF T, n
  <2>1. 0 .. n \subseteq T
    BY <1>1, <1>2, <1>3, UpTo
  <2>2. n \in 0 .. n
    BY <1>1
  <2> QED
    BY <2>1, <2>2
<1>5. Scores(n) = {0} \cup {clusters[i].score : i \in P}
  BY <1>1
<1>6. \E b \in Scores(n) : b \in Int /\ \A a \in Scores(n) : a <= b /\ a \in Int
  BY <1>4
<1>7. best \in Scores(n) /\ 0 \in Scores(n) /\ \A a \in Scores(n) : best >= a
  <2> DEFINE all == Scores(n)
  <2>1. best = In!Max(all)
    BY <1>5 DEF In!ClusterScore
  <2>2. \E b \in all : b \in Int /\ \A a \in all : a <= b /\ a \in Int
    BY <1>6
  <2>3. 0 \in all
    OBVIOUS
  <2> HIDE DEF all, best
  <2>4. \E b \in all : \A a \in all : b >= a
    BY <2>2
  <2>5. best \in all /\ \A a \in all : best >= a
    BY <2>1, <2>4 DEF In!Max
  <2> QED
    BY <2>3, <2>5 DEF all
<1>8. best \in Nat
  <2> HIDE DEF best, Scores
  <2>1. best \in Int /\ best >= 0
    BY <1>6, <1>7
  <2> QED
    BY <2>1
<1>9. x.id \in Nat /\ x.weight \in Nat
  BY DEF InboxSetting
<1> HIDE DEF best
<1>10. In!Min({best, 10}) \in Nat
  BY <1>8, TwoAre
<1>11. In!RankScore(clusters, x) = x.weight + 3 * In!Min({best, 10})
  BY DEF In!RankScore, best
<1> QED
  BY <1>9, <1>10, <1>11

\* An insight goes before another one.
Before(clusters, x, y) ==
  \/ In!RankScore(clusters, x) > In!RankScore(clusters, y)
  \/ In!RankScore(clusters, x) = In!RankScore(clusters, y) /\ x.id < y.id

\* What is ranked stays so: ranking again moves nothing.
LEMMA RankedStays ==
  ASSUME InboxSetting, NEW list \in Seq(In!Insights), NEW clusters \in Seq(Cluster)
  PROVE  In!Rank(In!Rank(list, clusters), clusters) = In!Rank(list, clusters)
<1> DEFINE Order(s) == {p \in (DOMAIN s) \X (DOMAIN s) : Before(clusters, s[p[1]], s[p[2]])}
           n == Len(list)
           before == Order(list)
           t == [k \in DOMAIN list |-> list[In!Sorted(Len(list), before)[k]]]
           Score(x) == In!RankScore(clusters, x)
<1>1. \A s : In!Rank(s, clusters) = [k \in DOMAIN s |-> s[In!Sorted(Len(s), Order(s))[k]]]
  BY DEF In!Rank, In!StableSort, Before
<1>2. n \in Nat /\ DOMAIN list = 1 .. n /\ \A i \in 1 .. n : list[i] \in In!Insights
  OBVIOUS
<1>3. \A i \in 1 .. n : Score(list[i]) \in Int /\ list[i].id \in Nat
  BY <1>2, ScoreIs
<1>4. \A i, j \in 1 .. n : <<i, j>> \in before <=> Before(clusters, list[i], list[j])
  BY <1>2
<1>5. Orders(before, n)
  <2> HIDE DEF n, before
  <2>1. \A i, j \in 1 .. n : <<i, j>> \in before => <<j, i>> \notin before
    <3> SUFFICES ASSUME NEW i \in 1 .. n, NEW j \in 1 .. n
                 PROVE  ~(Before(clusters, list[i], list[j]) /\ Before(clusters, list[j],
                          list[i]))
      BY <1>4
    <3> DEFINE a == Score(list[i])
               b == Score(list[j])
               c == list[i].id
               d == list[j].id
    <3>1. a \in Int /\ b \in Int /\ c \in Nat /\ d \in Nat
      BY <1>3
    <3>2. /\ Before(clusters, list[i], list[j]) <=> (a > b \/ (a = b /\ c < d))
          /\ Before(clusters, list[j], list[i]) <=> (b > a \/ (b = a /\ d < c))
      BY DEF Before
    <3> HIDE DEF a, b, c, d
    <3> QED
      BY <3>1, <3>2
  <2>2. ASSUME NEW i \in 1 .. n, NEW j \in 1 .. n, NEW k \in 1 .. n,
               <<i, j>> \notin before, <<j, k>> \notin before
        PROVE  <<i, k>> \notin before
    <3> DEFINE a == Score(list[i])
               b == Score(list[j])
               c == Score(list[k])
               d == list[i].id
               e == list[j].id
               f == list[k].id
    <3>1. a \in Int /\ b \in Int /\ c \in Int /\ d \in Nat /\ e \in Nat /\ f \in Nat
      BY <1>3
    <3>2. /\ <<i, j>> \in before <=> (a > b \/ (a = b /\ d < e))
          /\ <<j, k>> \in before <=> (b > c \/ (b = c /\ e < f))
          /\ <<i, k>> \in before <=> (a > c \/ (a = c /\ d < f))
      BY <1>4 DEF Before
    <3> HIDE DEF a, b, c, d, e, f
    <3> QED
      BY <2>2, <3>1, <3>2
  <2> QED
    BY <2>1, <2>2 DEF Orders
<1>6. t \in Seq(In!Insights) /\ t = In!Rank(list, clusters) /\ DOMAIN t = DOMAIN list
  <2>1. t = In!Rank(list, clusters)
    BY <1>1
  <2>2. DOMAIN t = DOMAIN list
    OBVIOUS
  <2> HIDE DEF t
  <2>3. In!Rank(list, clusters) \in Seq(In!Insights)
    BY RankKeeps
  <2> QED
    BY <2>1, <2>2, <2>3
<1>7. \A j, k \in DOMAIN list : j < k =>
        \E a, b \in DOMAIN list : t[j] = list[a] /\ t[k] = list[b] /\ <<b, a>> \notin before
  <2> HIDE DEF before
  <2>1. Orders(before, Len(list))
    BY <1>5
  <2> QED
    BY <2>1, SortOrders
<1> HIDE DEF t
<1>8. \A j, k \in DOMAIN t : j < k => ~Before(clusters, t[k], t[j])
  <2> HIDE DEF before
  <2> QED
    BY <1>2, <1>4, <1>6, <1>7
<1> DEFINE again == Order(t)
           u == [k \in DOMAIN t |-> t[In!Sorted(Len(t), again)[k]]]
<1>9. \A j, k \in DOMAIN t : j < k => <<k, j>> \notin again
  BY <1>8
<1>10. u = In!Rank(t, clusters)
  BY <1>1
<1> HIDE DEF again
<1>11. u = t
  BY <1>6, <1>9, SortStays
<1> QED
  BY <1>6, <1>10, <1>11

\* What is ranked is the same, in another order.
LEMMA RankMixes ==
  ASSUME NEW S, NEW list \in Seq(S), NEW clusters
  PROVE  \E m : Mixes(In!Rank(list, clusters), list, m, DOMAIN list)
<1> DEFINE before == {p \in (DOMAIN list) \X (DOMAIN list) :
                        Before(clusters, list[p[1]], list[p[2]])}
           t == [k \in DOMAIN list |-> list[In!Sorted(Len(list), before)[k]]]
<1>1. In!Rank(list, clusters) = t
  BY DEF In!Rank, In!StableSort, Before
<1> HIDE DEF before
<1>2. \E m : Mixes(t, list, m, DOMAIN list)
  BY SortMixes
<1> QED
  BY <1>1, <1>2

-----------------------------------------------------------------------------

\* Insights of some sources alone are as much alone.
LEMMA OfSourcesAlone ==
  ASSUME InboxSetting, NEW list \in Seq(In!Insights), NEW sources \in Seq(Sources),
         \A i, j \in DOMAIN sources : sources[i] = sources[j] => i = j
  PROVE  /\ In!OfSources(sources, list) \in Seq(In!Insights)
         /\ Alone(list) => Alone(In!OfSources(sources, list))
         /\ (\A p \in DOMAIN list : list[p].source \in In!Range(sources)) =>
              (Alone(In!OfSources(sources, list)) => Alone(list))
<1> DEFINE some == In!OfSources(sources, list)
           P == {p \in DOMAIN list : list[p].source \in In!Range(sources)}
<1>1. DOMAIN sources = 1 .. Len(sources) /\ Len(sources) \in Nat
  OBVIOUS
<1>2. some \in Seq(In!Insights)
  BY <1>1, OfSourcesTyped
<1>3. PICK m : Mixes(some, list, m, P)
  BY OfSourcesMixes
<1>4. P \subseteq DOMAIN list
  OBVIOUS
<1>5. (\A p \in DOMAIN list : list[p].source \in In!Range(sources)) => P = DOMAIN list
  OBVIOUS
<1> HIDE DEF some, P
<1>6. /\ Alone(list) => Alone(some)
      /\ P = DOMAIN list => (Alone(some) => Alone(list))
  BY <1>3, <1>4, AloneMixed
<1> QED
  BY <1>2, <1>5, <1>6 DEF some

\* The insights of one source.
LEMMA OfOneSource ==
  ASSUME NEW S, NEW list \in Seq(S), NEW x
  PROVE  \A k \in DOMAIN In!OfSources(<<x>>, list) : In!OfSources(<<x>>, list)[k].source = x
<1> DEFINE own == <<x>>
           some == In!OfSources(own, list)
           P == {p \in DOMAIN list : list[p].source \in In!Range(own)}
<1>1. own \in Seq({x}) /\ DOMAIN own = {1} /\ In!Range(own) = {x}
  BY DEF In!Range
<1>2. \A i, j \in DOMAIN own : own[i] = own[j] => i = j
  BY <1>1
<1>3. own \in Seq({x})
  BY <1>1
<1> HIDE DEF own
<1>4. PICK m : Mixes(some, list, m, P)
  BY <1>2, <1>3, OfSourcesMixes
<1> HIDE DEF some
<1>5. \A k \in DOMAIN some : m[k] \in P /\ some[k] = list[m[k]]
  BY <1>4 DEF Mixes
<1>6. \A k \in DOMAIN some : some[k].source = x
  BY <1>1, <1>5
<1> QED
  BY <1>6 DEF some, own

\* Insights that are ranked by the clusters made of them, source by source, are ranked
\* the same by all who read them: the clusters are theirs, or again there are none.
LEMMA RankSettles ==
  ASSUME InboxSetting, NEW list \in Seq(In!Insights), NEW sources \in Seq(Sources),
         \A i, j \in DOMAIN sources : sources[i] = sources[j] => i = j,
         \A p \in DOMAIN list : list[p].source \in In!Range(sources),
         NEW clusters, clusters = In!Clusters(In!OfSources(sources, list))
  PROVE  In!RankAgain(In!Rank(list, clusters), clusters) = In!Rank(list, clusters)
<1> DEFINE some == In!OfSources(sources, list)
           ranked == In!Rank(list, clusters)
           again == In!OfSources(In!SourcesOf(ranked), ranked)
<1>1. some \in Seq(In!Insights) /\ (Alone(some) => Alone(list))
  BY OfSourcesAlone
<1>2. clusters \in Seq(Cluster) /\ (clusters = <<>> <=> Alone(some))
  <2> HIDE DEF some
  <2>1. clusters = In!Clusters(some)
    BY DEF some
  <2> QED
    BY <1>1, <2>1, ClustersTyped, NoClusters
<1>3. ranked \in Seq(In!Insights)
  BY RankKeeps
<1>4. Alone(list) => Alone(ranked)
  <2>1. PICK m : Mixes(ranked, list, m, DOMAIN list)
    BY RankMixes
  <2> HIDE DEF ranked
  <2>2. DOMAIN list \subseteq DOMAIN list
    OBVIOUS
  <2> QED
    BY <2>1, <2>2, AloneMixed
<1> HIDE DEF some, ranked
<1>5. again \in Seq(In!Insights) /\ (Alone(ranked) => Alone(again))
  <2> DEFINE theirs == In!SourcesOf(ranked)
  <2>1. theirs \in Seq(Sources)
    BY <1>3, SourcesOfTyped
  <2>2. \A i, j \in DOMAIN theirs : theirs[i] = theirs[j] => i = j
    <3> DEFINE named == [i \in DOMAIN ranked |-> ranked[i].source]
    <3>1. \A i \in DOMAIN ranked : named[i] \in Sources
      BY <1>3 DEF InboxSetting
    <3>2. DOMAIN named = DOMAIN ranked /\ named = [i \in DOMAIN ranked |-> named[i]]
      OBVIOUS
    <3>3. theirs = In!Distinct(named)
      BY DEF In!SourcesOf
    <3> HIDE DEF named, theirs
    <3>4. named \in Seq(Sources)
      BY <1>3, <3>1, <3>2, MapTyped
    <3> QED
      BY <3>3, <3>4, DistinctKeeps
  <2> HIDE DEF theirs
  <2>3. /\ In!OfSources(theirs, ranked) \in Seq(In!Insights)
        /\ Alone(ranked) => Alone(In!OfSources(theirs, ranked))
    BY <1>3, <2>1, <2>2, OfSourcesAlone
  <2> QED
    BY <2>3 DEF theirs
<1>6. In!EnsureClusters(ranked, clusters) = clusters
  <2>1. CASE clusters # <<>>
    BY <2>1 DEF In!EnsureClusters
  <2>2. CASE clusters = <<>>
    <3>1. Alone(again)
      BY <1>1, <1>2, <1>4, <1>5, <2>2
    <3>2. In!EnsureClusters(ranked, clusters) = In!Clusters(again)
      BY <2>2 DEF In!EnsureClusters
    <3> HIDE DEF again
    <3>3. In!Clusters(again) = <<>>
      BY <1>5, <3>1, NoClusters
    <3> QED
      BY <2>2, <3>2, <3>3
  <2> QED
    BY <2>1, <2>2
<1>7. In!RankAgain(ranked, clusters) = In!Rank(ranked, clusters)
  BY <1>6 DEF In!RankAgain
<1>8. In!Rank(ranked, clusters) = ranked
  BY <1>2, RankedStays DEF ranked
<1> QED
  BY <1>7, <1>8 DEF ranked

-----------------------------------------------------------------------------

Covered(r) ==
  \A i \in DOMAIN r.insights : \E k \in DOMAIN r.summaries :
    r.summaries[k].source = r.insights[i].source

\* Ranking the run again moves nothing, and its insights are of what it has summarised.
Settled(r) == In!RankAgain(r.insights, r.clusters) = r.insights /\ Covered(r)

Theirs(p) == \A k \in DOMAIN p.insights : p.insights[k].source = p.capture.source

\* What is processed is given insights of its own source.
LEMMA ProcessingsTheirs ==
  ASSUME InboxSetting, InboxTyped, NEW c \in Captures, NEW p \in In!Processings(c)
  PROVE  Theirs(p)
<1> DEFINE places == {i \in DOMAIN run.summaries : run.summaries[i].source = c.source}
           kept == In!At(run.summaries, places)
           latest == In!Latest.insights
           again == In!OfSources(<<c.source>>, latest)
<1>1. run.summaries \in Seq(Captures) /\ latest \in Seq(In!Insights)
  BY LatestTyped DEF InboxTyped, Run
<1>2. In!SummaryOf(run, c.source) = kept
  BY DEF In!SummaryOf, In!Keep
<1>3. kept # <<>> => kept[1].source = c.source
  <2>1. /\ kept \in Seq(Captures)
        /\ In!Range(kept) = {run.summaries[i] : i \in places \cap DOMAIN run.summaries}
    BY <1>1, AtKeeps
  <2>2. \A y \in In!Range(kept) : y.source = c.source
    BY <2>1
  <2> HIDE DEF kept
  <2>3. kept # <<>> => 1 \in DOMAIN kept
    BY <2>1
  <2>4. kept # <<>> => kept[1] \in In!Range(kept)
    BY <2>3 DEF In!Range
  <2> QED
    BY <2>2, <2>4
<1>4. \A k \in DOMAIN again : again[k].source = c.source
  BY <1>1, OfOneSource
<1> HIDE DEF kept, again
<1>5. \/ kept # <<>> /\ p = [capture |-> kept[1], insights |-> again]
      \/ \E list \in Made[c] : p = [capture |-> c, insights |-> list]
  BY <1>2 DEF In!Processings, again
<1>6. CASE kept # <<>> /\ p = [capture |-> kept[1], insights |-> again]
  BY <1>3, <1>4, <1>6 DEF Theirs
<1>7. CASE \E list \in Made[c] : p = [capture |-> c, insights |-> list]
  <2>1. PICK list \in Made[c] : p = [capture |-> c, insights |-> list]
    BY <1>7
  <2>2. \A k \in DOMAIN list : list[k].source = c.source
    BY DEF InboxSetting
  <2> QED
    BY <2>1, <2>2 DEF Theirs
<1> QED
  BY <1>5, <1>6, <1>7

\* A refresh leaves a run that ranks the same when it is read.
LEMMA RefreshedSettled ==
  ASSUME InboxSetting, InboxTyped, Settled(run), NEW window \in Windows,
         NEW given \in Seq(Processing), \A i \in DOMAIN given : Theirs(given[i])
  PROVE  Settled(In!Refreshed(window, given))
<1> DEFINE done == {given[i].capture.source : i \in DOMAIN given}
           captured == [i \in DOMAIN given |-> given[i].capture]
           lists == [i \in DOMAIN given |-> given[i].insights]
           old == In!Latest.summaries
           oldInsights == In!Latest.insights
           places == {i \in DOMAIN old : old[i].source \notin done}
           insightPlaces == {i \in DOMAIN oldInsights : oldInsights[i].source \notin done}
           stay == In!At(old, places)
           stayInsights == In!At(oldInsights, insightPlaces)
           summaries == stay \o captured
           insights == stayInsights \o In!FlattenSeq(lists)
           named == [i \in DOMAIN summaries |-> summaries[i].source]
           sources == In!Distinct(named)
           clusters == In!Clusters(In!OfSources(sources, insights))
           next_run == In!Refreshed(window, given)
<1>1. /\ next_run.summaries = summaries /\ next_run.clusters = clusters
      /\ next_run.insights = In!Rank(insights, clusters)
  BY DEF In!Refreshed, In!Keep
<1>2. old \in Seq(Captures) /\ oldInsights \in Seq(In!Insights)
  BY LatestTyped DEF Run
<1>3. old = run.summaries /\ oldInsights = run.insights
  BY LatestTyped DEF Settled
<1>4. \A i \in DOMAIN oldInsights : \E k \in DOMAIN old : old[k].source = oldInsights[i].source
  BY <1>3 DEF Settled, Covered
<1>5. \A i \in DOMAIN given : /\ given[i].capture \in Captures
                              /\ given[i].insights \in Seq(In!Insights)
                              /\ Theirs(given[i])
  <2>1. \A i \in DOMAIN given : given[i] \in Processing
    OBVIOUS
  <2> QED
    BY <2>1 DEF Processing
<1> HIDE DEF old, oldInsights
<1>6. /\ stay \in Seq(Captures) /\ stayInsights \in Seq(In!Insights)
      /\ In!Range(stay) = {old[i] : i \in places \cap DOMAIN old}
      /\ In!Range(stayInsights) = {oldInsights[i] : i \in insightPlaces \cap DOMAIN oldInsights}
  BY <1>2, AtKeeps
<1>7. captured \in Seq(Captures)
  <2>1. \A i \in DOMAIN given : captured[i] \in Captures
    BY <1>5
  <2>2. DOMAIN captured = DOMAIN given /\ captured = [i \in DOMAIN given |-> captured[i]]
    OBVIOUS
  <2> HIDE DEF captured
  <2> QED
    BY <2>1, <2>2, MapTyped
<1>8. \A i \in DOMAIN given : /\ captured[i] = given[i].capture /\ lists[i] = given[i].insights
  OBVIOUS
<1>9. DOMAIN captured = DOMAIN given /\ DOMAIN lists = DOMAIN given
      /\ lists = [i \in DOMAIN given |-> lists[i]]
  OBVIOUS
<1> HIDE DEF stay, stayInsights, captured, lists
<1>10. /\ summaries \in Seq(Captures)
       /\ \A x \in In!Range(stay) \cup In!Range(captured) :
            \E k \in DOMAIN summaries : summaries[k] = x
  <2> DEFINE a == Len(stay)
             b == Len(captured)
  <2>1. a \in Nat /\ b \in Nat /\ DOMAIN stay = 1 .. a /\ DOMAIN captured = 1 .. b
    BY <1>6, <1>7
  <2>2. /\ summaries \in Seq(Captures) /\ Len(summaries) = a + b
        /\ \A k \in 1 .. a + b : summaries[k] = IF k <= a THEN stay[k] ELSE captured[k - a]
    BY <1>6, <1>7, ConcatIs
  <2> HIDE DEF a, b, summaries
  <2>3. DOMAIN summaries = 1 .. a + b
    BY <2>1, <2>2
  <2>4. ASSUME NEW i \in 1 .. a PROVE \E k \in DOMAIN summaries : summaries[k] = stay[i]
    <3>1. i \in 1 .. a + b /\ i <= a
      BY <2>1
    <3> QED
      BY <2>2, <2>3, <3>1
  <2>5. ASSUME NEW i \in 1 .. b PROVE \E k \in DOMAIN summaries : summaries[k] = captured[i]
    <3>1. a + i \in 1 .. a + b /\ ~(a + i <= a) /\ (a + i) - a = i
      BY <2>1
    <3> QED
      BY <2>2, <2>3, <3>1
  <2> QED
    BY <2>1, <2>2, <2>4, <2>5 DEF In!Range
<1> HIDE DEF summaries
<1>11. /\ sources \in Seq(Sources)
       /\ In!Range(sources) = {summaries[i].source : i \in DOMAIN summaries}
       /\ \A i, j \in DOMAIN sources : sources[i] = sources[j] => i = j
  <2>1. \A i \in DOMAIN summaries : named[i] \in Sources
    BY <1>10 DEF InboxSetting
  <2>2. DOMAIN named = DOMAIN summaries /\ named = [i \in DOMAIN summaries |-> named[i]]
    OBVIOUS
  <2>3. In!Range(named) = {summaries[i].source : i \in DOMAIN summaries}
    BY DEF In!Range
  <2> HIDE DEF named
  <2>4. named \in Seq(Sources)
    BY <1>10, <2>1, <2>2, MapTyped
  <2> QED
    BY <2>3, <2>4, DistinctKeeps
<1> HIDE DEF sources, named
<1> DEFINE Y == {x \in In!Insights : x.source \in In!Range(sources)}
<1>12. stayInsights \in Seq(Y)
  <2>1. ASSUME NEW x \in In!Range(stayInsights) PROVE x \in Y
    <3>1. PICK i \in insightPlaces : x = oldInsights[i]
      BY <1>6
    <3>2. PICK k \in DOMAIN old : old[k].source = oldInsights[i].source
      BY <1>4
    <3>3. k \in places
      BY <3>1, <3>2
    <3>4. old[k] \in In!Range(stay)
      BY <1>6, <3>3
    <3>5. x.source \in In!Range(sources)
      BY <1>10, <1>11, <3>1, <3>2, <3>4
    <3>6. x \in In!Insights
      BY <1>2, <3>1
    <3> QED
      BY <3>5, <3>6
  <2> HIDE DEF Y
  <2>2. stayInsights \in [1 .. Len(stayInsights) -> Y] /\ Len(stayInsights) \in Nat
    BY <1>6, <2>1 DEF In!Range
  <2> QED
    BY <2>2
<1>13. lists \in Seq(Seq(Y))
  <2>1. ASSUME NEW i \in DOMAIN given PROVE lists[i] \in Seq(Y)
    <3>1. captured[i] \in In!Range(captured)
      BY <1>9 DEF In!Range
    <3>2. captured[i].source \in In!Range(sources)
      BY <1>10, <1>11, <3>1
    <3> DEFINE list == lists[i]
    <3>3. list \in Seq(In!Insights)
      BY <1>5, <1>8
    <3>4. \A k \in DOMAIN list : list[k].source = captured[i].source
      BY <1>5, <1>8 DEF Theirs
    <3> HIDE DEF list
    <3>5. \A k \in DOMAIN list : list[k] \in Y
      BY <3>2, <3>3, <3>4
    <3> HIDE DEF Y
    <3>6. list \in [1 .. Len(list) -> Y] /\ Len(list) \in Nat
      BY <3>3, <3>5
    <3>7. list \in Seq(Y)
      BY <3>6
    <3> QED
      BY <3>7 DEF list
  <2> DEFINE all == Seq(Y)
  <2>2. \A i \in DOMAIN given : lists[i] \in all
    BY <2>1
  <2> HIDE DEF all
  <2>3. lists \in Seq(all)
    BY <1>9, <2>2, MapTyped
  <2> QED
    BY <2>3 DEF all
<1>14. insights \in Seq(Y)
  <2> HIDE DEF Y
  <2> QED
    BY <1>12, <1>13, FlattenTyped, ConcatIs
<1> HIDE DEF insights
<1>15. /\ insights \in Seq(In!Insights)
       /\ \A p \in DOMAIN insights : insights[p].source \in In!Range(sources)
  <2>1. \A p \in DOMAIN insights : insights[p] \in Y
    <3> HIDE DEF Y
    <3> QED
      BY <1>14
  <2>2. insights \in Seq(In!Insights)
    BY <1>14
  <2> QED
    BY <2>1, <2>2
<1>16. In!RankAgain(In!Rank(insights, clusters), clusters) = In!Rank(insights, clusters)
  BY <1>11, <1>15, RankSettles
<1>17. Covered(next_run)
  <2> DEFINE ranked == In!Rank(insights, clusters)
  <2>1. In!Range(ranked) = In!Range(insights)
    BY <1>15, RankKeeps
  <2> HIDE DEF ranked
  <2>2. \A i \in DOMAIN ranked : \E p \in DOMAIN insights : ranked[i] = insights[p]
    BY <2>1 DEF In!Range
  <2>3. \A i \in DOMAIN ranked : \E k \in DOMAIN summaries :
          summaries[k].source = ranked[i].source
    BY <1>11, <1>15, <2>2
  <2> HIDE DEF next_run
  <2> QED
    BY <1>1, <2>3 DEF Covered, ranked
<1> HIDE DEF next_run
<1>18. Settled(next_run)
  BY <1>1, <1>16, <1>17 DEF Settled
<1> QED
  BY <1>18 DEF next_run

-----------------------------------------------------------------------------

\* Before the first refresh there is nothing to rank.
LEMMA InitSettled == ASSUME InboxSetting, In!Init PROVE Settled(run)
<1>1. run.insights = <<>> /\ run.clusters = <<>>
  BY DEF In!Init
<1>2. <<>> \in Seq(In!Insights) /\ Len(<<>>) = 0
  OBVIOUS
<1> DEFINE ranked == In!RankAgain(<<>>, <<>>)
<1>3. ranked \in Seq(In!Insights) /\ Len(ranked) = 0
  BY <1>2, RankKeeps DEF In!RankAgain
<1> HIDE DEF ranked
<1>4. ranked = <<>>
  BY <1>3
<1>5. DOMAIN run.insights = {}
  BY <1>1
<1> QED
  BY <1>1, <1>4, <1>5 DEF Settled, Covered, ranked

\* A refresh leaves the run settled.
LEMMA RefreshSettled ==
  ASSUME InboxSetting, InboxTyped, Settled(run), NEW window \in Windows, In!Refresh(window)
  PROVE  Settled(run')
<1> DEFINE new == In!At(window, {i \in DOMAIN window : ~In!Contains(run.summaries, window[i])})
           choices == UNION {In!Processings(new[i]) : i \in DOMAIN new}
<1>1. window \in Seq(Captures)
  BY DEF InboxSetting
<1>2. new \in Seq(Captures)
  BY <1>1, AtKeeps
<1>3. \E given \in [DOMAIN new -> choices] :
        /\ \A i \in DOMAIN new : given[i] \in In!Processings(new[i])
        /\ run' = In!Refreshed(window, given)
  BY DEF In!Refresh, In!Keep
<1> HIDE DEF new
<1>4. DOMAIN new = 1 .. Len(new) /\ Len(new) \in Nat /\ \A i \in DOMAIN new : new[i] \in Captures
  BY <1>2
<1>5. choices \subseteq Processing
  BY <1>4, ProcessingsTyped
<1> HIDE DEF choices
<1>6. PICK given \in [DOMAIN new -> choices] :
        /\ \A i \in DOMAIN new : given[i] \in In!Processings(new[i])
        /\ run' = In!Refreshed(window, given)
  BY <1>3
<1>7. given \in Seq(Processing) /\ DOMAIN given = DOMAIN new
  <2>1. given \in [1 .. Len(new) -> Processing]
    BY <1>4, <1>5
  <2> QED
    BY <1>4, <2>1
<1>8. \A i \in DOMAIN given : Theirs(given[i])
  BY <1>4, <1>6, <1>7, ProcessingsTheirs
<1>9. Settled(In!Refreshed(window, given))
  BY <1>7, <1>8, RefreshedSettled
<1> QED
  BY <1>6, <1>9

\* The page of the insights: all readers cut the same ones off.
LEMMA InsightPages ==
  ASSUME InboxSetting, InboxTyped, Settled(run), NEW limit \in Nat
  PROVE  /\ In!RedisPage("insights", limit) = In!SnapshotPage("insights", limit)
         /\ In!Range(In!CanonicalPage("insights", limit)) = In!Range(In!RedisPage("insights",
              limit))
         /\ In!Range(In!RedisPage("insights", limit))
              \subseteq In!Range(In!RedisPage("insights", limit + 1))
<1> DEFINE all == run.insights
           page == In!FirstN(all, limit)
           longer == In!FirstN(all, limit + 1)
           shown == In!ShownInsights(page)
<1>1. all \in Seq(In!Insights)
  BY DEF InboxTyped, Run
<1>2. In!Latest.insights = all
  BY LatestTyped DEF Settled
<1>3. \A s \in Seq(In!Insights) : /\ In!ShownInsights(s) \in Seq(In!Insights)
                                  /\ Len(In!ShownInsights(s)) = Len(s)
                                  /\ In!Range(In!ShownInsights(s)) = In!Range(s)
  BY RankKeeps DEF In!ShownInsights, In!RankAgain
<1>4. /\ In!RedisPage("insights", limit) = shown
      /\ In!RedisPage("insights", limit + 1) = In!ShownInsights(longer)
      /\ In!SnapshotPage("insights", limit) = shown
  BY <1>2 DEF In!RedisPage, In!SnapshotPage
<1>5. In!CanonicalPage("insights", limit) = In!ShownInsights(In!FirstN(shown, limit))
  BY DEF In!CanonicalPage
<1> HIDE DEF all
<1>6. /\ page \in Seq(In!Insights) /\ Len(page) <= limit
      /\ longer \in Seq(In!Insights)
      /\ In!Range(page) \subseteq In!Range(longer)
  <2>1. limit + 1 \in Nat /\ Len(all) \in Nat
    BY <1>1
  <2>2. /\ page \in Seq(In!Insights) /\ longer \in Seq(In!Insights)
        /\ Len(page) = IF Len(all) < limit THEN Len(all) ELSE limit
    BY <1>1, <2>1, FirstNKeeps
  <2>3. In!Range(page) \subseteq In!Range(longer)
    BY <1>1, LongerPage
  <2> HIDE DEF page, longer
  <2>4. Len(page) <= limit
    BY <2>1, <2>2
  <2> QED
    BY <2>2, <2>3, <2>4
<1> HIDE DEF page, longer
<1>7. shown \in Seq(In!Insights) /\ Len(shown) <= limit /\ In!Range(shown) = In!Range(page)
  BY <1>3, <1>6
<1> HIDE DEF shown
<1>8. In!FirstN(shown, limit) = shown
  BY <1>7, AllOfShort
<1>9. In!Range(In!ShownInsights(shown)) = In!Range(shown)
  BY <1>3, <1>7
<1>10. In!Range(In!ShownInsights(longer)) = In!Range(longer)
  BY <1>3, <1>6
<1> QED
  BY <1>4, <1>5, <1>6, <1>7, <1>8, <1>9, <1>10

\* Every page.
LEMMA PagesAre ==
  ASSUME InboxSetting, InboxTyped, Settled(run)
  PROVE  In!PagesAgree
<1> SUFFICES ASSUME NEW view \in In!Views, NEW limit \in In!PageLimits
             PROVE  /\ In!RedisPage(view, limit) = In!SnapshotPage(view, limit)
                    /\ view # "insights" => In!CanonicalPage(view, limit) = In!RedisPage(view,
                         limit)
                    /\ In!Range(In!CanonicalPage(view, limit)) = In!Range(In!RedisPage(view,
                         limit))
                    /\ In!Range(In!RedisPage(view, limit))
                         \subseteq In!Range(In!RedisPage(view, limit + 1))
  BY DEF In!PagesAgree
<1>1. limit \in Nat
  BY DEF In!PageLimits, InboxSetting
<1>2. view = "insights" \/ view \in {"bookmarks", "videos"}
  BY DEF In!Views
<1>3. CASE view = "insights"
  BY <1>1, <1>3, InsightPages
<1>4. CASE view \in {"bookmarks", "videos"}
  <2>1. In!RedisPage(view, limit) = In!SnapshotPage(view, limit)
    BY <1>4 DEF In!RedisPage, In!SnapshotPage, In!RedisSources
  <2>2. /\ In!CanonicalPage(view, limit) = In!RedisPage(view, limit)
        /\ In!Range(In!RedisPage(view, limit)) \subseteq In!Range(In!RedisPage(view, limit + 1))
    BY <1>1, <1>4, SourcePages
  <2> QED
    BY <2>1, <2>2
<1> QED
  BY <1>2, <1>3, <1>4

\* The graph relates only what it returns, no node has more than MaxDegree edges but one
\* that is related to itself, an edge is left out only for heavier ones where there is no
\* room, and a published graph has the nodes of one made anew: for any inbox and limits.
THEOREM GraphsAreSound == Spec => []GraphSound
<1>1. InboxInv => GraphSound
  <2> SUFFICES ASSUME InboxTyped PROVE In!GraphSound
    BY DEF InboxInv, GraphSound
  <2>1. In!Latest.insights \in Seq(In!Insights)
    BY InboxSettingHolds, LatestTyped DEF Run
  <2> QED
    BY <2>1, InboxSettingHolds, GraphsSound
<1> QED
  BY <1>1, AlwaysInboxInv, PTL

\* What the inbox shows, and that all readers rank alike.
SettledInv == InboxInv /\ Settled(run)

\* Every reader cuts the same insights and sources off a page, and a longer page only adds
\* to a shorter one: for any inbox, window of sources, answers of the synthesis and limits.
THEOREM PagesAlwaysAgree == Spec => []PagesAgree
<1> USE InboxSettingHolds
<1>1. Init => SettledInv
  BY InboxInvInit, InitSettled DEF Init, SettledInv
<1>2. ASSUME SettledInv, [Next]_vars PROVE SettledInv'
  <2>1. InboxTyped /\ Settled(run) /\ InboxInv'
    BY <1>2, InboxInvNext DEF SettledInv, InboxInv
  <2>2. \/ \E window \in Windows : In!Refresh(window)
        \/ run' = run
    BY <1>2 DEF Next, InboxNext, SynthesisNext, OwnersNext, vars, inboxVars, In!InboxNext,
                In!GenerateDigest
  <2>3. Settled(run')
    BY <2>1, <2>2, RefreshSettled
  <2>4. Settled(run)'
    BY <2>3 DEF Settled, Covered
  <2> QED
    BY <2>1, <2>4 DEF SettledInv
<1>3. SettledInv => PagesAgree
  BY PagesAre DEF SettledInv, InboxInv, PagesAgree
<1> QED
  BY <1>1, <1>2, <1>3, PTL DEF Spec

-----------------------------------------------------------------------------

\* The inbox, the workers' lists and results and the owners' rows keep their types.
THEOREM ServiceTypes == Spec => []TypeOK
<1> DEFINE Part == part \in {"inbox", "synthesis", "owners"}
           Inv == Part /\ OwnersTyped /\ WorkTyped /\ InboxInv
<1>1. Init => Inv
  BY OwnerSettingHolds, OwnersInitTyped, WorkSettingHolds, WorkInitTyped, InboxInvInit DEF Init
<1>2. Inv /\ [Next]_vars => Inv'
  <2> SUFFICES ASSUME Inv, [Next]_vars PROVE Inv'
    OBVIOUS
  <2>1. Part'
    BY DEF Next, InboxNext, SynthesisNext, OwnersNext, vars
  <2>2. OwnersTyped' /\ WorkTyped'
    BY OwnerSettingHolds, WorkSettingHolds, PartSteps, OwnersNextTyped, WorkNextTyped
  <2>3. InboxInv'
    BY InboxInvNext
  <2> QED
    BY <2>1, <2>2, <2>3
<1>3. Inv => TypeOK
  <2>1. ASSUME WorkTyped PROVE Work!SynthesisTypeOK
    <3>1. DOMAIN candidates = Places /\ DOMAIN processed = Places
      BY <2>1 DEF WorkTyped, WorkTypes, Places
    <3>2. \A i \in Places : processed[i] \in Work!Record \cup {None}
      BY <2>1 DEF WorkTyped, WorkTypes, Result
    <3>3. held \in [Workers -> [at : 0 .. Len(candidates),
                               step : {"none", "taken", "prompt", "compact", "judge"}]]
      BY <2>1 DEF WorkTyped, WorkTypes, HeldSteps
    <3> QED
      BY <2>1, <3>1, <3>2, <3>3
         DEF Work!SynthesisTypeOK, WorkTyped, WorkTypes, Captured, Versions
  <2> QED
    BY <2>1, InboxTypedMeans DEF OwnersTyped, InboxInv, TypeOK
<1> QED
  BY <1>1, <1>2, <1>3, PTL DEF Spec
=============================================================================
