----------------------------- MODULE OwnerScope -----------------------------
(***************************************************************************)
(* Whose workspace a request changes, and what of overlapping changes      *)
(* stays: a signed-in user is mapped to an owner (resolveScope,            *)
(* ResolveOwnerForAuthUser), and saves the playlist of that owner          *)
(* (SaveYouTubePlaylistConnection), by a transaction of its own that       *)
(* deletes the other playlists and inserts this one.  PostgreSQL runs it   *)
(* READ COMMITTED: a statement sees what was committed when it began,      *)
(* waits for the rows another transaction has changed, and now() is the    *)
(* time the transaction began.                                             *)
(***************************************************************************)
EXTENDS Naturals, FiniteSets

CONSTANTS
  Users, PublicOwner,  \* a user's own profile has the user's id
  Playlists,
  LastRequest,         \* bound: requests, numbered as they arrive
  LastMove,            \* bound: changes of who has the public email
  None

Requests == 1 .. LastRequest
Owners == Users \cup {PublicOwner}

VARIABLES
  publicUser,  \* who has the email of the public owner, or None
  moves,
  profile,     \* user_profiles: the auth_user_id of an owner; None without a row or user
  request,     \* [step, user, owner, playlist, began, others]
  rows,        \* source_connections: when and by whose save a playlist was updated, or None
  clock,
  prior        \* the saves that had been committed when one began, or None

ownerVars == <<publicUser, moves, profile, request, rows, clock, prior>>

Steps == {"unused", "resolving", "checking", "deleting", "waiting", "inserting", "committing",
          "saved", "failed"}
Row == [at : 1 .. LastRequest, by : Requests]

OwnerTypeOK ==
  /\ profile \in [Owners -> Users \cup {None}]
  /\ request \in [Requests -> [step : Steps, user : Users \cup {None},
                               owner : Owners \cup {None}, playlist : Playlists \cup {None},
                               began : 0 .. LastRequest, others : SUBSET Playlists]]
  /\ rows \in [Owners -> [Playlists -> Row \cup {None}]]
  /\ clock \in 0 .. LastRequest
  /\ prior \in [Requests -> SUBSET Requests]

Init ==
  /\ publicUser \in Users \cup {None}
  /\ moves = 0
  /\ profile = [o \in Owners |-> None]
  /\ request = [r \in Requests |-> [step |-> "unused", user |-> None, owner |-> None,
                                    playlist |-> None, began |-> 0, others |-> {}]]
  /\ rows = [o \in Owners |-> [p \in Playlists |-> None]]
  /\ clock = 0
  /\ prior = [r \in Requests |-> {}]

-----------------------------------------------------------------------------

world == <<publicUser, moves>>
table == <<rows, clock, prior>>

At(r, step) == request[r].step = step

Goto(r, step) == request' = [request EXCEPT ![r].step = step]

\* Another user gets the email, or nobody has it.
MoveEmail ==
  /\ moves < LastMove
  /\ publicUser' \in (Users \cup {None}) \ {publicUser}
  /\ moves' = moves + 1
  /\ UNCHANGED <<profile, request, table>>

\* The session is valid; Supabase tells the user and the email of that moment.
Arrive(r, u, p) ==
  /\ At(r, "unused") /\ \A q \in 1 .. r - 1 : ~At(q, "unused")
  /\ request' = [request EXCEPT ![r] =
       [@ EXCEPT !.step = "resolving", !.user = u, !.playlist = p,
                 !.owner = IF publicUser = u THEN PublicOwner ELSE None]]
  /\ UNCHANGED <<world, profile, table>>

Bound(u) == {o \in Owners : profile[o] = u}

Resolved(r, o) ==
  request' = [request EXCEPT ![r].step = "checking", ![r].owner = o]

\* The user with the email gets the public owner, unless another profile is bound to
\* the user: auth_user_id is unique.
TakePublicOwner(r) ==
  /\ At(r, "resolving") /\ request[r].owner = PublicOwner
  /\ IF Bound(request[r].user) \subseteq {PublicOwner}
     THEN /\ profile' = [profile EXCEPT ![PublicOwner] = request[r].user]
          /\ Resolved(r, PublicOwner)
     ELSE Goto(r, "failed") /\ UNCHANGED profile
  /\ UNCHANGED <<world, table>>

FindOwner(r) ==
  /\ At(r, "resolving") /\ request[r].owner = None
  /\ \E o \in Bound(request[r].user) : Resolved(r, o)
  /\ UNCHANGED <<world, profile, table>>

\* No profile was found: one is inserted, unless the user has got another meanwhile.
FindNoOwner(r) ==
  /\ At(r, "resolving") /\ request[r].owner = None /\ Bound(request[r].user) = {}
  /\ request' = [request EXCEPT ![r].owner = request[r].user]
  /\ UNCHANGED <<world, profile, table>>

InsertOwner(r) ==
  LET u == request[r].user
  IN  /\ At(r, "resolving") /\ request[r].owner = u
      /\ IF Bound(u) \subseteq {u}
         THEN profile' = [profile EXCEPT ![u] = u] /\ Resolved(r, u)
         ELSE Goto(r, "failed") /\ UNCHANGED profile
      /\ UNCHANGED <<world, table>>

-----------------------------------------------------------------------------

Mine(r) == rows[request[r].owner]

\* The rows a transaction has deleted or written and not yet committed.
Locked(r) ==
  IF At(r, "inserting") THEN request[r].others
  ELSE IF At(r, "committing") THEN request[r].others \cup {request[r].playlist}
  ELSE {}

LockedByOthers(r) ==
  UNION {Locked(q) : q \in {q \in Requests \ {r} : request[q].owner = request[r].owner}}

Committed == {r \in Requests : At(r, "saved")}

\* The playlist can be read at YouTube: the transaction begins.
BeginSave(r) ==
  /\ At(r, "checking")
  /\ clock' = clock + 1
  /\ request' = [request EXCEPT ![r].step = "deleting", ![r].began = clock']
  /\ prior' = [prior EXCEPT ![r] = Committed]
  /\ UNCHANGED <<world, profile, rows>>

\* Mistaken version, kept to show that a property can fail: the playlist itself is
\* deleted instead of the others.
OthersOwn(r) == {p \in Playlists : Mine(r)[p] # None /\ p = request[r].playlist}

\* The other playlists, as the delete sees them when it begins.
Others(r) == {p \in Playlists : Mine(r)[p] # None /\ p # request[r].playlist}

BeginDelete(r) ==
  /\ At(r, "deleting")
  /\ request' = [request EXCEPT ![r].step = "waiting", ![r].others = Others(r)]
  /\ UNCHANGED <<world, profile, table>>

\* It has waited for them; what was deleted meanwhile is passed over.
EndDelete(r) ==
  /\ At(r, "waiting")
  /\ request[r].others \cap LockedByOthers(r) = {}
  /\ request' = [request EXCEPT ![r].step = "inserting",
                   ![r].others = {p \in @ : Mine(r)[p] # None}]
  /\ UNCHANGED <<world, profile, table>>

\* An insert waits for a row that is being deleted or inserted.
InsertPlaylist(r) ==
  /\ At(r, "inserting")
  /\ request[r].playlist \notin LockedByOthers(r)
  /\ Goto(r, "committing")
  /\ UNCHANGED <<world, profile, table>>

Commit(r) ==
  LET q == request[r]
  IN  /\ At(r, "committing")
      /\ rows' = [rows EXCEPT ![q.owner] = [p \in Playlists |->
           IF p = q.playlist THEN [at |-> q.began, by |-> r]
           ELSE IF p \in q.others THEN None ELSE @[p]]]
      /\ Goto(r, "saved")
      /\ UNCHANGED <<world, profile, clock, prior>>

\* The playlist cannot be read, the lock timeout, a deadlock, a lost connection:
\* the transaction is rolled back.
Abort(r) ==
  /\ request[r].step \in {"resolving", "checking", "deleting", "waiting", "inserting",
                          "committing"}
  /\ Goto(r, "failed")
  /\ UNCHANGED <<world, profile, table>>

OwnerNext ==
  \/ MoveEmail
  \/ \E r \in Requests :
       \/ \E u \in Users, p \in Playlists : Arrive(r, u, p)
       \/ TakePublicOwner(r) \/ FindOwner(r) \/ FindNoOwner(r) \/ InsertOwner(r)
       \/ BeginSave(r) \/ BeginDelete(r) \/ EndDelete(r) \/ InsertPlaylist(r)
       \/ Commit(r) \/ Abort(r)

-----------------------------------------------------------------------------

\* ownerYouTubePlaylistID: of the rows of an owner the one updated last.
Shown(o) ==
  LET some == {p \in Playlists : rows[o][p] # None}
  IN  {p \in some : \A q \in some : rows[o][q].at <= rows[o][p].at}

SavesOf(o) == {r \in Committed : request[r].owner = o}

\* A saved playlist stands until a save that began after it replaces it: it may be
\* left beside that of a save it overlapped, but never beside a later one, and an
\* owner who has saved a playlist has one, and one is shown.
PlaylistStands ==
  \A o \in Owners :
    /\ SavesOf(o) # {} => Cardinality(Shown(o)) = 1
    /\ \A p \in Playlists :
         rows[o][p] # None => \A s \in SavesOf(o) : rows[o][p].by \notin prior[s]

\* What a user saves is in the user's own profile, or in the public one while it is,
\* or was, the user's; no profile but the public one changes hands.
WorkspacesApart ==
  /\ \A u \in Users : profile[u] \in {u, None}
  /\ \A r \in Requests : request[r].owner \in {request[r].user, PublicOwner, None}
  /\ \A o, p \in Owners : profile[o] = profile[p] /\ profile[o] # None => o = p

\* Both, as one claim about requests that change a workspace.
OwnersSound == PlaylistStands /\ WorkspacesApart
=============================================================================
