------------------------------- MODULE XTokens -------------------------------
(***************************************************************************)
(* The authorization of the X API: the OAuth states that live in the       *)
(* memory of an API process, the token pair of each owner in Postgres      *)
(* (x_oauth_tokens), and its rotation.  X issues pairs of an access and a  *)
(* refresh token and accepts the refresh token of the newest pair of a     *)
(* grant only, once.  Calls are requests and scheduled refreshes, each in  *)
(* some process: the API, the worker, a command.                           *)
(***************************************************************************)
EXTENDS Integers

CONSTANTS
  Owners, PublicOwner,
  Processes, Calls,
  States,      \* OAuth states: random, each names the grant it leads to
  Configured,  \* the grant whose tokens are in the environment
  LastPair,    \* bound: pairs X issues under one grant
  None

Grants == States \cup {Configured}
Pairs == [grant : Grants, n : 1 .. LastPair]
FirstPair(g) == [grant |-> g, n |-> 1]

ASSUME OwnersAssumption == PublicOwner \in Owners
ASSUME PairsAssumption == LastPair \in Nat \ {0}
ASSUME NoneAssumption == None \notin Owners \cup Pairs \cup Processes
ASSUME ConfiguredAssumption == Configured \notin States

VARIABLES
  storedOnly, \* the deployment: X_REQUIRE_STORED_OAUTH
  begunBy,    \* history: the owner who began the authorization of a state
  pending,    \* xOAuthStates of each owner's service, by process
  redeemed,   \* history: how often the code of a state was sent to X
  newest,     \* X: number of the newest pair of a grant, 0 before the first
  stored,     \* x_oauth_tokens: pair of an owner, or None
  expiring,   \* owners whose stored access token is in its last ten minutes
  env,        \* X_REFRESH_TOKEN in the environment of each process
  lost,       \* history: grants whose newest pair a failed step dropped
  pc,
  call        \* the locals of each call

memoryVars == <<pending, env>>
xVars == <<redeemed, newest>>
storeVars == <<stored, expiring>>
vars == <<storedOnly, begunBy, memoryVars, xVars, storeVars, lost, pc, call>>

Kinds == {"authorize", "stored", "env", "import"}
Steps == {"idle", "exchange", "rotate", "verify", "save"}

\* at: the process; pair: the pair to refresh, then the one obtained; verified:
\* the profile was fetched with it.
Call == [kind : Kinds, at : Processes, owner : Owners, pair : Pairs, verified : BOOLEAN]

TypeOK ==
  /\ storedOnly \in BOOLEAN
  /\ begunBy \in [States -> Owners \cup {None}]
  /\ pending \in [Processes -> [Owners -> SUBSET States]]
  /\ redeemed \in [States -> Nat]
  /\ newest \in [Grants -> 0 .. LastPair]
  /\ stored \in [Owners -> Pairs \cup {None}]
  /\ expiring \in SUBSET Owners
  /\ env \in [Processes -> Pairs]
  /\ lost \in SUBSET Grants
  /\ pc \in [Calls -> Steps]
  /\ call \in [Calls -> Call \cup {None}]
  /\ \A c \in Calls : pc[c] # "idle" => call[c] \in Call

Init ==
  /\ storedOnly \in BOOLEAN
  /\ begunBy = [g \in States |-> None]
  /\ pending = [p \in Processes |-> [o \in Owners |-> {}]]
  /\ redeemed = [g \in States |-> 0]
  /\ newest = [g \in Grants |-> IF g = Configured THEN 1 ELSE 0]
  /\ stored = [o \in Owners |-> None]
  /\ expiring = {}
  /\ env = [p \in Processes |-> FirstPair(Configured)]
  /\ lost = {}
  /\ pc = [c \in Calls |-> "idle"]
  /\ call = [c \in Calls |-> None]

-----------------------------------------------------------------------------

IsNewest(q) == q.n = newest[q.grant]

Next1(q) == [q EXCEPT !.n = @ + 1]

\* A call has a pair of its own once X has answered.
Holds(c, q) == pc[c] \in {"verify", "save"} /\ call[c].pair = q

\* Pairs that only these calls, or the environment of these processes, know.
Unsaved(cs, ps) ==
  {q \in {call[c].pair : c \in {d \in cs : pc[d] \in {"verify", "save"}}}
         \cup {env[p] : p \in ps} :
     /\ IsNewest(q)
     /\ \A o \in Owners : stored[o] # q
     /\ \A c \in Calls \ cs : ~Holds(c, q)
     /\ \A p \in Processes \ ps : env[p] # q}

Goto(c, step) == pc' = [pc EXCEPT ![c] = step]

End(c) == Goto(c, "idle") /\ call' = [call EXCEPT ![c] = None]

Begin(c, kind, p, o, q, step) ==
  /\ pc[c] = "idle"
  /\ call' = [call EXCEPT ![c] = [kind |-> kind, at |-> p, owner |-> o, pair |-> q,
                                  verified |-> FALSE]]
  /\ Goto(c, step)

\* Mistaken versions of the definitions below, kept to show that each property
\* can fail: a callback handled by the public owner's service, one that leaves
\* its state in place, saves of an answer without a refresh token and of the
\* access token alone, and a save that loses the expiry.
CallbackPublic(c, p, g) ==
  /\ \E o \in Owners : g \in pending[p][o]
  /\ Begin(c, "authorize", p, PublicOwner, FirstPair(g), "exchange")
  /\ pending' = [pending EXCEPT ![p] = [o \in Owners |-> @[o] \ {g}]]
  /\ UNCHANGED <<storedOnly, begunBy, env, xVars, storeVars, lost>>

CallbackKeepsState(c, p, g) ==
  /\ \E o \in Owners :
       /\ g \in pending[p][o]
       /\ Begin(c, "authorize", p, o, FirstPair(g), "exchange")
  /\ UNCHANGED <<storedOnly, begunBy, memoryVars, xVars, storeVars, lost>>

SavedPairUnrotated(c) == [call[c].pair EXCEPT !.n = 0]

SavedPairKeepsOld(c) ==
  IF stored[call[c].owner] = None THEN call[c].pair ELSE stored[call[c].owner]

StillExpiringAlways(c) == expiring \cup {call[c].owner}

\* What SaveXTokens writes: the pair of the call, whatever was stored.
SavedPair(c) == call[c].pair

StillExpiring(c) == expiring \ {call[c].owner}

-----------------------------------------------------------------------------

\* startXAuth, BeginXOAuth: a fresh state in the service of the signed-in owner.
BeginXOAuth(p, o, g) ==
  /\ begunBy[g] = None
  /\ begunBy' = [begunBy EXCEPT ![g] = o]
  /\ pending' = [pending EXCEPT ![p][o] = @ \cup {g}]
  /\ UNCHANGED <<storedOnly, env, xVars, storeVars, lost, pc, call>>

\* A state older than ten minutes is pruned by the next use of the map.
PruneState(p, o, g) ==
  /\ g \in pending[p][o]
  /\ pending' = [pending EXCEPT ![p][o] = @ \ {g}]
  /\ UNCHANGED <<storedOnly, begunBy, env, xVars, storeVars, lost, pc, call>>

\* completeXAuth: the service of the process that has the state consumes it.  In
\* a process that does not have it the callback is rejected and nothing changes.
Callback(c, p, g) ==
  /\ \E o \in Owners :
       /\ g \in pending[p][o]
       /\ Begin(c, "authorize", p, o, FirstPair(g), "exchange")
       /\ pending' = [pending EXCEPT ![p][o] = @ \ {g}]
  /\ UNCHANGED <<storedOnly, begunBy, env, xVars, storeVars, lost>>

\* CompleteXOAuth: X takes the code, once, and issues the first pair.
Exchange(c) ==
  /\ pc[c] = "exchange"
  /\ LET g == call[c].pair.grant IN
       /\ redeemed' = [redeemed EXCEPT ![g] = @ + 1]
       /\ \/ /\ newest[g] = 0
             /\ newest' = [newest EXCEPT ![g] = 1]
             /\ Goto(c, "verify")
             /\ UNCHANGED call
          \/ /\ newest[g] # 0
             /\ End(c)
             /\ UNCHANGED newest
  /\ UNCHANGED <<storedOnly, begunBy, memoryVars, storeVars, lost>>

\* getValidXAccessToken finds a stored pair whose access token is about to
\* expire.  Earlier than that the stored access token is used as it is.
UseStored(c, p, o) ==
  /\ stored[o] # None /\ o \in expiring
  /\ Begin(c, "stored", p, o, stored[o], "rotate")
  /\ UNCHANGED <<storedOnly, begunBy, memoryVars, xVars, storeVars, lost>>

\* refreshXAccessToken for an owner without a stored pair.
UseEnvironment(c, p, o) ==
  /\ stored[o] = None /\ ~storedOnly /\ env[p].n < LastPair
  /\ Begin(c, "env", p, o, env[p], "rotate")
  /\ UNCHANGED <<storedOnly, begunBy, memoryVars, xVars, storeVars, lost>>

\* ImportXRefreshToken, from cmd/x-token-import: a process of its own, with the
\* token it is given.
Import(c, p) ==
  /\ Begin(c, "import", p, PublicOwner, FirstPair(Configured), "rotate")
  /\ UNCHANGED <<storedOnly, begunBy, memoryVars, xVars, storeVars, lost>>

\* requestXTokenRefresh: X replaces the newest pair of the grant.  The path of
\* the environment keeps the new pair there before anything else.
Rotate(c) ==
  /\ pc[c] = "rotate"
  /\ LET q == call[c].pair IN
       /\ IsNewest(q) /\ q.n < LastPair
       /\ newest' = [newest EXCEPT ![q.grant] = q.n + 1]
       /\ call' = [call EXCEPT ![c].pair = Next1(q)]
       /\ env' = IF call[c].kind = "env" THEN [env EXCEPT ![call[c].at] = Next1(q)] ELSE env
  /\ Goto(c, "save")
  /\ UNCHANGED <<storedOnly, begunBy, pending, redeemed, storeVars, lost>>

\* invalid_grant: the refresh token was used before; the caller must reauthorize.
RotateRejected(c) ==
  /\ pc[c] = "rotate"
  /\ ~IsNewest(call[c].pair)
  /\ End(c)
  /\ UNCHANGED <<storedOnly, begunBy, memoryVars, xVars, storeVars, lost>>

\* X rotates, and its answer does not arrive.
RotateUnanswered(c) ==
  /\ pc[c] = "rotate"
  /\ LET q == call[c].pair IN
       /\ IsNewest(q) /\ q.n < LastPair
       /\ newest' = [newest EXCEPT ![q.grant] = q.n + 1]
       /\ lost' = lost \cup {q.grant}
  /\ End(c)
  /\ UNCHANGED <<storedOnly, begunBy, memoryVars, redeemed, storeVars>>

\* fetchXAuthenticatedProfile finds the expected account.
Verify(c) ==
  /\ pc[c] = "verify"
  /\ call' = [call EXCEPT ![c].verified = TRUE]
  /\ Goto(c, "save")
  /\ UNCHANGED <<storedOnly, begunBy, memoryVars, xVars, storeVars, lost>>

\* saveXTokenSet.  An import saves the pair before it looks at the profile, and
\* once more with the profile.
Save(c) ==
  /\ pc[c] = "save"
  /\ stored' = [stored EXCEPT ![call[c].owner] = SavedPair(c)]
  /\ expiring' = StillExpiring(c)
  /\ IF call[c].kind = "import" /\ ~call[c].verified
     THEN Goto(c, "verify") /\ UNCHANGED call
     ELSE End(c)
  /\ UNCHANGED <<storedOnly, begunBy, memoryVars, xVars, lost>>

\* A request, the profile check, the save or the process fails; what only this
\* call knew is gone.
Fail(c) ==
  /\ pc[c] # "idle"
  /\ lost' = lost \cup {q.grant : q \in Unsaved({c}, {})}
  /\ End(c)
  /\ UNCHANGED <<storedOnly, begunBy, memoryVars, xVars, storeVars>>

\* A process starts again with the environment it was deployed with.
Restart(p) ==
  LET cs == {c \in Calls : pc[c] # "idle" /\ call[c].at = p} IN
  /\ lost' = lost \cup {q.grant : q \in Unsaved(cs, {p})}
  /\ pc' = [c \in Calls |-> IF c \in cs THEN "idle" ELSE pc[c]]
  /\ call' = [c \in Calls |-> IF c \in cs THEN None ELSE call[c]]
  /\ pending' = [pending EXCEPT ![p] = [o \in Owners |-> {}]]
  /\ env' = [env EXCEPT ![p] = FirstPair(Configured)]
  /\ UNCHANGED <<storedOnly, begunBy, xVars, storeVars>>

\* The stored access token enters its last ten minutes.  It lives for hours: no
\* call lasts from one save of a pair to there.
Expire(o) ==
  /\ stored[o] # None /\ o \notin expiring
  /\ stored[o].n < LastPair
  /\ \A c \in Calls : pc[c] # "idle" => call[c].owner # o
  /\ expiring' = expiring \cup {o}
  /\ UNCHANGED <<storedOnly, begunBy, memoryVars, xVars, stored, lost, pc, call>>

StartCall(c) ==
  \E p \in Processes :
    \/ \E g \in States : Callback(c, p, g)
    \/ \E o \in Owners : UseStored(c, p, o) \/ UseEnvironment(c, p, o)
    \/ Import(c, p)

CallStep(c) ==
  Exchange(c) \/ Rotate(c) \/ RotateRejected(c) \/ Verify(c) \/ Save(c)

Next ==
  \/ \E p \in Processes, o \in Owners, g \in States :
       BeginXOAuth(p, o, g) \/ PruneState(p, o, g)
  \/ \E c \in Calls : StartCall(c) \/ CallStep(c) \/ RotateUnanswered(c) \/ Fail(c)
  \/ \E p \in Processes : Restart(p)
  \/ \E o \in Owners : Expire(o)

Spec == Init /\ [][Next]_vars

\* Refreshes are scheduled again and again, and an outage of X or Postgres ends:
\* a step that can be tried again and again succeeds at last.
Fairness ==
  /\ \A o \in Owners : SF_vars(\E c \in Calls, p \in Processes : UseStored(c, p, o))
  /\ \A c \in Calls : SF_vars(Rotate(c)) /\ SF_vars(Save(c)) /\ WF_vars(CallStep(c))

FairSpec == Spec /\ Fairness

-----------------------------------------------------------------------------

\* Whichever process and service a callback reaches, and whatever runs beside
\* it, an owner's row holds tokens of an authorization that owner began; where
\* stored tokens are required, the configured grant reaches the public owner only.
TokensOfOwner ==
  \A o \in Owners : stored[o] # None =>
    LET g == stored[o].grant IN
      IF g \in States THEN begunBy[g] = o ELSE storedOnly => o = PublicOwner

\* The code of an authorization is sent to X at most once, although a browser
\* may repeat the callback and processes may restart.
StateUsedOnce == \A g \in States : redeemed[g] <= 1

\* The environment's pair is shared by the owners that have none of their own;
\* the two properties below are about pairs that are not.
OwnPair(o) == stored[o] # None /\ (storedOnly \/ stored[o].grant \in States)

\* However many calls refresh at the same time, the one refresh token X still
\* accepts is in the row, or with a call that will save it; only a step that
\* failed after the rotation loses it.
AuthorizationKept ==
  \A o \in Owners : OwnPair(o) /\ stored[o].grant \notin lost =>
    \/ IsNewest(stored[o])
    \/ \E c \in Calls : /\ pc[c] \in {"verify", "save"} /\ call[c].owner = o
                        /\ call[c].pair.grant = stored[o].grant /\ IsNewest(call[c].pair)

\* An owner whose access token runs out has a fresh one again, unless the
\* refresh token was lost: calls that overlap do not talk each other out of it.
AccessReturns ==
  \A o \in Owners :
    o \in expiring /\ OwnPair(o) ~> (o \notin expiring \/ stored[o].grant \in lost)
=============================================================================
