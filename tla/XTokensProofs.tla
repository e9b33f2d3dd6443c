---------------------------- MODULE XTokensProofs ----------------------------
(***************************************************************************)
(* TokensOfOwner, StateUsedOnce and AuthorizationKept hold for any owners, *)
(* processes, calls and states.  The invariant follows an authorization    *)
(* through the process: a state is in one map, or with one call, or        *)
(* redeemed (StatesOnce); a call carries a grant of its owner              *)
(* (GrantsHeld); and while a call holds the newest pair of a grant that is *)
(* not lost, no other one can have it replaced (HoldersNewest), because    *)
(* whoever is about to refresh has an older pair.                          *)
(***************************************************************************)
EXTENDS XTokens, TLAPS

USE DEF vars, memoryVars, xVars, storeVars

\* A grant an owner may have tokens of.
Belongs(o, g) == IF g \in States THEN begunBy[g] = o ELSE storedOnly => o = PublicOwner

\* What is pending, in use or in an environment is under its own owner's grant.
GrantsHeld ==
  /\ \A p \in Processes, o \in Owners : \A g \in pending[p][o] : begunBy[g] = o
  /\ \A c \in Calls : pc[c] # "idle" => Belongs(call[c].owner, call[c].pair.grant)
  /\ \A c \in Calls : pc[c] = "exchange" => /\ call[c].pair.grant \in States
                                            /\ call[c].pair.n = 1
  /\ \A c \in Calls : pc[c] # "idle" /\ call[c].kind = "env" =>
       ~storedOnly /\ call[c].pair.grant = Configured
  /\ \A p \in Processes : /\ env[p].grant = Configured
                          /\ storedOnly => env[p].n = 1

Exchanging(c, g) == pc[c] = "exchange" /\ call[c].pair.grant = g

NotPending(g) == \A p \in Processes, o \in Owners : g \notin pending[p][o]

\* A state is unused, then in one map, then with one call, then redeemed or gone.
StatesOnce ==
  \A g \in States :
    /\ redeemed[g] <= 1
    /\ begunBy[g] = None => redeemed[g] = 0
    /\ redeemed[g] = 1 => NotPending(g) /\ \A c \in Calls : ~Exchanging(c, g)
    /\ \A c \in Calls : Exchanging(c, g) =>
         NotPending(g) /\ \A d \in Calls : Exchanging(d, g) => c = d
    /\ \A p, q \in Processes, o \in Owners :
         g \in pending[p][o] /\ g \in pending[q][o] => p = q

Holding(c) == pc[c] \in {"verify", "save"}

\* Nobody knows a pair that X has not issued; of the configured grant a call holds
\* none but a rotated one.
PairsIssued ==
  /\ newest[Configured] >= 1
  /\ \A o \in Owners : stored[o] # None => stored[o].n <= newest[stored[o].grant]
  /\ \A c \in Calls : pc[c] \in {"rotate", "verify", "save"} =>
       call[c].pair.n <= newest[call[c].pair.grant]
  /\ \A p \in Processes : env[p].n <= newest[Configured]
  /\ \A c \in Calls : Holding(c) /\ call[c].pair.grant = Configured => call[c].pair.n >= 2

\* A grant whose pairs one owner has alone.
Private(g) == storedOnly \/ g \in States

\* A call that holds a pair holds the newest, and nobody is about to use that one:
\* neither a call that has read it nor one that would still read it in the row.
HoldersNewest ==
  \A c \in Calls :
    LET g == call[c].pair.grant IN
    Holding(c) /\ Private(g) /\ g \notin lost =>
      /\ IsNewest(call[c].pair)
      /\ \A d \in Calls : pc[d] = "rotate" /\ call[d].pair.grant = g => ~IsNewest(call[d].pair)
      /\ \A o \in expiring : stored[o] # None /\ stored[o].grant = g => ~IsNewest(stored[o])

XInv ==
  /\ TypeOK /\ TokensOfOwner /\ AuthorizationKept
  /\ GrantsHeld /\ StatesOnce /\ PairsIssued /\ HoldersNewest

-----------------------------------------------------------------------------

\* The components of a pair.
LEMMA PairTyped ==
  ASSUME NEW q \in Pairs
  PROVE  q.grant \in Grants /\ q.n \in 1 .. LastPair /\ q # None
BY NoneAssumption DEF Pairs

\* The locals of a call that is not idle.
LEMMA CallTyped ==
  ASSUME TypeOK, NEW c \in Calls, pc[c] # "idle"
  PROVE  /\ call[c] \in Call
         /\ call[c].owner \in Owners /\ call[c].at \in Processes
         /\ call[c].pair \in Pairs
         /\ call[c].pair.grant \in Grants /\ call[c].pair.n \in 1 .. LastPair
BY PairTyped DEF TypeOK, Call

\* A grant is of at most one owner, if it is private.
LEMMA OneOwner ==
  ASSUME NEW g \in Grants, NEW o, NEW o2, Private(g), Belongs(o, g), Belongs(o2, g)
  PROVE  o = o2
BY DEF Private, Belongs

\* The first pair of a grant.
LEMMA FirstTyped ==
  ASSUME NEW g \in Grants
  PROVE  FirstPair(g) \in Pairs /\ FirstPair(g).grant = g /\ FirstPair(g).n = 1
BY PairsAssumption DEF FirstPair, Pairs

\* The invariant holds initially.
LEMMA InitX == Init => XInv
<1> SUFFICES ASSUME Init PROVE XInv
  OBVIOUS
<1>1. Configured \in Grants /\ Configured \notin States
  BY ConfiguredAssumption DEF Grants
<1>2. /\ FirstPair(Configured) \in Pairs /\ FirstPair(Configured).grant = Configured
      /\ FirstPair(Configured).n = 1
  BY <1>1, FirstTyped
<1>3. TypeOK
  BY <1>2, PairsAssumption DEF Init, TypeOK, Steps
<1>4. TokensOfOwner /\ AuthorizationKept
  BY DEF Init, TokensOfOwner, AuthorizationKept, OwnPair
<1>5. GrantsHeld
  BY <1>2 DEF Init, GrantsHeld
<1>6. StatesOnce
  BY DEF Init, StatesOnce, NotPending, Exchanging
<1>7. PairsIssued
  BY <1>1, <1>2 DEF Init, PairsIssued, Holding
<1>8. HoldersNewest
  BY DEF Init, HoldersNewest, Holding
<1> QED
  BY <1>3, <1>4, <1>5, <1>6, <1>7, <1>8 DEF XInv

\* What a step changes that replaces the stage and the locals of one call.
LEMMA OneCall ==
  ASSUME TypeOK, NEW c \in Calls, NEW step \in Steps, NEW v \in Call \cup {None},
         step # "idle" => v \in Call,
         pc' = [pc EXCEPT ![c] = step], call' = [call EXCEPT ![c] = v]
  PROVE  /\ pc' \in [Calls -> Steps] /\ call' \in [Calls -> Call \cup {None}]
         /\ \A d \in Calls : pc'[d] # "idle" => call'[d] \in Call
         /\ pc'[c] = step /\ call'[c] = v
         /\ \A d \in Calls \ {c} : pc'[d] = pc[d] /\ call'[d] = call[d]
BY DEF TypeOK

-----------------------------------------------------------------------------
\* The authorization of an owner begins and is given up.

\* A fresh state: nothing of the process knows it yet.
LEMMA BeginKeeps ==
  ASSUME XInv, NEW p \in Processes, NEW o \in Owners, NEW g \in States, BeginXOAuth(p, o, g)
  PROVE  XInv'
<1>1. /\ begunBy[g] = None /\ begunBy' = [begunBy EXCEPT ![g] = o]
      /\ pending' = [pending EXCEPT ![p][o] = @ \cup {g}]
      /\ UNCHANGED <<storedOnly, env, xVars, storeVars, lost, pc, call>>
  BY DEF BeginXOAuth
<1>2. /\ begunBy \in [States -> Owners \cup {None}]
      /\ pending \in [Processes -> [Owners -> SUBSET States]]
  BY DEF XInv, TypeOK
<1>3. /\ begunBy'[g] = o
      /\ \A h \in States \ {g} : begunBy'[h] = begunBy[h]
      /\ \A r \in Processes, u \in Owners : \A h :
           h \in pending'[r][u] <=> h \in pending[r][u] \/ (r = p /\ u = o /\ h = g)
  BY <1>1, <1>2
<1>4. TypeOK'
  BY <1>1, <1>2 DEF XInv, TypeOK
<1>5. \A u \in Owners, h \in Grants : Belongs(u, h) => Belongs(u, h)'
  BY <1>1, <1>3, NoneAssumption DEF Belongs
<1>6. TokensOfOwner'
  <2> SUFFICES ASSUME NEW u \in Owners, stored[u] # None
               PROVE  Belongs(u, stored[u].grant)'
    BY <1>1 DEF TokensOfOwner, Belongs
  <2>1. stored[u].grant \in Grants /\ Belongs(u, stored[u].grant)
    BY PairTyped DEF XInv, TypeOK, TokensOfOwner, Belongs
  <2> QED
    BY <1>1, <1>5, <2>1
<1>7. AuthorizationKept' /\ HoldersNewest' /\ PairsIssued'
  BY <1>1 DEF XInv, AuthorizationKept, OwnPair, IsNewest, HoldersNewest, Holding, Private,
              PairsIssued
<1>8. GrantsHeld'
  <2>1. \A r \in Processes, u \in Owners : \A h \in pending'[r][u] : begunBy'[h] = u
    BY <1>1, <1>2, <1>3, NoneAssumption DEF XInv, GrantsHeld
  <2>2. ASSUME NEW c \in Calls, pc[c] # "idle"
        PROVE  Belongs(call[c].owner, call[c].pair.grant)'
    BY <1>1, <1>5, <2>2, CallTyped DEF XInv, GrantsHeld
  <2> QED
    BY <1>1, <2>1, <2>2 DEF XInv, GrantsHeld
<1>9. NotPending(g) /\ \A c \in Calls : ~Exchanging(c, g)
  <2>1. NotPending(g)
    BY <1>1, NoneAssumption DEF XInv, GrantsHeld, NotPending
  <2>2. ASSUME NEW c \in Calls, Exchanging(c, g)
        PROVE  FALSE
    <3>1. Belongs(call[c].owner, g) /\ call[c].owner \in Owners
      BY <2>2, CallTyped DEF XInv, GrantsHeld, Exchanging
    <3> QED
      BY <1>1, <3>1, NoneAssumption DEF Belongs
  <2> QED
    BY <2>1, <2>2
<1>10. StatesOnce'
  <2> SUFFICES ASSUME NEW h \in States
               PROVE  /\ redeemed[h] <= 1
                      /\ begunBy'[h] = None => redeemed[h] = 0
                      /\ redeemed[h] = 1 => NotPending(h)' /\ \A c \in Calls : ~Exchanging(c, h)
                      /\ \A c \in Calls : Exchanging(c, h) =>
                           NotPending(h)' /\ \A d \in Calls : Exchanging(d, h) => c = d
                      /\ \A r, q \in Processes, u \in Owners :
                           h \in pending'[r][u] /\ h \in pending'[q][u] => r = q
    BY <1>1 DEF StatesOnce, Exchanging
  <2>1. CASE h = g
    <3>1. redeemed[g] = 0
      BY <1>1 DEF XInv, StatesOnce
    <3>2. \A r, q \in Processes, u \in Owners :
            g \in pending'[r][u] /\ g \in pending'[q][u] => r = q
      BY <1>3, <1>9 DEF NotPending
    <3> QED
      BY <1>9, <2>1, <3>1, <3>2
  <2>2. CASE h # g
    <3>1. \A r \in Processes, u \in Owners : h \in pending'[r][u] <=> h \in pending[r][u]
      BY <1>3, <2>2
    <3>2. NotPending(h)' <=> NotPending(h)
      BY <3>1 DEF NotPending
    <3>3. begunBy'[h] = begunBy[h]
      BY <1>3, <2>2
    <3> QED
      BY <3>1, <3>2, <3>3 DEF XInv, StatesOnce
  <2> QED
    BY <2>1, <2>2
<1> QED
  BY <1>4, <1>6, <1>7, <1>8, <1>10 DEF XInv

\* A state that is given up is in no map.
LEMMA PruneKeeps ==
  ASSUME XInv, NEW p \in Processes, NEW o \in Owners, NEW g \in States, PruneState(p, o, g)
  PROVE  XInv'
<1>1. /\ pending' = [pending EXCEPT ![p][o] = @ \ {g}]
      /\ UNCHANGED <<storedOnly, begunBy, env, xVars, storeVars, lost, pc, call>>
  BY DEF PruneState
<1>2. pending \in [Processes -> [Owners -> SUBSET States]]
  BY DEF XInv, TypeOK
<1>3. \A r \in Processes, u \in Owners : pending'[r][u] \subseteq pending[r][u]
  BY <1>1, <1>2
<1>4. TypeOK'
  BY <1>1, <1>2 DEF XInv, TypeOK
<1>5. /\ TokensOfOwner' /\ AuthorizationKept' /\ PairsIssued' /\ HoldersNewest'
  BY <1>1 DEF XInv, TokensOfOwner, AuthorizationKept, OwnPair, IsNewest, HoldersNewest,
              Holding, Private, PairsIssued
<1>6. GrantsHeld'
  BY <1>1, <1>3 DEF XInv, GrantsHeld, Belongs
<1>7. StatesOnce'
  BY <1>1, <1>3 DEF XInv, StatesOnce, NotPending, Exchanging
<1> QED
  BY <1>4, <1>5, <1>6, <1>7 DEF XInv

-----------------------------------------------------------------------------
\* Calls begin.

\* A call that begins with a pair of its owner's grant, which X has issued and nobody
\* holds a newer one of.
LEMMA CallBegins ==
  ASSUME XInv, NEW c \in Calls, pc[c] = "idle", NEW v \in Call, NEW step \in {"exchange", "rotate"},
         pc' = [pc EXCEPT ![c] = step], call' = [call EXCEPT ![c] = v],
         UNCHANGED <<storedOnly, begunBy, env, xVars, storeVars, lost>>,
         pending' \in [Processes -> [Owners -> SUBSET States]],
         \A p \in Processes, o \in Owners : pending'[p][o] \subseteq pending[p][o],
         Belongs(v.owner, v.pair.grant),
         v.kind = "env" => ~storedOnly /\ v.pair.grant = Configured,
         step = "exchange" => /\ v.pair.grant \in States /\ v.pair.n = 1
                              /\ redeemed[v.pair.grant] = 0
                              /\ NotPending(v.pair.grant)'
                              /\ \A d \in Calls : ~Exchanging(d, v.pair.grant),
         step = "rotate" =>
           /\ v.pair.n <= newest[v.pair.grant]
           /\ \A d \in Calls :
                /\ Holding(d) /\ call[d].pair.grant = v.pair.grant
                /\ Private(v.pair.grant) /\ v.pair.grant \notin lost
                => ~IsNewest(v.pair)
  PROVE  XInv'
<1>1. /\ pc' \in [Calls -> Steps] /\ call' \in [Calls -> Call \cup {None}]
      /\ \A d \in Calls : pc'[d] # "idle" => call'[d] \in Call
      /\ pc'[c] = step /\ call'[c] = v
      /\ \A d \in Calls \ {c} : pc'[d] = pc[d] /\ call'[d] = call[d]
  BY OneCall DEF XInv, Steps
<1>2. \A d \in Calls : Holding(d)' => d # c /\ Holding(d)
  BY <1>1 DEF Holding
<1>3. \A d \in Calls : Holding(d) => d # c
  BY DEF Holding
<1>4. TypeOK'
  BY <1>1 DEF XInv, TypeOK
<1>5. TokensOfOwner'
  BY DEF XInv, TokensOfOwner
<1>6. GrantsHeld'
  BY <1>1 DEF XInv, GrantsHeld, Belongs
<1>7. StatesOnce'
  <2> SUFFICES ASSUME NEW g \in States
               PROVE  /\ redeemed[g] <= 1
                      /\ begunBy[g] = None => redeemed[g] = 0
                      /\ redeemed[g] = 1 =>
                           NotPending(g)' /\ \A d \in Calls : ~Exchanging(d, g)'
                      /\ \A d \in Calls : Exchanging(d, g)' =>
                           NotPending(g)' /\ \A e \in Calls : Exchanging(e, g)' => d = e
                      /\ \A p, q \in Processes, o \in Owners :
                           g \in pending'[p][o] /\ g \in pending'[q][o] => p = q
    BY DEF StatesOnce
  <2>1. NotPending(g) => NotPending(g)'
    BY DEF NotPending
  <2>2. \A d \in Calls \ {c} : Exchanging(d, g)' <=> Exchanging(d, g)
    BY <1>1 DEF Exchanging
  <2>3. Exchanging(c, g)' => /\ redeemed[g] = 0 /\ NotPending(g)'
                             /\ \A d \in Calls : ~Exchanging(d, g)
    BY <1>1 DEF Exchanging
  <2> QED
    BY <2>1, <2>2, <2>3 DEF XInv, StatesOnce
<1>8. PairsIssued'
  <2>1. ASSUME NEW d \in Calls, pc'[d] \in {"rotate", "verify", "save"}
        PROVE  call'[d].pair.n <= newest[call'[d].pair.grant]
    <3>1. CASE d = c
      BY <1>1, <2>1, <3>1
    <3>2. CASE d # c
      BY <1>1, <2>1, <3>2 DEF XInv, PairsIssued
    <3> QED
      BY <3>1, <3>2
  <2>2. ASSUME NEW d \in Calls, Holding(d)', call'[d].pair.grant = Configured
        PROVE  call'[d].pair.n >= 2
    BY <1>1, <1>2, <2>2 DEF XInv, PairsIssued
  <2> QED
    BY <2>1, <2>2 DEF XInv, PairsIssued
<1>9. HoldersNewest'
  <2> SUFFICES ASSUME NEW d \in Calls, Holding(d)', Private(call[d].pair.grant)',
                      call'[d].pair.grant \notin lost'
               PROVE  /\ IsNewest(call[d].pair)'
                      /\ \A e \in Calls : pc'[e] = "rotate" /\ call'[e].pair.grant = call'[d].pair.grant
                           => ~IsNewest(call[e].pair)'
                      /\ \A o \in expiring' :
                           stored'[o] # None /\ stored'[o].grant = call'[d].pair.grant
                             => ~IsNewest(stored[o])'
    BY DEF HoldersNewest
  <2>1. Holding(d) /\ d # c /\ call'[d] = call[d] /\ Private(call[d].pair.grant)
    BY <1>1, <1>2 DEF Private
  <2>2. /\ IsNewest(call[d].pair)
        /\ \A e \in Calls : pc[e] = "rotate" /\ call[e].pair.grant = call[d].pair.grant
             => ~IsNewest(call[e].pair)
        /\ \A o \in expiring : stored[o] # None /\ stored[o].grant = call[d].pair.grant
                                 => ~IsNewest(stored[o])
    BY <2>1 DEF XInv, HoldersNewest
  <2>3. ASSUME NEW e \in Calls, pc'[e] = "rotate", call'[e].pair.grant = call[d].pair.grant
        PROVE  ~IsNewest(call[e].pair)'
    <3>1. CASE e = c
      BY <1>1, <2>1, <2>3, <3>1 DEF IsNewest
    <3>2. CASE e # c
      BY <1>1, <2>2, <2>3, <3>2 DEF IsNewest
    <3> QED
      BY <3>1, <3>2
  <2> QED
    BY <2>1, <2>2, <2>3 DEF IsNewest
<1>10. AuthorizationKept'
  <2> SUFFICES ASSUME NEW o \in Owners, OwnPair(o), stored[o].grant \notin lost,
                      ~IsNewest(stored[o])
               PROVE  \E d \in Calls :
                        /\ pc'[d] \in {"verify", "save"} /\ call'[d].owner = o
                        /\ call'[d].pair.grant = stored[o].grant /\ IsNewest(call[d].pair)'
    BY DEF AuthorizationKept, OwnPair, IsNewest
  <2>1. PICK d \in Calls : /\ pc[d] \in {"verify", "save"} /\ call[d].owner = o
                           /\ call[d].pair.grant = stored[o].grant /\ IsNewest(call[d].pair)
    BY DEF XInv, AuthorizationKept
  <2>2. call'[d] = call[d] /\ pc'[d] = pc[d]
    BY <1>1, <2>1
  <2> QED
    BY <2>1, <2>2 DEF IsNewest
<1> QED
  BY <1>4, <1>5, <1>6, <1>7, <1>8, <1>9, <1>10 DEF XInv

\* A callback takes the state out of the only map that has it.
LEMMA CallbackKeeps ==
  ASSUME XInv, NEW c \in Calls, NEW p \in Processes, NEW g \in States, Callback(c, p, g)
  PROVE  XInv'
<1>1. PICK o \in Owners :
        /\ g \in pending[p][o]
        /\ Begin(c, "authorize", p, o, FirstPair(g), "exchange")
        /\ pending' = [pending EXCEPT ![p][o] = @ \ {g}]
  BY DEF Callback
<1> DEFINE v == [kind |-> "authorize", at |-> p, owner |-> o, pair |-> FirstPair(g),
                 verified |-> FALSE]
<1>2. /\ pc[c] = "idle" /\ pc' = [pc EXCEPT ![c] = "exchange"]
      /\ call' = [call EXCEPT ![c] = v]
      /\ UNCHANGED <<storedOnly, begunBy, env, xVars, storeVars, lost>>
  BY <1>1 DEF Begin, Goto, Callback
<1>3. FirstPair(g) \in Pairs /\ FirstPair(g).grant = g /\ FirstPair(g).n = 1
  BY FirstTyped DEF Grants
<1>4. /\ v \in Call /\ v.owner = o /\ v.kind = "authorize"
      /\ v.pair.grant = g /\ v.pair.n = 1
  BY <1>3 DEF Call, Kinds
<1>5. pending \in [Processes -> [Owners -> SUBSET States]]
  BY DEF XInv, TypeOK
<1>6. /\ pending' \in [Processes -> [Owners -> SUBSET States]]
      /\ \A r \in Processes, u \in Owners : \A h :
           h \in pending'[r][u] <=> h \in pending[r][u] /\ ~(r = p /\ u = o /\ h = g)
  BY <1>1, <1>5
<1>7. Belongs(v.owner, v.pair.grant)
  BY <1>1, <1>4 DEF XInv, GrantsHeld, Belongs
<1>8. NotPending(g)'
  <2> SUFFICES ASSUME NEW r \in Processes, NEW u \in Owners, g \in pending'[r][u]
               PROVE  FALSE
    BY DEF NotPending
  <2>1. g \in pending[r][u] /\ ~(r = p /\ u = o)
    BY <1>6
  <2>2. u = o
    BY <1>1, <2>1 DEF XInv, GrantsHeld
  <2>3. r = p
    BY <1>1, <2>1, <2>2 DEF XInv, StatesOnce
  <2> QED
    BY <2>1, <2>2, <2>3
<1>9. redeemed[g] = 0 /\ \A d \in Calls : ~Exchanging(d, g)
  <2>1. ~NotPending(g)
    BY <1>1 DEF NotPending
  <2>2. redeemed[g] \in Nat /\ redeemed[g] <= 1 /\ redeemed[g] # 1
    BY <2>1 DEF XInv, TypeOK, StatesOnce
  <2> QED
    BY <2>1, <2>2 DEF XInv, StatesOnce
<1>10. \A r \in Processes, u \in Owners : pending'[r][u] \subseteq pending[r][u]
  BY <1>6
<1> HIDE DEF v
<1> QED
  BY <1>2, <1>4, <1>6, <1>7, <1>8, <1>9, <1>10, CallBegins

\* The pair of the row: whoever holds a newer one has replaced it at X.
LEMMA UseStoredKeeps ==
  ASSUME XInv, NEW c \in Calls, NEW p \in Processes, NEW o \in Owners, UseStored(c, p, o)
  PROVE  XInv'
<1> DEFINE v == [kind |-> "stored", at |-> p, owner |-> o, pair |-> stored[o],
                 verified |-> FALSE]
<1>1. /\ stored[o] # None /\ o \in expiring
      /\ pc[c] = "idle" /\ pc' = [pc EXCEPT ![c] = "rotate"]
      /\ call' = [call EXCEPT ![c] = v]
      /\ UNCHANGED <<storedOnly, begunBy, pending, env, xVars, storeVars, lost>>
  BY DEF UseStored, Begin, Goto
<1>2. stored[o] \in Pairs
  BY <1>1 DEF XInv, TypeOK
<1>3. v \in Call /\ v.owner = o /\ v.kind = "stored" /\ v.pair = stored[o]
  BY <1>2 DEF Call, Kinds
<1>4. Belongs(v.owner, v.pair.grant)
  BY <1>1, <1>3 DEF XInv, TokensOfOwner, Belongs
<1>5. v.pair.n <= newest[v.pair.grant]
  BY <1>1, <1>3 DEF XInv, PairsIssued
<1>6. \A d \in Calls :
        /\ Holding(d) /\ call[d].pair.grant = v.pair.grant
        /\ Private(v.pair.grant) /\ v.pair.grant \notin lost
        => ~IsNewest(v.pair)
  BY <1>1, <1>3 DEF XInv, HoldersNewest
<1>7. /\ pending' \in [Processes -> [Owners -> SUBSET States]]
      /\ \A r \in Processes, u \in Owners : pending'[r][u] \subseteq pending[r][u]
  BY <1>1 DEF XInv, TypeOK
<1> HIDE DEF v
<1> QED
  BY <1>1, <1>3, <1>4, <1>5, <1>6, <1>7, CallBegins

\* The pair of the environment, where that is allowed, is not private.
LEMMA UseEnvironmentKeeps ==
  ASSUME XInv, NEW c \in Calls, NEW p \in Processes, NEW o \in Owners,
         UseEnvironment(c, p, o)
  PROVE  XInv'
<1> DEFINE v == [kind |-> "env", at |-> p, owner |-> o, pair |-> env[p], verified |-> FALSE]
<1>1. /\ ~storedOnly
      /\ pc[c] = "idle" /\ pc' = [pc EXCEPT ![c] = "rotate"]
      /\ call' = [call EXCEPT ![c] = v]
      /\ UNCHANGED <<storedOnly, begunBy, pending, env, xVars, storeVars, lost>>
  BY DEF UseEnvironment, Begin, Goto
<1>2. env[p] \in Pairs /\ env[p].grant = Configured
  BY DEF XInv, TypeOK, GrantsHeld
<1>3. v \in Call /\ v.owner = o /\ v.kind = "env" /\ v.pair = env[p]
  BY <1>2 DEF Call, Kinds
<1>4. Belongs(v.owner, v.pair.grant) /\ ~Private(v.pair.grant)
  BY <1>1, <1>2, <1>3, ConfiguredAssumption DEF Belongs, Private
<1>5. v.pair.n <= newest[v.pair.grant]
  BY <1>2, <1>3 DEF XInv, PairsIssued
<1>6. /\ pending' \in [Processes -> [Owners -> SUBSET States]]
      /\ \A r \in Processes, u \in Owners : pending'[r][u] \subseteq pending[r][u]
  BY <1>1 DEF XInv, TypeOK
<1> HIDE DEF v
<1> QED
  BY <1>1, <1>2, <1>3, <1>4, <1>5, <1>6, CallBegins

\* The pair given to an import is the first; a call holds none but a rotated one.
LEMMA ImportKeeps ==
  ASSUME XInv, NEW c \in Calls, NEW p \in Processes, Import(c, p)
  PROVE  XInv'
<1> DEFINE v == [kind |-> "import", at |-> p, owner |-> PublicOwner,
                 pair |-> FirstPair(Configured), verified |-> FALSE]
<1>1. /\ pc[c] = "idle" /\ pc' = [pc EXCEPT ![c] = "rotate"]
      /\ call' = [call EXCEPT ![c] = v]
      /\ UNCHANGED <<storedOnly, begunBy, pending, env, xVars, storeVars, lost>>
  BY DEF Import, Begin, Goto
<1>2. /\ FirstPair(Configured) \in Pairs /\ FirstPair(Configured).grant = Configured
      /\ FirstPair(Configured).n = 1
  BY FirstTyped DEF Grants
<1>3. /\ v \in Call /\ v.owner = PublicOwner /\ v.kind = "import"
      /\ v.pair \in Pairs /\ v.pair.grant = Configured /\ v.pair.n = 1
  BY <1>2, OwnersAssumption DEF Call, Kinds
<1>4. Belongs(v.owner, v.pair.grant)
  BY <1>3, ConfiguredAssumption DEF Belongs
<1>5. newest[Configured] \in Nat /\ v.pair.n <= newest[v.pair.grant]
  BY <1>3, PairsAssumption DEF XInv, TypeOK, PairsIssued, Grants
<1>6. ASSUME NEW d \in Calls, Holding(d), call[d].pair.grant = Configured,
             Private(Configured), Configured \notin lost
      PROVE  ~IsNewest(v.pair)
  <2>1. IsNewest(call[d].pair) /\ call[d].pair.n >= 2
    BY <1>6 DEF XInv, HoldersNewest, PairsIssued
  <2> QED
    BY <1>3, <1>5, <1>6, <2>1 DEF IsNewest
<1>7. /\ pending' \in [Processes -> [Owners -> SUBSET States]]
      /\ \A r \in Processes, u \in Owners : pending'[r][u] \subseteq pending[r][u]
  BY <1>1 DEF XInv, TypeOK
<1> HIDE DEF v
<1> QED
  BY <1>1, <1>3, <1>4, <1>5, <1>6, <1>7, CallBegins

-----------------------------------------------------------------------------
\* Calls end without a save.

\* Calls are given up: what only they held is lost, and nothing else becomes newest
\* but under a grant that is lost.
LEMMA CallsDropped ==
  ASSUME XInv, NEW cs \in SUBSET Calls,
         pc' \in [Calls -> Steps], call' \in [Calls -> Call \cup {None}],
         \A d \in Calls : pc'[d] = IF d \in cs THEN "idle" ELSE pc[d],
         \A d \in Calls \ cs : call'[d] = call[d],
         UNCHANGED <<storedOnly, begunBy, redeemed, stored, expiring>>,
         newest' \in [Grants -> 0 .. LastPair],
         \A g \in Grants : newest[g] <= newest'[g] /\ (g \in lost' \/ newest'[g] = newest[g]),
         env' \in [Processes -> Pairs],
         \A p \in Processes : env'[p] \in {env[p], FirstPair(Configured)},
         pending' \in [Processes -> [Owners -> SUBSET States]],
         \A p \in Processes, o \in Owners : pending'[p][o] \subseteq pending[p][o],
         lost \subseteq lost', lost' \in SUBSET Grants,
         \A c \in cs :
           /\ Holding(c) /\ IsNewest(call[c].pair)
           /\ Private(call[c].pair.grant) /\ call[c].pair.grant \notin lost'
           => \/ \E o \in Owners : stored[o] = call[c].pair
              \/ \E d \in Calls \ cs : Holding(d) /\ call[d].pair = call[c].pair
  PROVE  XInv'
<1>1. \A d \in Calls : pc'[d] # "idle" =>
        d \notin cs /\ pc'[d] = pc[d] /\ call'[d] = call[d] /\ call[d] \in Call
  BY DEF XInv, TypeOK
<1>2. \A d \in Calls : Holding(d)' => pc'[d] # "idle" /\ Holding(d)
  BY <1>1 DEF Holding
<1>3. \A d \in Calls : pc[d] # "idle" => call[d].pair.grant \in Grants
  BY CallTyped DEF XInv
<1>4. FirstPair(Configured).grant = Configured /\ FirstPair(Configured).n = 1
  BY FirstTyped DEF Grants
<1>5. TypeOK'
  BY <1>1 DEF XInv, TypeOK
<1>6. TokensOfOwner'
  BY DEF XInv, TokensOfOwner
<1>7. GrantsHeld'
  <2>1. \A p \in Processes, o \in Owners : \A g \in pending'[p][o] : begunBy'[g] = o
    BY DEF XInv, GrantsHeld
  <2>2. \A c \in Calls : pc'[c] # "idle" =>
          /\ Belongs(call[c].owner, call[c].pair.grant)'
          /\ call'[c].kind = "env" => ~storedOnly' /\ call'[c].pair.grant = Configured
    BY <1>1 DEF XInv, GrantsHeld, Belongs
  <2>3. \A c \in Calls : pc'[c] = "exchange" =>
          call'[c].pair.grant \in States /\ call'[c].pair.n = 1
    BY <1>1 DEF XInv, GrantsHeld
  <2>4. \A p \in Processes : env'[p].grant = Configured /\ (storedOnly' => env'[p].n = 1)
    BY <1>4 DEF XInv, GrantsHeld
  <2> QED
    BY <2>1, <2>2, <2>3, <2>4 DEF GrantsHeld
<1>8. StatesOnce'
  <2>1. \A g \in States : NotPending(g) => NotPending(g)'
    BY DEF NotPending
  <2>2. \A g \in States, d \in Calls : Exchanging(d, g)' => Exchanging(d, g)
    BY <1>1 DEF Exchanging
  <2>3. \A g \in States : \A p, q \in Processes, o \in Owners :
          g \in pending'[p][o] /\ g \in pending'[q][o] => p = q
    BY DEF XInv, StatesOnce
  <2> QED
    BY <2>1, <2>2, <2>3 DEF XInv, StatesOnce
<1>9. newest \in [Grants -> 0 .. LastPair] /\ Configured \in Grants
  BY DEF XInv, TypeOK, Grants
<1>10. \A o \in Owners : stored[o] # None =>
         stored[o] \in Pairs /\ stored[o].grant \in Grants /\ stored[o].n \in 1 .. LastPair
  BY PairTyped DEF XInv, TypeOK
<1>11. \A g \in Grants : g \notin lost' => newest'[g] = newest[g]
  OBVIOUS
<1>12. PairsIssued'
  <2>1. newest'[Configured] >= 1
    BY <1>9, PairsAssumption DEF XInv, PairsIssued
  <2>2. \A o \in Owners : stored[o] # None => stored[o].n <= newest'[stored[o].grant]
    BY <1>9, <1>10, PairsAssumption DEF XInv, PairsIssued
  <2>3. ASSUME NEW d \in Calls, pc'[d] \in {"rotate", "verify", "save"}
        PROVE  call'[d].pair.n <= newest'[call'[d].pair.grant]
    <3>1. /\ call'[d] = call[d] /\ pc[d] \in {"rotate", "verify", "save"}
          /\ pc[d] # "idle"
      BY <1>1, <2>3
    <3>2. call[d].pair.n \in 1 .. LastPair /\ call[d].pair.grant \in Grants
      BY <3>1, CallTyped DEF XInv
    <3>3. call[d].pair.n <= newest[call[d].pair.grant]
      BY <3>1 DEF XInv, PairsIssued
    <3> QED
      BY <1>9, <3>1, <3>2, <3>3, PairsAssumption
  <2>4. ASSUME NEW p \in Processes
        PROVE  env'[p].n <= newest'[Configured]
    <3>1. env[p].n \in 1 .. LastPair /\ env[p].n <= newest[Configured]
      BY PairTyped DEF XInv, TypeOK, PairsIssued
    <3> QED
      BY <1>4, <1>9, <2>1, <3>1, PairsAssumption
  <2>5. ASSUME NEW d \in Calls, Holding(d)', call'[d].pair.grant = Configured
        PROVE  call'[d].pair.n >= 2
    BY <1>1, <1>2, <2>5 DEF XInv, PairsIssued
  <2> QED
    BY <2>1, <2>2, <2>3, <2>4, <2>5 DEF PairsIssued
<1>13. HoldersNewest'
  <2> SUFFICES ASSUME NEW d \in Calls, Holding(d)', Private(call[d].pair.grant)',
                      call'[d].pair.grant \notin lost'
               PROVE  /\ IsNewest(call[d].pair)'
                      /\ \A e \in Calls : pc'[e] = "rotate" /\ call'[e].pair.grant = call'[d].pair.grant
                           => ~IsNewest(call[e].pair)'
                      /\ \A o \in expiring' :
                           stored'[o] # None /\ stored'[o].grant = call'[d].pair.grant
                             => ~IsNewest(stored[o])'
    BY DEF HoldersNewest
  <2> DEFINE g == call[d].pair.grant
  <2>1. /\ Holding(d) /\ call'[d] = call[d] /\ Private(g) /\ g \notin lost
        /\ g \in Grants /\ newest'[g] = newest[g]
    BY <1>1, <1>2, <1>3 DEF Private
  <2>2. /\ IsNewest(call[d].pair)
        /\ \A e \in Calls : pc[e] = "rotate" /\ call[e].pair.grant = g => ~IsNewest(call[e].pair)
        /\ \A o \in expiring : stored[o] # None /\ stored[o].grant = g => ~IsNewest(stored[o])
    BY <2>1 DEF XInv, HoldersNewest
  <2> HIDE DEF g
  <2>3. call[d].pair.grant = g
    BY DEF g
  <2> QED
    BY <1>1, <2>1, <2>2, <2>3 DEF IsNewest
<1>14. AuthorizationKept'
  <2> SUFFICES ASSUME NEW o \in Owners, OwnPair(o), stored[o].grant \notin lost',
                      ~IsNewest(stored[o])
               PROVE  \E d \in Calls :
                        /\ pc'[d] \in {"verify", "save"} /\ call'[d].owner = o
                        /\ call'[d].pair.grant = stored[o].grant /\ IsNewest(call[d].pair)'
    BY <1>10, <1>11 DEF AuthorizationKept, OwnPair, IsNewest
  <2> DEFINE g == stored[o].grant
  <2>1. /\ g \in Grants /\ Private(g) /\ Belongs(o, g) /\ g \notin lost /\ newest'[g] = newest[g]
    BY <1>10 DEF OwnPair, Private, XInv, TokensOfOwner, Belongs
  <2>2. PICK c \in Calls : /\ Holding(c) /\ call[c].owner = o
                           /\ call[c].pair.grant = g /\ IsNewest(call[c].pair)
    BY <2>1 DEF XInv, AuthorizationKept, Holding
  <2>3. ASSUME NEW d \in Calls \ cs, Holding(d), call[d].pair = call[c].pair
        PROVE  /\ pc'[d] \in {"verify", "save"} /\ call'[d].owner = o
               /\ call'[d].pair.grant = stored[o].grant /\ IsNewest(call[d].pair)'
    <3>1. Belongs(call[d].owner, g)
      BY <2>2, <2>3 DEF XInv, GrantsHeld, Holding
    <3>2. call[d].owner = o
      BY <2>1, <3>1, OneOwner
    <3> QED
      BY <2>1, <2>2, <2>3, <3>2 DEF Holding, IsNewest
  <2>4. CASE c \notin cs
    BY <2>2, <2>3, <2>4
  <2>5. CASE \E d \in Calls \ cs : Holding(d) /\ call[d].pair = call[c].pair
    BY <2>3, <2>5
  <2>6. ASSUME NEW u \in Owners, stored[u] = call[c].pair
        PROVE  FALSE
    <3>1. stored[u] # None
      BY <2>2, <2>6, CallTyped, PairTyped DEF XInv, Holding
    <3>2. Belongs(u, g)
      BY <2>2, <2>6, <3>1 DEF XInv, TokensOfOwner, Belongs
    <3>3. u = o
      BY <2>1, <3>2, OneOwner
    <3> QED
      BY <2>2, <2>6, <3>3
  <2> QED
    BY <2>1, <2>2, <2>4, <2>5, <2>6
<1> QED
  BY <1>5, <1>6, <1>7, <1>8, <1>12, <1>13, <1>14 DEF XInv

\* The environment of a process is no place where a private pair is kept: it has the
\* first one of the configured grant, and a call holds only later ones of it.
LEMMA HeldNotInEnvironment ==
  ASSUME XInv, NEW c \in Calls, Holding(c), Private(call[c].pair.grant), NEW p \in Processes
  PROVE  env[p] # call[c].pair
<1> SUFFICES ASSUME env[p] = call[c].pair PROVE FALSE
  OBVIOUS
<1>1. env[p].grant = Configured /\ storedOnly /\ env[p].n = 1
  BY ConfiguredAssumption DEF Private, XInv, GrantsHeld
<1>2. env[p].n >= 2
  BY <1>1 DEF XInv, PairsIssued
<1> QED
  BY <1>1, <1>2

\* The grants under which a step loses the newest pair are grants.
LEMMA UnsavedTyped ==
  ASSUME XInv, NEW cs \in SUBSET Calls, NEW ps \in SUBSET Processes
  PROVE  {q.grant : q \in Unsaved(cs, ps)} \subseteq Grants
<1>1. \A d \in Calls : pc[d] # "idle" => call[d].pair \in Pairs
  BY CallTyped DEF XInv
<1>2. \A q \in Unsaved(cs, ps) : q \in Pairs
  BY <1>1 DEF Unsaved, XInv, TypeOK
<1> QED
  BY <1>2, PairTyped

\* A newest pair that none but these calls hold is counted as lost.
LEMMA DroppedIsLost ==
  ASSUME XInv, NEW cs \in SUBSET Calls, NEW ps \in SUBSET Processes, NEW c \in cs,
         Holding(c), IsNewest(call[c].pair), Private(call[c].pair.grant),
         call[c].pair.grant \notin {q.grant : q \in Unsaved(cs, ps)}
  PROVE  \/ \E o \in Owners : stored[o] = call[c].pair
         \/ \E d \in Calls \ cs : Holding(d) /\ call[d].pair = call[c].pair
<1>1. call[c].pair \notin Unsaved(cs, ps)
  OBVIOUS
<1>2. \A p \in Processes : env[p] # call[c].pair
  BY HeldNotInEnvironment
<1> QED
  BY <1>1, <1>2 DEF Unsaved, Holds, Holding

\* A call ends before X has answered, or with X's refusal.
LEMMA RejectedKeeps ==
  ASSUME XInv, NEW c \in Calls, RotateRejected(c) \/ RotateUnanswered(c)
  PROVE  XInv'
<1> DEFINE cs == {c}
<1>0. cs \in SUBSET Calls /\ c \in cs /\ \A d \in cs : d = c
  OBVIOUS
<1>1. /\ pc[c] = "rotate" /\ pc' = [pc EXCEPT ![c] = "idle"]
      /\ call' = [call EXCEPT ![c] = None]
      /\ UNCHANGED <<storedOnly, begunBy, memoryVars, redeemed, storeVars>>
  BY DEF RotateRejected, RotateUnanswered, End, Goto
<1>2. /\ pc \in [Calls -> Steps] /\ call \in [Calls -> Call \cup {None}]
      /\ newest \in [Grants -> 0 .. LastPair] /\ lost \in SUBSET Grants
      /\ env \in [Processes -> Pairs] /\ pending \in [Processes -> [Owners -> SUBSET States]]
  BY DEF XInv, TypeOK
<1>3. call[c].pair.grant \in Grants /\ call[c].pair.n \in 1 .. LastPair
  BY <1>1, CallTyped DEF XInv
<1>4. /\ newest' \in [Grants -> 0 .. LastPair]
      /\ \A g \in Grants : newest[g] <= newest'[g] /\ (g \in lost' \/ newest'[g] = newest[g])
      /\ lost \subseteq lost' /\ lost' \in SUBSET Grants
  <2>1. CASE RotateRejected(c)
    BY <1>2, <2>1, PairsAssumption DEF RotateRejected
  <2>2. CASE RotateUnanswered(c)
    <3>1. /\ call[c].pair.n = newest[call[c].pair.grant] /\ call[c].pair.n < LastPair
          /\ newest' = [newest EXCEPT ![call[c].pair.grant] = call[c].pair.n + 1]
          /\ lost' = lost \cup {call[c].pair.grant}
      BY <2>2 DEF RotateUnanswered, IsNewest
    <3> QED
      BY <1>2, <1>3, <3>1, PairsAssumption
  <2> QED
    BY <2>1, <2>2
<1>5. ~Holding(c)
  BY <1>1 DEF Holding
<1>6. /\ pc' \in [Calls -> Steps] /\ call' \in [Calls -> Call \cup {None}]
      /\ \A d \in Calls : pc'[d] = IF d \in cs THEN "idle" ELSE pc[d]
      /\ \A d \in Calls \ cs : call'[d] = call[d]
  BY <1>1, <1>2 DEF Steps
<1>7. /\ env' \in [Processes -> Pairs]
      /\ \A r \in Processes : env'[r] \in {env[r], FirstPair(Configured)}
      /\ pending' \in [Processes -> [Owners -> SUBSET States]]
      /\ \A r \in Processes, o \in Owners : pending'[r][o] \subseteq pending[r][o]
  BY <1>1, <1>2
<1>8. \A d \in cs : ~Holding(d)
  BY <1>5
<1> HIDE DEF cs
<1> QED
  BY <1>0, <1>1, <1>4, <1>6, <1>7, <1>8, CallsDropped

\* A call fails.
LEMMA FailKeeps ==
  ASSUME XInv, NEW c \in Calls, Fail(c)
  PROVE  XInv'
<1> DEFINE cs == {c}
<1>0. cs \in SUBSET Calls /\ c \in cs /\ \A d \in cs : d = c
  OBVIOUS
<1>1. /\ pc' = [pc EXCEPT ![c] = "idle"] /\ call' = [call EXCEPT ![c] = None]
      /\ lost' = lost \cup {q.grant : q \in Unsaved(cs, {})}
      /\ UNCHANGED <<storedOnly, begunBy, memoryVars, xVars, storeVars>>
  BY DEF Fail, End, Goto
<1>2. /\ pc \in [Calls -> Steps] /\ call \in [Calls -> Call \cup {None}]
      /\ newest \in [Grants -> 0 .. LastPair] /\ lost \in SUBSET Grants
      /\ env \in [Processes -> Pairs] /\ pending \in [Processes -> [Owners -> SUBSET States]]
  BY DEF XInv, TypeOK
<1>3. lost \subseteq lost' /\ lost' \in SUBSET Grants
  BY <1>1, <1>2, UnsavedTyped
<1>4. /\ newest' \in [Grants -> 0 .. LastPair]
      /\ \A g \in Grants : newest[g] <= newest'[g] /\ (g \in lost' \/ newest'[g] = newest[g])
  BY <1>1, <1>2, PairsAssumption
<1>5. /\ pc' \in [Calls -> Steps] /\ call' \in [Calls -> Call \cup {None}]
      /\ \A d \in Calls : pc'[d] = IF d \in cs THEN "idle" ELSE pc[d]
      /\ \A d \in Calls \ cs : call'[d] = call[d]
  BY <1>1, <1>2 DEF Steps
<1>6. Holding(c) /\ IsNewest(call[c].pair) /\ Private(call[c].pair.grant)
      /\ call[c].pair.grant \notin lost'
      => \/ \E o \in Owners : stored[o] = call[c].pair
         \/ \E d \in Calls \ cs : Holding(d) /\ call[d].pair = call[c].pair
  BY <1>1, DroppedIsLost
<1>7. /\ env' \in [Processes -> Pairs]
      /\ \A r \in Processes : env'[r] \in {env[r], FirstPair(Configured)}
      /\ pending' \in [Processes -> [Owners -> SUBSET States]]
      /\ \A r \in Processes, o \in Owners : pending'[r][o] \subseteq pending[r][o]
  BY <1>1, <1>2
<1>8. \A d \in cs :
        Holding(d) /\ IsNewest(call[d].pair) /\ Private(call[d].pair.grant)
        /\ call[d].pair.grant \notin lost'
        => \/ \E o \in Owners : stored[o] = call[d].pair
           \/ \E e \in Calls \ cs : Holding(e) /\ call[e].pair = call[d].pair
  BY <1>6
<1> HIDE DEF cs
<1> QED
  BY <1>0, <1>1, <1>3, <1>4, <1>5, <1>7, <1>8, CallsDropped

\* A process starts again: its calls and its maps are gone.
LEMMA RestartKeeps ==
  ASSUME XInv, NEW p \in Processes, Restart(p)
  PROVE  XInv'
<1> DEFINE cs == {c \in Calls : pc[c] # "idle" /\ call[c].at = p}
<1>1. /\ lost' = lost \cup {q.grant : q \in Unsaved(cs, {p})}
      /\ pc' = [c \in Calls |-> IF c \in cs THEN "idle" ELSE pc[c]]
      /\ call' = [c \in Calls |-> IF c \in cs THEN None ELSE call[c]]
      /\ pending' = [pending EXCEPT ![p] = [o \in Owners |-> {}]]
      /\ env' = [env EXCEPT ![p] = FirstPair(Configured)]
      /\ UNCHANGED <<storedOnly, begunBy, xVars, storeVars>>
  BY DEF Restart
<1>2. cs \in SUBSET Calls
  OBVIOUS
<1> HIDE DEF cs
<1>3. /\ pc \in [Calls -> Steps] /\ call \in [Calls -> Call \cup {None}]
      /\ newest \in [Grants -> 0 .. LastPair] /\ lost \in SUBSET Grants
      /\ env \in [Processes -> Pairs] /\ pending \in [Processes -> [Owners -> SUBSET States]]
  BY DEF XInv, TypeOK
<1>4. lost \subseteq lost' /\ lost' \in SUBSET Grants
  BY <1>1, <1>2, <1>3, UnsavedTyped
<1>5. /\ newest' \in [Grants -> 0 .. LastPair]
      /\ \A g \in Grants : newest[g] <= newest'[g] /\ (g \in lost' \/ newest'[g] = newest[g])
  BY <1>1, <1>3, PairsAssumption
<1>6. /\ pc' \in [Calls -> Steps] /\ call' \in [Calls -> Call \cup {None}]
      /\ \A d \in Calls : pc'[d] = IF d \in cs THEN "idle" ELSE pc[d]
      /\ \A d \in Calls \ cs : call'[d] = call[d]
  BY <1>1, <1>3 DEF Steps
<1>7. FirstPair(Configured) \in Pairs
  BY FirstTyped DEF Grants
<1>8. /\ env' \in [Processes -> Pairs]
      /\ \A r \in Processes : env'[r] \in {env[r], FirstPair(Configured)}
  BY <1>1, <1>3, <1>7
<1>9. /\ pending' \in [Processes -> [Owners -> SUBSET States]]
      /\ \A r \in Processes, o \in Owners : pending'[r][o] \subseteq pending[r][o]
  BY <1>1, <1>3
<1>10. \A c \in cs :
         /\ Holding(c) /\ IsNewest(call[c].pair)
         /\ Private(call[c].pair.grant) /\ call[c].pair.grant \notin lost'
         => \/ \E o \in Owners : stored[o] = call[c].pair
            \/ \E d \in Calls \ cs : Holding(d) /\ call[d].pair = call[c].pair
  BY <1>1, <1>2, DroppedIsLost
<1> QED
  BY <1>1, <1>2, <1>4, <1>5, <1>6, <1>8, <1>9, <1>10, CallsDropped

-----------------------------------------------------------------------------
\* Calls go on.

\* The profile is checked: the call holds what it held.
LEMMA VerifyKeeps ==
  ASSUME XInv, NEW c \in Calls, Verify(c)
  PROVE  XInv'
<1> DEFINE v == [call[c] EXCEPT !.verified = TRUE]
<1>1. /\ pc[c] = "verify" /\ pc' = [pc EXCEPT ![c] = "save"]
      /\ call' = [call EXCEPT ![c].verified = TRUE]
      /\ UNCHANGED <<storedOnly, begunBy, memoryVars, xVars, storeVars, lost>>
  BY DEF Verify, Goto
<1>2. call[c] \in Call
  BY <1>1, CallTyped DEF XInv
<1>3. /\ v \in Call /\ v.owner = call[c].owner /\ v.pair = call[c].pair
      /\ v.kind = call[c].kind
  BY <1>2 DEF Call
<1>4. call' = [call EXCEPT ![c] = v]
  BY <1>1
<1> HIDE DEF v
<1>5. /\ pc' \in [Calls -> Steps] /\ call' \in [Calls -> Call \cup {None}]
      /\ \A d \in Calls : pc'[d] # "idle" => call'[d] \in Call
      /\ pc'[c] = "save" /\ call'[c] = v
      /\ \A d \in Calls \ {c} : pc'[d] = pc[d] /\ call'[d] = call[d]
  BY <1>1, <1>3, <1>4, OneCall DEF XInv, Steps
<1>6. \A d \in Calls :
        /\ call'[d].pair = call[d].pair /\ call'[d].owner = call[d].owner
        /\ call'[d].kind = call[d].kind
        /\ pc'[d] # pc[d] => d = c /\ Holding(d) /\ Holding(d)'
  BY <1>1, <1>3, <1>5 DEF Holding
<1>7. TypeOK'
  BY <1>1, <1>5 DEF XInv, TypeOK
<1>8. \A d \in Calls : /\ Holding(d)' <=> Holding(d)
                       /\ pc'[d] = "rotate" <=> pc[d] = "rotate"
                       /\ pc'[d] = "exchange" <=> pc[d] = "exchange"
                       /\ pc'[d] # "idle" => pc[d] # "idle"
  BY <1>1, <1>5 DEF Holding
<1>9. TokensOfOwner'
  BY <1>1 DEF XInv, TokensOfOwner
<1>10. GrantsHeld'
  BY <1>1, <1>6, <1>8 DEF XInv, GrantsHeld, Belongs
<1>11. StatesOnce'
  BY <1>1, <1>6, <1>8 DEF XInv, StatesOnce, NotPending, Exchanging
<1>12. PairsIssued'
  <2>1. \A d \in Calls : pc'[d] \in {"rotate", "verify", "save"} =>
          pc[d] \in {"rotate", "verify", "save"}
    BY <1>8 DEF Holding
  <2> QED
    BY <1>1, <1>6, <1>8, <2>1 DEF XInv, PairsIssued
<1>13. HoldersNewest'
  BY <1>1, <1>6, <1>8 DEF XInv, HoldersNewest, Private, IsNewest
<1>14. AuthorizationKept'
  BY <1>1, <1>6, <1>8 DEF XInv, AuthorizationKept, OwnPair, IsNewest, Holding
<1> QED
  BY <1>7, <1>9, <1>10, <1>11, <1>12, <1>13, <1>14 DEF XInv

\* X issues the first pair of a grant, or refuses a code that was used.
LEMMA ExchangeKeeps ==
  ASSUME XInv, NEW c \in Calls, Exchange(c)
  PROVE  XInv'
<1> DEFINE g == call[c].pair.grant
<1>1. /\ pc[c] = "exchange" /\ redeemed' = [redeemed EXCEPT ![g] = @ + 1]
      /\ UNCHANGED <<storedOnly, begunBy, memoryVars, storeVars, lost>>
      /\ \/ /\ newest[g] = 0 /\ newest' = [newest EXCEPT ![g] = 1]
            /\ pc' = [pc EXCEPT ![c] = "verify"] /\ call' = call
         \/ /\ newest[g] # 0 /\ newest' = newest
            /\ pc' = [pc EXCEPT ![c] = "idle"] /\ call' = [call EXCEPT ![c] = None]
  BY DEF Exchange, End, Goto
<1>2. /\ redeemed \in [States -> Nat] /\ newest \in [Grants -> 0 .. LastPair]
      /\ pc \in [Calls -> Steps] /\ call \in [Calls -> Call \cup {None}]
  BY DEF XInv, TypeOK
<1>3. /\ call[c] \in Call /\ call[c].owner \in Owners /\ g \in States /\ g \in Grants
      /\ g # Configured /\ call[c].pair.n = 1 /\ Belongs(call[c].owner, g)
  BY <1>1, CallTyped, ConfiguredAssumption DEF XInv, GrantsHeld
<1>4. Exchanging(c, g)
  BY <1>1 DEF Exchanging
<1>5. redeemed[g] = 0
  <2>1. redeemed[g] <= 1 /\ redeemed[g] # 1
    BY <1>3, <1>4 DEF XInv, StatesOnce
  <2> QED
    BY <1>2, <1>3, <2>1
<1> HIDE DEF g
<1>6. /\ redeemed'[g] = 1 /\ \A h \in States \ {g} : redeemed'[h] = redeemed[h]
      /\ redeemed' \in [States -> Nat]
  BY <1>1, <1>2, <1>3, <1>5
<1>7. /\ newest' \in [Grants -> 0 .. LastPair]
      /\ \A h \in Grants \ {g} : newest'[h] = newest[h]
  BY <1>1, <1>2, <1>3, PairsAssumption
<1>8. /\ pc' \in [Calls -> Steps] /\ call' \in [Calls -> Call \cup {None}]
      /\ pc'[c] \in {"verify", "idle"}
      /\ pc'[c] = "verify" => call'[c] = call[c] /\ newest[g] = 0 /\ newest'[g] = 1
      /\ pc'[c] = "idle" => newest' = newest
      /\ \A d \in Calls \ {c} : pc'[d] = pc[d] /\ call'[d] = call[d]
  BY <1>1, <1>2, <1>3 DEF Steps
<1>9. TypeOK'
  <2>1. \A d \in Calls : pc'[d] # "idle" => call'[d] \in Call
    BY <1>3, <1>8 DEF XInv, TypeOK
  <2> QED
    BY <1>1, <1>6, <1>7, <1>8, <2>1 DEF XInv, TypeOK
<1>10. \A d \in Calls : pc'[d] # "idle" => /\ pc[d] # "idle" /\ call'[d] = call[d]
                                           /\ d # c => pc'[d] = pc[d]
  BY <1>1, <1>8
<1>11. TokensOfOwner'
  BY <1>1 DEF XInv, TokensOfOwner
<1>12. GrantsHeld'
  <2>1. \A d \in Calls : pc'[d] # "idle" =>
          /\ Belongs(call[d].owner, call[d].pair.grant)'
          /\ call'[d].kind = "env" => ~storedOnly' /\ call'[d].pair.grant = Configured
    BY <1>1, <1>10 DEF XInv, GrantsHeld, Belongs
  <2>2. \A d \in Calls : pc'[d] = "exchange" =>
          call'[d].pair.grant \in States /\ call'[d].pair.n = 1
    BY <1>8, <1>10 DEF XInv, GrantsHeld
  <2> QED
    BY <1>1, <2>1, <2>2 DEF XInv, GrantsHeld
<1>13. StatesOnce'
  <2> SUFFICES ASSUME NEW h \in States
               PROVE  /\ redeemed'[h] <= 1
                      /\ begunBy[h] = None => redeemed'[h] = 0
                      /\ redeemed'[h] = 1 =>
                           NotPending(h) /\ \A d \in Calls : ~Exchanging(d, h)'
                      /\ \A d \in Calls : Exchanging(d, h)' =>
                           NotPending(h) /\ \A e \in Calls : Exchanging(e, h)' => d = e
                      /\ \A p, q \in Processes, o \in Owners :
                           h \in pending[p][o] /\ h \in pending[q][o] => p = q
    BY <1>1 DEF StatesOnce, NotPending
  <2>1. \A d \in Calls : Exchanging(d, h)' => d # c /\ Exchanging(d, h)
    BY <1>8, <1>10 DEF Exchanging
  <2>2. CASE h = g
    <3>1. NotPending(g) /\ \A d \in Calls : Exchanging(d, g) => d = c
      BY <1>3, <1>4 DEF XInv, StatesOnce
    <3>2. begunBy[g] # None
      BY <1>3, NoneAssumption DEF Belongs
    <3>3. \A p, q \in Processes, o \in Owners :
            g \in pending[p][o] /\ g \in pending[q][o] => p = q
      BY <3>1 DEF NotPending
    <3> QED
      BY <1>6, <2>1, <2>2, <3>1, <3>2, <3>3
  <2>3. CASE h # g
    BY <1>6, <2>1, <2>3 DEF XInv, StatesOnce
  <2> QED
    BY <2>2, <2>3
<1>14. newest[g] = 0 =>
         /\ \A o \in Owners : stored[o] # None => stored[o].grant # g
         /\ \A d \in Calls : pc[d] \in {"rotate", "verify", "save"} => call[d].pair.grant # g
  <2>1. \A o \in Owners : stored[o] # None => stored[o].n \in Nat \ {0}
    BY PairTyped DEF XInv, TypeOK
  <2>2. \A d \in Calls : pc[d] # "idle" => call[d].pair.n \in Nat \ {0}
    BY CallTyped DEF XInv
  <2>3. \A n \in Nat \ {0} : ~(n <= 0)
    OBVIOUS
  <2>4. ASSUME newest[g] = 0, NEW o \in Owners, stored[o] # None, stored[o].grant = g
        PROVE  FALSE
    BY <2>1, <2>3, <2>4 DEF XInv, PairsIssued
  <2>5. ASSUME newest[g] = 0, NEW d \in Calls, pc[d] \in {"rotate", "verify", "save"},
               call[d].pair.grant = g
        PROVE  FALSE
    <3>1. pc[d] # "idle" /\ call[d].pair.n <= 0
      BY <2>5 DEF XInv, PairsIssued
    <3> QED
      BY <2>2, <2>3, <3>1
  <2> QED
    BY <2>4, <2>5
<1>15. PairsIssued'
  <2>1. newest'[Configured] = newest[Configured]
    BY <1>3, <1>7 DEF Grants
  <2>2. \A o \in Owners : stored[o] # None => stored[o].n <= newest'[stored[o].grant]
    <3>1. \A o \in Owners : stored[o] # None => stored[o].grant \in Grants
      BY PairTyped DEF XInv, TypeOK
    <3> QED
      BY <1>7, <1>8, <1>14, <3>1 DEF XInv, PairsIssued
  <2>3. ASSUME NEW d \in Calls, pc'[d] \in {"rotate", "verify", "save"}
        PROVE  call'[d].pair.n <= newest'[call'[d].pair.grant]
    <3>1. CASE d = c
      BY <1>3, <1>8, <2>3, <3>1 DEF g
    <3>2. CASE d # c
      <4>1. pc'[d] = pc[d] /\ call'[d] = call[d] /\ call[d].pair.grant \in Grants
        BY <1>10, <2>3, <3>2, CallTyped DEF XInv
      <4> QED
        BY <1>7, <1>8, <1>14, <2>3, <4>1 DEF XInv, PairsIssued
    <3> QED
      BY <3>1, <3>2
  <2>4. ASSUME NEW d \in Calls, Holding(d)', call'[d].pair.grant = Configured
        PROVE  call'[d].pair.n >= 2
    <3>1. d # c /\ Holding(d) /\ call'[d] = call[d]
      BY <1>3, <1>8, <2>4 DEF Holding, g
    <3> QED
      BY <2>4, <3>1 DEF XInv, PairsIssued
  <2> QED
    BY <1>1, <2>1, <2>2, <2>3, <2>4 DEF XInv, PairsIssued
<1>16. HoldersNewest'
  <2> SUFFICES ASSUME NEW d \in Calls, Holding(d)', Private(call[d].pair.grant)',
                      call'[d].pair.grant \notin lost'
               PROVE  /\ IsNewest(call[d].pair)'
                      /\ \A e \in Calls : pc'[e] = "rotate" /\ call'[e].pair.grant = call'[d].pair.grant
                           => ~IsNewest(call[e].pair)'
                      /\ \A o \in expiring' :
                           stored'[o] # None /\ stored'[o].grant = call'[d].pair.grant
                             => ~IsNewest(stored[o])'
    BY DEF HoldersNewest
  <2>1. call'[d] = call[d] /\ call[d].pair.grant \in Grants /\ pc'[d] # "idle"
    BY <1>10, CallTyped DEF XInv, Holding
  <2>2. \A e \in Calls : pc'[e] = "rotate" => pc[e] = "rotate" /\ call'[e] = call[e]
    BY <1>8, <1>10
  <2>3. expiring \subseteq Owners
    BY DEF XInv, TypeOK
  <2>4. CASE d = c
    <3>1. /\ newest[g] = 0 /\ newest'[g] = 1
          /\ call[d].pair.grant = g /\ call[d].pair.n = 1
      BY <1>3, <1>8, <2>1, <2>4 DEF g
    <3> QED
      BY <1>1, <1>14, <2>1, <2>2, <2>3, <3>1 DEF IsNewest
  <2>5. CASE d # c
    <3>1. Holding(d) /\ Private(call[d].pair.grant) /\ call[d].pair.grant \notin lost
      BY <1>1, <1>10, <2>1, <2>5 DEF Holding, Private
    <3>2. newest'[call[d].pair.grant] = newest[call[d].pair.grant]
      BY <1>7, <1>8, <1>14, <2>1, <3>1 DEF Holding
    <3> QED
      BY <1>1, <2>1, <2>2, <3>1, <3>2 DEF XInv, HoldersNewest, IsNewest
  <2> QED
    BY <2>4, <2>5
<1>17. AuthorizationKept'
  <2> SUFFICES ASSUME NEW o \in Owners, OwnPair(o), stored[o].grant \notin lost,
                      ~IsNewest(stored[o])'
               PROVE  \E d \in Calls :
                        /\ pc'[d] \in {"verify", "save"} /\ call'[d].owner = o
                        /\ call'[d].pair.grant = stored[o].grant /\ IsNewest(call[d].pair)'
    BY <1>1 DEF AuthorizationKept, OwnPair, IsNewest
  <2>1. stored[o] # None /\ stored[o].grant \in Grants
    BY PairTyped DEF OwnPair, XInv, TypeOK
  <2>2. newest'[stored[o].grant] = newest[stored[o].grant]
    BY <1>7, <1>8, <1>14, <2>1
  <2>3. ~IsNewest(stored[o])
    BY <1>1, <2>2 DEF IsNewest
  <2>4. PICK d \in Calls : /\ pc[d] \in {"verify", "save"} /\ call[d].owner = o
                           /\ call[d].pair.grant = stored[o].grant /\ IsNewest(call[d].pair)
    BY <2>3 DEF XInv, AuthorizationKept
  <2>5. call'[d] = call[d] /\ pc'[d] = pc[d]
    BY <1>1, <1>8, <2>4
  <2> QED
    BY <2>2, <2>4, <2>5 DEF IsNewest
<1> QED
  BY <1>9, <1>11, <1>12, <1>13, <1>15, <1>16, <1>17 DEF XInv

\* X replaces the newest pair: the others who know the old one are not about to hold
\* it, and whoever would use it is now refused.
LEMMA RotateKeeps ==
  ASSUME XInv, NEW c \in Calls, Rotate(c)
  PROVE  XInv'
<1> DEFINE q == call[c].pair
           g == q.grant
           r == [q EXCEPT !.n = @ + 1]
           v == [call[c] EXCEPT !.pair = r]
<1>1. /\ pc[c] = "rotate" /\ pc' = [pc EXCEPT ![c] = "save"]
      /\ newest[g] = q.n /\ q.n < LastPair /\ newest' = [newest EXCEPT ![g] = q.n + 1]
      /\ call' = [call EXCEPT ![c].pair = r]
      /\ env' = IF call[c].kind = "env" THEN [env EXCEPT ![call[c].at] = r] ELSE env
      /\ UNCHANGED <<storedOnly, begunBy, pending, redeemed, storeVars, lost>>
  BY DEF Rotate, Goto, IsNewest, Next1
<1>2. /\ call[c] \in Call /\ call[c].at \in Processes /\ call[c].owner \in Owners
      /\ q \in Pairs /\ g \in Grants /\ q.n \in 1 .. LastPair
  BY <1>1, CallTyped DEF XInv
<1>3. r \in Pairs /\ r.grant = g /\ r.n = q.n + 1
  BY <1>1, <1>2, PairsAssumption DEF Pairs
<1> HIDE DEF r
<1>4. /\ v \in Call /\ v.owner = call[c].owner /\ v.kind = call[c].kind /\ v.pair = r
  BY <1>2, <1>3 DEF Call
<1>5. call' = [call EXCEPT ![c] = v]
  BY <1>1
<1> HIDE DEF v, q
<1>6. /\ pc' \in [Calls -> Steps] /\ call' \in [Calls -> Call \cup {None}]
      /\ \A d \in Calls : pc'[d] # "idle" => call'[d] \in Call
      /\ pc'[c] = "save" /\ call'[c] = v
      /\ \A d \in Calls \ {c} : pc'[d] = pc[d] /\ call'[d] = call[d]
  BY <1>1, <1>4, <1>5, OneCall DEF XInv, Steps
<1> HIDE DEF g
<1>7. /\ newest \in [Grants -> 0 .. LastPair] /\ newest' \in [Grants -> 0 .. LastPair]
      /\ newest'[g] = q.n + 1 /\ \A h \in Grants \ {g} : newest'[h] = newest[h]
  BY <1>1, <1>2, PairsAssumption DEF XInv, TypeOK
<1>8. \A h \in Grants : newest[h] <= newest'[h]
  BY <1>1, <1>2, <1>7, PairsAssumption
<1>9. /\ env \in [Processes -> Pairs] /\ env' \in [Processes -> Pairs]
      /\ \A p \in Processes : env'[p] = env[p] \/ (env'[p] = r /\ call[c].kind = "env")
  BY <1>1, <1>2, <1>3 DEF XInv, TypeOK
<1>10. TypeOK'
  BY <1>1, <1>6, <1>7, <1>9 DEF XInv, TypeOK
<1>11. q = call[c].pair /\ g = call[c].pair.grant /\ Belongs(call[c].owner, g)
  BY <1>1 DEF g, q, XInv, GrantsHeld
<1>12. TokensOfOwner'
  BY <1>1 DEF XInv, TokensOfOwner
<1>13. \A d \in Calls : /\ pc'[d] # "idle" => pc[d] # "idle"
                        /\ call'[d].owner = call[d].owner /\ call'[d].kind = call[d].kind
                        /\ call'[d].pair.grant = call[d].pair.grant
                        /\ pc'[d] = "exchange" => d # c
                        /\ pc'[d] = "rotate" => d # c /\ pc[d] = "rotate"
                        /\ pc'[d] \in {"verify", "save"} => d = c \/ pc[d] \in {"verify", "save"}
  BY <1>1, <1>3, <1>4, <1>6, <1>11
<1>14. GrantsHeld'
  <2>1. \A d \in Calls : pc'[d] # "idle" =>
          /\ Belongs(call[d].owner, call[d].pair.grant)'
          /\ call'[d].kind = "env" => ~storedOnly' /\ call'[d].pair.grant = Configured
    BY <1>1, <1>13 DEF XInv, GrantsHeld, Belongs
  <2>2. \A d \in Calls : pc'[d] = "exchange" =>
          call'[d].pair.grant \in States /\ call'[d].pair.n = 1
    BY <1>6, <1>13 DEF XInv, GrantsHeld
  <2>3. ASSUME NEW p \in Processes
        PROVE  env'[p].grant = Configured /\ (storedOnly' => env'[p].n = 1)
    <3>1. CASE env'[p] = env[p]
      BY <1>1, <3>1 DEF XInv, GrantsHeld
    <3>2. CASE env'[p] = r /\ call[c].kind = "env"
      <4>1. ~storedOnly
        BY <1>1, <3>2 DEF XInv, GrantsHeld
      <4>2. g = Configured
        BY <1>1, <1>11, <3>2 DEF XInv, GrantsHeld
      <4> QED
        BY <1>1, <1>3, <3>2, <4>1, <4>2
    <3> QED
      BY <1>9, <3>1, <3>2
  <2>4. \A p \in Processes, o \in Owners : \A h \in pending'[p][o] : begunBy'[h] = o
    BY <1>1 DEF XInv, GrantsHeld
  <2> QED
    BY <2>1, <2>2, <2>3, <2>4 DEF GrantsHeld
<1>15. StatesOnce'
  <2>1. \A h \in States, d \in Calls : Exchanging(d, h)' => Exchanging(d, h)
    BY <1>6, <1>13 DEF Exchanging
  <2>2. \A h \in States : NotPending(h)' <=> NotPending(h)
    BY <1>1 DEF NotPending
  <2> QED
    BY <1>1, <2>1, <2>2 DEF XInv, StatesOnce
<1>16. \A o \in Owners : stored[o] # None =>
         /\ stored[o].grant \in Grants /\ stored[o].n \in 1 .. LastPair
         /\ stored[o].n <= newest[stored[o].grant]
  BY PairTyped DEF XInv, TypeOK, PairsIssued
<1>17. \A d \in Calls : pc[d] \in {"rotate", "verify", "save"} =>
         /\ call[d].pair.grant \in Grants /\ call[d].pair.n \in 1 .. LastPair
         /\ call[d].pair.n <= newest[call[d].pair.grant]
  <2> SUFFICES ASSUME NEW d \in Calls, pc[d] \in {"rotate", "verify", "save"}
               PROVE  /\ call[d].pair.grant \in Grants /\ call[d].pair.n \in 1 .. LastPair
                      /\ call[d].pair.n <= newest[call[d].pair.grant]
    OBVIOUS
  <2>1. pc[d] # "idle"
    OBVIOUS
  <2> QED
    BY <2>1, CallTyped DEF XInv, PairsIssued
<1>18. PairsIssued'
  <2>1. Configured \in Grants
    BY DEF Grants
  <2>2. newest'[Configured] >= 1
    BY <1>7, <1>8, <2>1, PairsAssumption DEF XInv, PairsIssued
  <2>3. \A o \in Owners : stored[o] # None => stored[o].n <= newest'[stored[o].grant]
    BY <1>7, <1>8, <1>16, PairsAssumption
  <2>4. ASSUME NEW d \in Calls, pc'[d] \in {"rotate", "verify", "save"}
        PROVE  call'[d].pair.n <= newest'[call'[d].pair.grant]
    <3>1. CASE d = c
      BY <1>2, <1>3, <1>4, <1>6, <1>7, <3>1, PairsAssumption
    <3>2. CASE d # c
      BY <1>6, <1>7, <1>8, <1>17, <2>4, <3>2, PairsAssumption
    <3> QED
      BY <3>1, <3>2
  <2>5. ASSUME NEW p \in Processes
        PROVE  env'[p].n <= newest'[Configured]
    <3>1. CASE env'[p] = env[p]
      <4>1. env[p].n \in 1 .. LastPair /\ env[p].n <= newest[Configured]
        BY PairTyped DEF XInv, TypeOK, PairsIssued
      <4> QED
        BY <1>7, <1>8, <2>1, <3>1, <4>1, PairsAssumption
    <3>2. CASE env'[p] = r /\ call[c].kind = "env"
      <4>1. g = Configured
        BY <1>1, <1>11, <3>2 DEF XInv, GrantsHeld
      <4> QED
        BY <1>2, <1>3, <1>7, <3>2, <4>1, PairsAssumption
    <3> QED
      BY <1>9, <3>1, <3>2
  <2>6. ASSUME NEW d \in Calls, Holding(d)', call'[d].pair.grant = Configured
        PROVE  call'[d].pair.n >= 2
    <3>1. CASE d = c
      BY <1>2, <1>3, <1>4, <1>6, <3>1, PairsAssumption
    <3>2. CASE d # c
      BY <1>6, <2>6, <3>2 DEF Holding, XInv, PairsIssued
    <3> QED
      BY <3>1, <3>2
  <2>7. \A o \in Owners : stored'[o] # None => stored'[o].n <= newest'[stored'[o].grant]
    BY <1>1, <2>3
  <2> QED
    BY <2>2, <2>4, <2>5, <2>6, <2>7 DEF PairsIssued
<1>19. HoldersNewest'
  <2> SUFFICES ASSUME NEW d \in Calls, Holding(d)', Private(call[d].pair.grant)',
                      call'[d].pair.grant \notin lost'
               PROVE  /\ IsNewest(call[d].pair)'
                      /\ \A e \in Calls : pc'[e] = "rotate" /\ call'[e].pair.grant = call'[d].pair.grant
                           => ~IsNewest(call[e].pair)'
                      /\ \A o \in expiring' :
                           stored'[o] # None /\ stored'[o].grant = call'[d].pair.grant
                             => ~IsNewest(stored[o])'
    BY DEF HoldersNewest
  <2>1. \A e \in Calls : pc'[e] = "rotate" => e # c /\ pc[e] = "rotate" /\ call'[e] = call[e]
    BY <1>6, <1>13
  <2>2. expiring \subseteq Owners
    BY DEF XInv, TypeOK
  <2>3. CASE d = c
    <3>1. call'[d].pair = r /\ IsNewest(call[d].pair)'
      BY <1>3, <1>4, <1>6, <1>7, <2>3 DEF IsNewest
    <3>2. \A n \in 1 .. LastPair : n <= q.n => n # newest'[g]
      BY <1>2, <1>7, PairsAssumption
    <3>3. ASSUME NEW e \in Calls, pc'[e] = "rotate", call'[e].pair.grant = g
          PROVE  ~IsNewest(call[e].pair)'
      BY <1>1, <1>17, <2>1, <3>2, <3>3 DEF IsNewest
    <3>4. ASSUME NEW o \in expiring, stored[o] # None, stored[o].grant = g
          PROVE  ~IsNewest(stored[o])'
      BY <1>1, <1>16, <2>2, <3>2, <3>4 DEF IsNewest
    <3> QED
      BY <1>1, <1>3, <3>1, <3>3, <3>4
  <2>4. CASE d # c
    <3>1. /\ Holding(d) /\ call'[d] = call[d] /\ Private(call[d].pair.grant)
          /\ call[d].pair.grant \notin lost
      BY <1>1, <1>6, <2>4 DEF Holding, Private
    <3>2. call[d].pair.grant # g
      <4>1. IsNewest(call[c].pair)
        BY <1>1, <1>11 DEF IsNewest
      <4> QED
        BY <1>1, <1>11, <3>1, <4>1 DEF XInv, HoldersNewest
    <3>3. newest'[call[d].pair.grant] = newest[call[d].pair.grant]
      BY <1>7, <1>17, <3>1, <3>2 DEF Holding
    <3> QED
      BY <1>1, <2>1, <3>1, <3>3 DEF XInv, HoldersNewest, IsNewest
  <2> QED
    BY <2>3, <2>4
<1>20. AuthorizationKept'
  <2> SUFFICES ASSUME NEW o \in Owners, OwnPair(o), stored[o].grant \notin lost,
                      ~IsNewest(stored[o])'
               PROVE  \E d \in Calls :
                        /\ pc'[d] \in {"verify", "save"} /\ call'[d].owner = o
                        /\ call'[d].pair.grant = stored[o].grant /\ IsNewest(call[d].pair)'
    BY <1>1 DEF AuthorizationKept, OwnPair, IsNewest
  <2>1. /\ stored[o] # None /\ stored[o].grant \in Grants /\ Private(stored[o].grant)
        /\ Belongs(o, stored[o].grant)
    BY <1>16 DEF OwnPair, Private, XInv, TokensOfOwner, Belongs
  <2>2. CASE stored[o].grant = g
    <3>1. call[c].owner = o
      BY <1>11, <2>1, <2>2, OneOwner
    <3> QED
      BY <1>3, <1>4, <1>6, <1>7, <2>2, <3>1 DEF IsNewest
  <2>3. CASE stored[o].grant # g
    <3>1. newest'[stored[o].grant] = newest[stored[o].grant]
      BY <1>7, <2>1, <2>3
    <3>2. ~IsNewest(stored[o])
      BY <1>1, <3>1 DEF IsNewest
    <3>3. PICK d \in Calls : /\ pc[d] \in {"verify", "save"} /\ call[d].owner = o
                             /\ call[d].pair.grant = stored[o].grant /\ IsNewest(call[d].pair)
      BY <3>2 DEF XInv, AuthorizationKept
    <3>4. call'[d] = call[d] /\ pc'[d] = pc[d]
      BY <1>1, <1>6, <3>3
    <3> QED
      BY <3>1, <3>3, <3>4 DEF IsNewest
  <2> QED
    BY <2>2, <2>3
<1> QED
  BY <1>10, <1>12, <1>14, <1>15, <1>18, <1>19, <1>20 DEF XInv

\* The row gets the pair of the call, which is the newest if it is private and kept.
LEMMA SaveKeeps ==
  ASSUME XInv, NEW c \in Calls, Save(c)
  PROVE  XInv'
<1> DEFINE o == call[c].owner
           q == call[c].pair
<1>1. /\ pc[c] = "save"
      /\ stored' = [stored EXCEPT ![o] = q] /\ expiring' = expiring \ {o}
      /\ \/ pc' = [pc EXCEPT ![c] = "verify"] /\ call' = call
         \/ pc' = [pc EXCEPT ![c] = "idle"] /\ call' = [call EXCEPT ![c] = None]
      /\ UNCHANGED <<storedOnly, begunBy, memoryVars, xVars, lost>>
  BY DEF Save, SavedPair, StillExpiring, End, Goto
<1>2. o \in Owners /\ q \in Pairs /\ q.grant \in Grants /\ q # None
  BY <1>1, CallTyped, PairTyped DEF XInv
<1>3. /\ o = call[c].owner /\ q = call[c].pair /\ Belongs(o, q.grant)
      /\ q.n <= newest[q.grant]
      /\ Private(q.grant) /\ q.grant \notin lost => IsNewest(q)
  BY <1>1 DEF XInv, GrantsHeld, PairsIssued, HoldersNewest, Holding
<1> HIDE DEF o, q
<1>4. /\ stored \in [Owners -> Pairs \cup {None}] /\ expiring \in SUBSET Owners
      /\ pc \in [Calls -> Steps] /\ call \in [Calls -> Call \cup {None}]
  BY DEF XInv, TypeOK
<1>5. /\ stored' \in [Owners -> Pairs \cup {None}] /\ stored'[o] = q
      /\ \A u \in Owners \ {o} : stored'[u] = stored[u]
      /\ expiring' \in SUBSET Owners
  BY <1>1, <1>2, <1>4
<1>6. /\ pc' \in [Calls -> Steps] /\ call' \in [Calls -> Call \cup {None}]
      /\ \A d \in Calls : pc'[d] # "idle" =>
           /\ call'[d] = call[d] /\ pc[d] # "idle"
           /\ pc'[d] = pc[d] \/ (pc[d] = "save" /\ pc'[d] = "verify")
      /\ \A d \in Calls \ {c} : pc'[d] = pc[d] /\ call'[d] = call[d]
  BY <1>1, <1>4 DEF Steps
<1>7. \A d \in Calls : /\ pc'[d] = "exchange" => pc[d] = "exchange"
                       /\ pc'[d] = "rotate" => pc[d] = "rotate"
                       /\ Holding(d)' => Holding(d) /\ pc'[d] # "idle"
  BY <1>6 DEF Holding
<1>8. TypeOK'
  <2>1. \A d \in Calls : pc'[d] # "idle" => call'[d] \in Call
    BY <1>6 DEF XInv, TypeOK
  <2> QED
    BY <1>1, <1>5, <1>6, <2>1 DEF XInv, TypeOK
<1>9. \A u \in Owners : \A h : Belongs(u, h)' <=> Belongs(u, h)
  BY <1>1 DEF Belongs
<1>10. TokensOfOwner'
  <2>1. ASSUME NEW u \in Owners, stored'[u] # None
        PROVE  Belongs(u, stored'[u].grant)
    <3>1. CASE u = o
      BY <1>3, <1>5, <3>1
    <3>2. CASE u # o
      BY <1>5, <2>1, <3>2 DEF XInv, TokensOfOwner, Belongs
    <3> QED
      BY <3>1, <3>2
  <2> QED
    BY <1>1, <2>1 DEF TokensOfOwner, Belongs
<1>11. GrantsHeld'
  <2>1. \A d \in Calls : pc'[d] # "idle" =>
          /\ Belongs(call[d].owner, call[d].pair.grant)'
          /\ call'[d].kind = "env" => ~storedOnly' /\ call'[d].pair.grant = Configured
    BY <1>1, <1>6 DEF XInv, GrantsHeld, Belongs
  <2>2. \A d \in Calls : pc'[d] = "exchange" =>
          call'[d].pair.grant \in States /\ call'[d].pair.n = 1
    BY <1>6, <1>7 DEF XInv, GrantsHeld
  <2> QED
    BY <1>1, <2>1, <2>2 DEF XInv, GrantsHeld
<1>12. StatesOnce'
  <2>1. \A h \in States, d \in Calls : Exchanging(d, h)' => Exchanging(d, h)
    BY <1>6, <1>7 DEF Exchanging
  <2>2. \A h \in States : NotPending(h)' <=> NotPending(h)
    BY <1>1 DEF NotPending
  <2> QED
    BY <1>1, <2>1, <2>2 DEF XInv, StatesOnce
<1>13. PairsIssued'
  <2>1. \A u \in Owners : stored'[u] # None => stored'[u].n <= newest[stored'[u].grant]
    BY <1>3, <1>5 DEF XInv, PairsIssued
  <2>2. \A d \in Calls : pc'[d] \in {"rotate", "verify", "save"} =>
          call'[d].pair.n <= newest[call'[d].pair.grant]
    BY <1>6 DEF XInv, PairsIssued
  <2>3. \A d \in Calls : Holding(d)' /\ call'[d].pair.grant = Configured =>
          call'[d].pair.n >= 2
    BY <1>6, <1>7 DEF XInv, PairsIssued
  <2> QED
    BY <1>1, <2>1, <2>2, <2>3 DEF XInv, PairsIssued
<1>14. HoldersNewest'
  <2> SUFFICES ASSUME NEW d \in Calls, Holding(d)', Private(call[d].pair.grant)',
                      call'[d].pair.grant \notin lost'
               PROVE  /\ IsNewest(call[d].pair)'
                      /\ \A e \in Calls : pc'[e] = "rotate" /\ call'[e].pair.grant = call'[d].pair.grant
                           => ~IsNewest(call[e].pair)'
                      /\ \A u \in expiring' :
                           stored'[u] # None /\ stored'[u].grant = call'[d].pair.grant
                             => ~IsNewest(stored[u])'
    BY DEF HoldersNewest
  <2>1. /\ Holding(d) /\ call'[d] = call[d] /\ Private(call[d].pair.grant)
        /\ call[d].pair.grant \notin lost
    BY <1>1, <1>6, <1>7 DEF Private
  <2>2. \A e \in Calls : pc'[e] = "rotate" => pc[e] = "rotate" /\ call'[e] = call[e]
    BY <1>6, <1>7
  <2>3. \A u \in expiring' : u \in expiring /\ stored'[u] = stored[u]
    BY <1>1, <1>4, <1>5
  <2> QED
    BY <1>1, <2>1, <2>2, <2>3 DEF XInv, HoldersNewest, IsNewest
<1>15. AuthorizationKept'
  <2> SUFFICES ASSUME NEW u \in Owners, OwnPair(u)', stored'[u].grant \notin lost,
                      ~IsNewest(stored[u])'
               PROVE  \E d \in Calls :
                        /\ pc'[d] \in {"verify", "save"} /\ call'[d].owner = u
                        /\ call'[d].pair.grant = stored'[u].grant /\ IsNewest(call[d].pair)'
    BY <1>1 DEF AuthorizationKept, IsNewest
  <2>1. u # o
    BY <1>1, <1>3, <1>5 DEF OwnPair, Private, IsNewest
  <2>2. /\ OwnPair(u) /\ stored[u].grant \notin lost /\ ~IsNewest(stored[u])
        /\ stored'[u] = stored[u]
    BY <1>1, <1>5, <2>1 DEF OwnPair, IsNewest
  <2>3. PICK d \in Calls : /\ pc[d] \in {"verify", "save"} /\ call[d].owner = u
                           /\ call[d].pair.grant = stored[u].grant /\ IsNewest(call[d].pair)
    BY <2>2 DEF XInv, AuthorizationKept
  <2>4. call'[d] = call[d] /\ pc'[d] = pc[d]
    BY <1>3, <1>6, <2>1, <2>3
  <2> QED
    BY <1>1, <2>2, <2>3, <2>4 DEF IsNewest
<1> QED
  BY <1>8, <1>10, <1>11, <1>12, <1>13, <1>14, <1>15 DEF XInv

\* A row whose access token runs out: no call of its owner is under way.
LEMMA ExpireKeeps ==
  ASSUME XInv, NEW o \in Owners, Expire(o)
  PROVE  XInv'
<1>1. /\ expiring' = expiring \cup {o}
      /\ \A c \in Calls : pc[c] # "idle" => call[c].owner # o
      /\ UNCHANGED <<storedOnly, begunBy, memoryVars, xVars, stored, lost, pc, call>>
  BY DEF Expire
<1>2. TypeOK'
  BY <1>1 DEF XInv, TypeOK
<1>3. TokensOfOwner' /\ AuthorizationKept' /\ PairsIssued'
  BY <1>1 DEF XInv, TokensOfOwner, AuthorizationKept, OwnPair, IsNewest, PairsIssued, Holding
<1>4. GrantsHeld' /\ StatesOnce'
  BY <1>1 DEF XInv, GrantsHeld, Belongs, StatesOnce, NotPending, Exchanging
<1>5. HoldersNewest'
  <2>1. ASSUME NEW d \in Calls, Holding(d), Private(call[d].pair.grant),
               stored[o] # None, stored[o].grant = call[d].pair.grant
        PROVE  FALSE
    <3>1. pc[d] # "idle"
      BY <2>1 DEF Holding
    <3>2. /\ call[d].pair.grant \in Grants /\ Belongs(call[d].owner, call[d].pair.grant)
          /\ Belongs(o, call[d].pair.grant)
      BY <2>1, <3>1, CallTyped DEF XInv, GrantsHeld, TokensOfOwner, Belongs
    <3>3. call[d].owner = o
      BY <2>1, <3>2, OneOwner
    <3> QED
      BY <1>1, <3>1, <3>3
  <2> QED
    BY <1>1, <2>1 DEF XInv, HoldersNewest, Holding, Private, IsNewest
<1> QED
  BY <1>2, <1>3, <1>4, <1>5 DEF XInv

-----------------------------------------------------------------------------

\* The invariant holds throughout, for all owners, processes, calls and states.
THEOREM XInvariant == Spec => []XInv
<1>1. Init => XInv
  BY InitX
<1>2. XInv /\ [Next]_vars => XInv'
  <2> SUFFICES ASSUME XInv, [Next]_vars PROVE XInv'
    OBVIOUS
  <2>1. ASSUME NEW p \in Processes, NEW o \in Owners, NEW g \in States,
               BeginXOAuth(p, o, g) \/ PruneState(p, o, g)
        PROVE  XInv'
    BY <2>1, BeginKeeps, PruneKeeps
  <2>2. ASSUME NEW c \in Calls, StartCall(c)
        PROVE  XInv'
    BY <2>2, CallbackKeeps, UseStoredKeeps, UseEnvironmentKeeps, ImportKeeps DEF StartCall
  <2>3. ASSUME NEW c \in Calls, CallStep(c)
        PROVE  XInv'
    BY <2>3, ExchangeKeeps, RotateKeeps, RejectedKeeps, VerifyKeeps, SaveKeeps DEF CallStep
  <2>4. ASSUME NEW c \in Calls, RotateUnanswered(c) \/ Fail(c)
        PROVE  XInv'
    BY <2>4, RejectedKeeps, FailKeeps
  <2>5. ASSUME NEW p \in Processes, Restart(p)
        PROVE  XInv'
    BY <2>5, RestartKeeps
  <2>6. ASSUME NEW o \in Owners, Expire(o)
        PROVE  XInv'
    BY <2>6, ExpireKeeps
  <2>7. CASE UNCHANGED vars
    BY <2>7 DEF XInv, TypeOK, TokensOfOwner, AuthorizationKept, OwnPair, IsNewest, GrantsHeld,
                Belongs, StatesOnce, NotPending, Exchanging, PairsIssued, HoldersNewest,
                Holding, Private
  <2> QED
    BY <2>1, <2>2, <2>3, <2>4, <2>5, <2>6, <2>7 DEF Next
<1> QED
  BY <1>1, <1>2, PTL DEF Spec

\* The state is well typed throughout.
THEOREM XTypes == Spec => []TypeOK
<1>1. XInv => TypeOK
  BY DEF XInv
<1> QED
  BY <1>1, XInvariant, PTL

\* A row holds tokens of an authorization its owner began, whichever process and
\* service the callback reached.
THEOREM TokensAreOwners == Spec => []TokensOfOwner
<1>1. XInv => TokensOfOwner
  BY DEF XInv
<1> QED
  BY <1>1, XInvariant, PTL

\* The code of a state is sent to X at most once.
THEOREM StatesAreUsedOnce == Spec => []StateUsedOnce
<1>1. XInv => StateUsedOnce
  BY DEF XInv, StatesOnce, StateUsedOnce
<1> QED
  BY <1>1, XInvariant, PTL

\* The refresh token X still accepts is in the row, or with a call that will save it,
\* unless a step failed after the rotation: for any number of calls at a time.
THEOREM AuthorizationIsKept == Spec => []AuthorizationKept
<1>1. XInv => AuthorizationKept
  BY DEF XInv
<1> QED
  BY <1>1, XInvariant, PTL
=============================================================================
