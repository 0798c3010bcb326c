------------------------- MODULE AuthSessionProofs -------------------------
(***************************************************************************)
(* What TLAPS proves about AuthSession for every number of requests,       *)
(* tokens and users.                                                       *)
(***************************************************************************)
EXTENDS AuthSession, FiniteSetTheorems, TLAPS

\* Pcs after auth_app or the cache has named a user.
Named == {"roles", "ask", "keep", "touch", "csrf", "store", "storeNew", "dropOld"}

\* Where a request is says which of its locals are set.
Situated(q) ==
    /\ q.pc \in {"idle", "known", "lookup", "join", "relookup", "wait", "call"} =>
          q.via = "none" /\ q.newToken = Nil
    /\ q.pc \notin {"idle", "done"} /\ q.kind # "refresh" =>
          q.token \in Tokens /\ q.kind \in {"validate", "fresh", "ensure"}
    /\ q.kind = "refresh" =>
          q.pc \in {"roles", "ask", "keep", "done"} /\ q.user \in Users /\ q.via = "none"
    /\ q.pc \in {"roles", "ask", "keep"} => q.kind = "refresh" \/ q.via \in {"cache", "remote"}
    /\ q.pc \in {"csrf", "store", "storeNew", "dropOld"} => q.via = "remote"
    /\ q.pc = "touch" => q.via = "cache"
    /\ q.pc \in {"drop", "anonymous"} => q.user = Nil
    /\ q.pc \in Named => q.user \in Users
    /\ q.via \in {"cache", "remote"} => q.token \in Tokens
    /\ q.via = "cache" \/ q.result = "user" => q.user \in Users
    /\ q.result = "user" => q.pc = "done"
    /\ q.pc = "keep" => q.roles \in 0..MaxVersion
    /\ q.pc \in {"storeNew", "dropOld"} => q.newToken \in Tokens
    /\ q.kind = "fresh" =>
          /\ q.pc \notin {"idle", "known", "lookup", "join", "relookup", "wait", "touch", "anonymous"}
          /\ q.via \in {"none", "remote"}
          /\ q.result = "user" => q.via = "remote"

\* Only the entries of users are fresh enough to be used.
ZeroEntries ==
    \A t \in Tokens : identityCache[t] # Nil /\ identityCache[t].user = Nil =>
        identityCache[t].validatedAt = ZeroTime

\* Pcs at which a request may lead a flight.
Flying == {"relookup", "call", "drop"} \cup Named

\* A flight belongs to the token of its leader, which is at work on it ...
Flights ==
    \A t \in Tokens : validations[t] # Nil =>
        LET l == req[validations[t]] IN
        l.token = t /\ l.pc \in Flying /\ l.kind \in {"validate", "ensure"}

\* ... and whoever asks auth_app for a shared validation leads it.
Leads ==
    \A r \in Requests :
        /\ req[r].kind \in {"validate", "ensure"}
        /\ req[r].pc \in {"relookup", "call", "drop"} \/ (req[r].pc \in Named /\ req[r].via = "remote")
        => validations[req[r].token] = r

Waiting ==
    \A r \in Requests : req[r].pc = "wait" => validations[req[r].token] = req[r].leader /\ req[r].leader # Nil

\* Nobody owns a token before auth_app issues it.
Unissued == \A t \in Tokens : t \notin issued => owner[t] = Nil

\* auth_app was last asked about u's token t at a time x, before t ended if it did.
AskedBefore(x, t, u) == owner[t] # u => x <= endedAt[t]

EndedEntries ==
    \A t \in Tokens : identityCache[t] # Nil =>
        LET e == identityCache[t] IN
        e.validatedAt <= now /\ (e.user # Nil => AskedBefore(e.validatedAt, t, e.user))

Ended(r) ==
    LET q == req[r] IN
    /\ q.now <= now
    /\ q.via = "remote" /\ q.user # Nil =>
          /\ AskedBefore(q.now, q.token, q.user)
          /\ q.newToken # Nil => AskedBefore(q.now, q.newToken, q.user)
    /\ q.via = "cache" /\ owner[q.token] # q.user => q.now < endedAt[q.token] + IdentityCacheTTL

\* Cached roles that are no longer the user's were read before they changed ...
StaleEntries ==
    \A u \in Users : roleCache[u] # Nil =>
        LET e == roleCache[u] IN
        /\ e.expiresAt <= now + RoleCacheTTL
        /\ e.roles < roles[u] => e.expiresAt <= changedAt[u] + RoleCacheTTL

\* ... and so were those a request holds, or within the TTL if they were cached.
Stale(r) ==
    LET q == req[r] IN
    /\ q.roleNow <= now
    /\ q.user \in Users /\ q.roles < roles[q.user] =>
          /\ q.pc = "keep" => q.roleNow <= changedAt[q.user]
          /\ /\ q.via # "shared" /\ q.roles >= 0
             /\ q.pc \in {"touch", "csrf", "store", "storeNew", "dropOld"} \/ q.result = "user"
             => q.roleNow < changedAt[q.user] + RoleCacheTTL

IInv ==
    /\ TypeOK /\ UserSessionsExact /\ ZeroEntries
    /\ \A r \in Requests : Situated(req[r])
    /\ Flights /\ Leads /\ Waiting
    /\ Unissued /\ EndedEntries /\ \A r \in Requests : Ended(r)
    /\ StaleEntries /\ \A r \in Requests : Stale(r)

-----------------------------------------------------------------------------
(* The cache and its index *)

CacheType ==
    /\ identityCache \in [Tokens -> Entry \cup {Nil}]
    /\ userSessions \in [Users -> SUBSET Tokens]

\* Removing an entry takes its token out of the index, and nothing else.
LEMMA RemovedExact ==
    ASSUME CacheType, UserSessionsExact, NEW t \in Tokens
    PROVE  /\ Removed(t).cache \in [Tokens -> Entry \cup {Nil}]
           /\ Removed(t).index \in [Users -> SUBSET Tokens]
           /\ \A u \in Users : Removed(t).index[u] =
                {s \in Tokens : Removed(t).cache[s] # Nil /\ Removed(t).cache[s].user = u}
<1> DEFINE c == [identityCache EXCEPT ![t] = Nil]
           x == [u \in Users |-> IF identityCache[t] # Nil /\ identityCache[t].user = u
                                 THEN userSessions[u] \ {t} ELSE userSessions[u]]
<1>1. Removed(t).cache = c /\ Removed(t).index = x
  BY DEF Removed
<1>2. c \in [Tokens -> Entry \cup {Nil}] /\ x \in [Users -> SUBSET Tokens]
  BY DEF CacheType
<1>3. \A u \in Users : x[u] = {s \in Tokens : c[s] # Nil /\ c[s].user = u}
  BY DEF CacheType, UserSessionsExact
<1> QED BY <1>1, <1>2, <1>3

LEMMA RemoveExact ==
    ASSUME CacheType, UserSessionsExact, NEW t \in Tokens, RemoveIdentity(t)
    PROVE  CacheType' /\ UserSessionsExact'
<1>1. identityCache' = Removed(t).cache /\ userSessions' = Removed(t).index
  BY DEF RemoveIdentity
<1> HIDE DEF Removed
<1> QED BY <1>1, RemovedExact DEF CacheType, UserSessionsExact

LEMMA SetExact ==
    ASSUME CacheType, UserSessionsExact, NEW t \in Tokens, NEW e \in Entry,
           SetIdentity(t, e)
    PROVE  CacheType' /\ UserSessionsExact'
<1> DEFINE c == Removed(t).cache
           x == Removed(t).index
<1>1. /\ c \in [Tokens -> Entry \cup {Nil}]
      /\ x \in [Users -> SUBSET Tokens]
      /\ \A u \in Users : x[u] = {s \in Tokens : c[s] # Nil /\ c[s].user = u}
      /\ c[t] = Nil
  BY RemovedExact DEF Removed, CacheType
<1>2. /\ identityCache' = [c EXCEPT ![t] = e]
      /\ userSessions' = [u \in Users |-> IF e.user = u THEN x[u] \cup {t} ELSE x[u]]
  BY DEF SetIdentity
<1>3. e # Nil
  BY NilAssumption
<1> HIDE DEF c, x
<1>4. CacheType'
  BY <1>1, <1>2 DEF CacheType
<1>5. UserSessionsExact'
  BY <1>1, <1>2, <1>3 DEF UserSessionsExact
<1> QED BY <1>4, <1>5

-----------------------------------------------------------------------------
(* Type correctness *)

LEMMA LocalFinished ==
    ASSUME NEW q \in Local, NEW pc \in PCs,
           NEW result \in Results,
           NEW u \in Users \cup {Nil}, NEW v \in RoleVersions,
           NEW via \in Vias,
           NEW n \in Tokens \cup {Nil}
    PROVE  [q EXCEPT !.pc = pc, !.result = result, !.user = u, !.roles = v,
                     !.via = via, !.newToken = n] \in Local
BY DEF Local

USE RequestsAssumption, ConfigAssumption, CountersAssumption

RequestType ==
    /\ req \in [Requests -> Local]
    /\ validations \in [Tokens -> Requests \cup {Nil}]

LEMMA InitType == Init => TypeOK /\ UserSessionsExact
<1> SUFFICES ASSUME Init PROVE TypeOK /\ UserSessionsExact
  OBVIOUS
<1>1. NoRequest \in Local
  BY DEF NoRequest, Local, PCs, AllKinds, Vias, Results, RoleVersions
<1>2. TypeOK
  BY <1>1 DEF Init, TypeOK
<1>3. UserSessionsExact
  BY DEF Init, UserSessionsExact
<1> QED BY <1>2, <1>3

\* Finishing a request keeps the locals of all that share its result typed.
LEMMA FinishType ==
    ASSUME RequestType, NEW r \in Requests,
           NEW result \in Results, Finish(r, result)
    PROVE  RequestType'
<1>1. ASSUME NEW q \in Requests PROVE req'[q] \in Local
  <2>1. req[q] \in Local /\ req[r] \in Local
    BY DEF RequestType
  <2>2. CASE q \notin Sharing(r)
    BY <2>1, <2>2 DEF Finish
  <2>3. CASE q \in Sharing(r)
    <3> DEFINE pc == IF req[q].kind = "ensure" /\ result = "none"
                     THEN "anonymous" ELSE "done"
               via == IF q = r THEN req[r].via ELSE "shared"
               u == req[r].user
               v == req[r].roles
               n == req[r].newToken
    <3>1. req'[q] = [req[q] EXCEPT !.pc = pc, !.result = result, !.user = u,
                                   !.roles = v, !.via = via, !.newToken = n]
      BY <2>3 DEF Finish
    <3>2. /\ pc \in PCs
          /\ via \in Vias
          /\ u \in Users \cup {Nil}
          /\ v \in RoleVersions
          /\ n \in Tokens \cup {Nil}
      BY <2>1 DEF Local, PCs, Vias
    <3> HIDE DEF pc, via, u, v, n
    <3>3. [req[q] EXCEPT !.pc = pc, !.result = result, !.user = u, !.roles = v,
                         !.via = via, !.newToken = n] \in Local
      BY <2>1, <3>2, LocalFinished
    <3> QED BY <3>1, <3>3
  <2> QED BY <2>2, <2>3
<1>2. req' \in [Requests -> Local]
  BY <1>1 DEF Finish
<1>3. validations' \in [Tokens -> Requests \cup {Nil}]
  BY DEF Finish, RequestType
<1> QED BY <1>2, <1>3 DEF RequestType

LEMMA GotoType ==
    ASSUME RequestType, NEW r \in Requests, NEW pc \in PCs, Goto(r, pc),
           UNCHANGED validations
    PROVE  RequestType'
<1>1. req[r] \in Local
  BY DEF RequestType
<1>2. [req[r] EXCEPT !.pc = pc] \in Local
  BY <1>1 DEF Local
<1>3. req' = [req EXCEPT ![r] = [req[r] EXCEPT !.pc = pc]]
  BY DEF Goto
<1> QED BY <1>2, <1>3 DEF RequestType

Orderly ==
    /\ TypeOK /\ UserSessionsExact /\ ZeroEntries
    /\ \A r \in Requests : Situated(req[r])

RequestsInOrder == RequestType /\ \A r \in Requests : Situated(req[r])

\* One request goes on alone, with new locals.
LEMMA AloneInOrder ==
    ASSUME RequestsInOrder, NEW r \in Requests, NEW y \in Local, Situated(y),
           req' = [req EXCEPT ![r] = y],
           validations' \in [Tokens -> Requests \cup {Nil}]
    PROVE  RequestsInOrder'
<1>1. req' \in [Requests -> Local]
  BY DEF RequestsInOrder, RequestType
<1>2. ASSUME NEW p \in Requests PROVE Situated(req[p])'
  <2>1. CASE p = r
    <3>1. req'[p] = y
      BY <2>1 DEF RequestsInOrder, RequestType
    <3> QED BY <3>1 DEF Situated
  <2>2. CASE p # r
    <3>1. req'[p] = req[p]
      BY <2>2 DEF RequestsInOrder, RequestType
    <3> QED BY <3>1 DEF Situated, RequestsInOrder
  <2> QED BY <2>1, <2>2
<1> QED BY <1>1, <1>2 DEF RequestsInOrder, RequestType

\* A request finishes, and those that share its result.
LEMMA FinishInOrder ==
    ASSUME RequestsInOrder, NEW r \in Requests, NEW result \in Results, Finish(r, result),
           req[r].pc \notin {"idle", "done", "anonymous"},
           result = "none" => req[r].user = Nil /\ req[r].kind # "refresh",
           result = "user" => req[r].user \in Users /\ req[r].via \in {"cache", "remote"}
    PROVE  RequestsInOrder'
<1>1. RequestType'
  BY FinishType DEF RequestsInOrder
<1>2. ASSUME NEW p \in Requests PROVE Situated(req[p])'
  <2>1. /\ req[p] \in Local /\ req[r] \in Local
        /\ Situated(req[p]) /\ Situated(req[r])
    BY DEF RequestsInOrder, RequestType
  <2>2. CASE p \notin Sharing(r)
    <3>1. req'[p] = req[p]
      BY <2>2 DEF Finish
    <3> QED BY <2>1, <3>1 DEF Situated
  <2>3. CASE p \in Sharing(r)
    <3>1. /\ req'[p].kind = req[p].kind /\ req'[p].token = req[p].token
          /\ req'[p].pc = IF req[p].kind = "ensure" /\ result = "none"
                          THEN "anonymous" ELSE "done"
          /\ req'[p].result = result
          /\ req'[p].user = req[r].user /\ req'[p].roles = req[r].roles
          /\ req'[p].via = (IF p = r THEN req[r].via ELSE "shared")
          /\ req'[p].newToken = req[r].newToken
      BY <2>1, <2>3 DEF Finish, Local
    <3>2. p = r \/ req[p].pc = "wait"
      BY <2>3 DEF Sharing
    <3> QED BY <2>1, <3>1, <3>2 DEF Situated, Named
  <2> QED BY <2>2, <2>3
<1> QED BY <1>1, <1>2 DEF RequestsInOrder

\* What a usable entry says of itself.
LEMMA UsableEntry ==
    ASSUME Orderly, NEW t \in Tokens, NEW at \in 0..MaxTime, Usable(t, at)
    PROVE  /\ identityCache[t] \in Entry
           /\ identityCache[t].user \in Users
           /\ at < identityCache[t].validatedAt + IdentityCacheTTL
<1>1. identityCache[t] \in Entry
  BY DEF Usable, Orderly, TypeOK
<1>2. at < identityCache[t].validatedAt + IdentityCacheTTL
  BY <1>1 DEF Usable, Entry
<1>3. identityCache[t].user # Nil
  BY <1>1, <1>2 DEF Usable, Orderly, ZeroEntries, ZeroTime
<1> QED BY <1>1, <1>2, <1>3 DEF Entry

\* The steps of a request keep every request in order.
LEMMA StepInOrder ==
    ASSUME Orderly, NEW r \in Requests, Step(r)
    PROVE  RequestsInOrder'
<1> DEFINE q == req[r]
<1>1. RequestsInOrder /\ q \in Local /\ Situated(q) /\ now \in 0..MaxTime
      /\ validations \in [Tokens -> Requests \cup {Nil}]
  BY DEF Orderly, RequestsInOrder, RequestType, TypeOK
<1>a. ASSUME NEW pc \in PCs, q.pc \notin {"idle", "done", "anonymous"}, req' = [req EXCEPT ![r].pc = pc],
             validations' \in [Tokens -> Requests \cup {Nil}],
             Situated([q EXCEPT !.pc = pc])
      PROVE  RequestsInOrder'
  <2>1. [q EXCEPT !.pc = pc] \in Local
    BY <1>1 DEF Local
  <2>2. req' = [req EXCEPT ![r] = [q EXCEPT !.pc = pc]]
    BY <1>a
  <2> QED BY <1>1, <1>a, <2>1, <2>2, AloneInOrder
<1>2. CASE Known(r)
  <2>1. CASE Finish(r, "known")
    BY <1>1, <1>2, <2>1, FinishInOrder DEF Known, Results
  <2>2. CASE req' = [req EXCEPT ![r].pc = "lookup", ![r].now = now] /\ UNCHANGED validations
    <3> DEFINE y == [q EXCEPT !.pc = "lookup", !.now = now]
    <3>1. y \in Local
      BY <1>1 DEF Local, PCs
    <3>3. req' = [req EXCEPT ![r] = y]
      BY <2>2
    <3>2. Situated(y)
      BY <1>1, <1>2 DEF Known, Situated, Local, Named
    <3> QED BY <1>1, <2>2, <3>1, <3>2, <3>3, AloneInOrder
  <2> QED BY <1>2, <2>1, <2>2 DEF Known
<1>3. ASSUME NEW at \in 0..MaxTime, NEW miss \in {"join", "call"}, Lookup(r, at, miss),
             q.pc \in {"lookup", "relookup"}
      PROVE  RequestsInOrder'
  <2>1. q.token \in Tokens /\ q.kind \in {"validate", "ensure"} /\ q.result # "user"
    BY <1>1, <1>3 DEF Situated
  <2>2. CASE Usable(q.token, at)
    <3> DEFINE u == identityCache[q.token].user
               y == [q EXCEPT !.pc = "roles", !.now = at, !.via = "cache", !.user = u]
    <3>1. u \in Users
      BY <1>3, <2>1, <2>2, UsableEntry
    <3>2. req' = [req EXCEPT ![r] = y]
      BY <1>3, <2>2 DEF Lookup
    <3> HIDE DEF u
    <3>3. y \in Local
      BY <1>1, <1>3, <3>1 DEF Local, PCs, Vias
    <3>4. Situated(y)
      BY <1>1, <2>1, <3>1 DEF Situated, Local, Named
    <3> QED BY <1>1, <1>3, <3>2, <3>3, <3>4, AloneInOrder DEF Lookup
  <2>3. CASE ~Usable(q.token, at)
    <3> DEFINE y == [q EXCEPT !.pc = miss, !.now = at]
    <3>1. req' = [req EXCEPT ![r] = y]
      BY <1>3, <2>3 DEF Lookup
    <3>2. y \in Local /\ Situated(y)
      BY <1>1, <1>3, <2>1 DEF Situated, Local, Named, PCs
    <3> QED BY <1>1, <1>3, <3>1, <3>2, AloneInOrder DEF Lookup
  <2> QED BY <2>2, <2>3
<1>4. CASE FirstLookup(r) \/ SecondLookup(r)
  <2>1. q.now \in 0..MaxTime
    BY <1>1 DEF Local
  <2> QED BY <1>1, <1>3, <1>4, <2>1 DEF FirstLookup, SecondLookup
<1>5. CASE Join(r)
  <2>1. q.pc = "join" /\ q.token \in Tokens /\ q.kind \in {"validate", "ensure"} /\ q.result # "user"
    BY <1>1, <1>5 DEF Join, Situated
  <2>2. CASE validations[q.token] = Nil
    <3>1. /\ validations' = [validations EXCEPT ![q.token] = r]
          /\ req' = [req EXCEPT ![r].pc = "relookup"]
      BY <1>5, <2>2 DEF Join, Goto
    <3>2. Situated([q EXCEPT !.pc = "relookup"])
      BY <1>1, <2>1 DEF Situated, Local, Named
    <3> QED BY <1>1, <1>a, <2>1, <3>1, <3>2 DEF PCs
  <2>3. CASE validations[q.token] # Nil
    <3> DEFINE l == validations[q.token]
               y == [q EXCEPT !.pc = "wait", !.leader = l]
    <3>1. req' = [req EXCEPT ![r] = y] /\ validations' = validations
      BY <1>5, <2>3 DEF Join
    <3>2. l \in Requests
      BY <1>1, <2>1, <2>3
    <3> HIDE DEF l
    <3>3. y \in Local /\ Situated(y)
      BY <1>1, <2>1, <3>2 DEF Situated, Local, Named, PCs
    <3> QED BY <1>1, <3>1, <3>3, AloneInOrder
  <2> QED BY <2>2, <2>3
<1>6. CASE Answer(r)
  <2>1. q.pc = "call" /\ q.token \in Tokens /\ q.kind \in {"validate", "fresh", "ensure"} /\ q.result # "user"
    BY <1>1, <1>6 DEF Answer, Situated
  <2> DEFINE u == owner[q.token]
  <2>2. u \in Users \cup {Nil}
    BY <2>1 DEF Orderly, TypeOK
  <2>3. CASE Finish(r, "error")
    BY <1>1, <2>1, <2>3, FinishInOrder DEF Results
  <2>4. CASE /\ req' = [req EXCEPT ![r].pc = IF u = Nil THEN "drop" ELSE "roles",
                                   ![r].user = u, ![r].via = "remote"]
             /\ UNCHANGED validations
    <3> DEFINE pc == IF u = Nil THEN "drop" ELSE "roles"
               y == [q EXCEPT !.pc = pc, !.user = u, !.via = "remote"]
    <3>1. req' = [req EXCEPT ![r] = y]
      BY <2>4
    <3> HIDE DEF u
    <3>2. /\ (u = Nil /\ pc = "drop") \/ (u \in Users /\ pc = "roles")
          /\ pc \in PCs /\ u \in Users \cup {Nil} /\ "remote" \in Vias
      BY <2>2 DEF PCs, Vias
    <3> HIDE DEF pc
    <3>3. y \in Local
      BY <1>1, <3>2 DEF Local
    <3>4. Situated(y)
      BY <1>1, <2>1, <3>2 DEF Situated, Local, Named
    <3> QED BY <1>1, <2>4, <3>1, <3>3, <3>4, AloneInOrder
  <2>5. ASSUME u # Nil, NEW n \in Tokens, UNCHANGED validations,
               req' = [req EXCEPT ![r].pc = "roles", ![r].user = u,
                                  ![r].via = "remote", ![r].newToken = n]
        PROVE  RequestsInOrder'
    <3> DEFINE y == [q EXCEPT !.pc = "roles", !.user = u, !.via = "remote", !.newToken = n]
    <3>1. req' = [req EXCEPT ![r] = y]
      BY <2>5
    <3> HIDE DEF u
    <3>2. y \in Local /\ Situated(y)
      BY <1>1, <2>1, <2>2, <2>5 DEF Situated, Local, Named, PCs, Vias, u
    <3> QED BY <1>1, <2>5, <3>1, <3>2, AloneInOrder
  <2> QED BY <1>6, <2>3, <2>4, <2>5 DEF Answer
<1>7. CASE Drop(r) \/ Touch(r) \/ DropOld(r)
  BY <1>1, <1>7, FinishInOrder DEF Drop, Touch, DropOld, Situated, Named, Results
<1>b. ASSUME NEW v \in RoleVersions, NEW at \in 0..MaxTime, Resolved(r, v, at),
             q.pc \in {"roles", "ask", "keep"}
      PROVE  RequestsInOrder'
  <2>1. q.kind = "refresh" \/ q.via \in {"cache", "remote"}
    BY <1>1, <1>b DEF Situated
  <2> DEFINE pc == CASE q.kind = "refresh" -> "done"
                     [] q.via = "cache"    -> "touch"
                     [] q.via = "remote"   -> "csrf"
             res == IF q.kind = "refresh" THEN "user" ELSE q.result
             z == [q EXCEPT !.roles = v, !.roleNow = at, !.pc = pc]
             y == [q EXCEPT !.roles = v, !.roleNow = at, !.pc = pc, !.result = res]
  <2>2. req' = [req EXCEPT ![r] = y] /\ UNCHANGED validations
    BY <1>1, <1>b DEF Resolved, Local
  <2>3. \/ q.kind = "refresh" /\ pc = "done" /\ res = "user" /\ q.via = "none"
        \/ q.kind # "refresh" /\ q.via = "cache" /\ pc = "touch" /\ res = q.result
        \/ q.kind # "refresh" /\ q.via = "remote" /\ pc = "csrf" /\ res = q.result
    BY <1>1, <2>1 DEF Situated
  <2> HIDE DEF pc, res
  <2>4. y \in Local
    BY ZenonT(60), <1>1, <1>b, <2>3 DEF Local, PCs, Results
  <2>5. Situated(y)
    BY <1>1, <1>b, <2>3 DEF Situated, Local, Named
  <2> QED BY <1>1, <2>2, <2>4, <2>5, AloneInOrder
<1>8. CASE CachedRoles(r)
  <2>1. q.pc = "roles" /\ q.user \in Users /\ roleProvider \in 0..MaxProvider
    BY <1>1, <1>8 DEF CachedRoles, Situated, Named, Orderly, TypeOK
  <2>2. ASSUME roleCache[q.user] # Nil, Resolved(r, roleCache[q.user].roles, now)
        PROVE  RequestsInOrder'
    <3>1. roleCache[q.user].roles \in RoleVersions
      BY <2>1, <2>2 DEF Orderly, TypeOK, RoleEntry, RoleVersions
    <3> QED BY <1>1, <1>b, <2>1, <2>2, <3>1
  <2>3. ASSUME UNCHANGED validations,
               req' = [req EXCEPT ![r].pc = "ask", ![r].roleNow = now, ![r].by = roleProvider]
        PROVE  RequestsInOrder'
    <3> DEFINE y == [q EXCEPT !.pc = "ask", !.roleNow = now, !.by = roleProvider]
    <3>1. req' = [req EXCEPT ![r] = y]
      BY <2>3
    <3>2. y \in Local /\ Situated(y)
      BY ZenonT(60), <1>1, <2>1 DEF Situated, Local, Named, PCs
    <3> QED BY <1>1, <2>3, <3>1, <3>2, AloneInOrder
  <2>4. ASSUME Resolved(r, -1, now) PROVE RequestsInOrder'
    <3>1. -1 \in RoleVersions /\ now \in 0..MaxTime
      BY CountersAssumption DEF RoleVersions, Orderly, TypeOK
    <3> QED BY <1>b, <2>1, <2>4, <3>1
  <2> QED BY <1>8, <2>2, <2>3, <2>4 DEF CachedRoles
<1>9. CASE AskProvider(r)
  <2>1. q.pc = "ask" /\ q.user \in Users /\ -1 \in RoleVersions /\ q.roleNow \in 0..MaxTime
    BY <1>1, <1>9 DEF AskProvider, Situated, Named, RoleVersions, Local
  <2>2. CASE Resolved(r, -1, q.roleNow)
    BY <1>b, <2>1, <2>2
  <2>3. CASE Finish(r, "error")
    BY <1>1, <2>1, <2>3, FinishInOrder DEF Results
  <2>4. ASSUME req' = [req EXCEPT ![r].pc = "keep", ![r].roles = roles[q.user]],
               UNCHANGED validations
        PROVE  RequestsInOrder'
    <3> DEFINE v == roles[q.user]
               y == [q EXCEPT !.pc = "keep", !.roles = v]
    <3>1. req' = [req EXCEPT ![r] = y]
      BY <2>4
    <3>2. v \in 0..MaxVersion /\ v \in RoleVersions /\ "keep" \in PCs
      BY <2>1 DEF Orderly, TypeOK, RoleVersions, PCs
    <3> HIDE DEF v
    <3>3. y \in Local
      BY <1>1, <3>2 DEF Local
    <3>4. Situated(y)
      BY <1>1, <2>1, <3>2 DEF Situated, Local, Named
    <3> QED BY <1>1, <2>4, <3>1, <3>3, <3>4, AloneInOrder
  <2> QED BY <1>9, <2>2, <2>3, <2>4 DEF AskProvider
<1>10. CASE KeepRoles(r)
  <2>1. q.roles \in RoleVersions /\ q.roleNow \in 0..MaxTime
    BY <1>1 DEF Local
  <2> QED BY <1>b, <1>10, <2>1 DEF KeepRoles
<1>11. CASE ReadCsrf(r)
  <2> DEFINE c == IF identityCache[q.token] = Nil THEN 0 ELSE identityCache[q.token].csrf
             y == [q EXCEPT !.pc = "store", !.csrf = c]
  <2>1. req' = [req EXCEPT ![r] = y] /\ UNCHANGED validations /\ q.pc = "csrf"
    BY <1>11 DEF ReadCsrf
  <2>2. c \in 0..MaxCsrf
    <3>1. q.token \in Tokens
      BY <1>1, <2>1 DEF Situated
    <3> QED BY <3>1 DEF Orderly, TypeOK, Entry
  <2> HIDE DEF c
  <2>3. y \in Local /\ Situated(y)
    BY <1>1, <2>1, <2>2 DEF Situated, Local, Named, PCs
  <2> QED BY <1>1, <2>1, <2>3, AloneInOrder
<1>12. CASE Store(r)
  <2>1. q.pc = "store" /\ q.via = "remote" /\ q.user \in Users
    BY <1>1, <1>12 DEF Store, Situated, Named
  <2>2. CASE q.newToken = Nil
    BY <1>1, <1>12, <2>1, <2>2, FinishInOrder DEF Store, Results
  <2>3. CASE q.newToken # Nil
    <3>1. Situated([q EXCEPT !.pc = "storeNew"])
      BY <1>1, <2>1, <2>3 DEF Situated, Local, Named
    <3> QED BY <1>1, <1>a, <1>12, <2>1, <2>3, <3>1 DEF Store, Goto, PCs
  <2> QED BY <2>2, <2>3
<1>13. CASE StoreNew(r)
  <2>1. q.pc = "storeNew"
    BY <1>13 DEF StoreNew
  <2>2. Situated([q EXCEPT !.pc = "dropOld"])
    BY <1>1, <2>1 DEF Situated, Local, Named
  <2> QED BY <1>1, <1>a, <1>13, <2>1, <2>2 DEF StoreNew, Goto, PCs
<1>14. ASSUME NEW n \in Tokens, BecomeAnonymous(r, n) PROVE RequestsInOrder'
  <2> DEFINE y == [q EXCEPT !.pc = "done", !.newToken = n]
  <2>1. req' = [req EXCEPT ![r] = y] /\ UNCHANGED validations /\ q.pc = "anonymous"
    BY <1>14 DEF BecomeAnonymous, requestVars
  <2>2. y \in Local /\ Situated(y)
    BY ZenonT(60), <1>1, <2>1 DEF Situated, Local, Named, PCs
  <2> QED BY <1>1, <2>1, <2>2, AloneInOrder
<1> QED
  BY <1>2, <1>4, <1>5, <1>6, <1>7, <1>8, <1>9, <1>10, <1>11, <1>12, <1>13, <1>14 DEF Step

CacheInOrder == CacheType /\ UserSessionsExact /\ ZeroEntries

LEMMA RemoveInOrder ==
    ASSUME CacheInOrder, NEW t \in Tokens, RemoveIdentity(t)
    PROVE  CacheInOrder'
<1>1. CacheType' /\ UserSessionsExact'
  BY RemoveExact DEF CacheInOrder
<1>2. ZeroEntries'
  BY DEF RemoveIdentity, Removed, CacheInOrder, CacheType, ZeroEntries, ZeroTime
<1> QED BY <1>1, <1>2 DEF CacheInOrder

LEMMA SetInOrder ==
    ASSUME CacheInOrder, NEW t \in Tokens, NEW e \in Entry, SetIdentity(t, e),
           e.user = Nil => e.validatedAt = ZeroTime
    PROVE  CacheInOrder'
<1>1. CacheType' /\ UserSessionsExact'
  BY SetExact DEF CacheInOrder
<1>2. ZeroEntries'
  BY DEF SetIdentity, Removed, CacheInOrder, CacheType, ZeroEntries, ZeroTime
<1> QED BY <1>1, <1>2 DEF CacheInOrder

LEMMA EntryTypes ==
    ASSUME TypeOK
    PROVE  /\ AnonymousEntry \in Entry
           /\ AnonymousEntry.user = Nil /\ AnonymousEntry.validatedAt = ZeroTime
           /\ \A r \in Requests :
                 /\ NewEntry(r) \in Entry
                 /\ NewEntry(r).user = req[r].user /\ NewEntry(r).validatedAt = req[r].now
<1>1. AnonymousEntry \in Entry
  BY DEF TypeOK, AnonymousEntry, Entry, ZeroTime
<1>2. ASSUME NEW r \in Requests PROVE NewEntry(r) \in Entry
  <2>1. req[r] \in Local
    BY DEF TypeOK
  <2> QED BY <2>1 DEF NewEntry, Entry, Local
<1> QED BY <1>1, <1>2 DEF AnonymousEntry, NewEntry

\* A field of an entry that the index does not depend on.
LEMMA UpdateInOrder ==
    ASSUME CacheInOrder, NEW t \in Tokens, NEW e \in Entry, identityCache[t] # Nil,
           e.user = identityCache[t].user, e.validatedAt = identityCache[t].validatedAt,
           identityCache' = [identityCache EXCEPT ![t] = e], userSessions' = userSessions
    PROVE  CacheInOrder'
<1>1. e # Nil
  BY NilAssumption
<1>2. \A s \in Tokens : /\ (identityCache'[s] = Nil) <=> (identityCache[s] = Nil)
                        /\ identityCache[s] # Nil =>
                              /\ identityCache'[s].user = identityCache[s].user
                              /\ identityCache'[s].validatedAt = identityCache[s].validatedAt
  BY <1>1 DEF CacheInOrder, CacheType
<1>3. CacheType'
  BY DEF CacheInOrder, CacheType
<1> QED BY <1>2, <1>3 DEF CacheInOrder, UserSessionsExact, ZeroEntries, ZeroTime

LEMMA StepCache ==
    ASSUME Orderly, NEW r \in Requests, Step(r)
    PROVE  CacheInOrder'
<1>1. CacheInOrder /\ req[r] \in Local /\ Situated(req[r]) /\ TypeOK
  BY DEF Orderly, CacheInOrder, CacheType, TypeOK
<1>2. CASE UNCHANGED cacheVars
  BY <1>1, <1>2 DEF cacheVars, CacheInOrder, CacheType, UserSessionsExact, ZeroEntries, ZeroTime
<1>3. CASE Drop(r) \/ DropOld(r)
  <2>1. req[r].token \in Tokens
    BY <1>1, <1>3 DEF Drop, DropOld, Situated, Named
  <2> QED BY <1>1, <1>3, <2>1, RemoveInOrder DEF Drop, DropOld
<1>4. CASE Store(r) \/ StoreNew(r)
  <2>1. req[r].token \in Tokens /\ req[r].user # Nil
    BY <1>1, <1>4 DEF Store, StoreNew, Situated, Named
  <2>2. StoreNew(r) => req[r].newToken \in Tokens
    BY <1>1 DEF StoreNew, Situated
  <2>3. PICK t \in Tokens : SetIdentity(t, NewEntry(r))
    BY <1>4, <2>1, <2>2 DEF Store, StoreNew
  <2> QED BY <1>1, <2>1, <2>3, EntryTypes, SetInOrder
<1>5. ASSUME NEW n \in Tokens, BecomeAnonymous(r, n) PROVE CacheInOrder'
  BY <1>1, <1>5, EntryTypes, SetInOrder DEF BecomeAnonymous
<1>6. CASE Touch(r)
  <2> DEFINE t == req[r].token
             e == [identityCache[t] EXCEPT !.lastActivity = req[r].now]
  <2>1. t \in Tokens /\ req[r].now \in 0..MaxTime
    BY <1>1, <1>6 DEF Touch, Situated, Local
  <2>2. \/ UNCHANGED cacheVars
        \/ identityCache[t] # Nil /\ identityCache' = [identityCache EXCEPT ![t] = e] /\ userSessions' = userSessions
    BY <1>6 DEF Touch, cacheVars
  <2>3. CASE identityCache[t] # Nil /\ identityCache' = [identityCache EXCEPT ![t] = e] /\ userSessions' = userSessions
    <3>1. identityCache[t] \in Entry
      BY <1>1, <2>1, <2>3 DEF CacheInOrder, CacheType
    <3>2. e \in Entry /\ e.user = identityCache[t].user /\ e.validatedAt = identityCache[t].validatedAt
      BY <2>1, <3>1 DEF Entry
    <3> HIDE DEF e
    <3> QED BY <1>1, <2>1, <2>3, <3>2, UpdateInOrder
  <2> QED BY <1>2, <2>2, <2>3
<1>7. Known(r) \/ FirstLookup(r) \/ Join(r) \/ SecondLookup(r) \/ Answer(r) \/ CachedRoles(r)
      \/ AskProvider(r) \/ KeepRoles(r) \/ ReadCsrf(r) => UNCHANGED cacheVars
  BY DEF Known, FirstLookup, Join, SecondLookup, Answer, CachedRoles, AskProvider, KeepRoles,
         ReadCsrf, Lookup, cacheVars
<1> QED BY <1>2, <1>3, <1>4, <1>5, <1>6, <1>7 DEF Step

\* The rest of the state under the steps of a request.
WorldType ==
    /\ now \in 0..MaxTime
    /\ roleCache \in [Users -> RoleEntry \cup {Nil}]
    /\ roleProvider \in 0..MaxProvider
    /\ csrfSeq \in 0..MaxCsrf
    /\ owner \in [Tokens -> Users \cup {Nil}]
    /\ issued \subseteq Tokens
    /\ endedAt \in [Tokens -> 0..MaxTime]
    /\ roles \in [Users -> 0..MaxVersion]
    /\ changedAt \in [Users -> 0..MaxTime]

LEMMA TypeParts == TypeOK <=> WorldType /\ CacheType /\ RequestType
BY DEF TypeOK, WorldType, CacheType, RequestType

LEMMA StepWorld ==
    ASSUME Orderly, NEW r \in Requests, Step(r)
    PROVE  WorldType'
<1> USE DEF roleVars, authApp, roleStore
<1>1. WorldType /\ req[r] \in Local /\ Situated(req[r])
  BY DEF Orderly, TypeOK, WorldType
<1>2. CASE KeepRoles(r)
  <2>1. /\ req[r].user \in Users /\ req[r].roles \in 0..MaxVersion
        /\ req[r].by \in 0..MaxProvider /\ req[r].roleNow \in 0..MaxTime
    BY <1>1, <1>2 DEF KeepRoles, Situated, Named, Local
  <2>2. [roles |-> req[r].roles, by |-> req[r].by,
         expiresAt |-> req[r].roleNow + RoleCacheTTL] \in RoleEntry
    BY <2>1 DEF RoleEntry
  <2> QED BY <1>1, <1>2, <2>2 DEF KeepRoles, WorldType
<1>3. CASE Answer(r)
  <2>1. req[r].token \in Tokens
    BY <1>1, <1>3 DEF Answer, Situated
  <2>2. UNCHANGED <<now, roleVars, csrfSeq, roleStore>>
    BY <1>3 DEF Answer
  <2>3. CASE UNCHANGED authApp
    BY <1>1, <2>2, <2>3 DEF WorldType
  <2>4. ASSUME NEW n \in Tokens \ issued, NEW keep \in BOOLEAN,
               owner[req[r].token] # Nil,
               issued' = issued \cup {n},
               owner' = [owner EXCEPT ![n] = owner[req[r].token],
                                      ![req[r].token] = IF keep THEN owner[req[r].token] ELSE Nil],
               endedAt' = [endedAt EXCEPT ![req[r].token] = IF keep THEN @ ELSE now]
        PROVE  WorldType'
    BY <1>1, <2>1, <2>2, <2>4 DEF WorldType
  <2> QED BY <1>3, <2>3, <2>4 DEF Answer
<1>4. CASE UNCHANGED <<now, roleVars, csrfSeq, authApp, roleStore>>
  BY <1>1, <1>4 DEF WorldType
<1>5. ASSUME NEW n \in Tokens, BecomeAnonymous(r, n) PROVE WorldType'
  BY <1>1, <1>5 DEF WorldType, BecomeAnonymous
<1>6. Known(r) \/ FirstLookup(r) \/ Join(r) \/ SecondLookup(r) \/ Drop(r) \/ CachedRoles(r)
      \/ AskProvider(r) \/ Touch(r) \/ ReadCsrf(r) \/ Store(r) \/ StoreNew(r) \/ DropOld(r)
      => UNCHANGED <<now, roleVars, csrfSeq, authApp, roleStore>>
  BY DEF Known, FirstLookup, Join, SecondLookup, Drop, CachedRoles, AskProvider, Touch,
         ReadCsrf, Store, StoreNew, DropOld, Lookup
<1> QED BY <1>2, <1>3, <1>4, <1>5, <1>6 DEF Step

\* A request arrives.
LEMMA BeginInOrder ==
    ASSUME Orderly, NEW r \in Requests,
           \/ \E kind \in Kinds, t \in Tokens : Begin(r, kind, t)
           \/ \E u \in Users : BeginRefresh(r, u)
    PROVE  RequestsInOrder'
<1> DEFINE q == req[r]
<1>1. /\ RequestsInOrder /\ q \in Local /\ Situated(q) /\ now \in 0..MaxTime
      /\ validations \in [Tokens -> Requests \cup {Nil}]
  BY SMTT(40) DEF Orderly, RequestsInOrder, RequestType, TypeOK
<1>2. q.pc = "idle" /\ q.result # "user" /\ q.via = "none" /\ validations' = validations
  BY <1>1 DEF Begin, BeginRefresh, Situated
<1>3. ASSUME NEW kind \in Kinds, NEW t \in Tokens, Begin(r, kind, t) PROVE RequestsInOrder'
  <2> DEFINE pc == CASE kind = "validate" -> "lookup"
                     [] kind = "fresh"    -> "call"
                     [] kind = "ensure"   -> "known"
             y == [q EXCEPT !.pc = pc, !.kind = kind, !.token = t, !.now = now]
  <2>1. req' = [req EXCEPT ![r] = y]
    BY <1>3 DEF Begin
  <2>2. kind \in {"validate", "fresh", "ensure"} /\ kind \in AllKinds
    BY <1>3 DEF Begin, AllKinds
  <2>3. /\ pc \in PCs /\ pc \in {"lookup", "call", "known"}
        /\ kind = "fresh" => pc = "call"
    BY <2>2 DEF PCs
  <2> HIDE DEF pc
  <2>4. y \in Local
    BY <1>1, <2>2, <2>3 DEF Local
  <2>5. Situated(y)
    BY <1>1, <1>2, <2>2, <2>3 DEF Situated, Local, Named
  <2> QED BY <1>1, <1>2, <2>1, <2>4, <2>5, AloneInOrder
<1>4. ASSUME NEW u \in Users, BeginRefresh(r, u) PROVE RequestsInOrder'
  <2> DEFINE y == [q EXCEPT !.pc = "roles", !.kind = "refresh", !.user = u, !.now = now]
  <2>1. req' = [req EXCEPT ![r] = y]
    BY <1>4 DEF BeginRefresh
  <2>2. y \in Local
    BY <1>1 DEF Local, PCs, AllKinds
  <2>3. Situated(y)
    BY <1>1, <1>2 DEF Situated, Local, Named
  <2> QED BY <1>1, <1>2, <2>1, <2>2, <2>3, AloneInOrder
<1> QED BY <1>3, <1>4

\* Everything else happens between the steps of the requests.
Elsewhere ==
    \/ \E t \in Tokens : CreateAnonymous(t) \/ Destroy(t) \/ SetCsrfToken(t) \/ Revoke(t)
    \/ EvictExpired
    \/ \E U \in SUBSET Users : InvalidateRoles(U)
    \/ SetRoleProvider
    \/ \E t \in Tokens, u \in Users : Login(t, u)
    \/ \E u \in Users : ChangeRoles(u)
    \/ Tick

LEMMA ElsewhereCache ==
    ASSUME Orderly, Elsewhere
    PROVE  CacheInOrder'
<1>1. CacheInOrder /\ TypeOK
  BY DEF Orderly, CacheInOrder, CacheType, TypeOK
<1>2. CASE UNCHANGED cacheVars
  BY <1>1, <1>2 DEF cacheVars, CacheInOrder, CacheType, UserSessionsExact, ZeroEntries, ZeroTime
<1>3. ASSUME NEW t \in Tokens, CreateAnonymous(t) PROVE CacheInOrder'
  BY <1>1, <1>3, EntryTypes, SetInOrder DEF CreateAnonymous
<1>4. ASSUME NEW t \in Tokens, Destroy(t) PROVE CacheInOrder'
  BY <1>1, <1>4, RemoveInOrder DEF Destroy
<1>5. ASSUME NEW t \in Tokens, SetCsrfToken(t) PROVE CacheInOrder'
  <2> DEFINE e == [identityCache[t] EXCEPT !.csrf = csrfSeq + 1]
  <2>1. /\ identityCache[t] # Nil /\ userSessions' = userSessions
        /\ identityCache' = [identityCache EXCEPT ![t] = e]
    BY <1>5 DEF SetCsrfToken, HasSession
  <2>2. identityCache[t] \in Entry /\ csrfSeq + 1 \in 0..MaxCsrf
    BY <1>1, <1>5, <2>1 DEF TypeOK, SetCsrfToken
  <2>3. e \in Entry /\ e.user = identityCache[t].user /\ e.validatedAt = identityCache[t].validatedAt
    BY <2>2 DEF Entry
  <2> HIDE DEF e
  <2> QED BY <1>1, <2>1, <2>3, UpdateInOrder
<1>6. CASE EvictExpired
  <2>1. /\ identityCache' = [t \in Tokens |-> IF Expired(t) THEN Nil ELSE identityCache[t]]
        /\ userSessions' = [u \in Users |-> userSessions[u] \
              {t \in Tokens : Expired(t) /\ identityCache[t].user = u}]
    BY <1>6 DEF EvictExpired
  <2>2. CacheType' /\ UserSessionsExact' /\ ZeroEntries'
    BY <1>1, <2>1 DEF CacheInOrder, CacheType, UserSessionsExact, ZeroEntries, ZeroTime
  <2> QED BY <2>2 DEF CacheInOrder
<1> QED
  BY <1>2, <1>3, <1>4, <1>5, <1>6
  DEF Elsewhere, Revoke, InvalidateRoles, SetRoleProvider, Login, ChangeRoles, Tick, cacheVars

LEMMA ElsewhereWorld ==
    ASSUME Orderly, Elsewhere
    PROVE  WorldType' /\ UNCHANGED requestVars
<1> USE DEF roleVars, authApp, roleStore
<1>1. WorldType
  BY DEF Orderly, TypeParts, TypeOK, WorldType
<1>2. ASSUME NEW t \in Tokens, CreateAnonymous(t) \/ Destroy(t) \/ SetCsrfToken(t) \/ Revoke(t)
      PROVE  WorldType' /\ UNCHANGED requestVars
  BY <1>1, <1>2 DEF CreateAnonymous, Destroy, SetCsrfToken, Revoke, WorldType
<1>3. CASE EvictExpired
  BY <1>1, <1>3 DEF EvictExpired, WorldType
<1>4. ASSUME NEW U \in SUBSET Users, InvalidateRoles(U) PROVE WorldType' /\ UNCHANGED requestVars
  BY <1>1, <1>4 DEF InvalidateRoles, WorldType
<1>5. CASE SetRoleProvider
  BY <1>1, <1>5 DEF SetRoleProvider, WorldType
<1>6. ASSUME NEW t \in Tokens, NEW u \in Users, Login(t, u) PROVE WorldType' /\ UNCHANGED requestVars
  BY <1>1, <1>6 DEF Login, WorldType
<1>7. ASSUME NEW u \in Users, ChangeRoles(u) PROVE WorldType' /\ UNCHANGED requestVars
  BY <1>1, <1>7 DEF ChangeRoles, WorldType
<1>8. CASE Tick
  BY <1>1, <1>8 DEF Tick, WorldType
<1> QED BY <1>2, <1>3, <1>4, <1>5, <1>6, <1>7, <1>8 DEF Elsewhere

LEMMA NextCases ==
    Next <=> \/ \E r \in Requests :
                   \/ \E kind \in Kinds, t \in Tokens : Begin(r, kind, t)
                   \/ \E u \in Users : BeginRefresh(r, u)
                   \/ Step(r)
             \/ Elsewhere
BY DEF Next, Elsewhere

LEMMA OrderlyInit == Init => Orderly
<1> SUFFICES ASSUME Init PROVE Orderly
  OBVIOUS
<1>1. \A r \in Requests : Situated(req[r])
  BY DEF Init, NoRequest, Situated, Named
<1>2. ZeroEntries
  BY DEF Init, ZeroEntries
<1> QED BY <1>1, <1>2, InitType DEF Orderly

LEMMA OrderlyStep == ASSUME Orderly, [Next]_vars PROVE Orderly'
<1>1. RequestsInOrder /\ CacheInOrder /\ WorldType
  BY DEF Orderly, TypeOK, RequestsInOrder, RequestType, CacheInOrder, CacheType, WorldType
<1>2. ASSUME RequestsInOrder', CacheInOrder', WorldType' PROVE Orderly'
  <2>1. TypeOK'
    BY <1>2 DEF TypeOK, RequestsInOrder, RequestType, CacheInOrder, CacheType, WorldType
  <2> QED BY <1>2, <2>1 DEF Orderly, RequestsInOrder, CacheInOrder
<1>3. UNCHANGED requestVars => RequestsInOrder'
  BY <1>1 DEF requestVars, RequestsInOrder, RequestType, Situated
<1>4. UNCHANGED cacheVars => CacheInOrder'
  BY <1>1 DEF cacheVars, CacheInOrder, CacheType, UserSessionsExact, ZeroEntries, ZeroTime
<1>5. ASSUME NEW r \in Requests, Step(r) PROVE Orderly'
  BY <1>2, <1>5, StepInOrder, StepCache, StepWorld
<1>6. ASSUME Elsewhere PROVE Orderly'
  BY <1>2, <1>3, <1>6, ElsewhereCache, ElsewhereWorld
<1>7. ASSUME NEW r \in Requests,
             \/ \E kind \in Kinds, t \in Tokens : Begin(r, kind, t)
             \/ \E u \in Users : BeginRefresh(r, u)
      PROVE  Orderly'
  <2>1. UNCHANGED cacheVars /\ WorldType'
    BY <1>1, <1>7 DEF Begin, BeginRefresh, WorldType, cacheVars, roleVars, authApp, roleStore
  <2> QED BY <1>2, <1>4, <1>7, <2>1, BeginInOrder
<1>8. CASE UNCHANGED vars
  <2>1. WorldType' /\ UNCHANGED requestVars /\ UNCHANGED cacheVars
    BY <1>1, <1>8 DEF vars, WorldType, requestVars, cacheVars, roleVars, authApp, roleStore
  <2> QED BY <1>2, <1>3, <1>4, <2>1
<1> QED BY <1>5, <1>6, <1>7, <1>8, NextCases

-----------------------------------------------------------------------------
(* What a step of a request does to its locals *)

SameView(q, y) == y.via = q.via /\ y.user = q.user /\ y.newToken = q.newToken /\ y.now = q.now
SameRoles(q, y) == y.roles = q.roles /\ y.roleNow = q.roleNow /\ y.result = q.result

Answered(q, y) ==
    /\ q.pc = "call" /\ y.pc \in {"drop", "roles"}
    /\ y.via = "remote" /\ y.user = owner[q.token] /\ y.now = q.now
    /\ y.newToken # Nil => owner'[y.newToken] = y.user \/ endedAt'[y.newToken] = now
    /\ SameRoles(q, y)

Hit(q, y) ==
    /\ q.pc \in {"lookup", "relookup"} /\ y.pc = "roles"
    /\ y.via = "cache" /\ y.now \in {q.now, now} /\ Usable(q.token, y.now)
    /\ y.user = identityCache[q.token].user /\ y.newToken = q.newToken
    /\ SameRoles(q, y)

Missed(q, y) ==
    /\ <<q.pc, y.pc>> \in {<<"known", "lookup">>, <<"lookup", "join">>, <<"relookup", "call">>}
    /\ y.via = q.via /\ y.now \in {q.now, now}
    /\ SameRoles(q, y)

RolesMove(q, y) ==
    /\ q.pc \in {"roles", "ask", "keep"}
    /\ y.pc \in {"ask", "keep", "touch", "csrf"} \/ (y.pc = "done" /\ q.kind = "refresh")
    /\ SameView(q, y)
    /\ \/ q.pc = "roles" /\ y.pc = "ask" /\ y.roleNow = now /\ y.roles = q.roles /\ y.result = q.result
       \/ /\ q.pc = "roles" /\ roleCache[q.user] # Nil /\ now < roleCache[q.user].expiresAt
          /\ y.roleNow = now /\ y.roles = roleCache[q.user].roles /\ y.pc \in {"touch", "csrf", "done"}
       \/ q.pc = "ask" /\ y.pc = "keep" /\ y.roles = roles[q.user] /\ y.roleNow = q.roleNow /\ y.result = q.result
       \/ /\ q.pc \in {"roles", "ask"} /\ y.pc \in {"touch", "csrf", "done"}
          /\ y.roles = -1 /\ y.roleNow \in {q.roleNow, now}
       \/ q.pc = "keep" /\ y.pc \in {"touch", "csrf", "done"} /\ y.roles = q.roles /\ y.roleNow = q.roleNow

Stored(q, y) ==
    /\ <<q.pc, y.pc>> \in {<<"csrf", "store">>, <<"store", "storeNew">>, <<"storeNew", "dropOld">>}
    /\ SameView(q, y) /\ SameRoles(q, y)

Renamed(q, y) ==
    /\ q.pc = "anonymous" /\ y.pc = "done" /\ y.via = q.via /\ y.user = q.user /\ y.now = q.now
    /\ SameRoles(q, y)

\* The request goes on alone.
Moves(r) ==
    LET q == req[r]
        y == req'[r]
    IN  /\ \A p \in Requests \ {r} : req'[p] = req[p]
        /\ validations' = validations
        /\ y.kind = q.kind /\ y.token = q.token
        /\ Answered(q, y) \/ Hit(q, y) \/ Missed(q, y) \/ RolesMove(q, y) \/ Stored(q, y) \/ Renamed(q, y)

\* Or it finishes, and others with it.
Finishes(r, result) ==
    /\ Finish(r, result)
    /\ \/ result = "known" /\ req[r].pc = "known"
       \/ result = "error" /\ req[r].pc \in {"call", "ask"}
       \/ result = "none" /\ req[r].pc = "drop"
       \/ result = "user" /\ req[r].pc \in {"touch", "store", "dropOld"}

LEMMA MovesOrFinishes ==
    ASSUME Orderly, NEW r \in Requests, Step(r)
    PROVE  Moves(r) \/ Join(r) \/ \E result \in Results : Finishes(r, result)
<1> DEFINE q == req[r]
<1>1. /\ req \in [Requests -> Local] /\ q \in Local /\ Situated(q) /\ now \in 0..MaxTime
      /\ \A result \in {"known", "error", "none", "user"} : result \in Results
  BY DEF Orderly, TypeOK, Results
<1> DEFINE F == \E result \in Results : Finishes(r, result)
           Alone(y) == req' = [req EXCEPT ![r] = y] /\ UNCHANGED validations
<1>2. ASSUME NEW y, Alone(y), y.kind = q.kind, y.token = q.token,
             \/ Answered(q, y) \/ Hit(q, y) \/ Missed(q, y) \/ RolesMove(q, y) \/ Stored(q, y)
             \/ Renamed(q, y)
      PROVE  Moves(r)
  <2>1. req'[r] = y /\ \A p \in Requests \ {r} : req'[p] = req[p]
    BY <1>1, <1>2
  <2> QED BY <1>2, <2>1 DEF Moves
<1> HIDE DEF Alone
<1>3. CASE Known(r)
  <2>1. CASE Finish(r, "known")
    BY <1>1, <1>3, <2>1 DEF Known, Finishes
  <2>2. CASE req' = [req EXCEPT ![r].pc = "lookup", ![r].now = now] /\ UNCHANGED validations
    <3> DEFINE y == [q EXCEPT !.pc = "lookup", !.now = now]
    <3>1. Alone(y)
      BY <2>2 DEF Alone
    <3>2. y.kind = q.kind /\ y.token = q.token /\ Missed(q, y)
      BY <1>1, <1>3 DEF Known, Local, Missed, SameRoles
    <3> QED BY <1>2, <3>1, <3>2
  <2> QED BY <1>3, <2>1, <2>2 DEF Known
<1>4. ASSUME NEW at \in 0..MaxTime, NEW miss \in {"join", "call"}, Lookup(r, at, miss),
             \/ q.pc = "lookup" /\ miss = "join" /\ at = q.now
             \/ q.pc = "relookup" /\ miss = "call" /\ at = now
      PROVE  Moves(r)
  <2>2. CASE Usable(q.token, at)
    <3> DEFINE u == identityCache[q.token].user
               y == [q EXCEPT !.pc = "roles", !.now = at, !.via = "cache", !.user = u]
    <3>1. Alone(y)
      BY <1>4, <2>2 DEF Alone, Lookup
    <3>2. /\ y.kind = q.kind /\ y.token = q.token /\ y.pc = "roles" /\ y.via = "cache"
          /\ y.now = at /\ y.user = u /\ y.newToken = q.newToken /\ SameRoles(q, y)
      BY <1>1 DEF Local, SameRoles
    <3> HIDE DEF y
    <3>3. Hit(q, y)
      BY <1>4, <2>2, <3>2 DEF Hit
    <3> QED BY <1>2, <3>1, <3>2, <3>3
  <2>3. CASE ~Usable(q.token, at)
    <3> DEFINE y == [q EXCEPT !.pc = miss, !.now = at]
    <3>1. Alone(y)
      BY <1>4, <2>3 DEF Alone, Lookup
    <3>2. y.kind = q.kind /\ y.token = q.token /\ Missed(q, y)
      BY <1>1, <1>4 DEF Local, Missed, SameRoles
    <3> QED BY <1>2, <3>1, <3>2
  <2> QED BY <2>2, <2>3
<1>5. CASE FirstLookup(r) \/ SecondLookup(r)
  <2>1. q.now \in 0..MaxTime
    BY <1>1 DEF Local
  <2> QED BY <1>1, <1>4, <1>5, <2>1 DEF FirstLookup, SecondLookup
<1>6. CASE Answer(r)
  <2> DEFINE u == owner[q.token]
             pc == IF u = Nil THEN "drop" ELSE "roles"
  <2>1. CASE Finish(r, "error")
    BY <1>1, <1>6, <2>1 DEF Answer, Finishes
  <2>2. CASE /\ req' = [req EXCEPT ![r].pc = pc, ![r].user = u, ![r].via = "remote"]
             /\ UNCHANGED validations
    <3> DEFINE y == [q EXCEPT !.pc = pc, !.user = u, !.via = "remote"]
    <3>1. Alone(y) /\ pc \in {"drop", "roles"} /\ q.pc = "call"
      BY <1>6, <2>2 DEF Alone, Answer
    <3> HIDE DEF u, pc
    <3>2. y.kind = q.kind /\ y.token = q.token /\ y.pc = pc /\ y.user = u /\ y.via = "remote"
          /\ y.now = q.now /\ y.newToken = q.newToken /\ SameRoles(q, y)
      BY <1>1 DEF Local, SameRoles
    <3> HIDE DEF y
    <3>3. Answered(q, y)
      BY <1>1, <3>1, <3>2 DEF Answered, u, Situated
    <3> QED BY <1>2, <3>1, <3>2, <3>3
  <2>3. ASSUME NEW n \in Tokens \ issued, NEW keep \in BOOLEAN, UNCHANGED validations,
               owner' = [owner EXCEPT ![n] = u, ![q.token] = IF keep THEN u ELSE Nil],
               endedAt' = [endedAt EXCEPT ![q.token] = IF keep THEN @ ELSE now],
               req' = [req EXCEPT ![r].pc = "roles", ![r].user = u,
                                  ![r].via = "remote", ![r].newToken = n]
        PROVE  Moves(r)
    <3> DEFINE y == [q EXCEPT !.pc = "roles", !.user = u, !.via = "remote", !.newToken = n]
    <3>1. Alone(y) /\ q.pc = "call"
      BY <1>6, <2>3 DEF Alone, Answer
    <3>4. owner'[n] = u \/ endedAt'[n] = now
      BY <2>3 DEF Orderly, TypeOK
    <3> HIDE DEF u
    <3>2. y.kind = q.kind /\ y.token = q.token /\ y.pc = "roles" /\ y.user = u /\ y.via = "remote"
          /\ y.now = q.now /\ y.newToken = n /\ SameRoles(q, y)
      BY <1>1 DEF Local, SameRoles
    <3> HIDE DEF y
    <3>3. Answered(q, y)
      BY <3>1, <3>2, <3>4 DEF Answered, u
    <3> QED BY <1>2, <3>1, <3>2, <3>3
  <2> QED BY <1>6, <2>1, <2>2, <2>3 DEF Answer
<1>7. CASE Drop(r) \/ Touch(r) \/ DropOld(r)
  BY <1>1, <1>7 DEF Drop, Touch, DropOld, Finishes
<1>8. ASSUME NEW v, NEW at, Resolved(r, v, at), q.pc \in {"roles", "ask", "keep"},
             \/ q.pc = "roles" /\ roleCache[q.user] # Nil /\ now < roleCache[q.user].expiresAt
                /\ at = now /\ v = roleCache[q.user].roles
             \/ q.pc \in {"roles", "ask"} /\ v = -1 /\ at \in {q.roleNow, now}
             \/ q.pc = "keep" /\ v = q.roles /\ at = q.roleNow
      PROVE  Moves(r)
  <2>1. q.kind = "refresh" \/ q.via \in {"cache", "remote"}
    BY <1>1, <1>8 DEF Situated
  <2> DEFINE pc == CASE q.kind = "refresh" -> "done"
                     [] q.via = "cache"    -> "touch"
                     [] q.via = "remote"   -> "csrf"
             res == IF q.kind = "refresh" THEN "user" ELSE q.result
             y == [q EXCEPT !.roles = v, !.roleNow = at, !.pc = pc, !.result = res]
  <2>2. Alone(y)
    BY <1>1, <1>8 DEF Resolved, Alone, Local
  <2>3. /\ pc \in {"touch", "csrf", "done"}
        /\ pc = "done" => q.kind = "refresh"
    BY <1>1, <2>1 DEF Situated
  <2> HIDE DEF pc, res
  <2>4. y.kind = q.kind /\ y.token = q.token /\ y.pc = pc /\ y.roles = v /\ y.roleNow = at /\ SameView(q, y)
    BY <1>1 DEF Local, SameView
  <2> HIDE DEF y
  <2>5. RolesMove(q, y)
    BY <1>8, <2>3, <2>4 DEF RolesMove
  <2> QED BY <1>2, <2>2, <2>4, <2>5
<1>9. CASE CachedRoles(r)
  <2>1. CASE /\ roleCache[q.user] # Nil /\ now < roleCache[q.user].expiresAt
             /\ Resolved(r, roleCache[q.user].roles, now)
    BY <1>8, <1>9, <2>1 DEF CachedRoles
  <2>2. CASE /\ UNCHANGED validations
             /\ req' = [req EXCEPT ![r].pc = "ask", ![r].roleNow = now, ![r].by = roleProvider]
    <3> DEFINE y == [q EXCEPT !.pc = "ask", !.roleNow = now, !.by = roleProvider]
    <3>1. Alone(y)
      BY <2>2 DEF Alone
    <3>2. y.kind = q.kind /\ y.token = q.token /\ RolesMove(q, y)
      BY <1>1, <1>9 DEF CachedRoles, Local, RolesMove, SameView
    <3> QED BY <1>2, <3>1, <3>2
  <2>3. CASE Resolved(r, -1, now)
    BY <1>8, <1>9, <2>3 DEF CachedRoles
  <2> QED BY <1>9, <2>1, <2>2, <2>3 DEF CachedRoles
<1>10. CASE AskProvider(r)
  <2>1. CASE Resolved(r, -1, q.roleNow)
    BY <1>8, <1>10, <2>1 DEF AskProvider
  <2>2. CASE Finish(r, "error")
    BY <1>1, <1>10, <2>2 DEF AskProvider, Finishes
  <2>3. CASE req' = [req EXCEPT ![r].pc = "keep", ![r].roles = roles[q.user]] /\ UNCHANGED validations
    <3> DEFINE v == roles[q.user]
               y == [q EXCEPT !.pc = "keep", !.roles = v]
    <3>1. Alone(y)
      BY <2>3 DEF Alone
    <3> HIDE DEF v
    <3>2. y.kind = q.kind /\ y.token = q.token /\ y.pc = "keep" /\ y.roles = v /\ y.roleNow = q.roleNow
          /\ y.result = q.result /\ SameView(q, y)
      BY <1>1 DEF Local, SameView
    <3> HIDE DEF y
    <3>3. RolesMove(q, y)
      BY <1>10, <3>2 DEF AskProvider, RolesMove, v
    <3> QED BY <1>2, <3>1, <3>2, <3>3
  <2> QED BY <1>10, <2>1, <2>2, <2>3 DEF AskProvider
<1>11. CASE KeepRoles(r)
  BY <1>8, <1>11 DEF KeepRoles
<1>12. CASE ReadCsrf(r)
  <2> DEFINE c == IF identityCache[q.token] = Nil THEN 0 ELSE identityCache[q.token].csrf
             y == [q EXCEPT !.pc = "store", !.csrf = c]
  <2>1. Alone(y) /\ q.pc = "csrf"
    BY <1>12 DEF ReadCsrf, Alone
  <2> HIDE DEF c
  <2>2. y.kind = q.kind /\ y.token = q.token /\ Stored(q, y)
    BY <1>1, <2>1 DEF Local, Stored, SameView, SameRoles
  <2> QED BY <1>2, <2>1, <2>2
<1>13. ASSUME NEW pc, Goto(r, pc), UNCHANGED validations,
              (q.pc = "store" /\ pc = "storeNew") \/ (q.pc = "storeNew" /\ pc = "dropOld")
       PROVE  Moves(r)
  <2> DEFINE y == [q EXCEPT !.pc = pc]
  <2>1. Alone(y)
    BY <1>13 DEF Goto, Alone
  <2>2. y.kind = q.kind /\ y.token = q.token /\ y.pc = pc /\ SameView(q, y) /\ SameRoles(q, y)
    BY <1>1 DEF Local, SameView, SameRoles
  <2> HIDE DEF y
  <2>3. Stored(q, y)
    BY <1>13, <2>2 DEF Stored
  <2> QED BY <1>2, <2>1, <2>2, <2>3
<1>14. CASE Store(r)
  BY <1>1, <1>13, <1>14 DEF Store, Finishes
<1>15. CASE StoreNew(r)
  BY <1>13, <1>15 DEF StoreNew
<1>16. ASSUME NEW n \in Tokens, BecomeAnonymous(r, n) PROVE Moves(r)
  <2> DEFINE y == [q EXCEPT !.pc = "done", !.newToken = n]
  <2>1. Alone(y) /\ q.pc = "anonymous"
    BY <1>16 DEF BecomeAnonymous, Alone
  <2>2. y.kind = q.kind /\ y.token = q.token /\ Renamed(q, y)
    BY <1>1, <2>1 DEF Local, Renamed, SameRoles
  <2> QED BY <1>2, <2>1, <2>2
<1> QED
  BY <1>3, <1>5, <1>6, <1>7, <1>9, <1>10, <1>11, <1>12, <1>14, <1>15, <1>16 DEF Step

LEMMA FinishEffect ==
    ASSUME Orderly, NEW r \in Requests, NEW result \in Results, Finishes(r, result), NEW p \in Requests
    PROVE  /\ req[p] \in Local /\ Situated(req[p])
           /\ p \notin Sharing(r) => req'[p] = req[p]
           /\ p \in Sharing(r) =>
                 /\ p = r \/ (req[p].pc = "wait" /\ req[p].leader = r)
                 /\ req'[p].kind = req[p].kind /\ req'[p].token = req[p].token
                 /\ req'[p].now = req[p].now /\ req'[p].roleNow = req[p].roleNow
                 /\ req'[p].pc \in {"anonymous", "done"} /\ req'[p].result = result
                 /\ req'[p].user = req[r].user /\ req'[p].roles = req[r].roles
                 /\ req'[p].via = (IF p = r THEN req[r].via ELSE "shared")
                 /\ req'[p].newToken = req[r].newToken
<1>1. req[p] \in Local /\ Situated(req[p])
  BY DEF Orderly, TypeOK
<1>2. CASE p \in Sharing(r)
  BY <1>1, <1>2 DEF Finishes, Finish, Local, Sharing
<1>3. CASE p \notin Sharing(r)
  BY <1>1, <1>3 DEF Finishes, Finish
<1> QED BY <1>1, <1>2, <1>3

-----------------------------------------------------------------------------
(* Flights and their followers *)

Shared == Orderly /\ Flights /\ Leads /\ Waiting

LEMMA FinishShared ==
    ASSUME Shared, NEW r \in Requests, NEW result \in Results, Finishes(r, result)
    PROVE  Flights' /\ Leads' /\ Waiting'
<1> USE FinishEffect DEF Shared
<1>1. /\ validations' = [t \in Tokens |-> IF validations[t] = r THEN Nil ELSE validations[t]]
      /\ validations \in [Tokens -> Requests \cup {Nil}]
      /\ req[r].pc # "wait"
  BY Zenon DEF Finishes, Finish, Orderly, TypeOK
<1>2. Flights'
  <2> SUFFICES ASSUME NEW t \in Tokens, validations'[t] # Nil
               PROVE  (LET l == req[validations[t]] IN
                       l.token = t /\ l.pc \in Flying /\ l.kind \in {"validate", "ensure"})'
    BY DEF Flights
  <2>1. PICK l \in Requests \ {r} : l = validations[t] /\ validations'[t] = l
    BY <1>1
  <2>2. req[l].token = t /\ req[l].pc \in Flying /\ req[l].kind \in {"validate", "ensure"}
    BY <2>1, RequestsAssumption DEF Flights
  <2>3. l \notin Sharing(r)
    BY <2>1, <2>2 DEF Flying, Named
  <2> QED BY <2>1, <2>2, <2>3
<1>3. ASSUME NEW p \in Requests, req'[p].pc \notin {"done", "anonymous"}
      PROVE  p # r /\ p \notin Sharing(r) /\ req'[p] = req[p]
  BY <1>3 DEF Sharing
<1>4. Leads'
  <2> SUFFICES ASSUME NEW p \in Requests, (req[p].kind \in {"validate", "ensure"})',
                      (\/ req[p].pc \in {"relookup", "call", "drop"}
                       \/ (req[p].pc \in Named /\ req[p].via = "remote"))'
               PROVE  (validations[req[p].token] = p)'
    BY DEF Leads
  <2>1. p # r /\ req'[p] = req[p]
    BY <1>3 DEF Named
  <2>2. validations[req[p].token] = p /\ req[p].token \in Tokens
    BY <2>1 DEF Leads, Situated, Named
  <2> QED BY <1>1, <2>1, <2>2
<1>5. Waiting'
  <2> SUFFICES ASSUME NEW p \in Requests, req'[p].pc = "wait"
               PROVE  (validations[req[p].token] = req[p].leader /\ req[p].leader # Nil)'
    BY DEF Waiting
  <2>1. p # r /\ p \notin Sharing(r) /\ req'[p] = req[p]
    BY <1>3
  <2>2. /\ validations[req[p].token] = req[p].leader /\ req[p].leader # Nil
        /\ req[p].token \in Tokens /\ req[p].leader # r
    BY <2>1 DEF Waiting, Situated, Sharing
  <2> QED BY <1>1, <2>1, <2>2
<1> QED BY <1>2, <1>4, <1>5

\* One request moves, without leaving the flight it leads, and without
\* asking auth_app outside it.
LEMMA AloneShared ==
    ASSUME Shared, Orderly', NEW r \in Requests,
           \A p \in Requests \ {r} : req'[p] = req[p],
           validations' = validations,
           req'[r].pc # "wait",
           req[r].pc \in Flying /\ req[r].kind \in {"validate", "ensure"} =>
              /\ req'[r].pc \in Flying
              /\ req'[r].kind = req[r].kind /\ req'[r].token = req[r].token,
           /\ req'[r].kind \in {"validate", "ensure"}
           /\ req'[r].pc \in {"relookup", "call", "drop"}
              \/ (req'[r].pc \in Named /\ req'[r].via = "remote")
           => /\ req'[r].kind = req[r].kind /\ req'[r].token = req[r].token
              /\ req[r].pc \in {"relookup", "call", "drop"}
                 \/ (req[r].pc \in Named /\ req[r].via = "remote")
    PROVE  Flights' /\ Leads' /\ Waiting'
<1> USE DEF Shared
<1>1. Flights'
  <2> SUFFICES ASSUME NEW t \in Tokens, validations'[t] # Nil
               PROVE  (LET l == req[validations[t]] IN
                       l.token = t /\ l.pc \in Flying /\ l.kind \in {"validate", "ensure"})'
    BY DEF Flights
  <2>1. PICK l \in Requests : l = validations[t] /\ validations'[t] = l
    BY DEF Orderly, TypeOK
  <2>2. req[l].token = t /\ req[l].pc \in Flying /\ req[l].kind \in {"validate", "ensure"}
    BY <2>1, RequestsAssumption DEF Flights
  <2>3. CASE l = r
    BY <2>1, <2>2, <2>3
  <2>4. CASE l # r
    BY <2>1, <2>2, <2>4
  <2> QED BY <2>3, <2>4
<1>2. Leads'
  <2> SUFFICES ASSUME NEW p \in Requests, (req[p].kind \in {"validate", "ensure"})',
                      (\/ req[p].pc \in {"relookup", "call", "drop"}
                       \/ (req[p].pc \in Named /\ req[p].via = "remote"))'
               PROVE  (validations[req[p].token] = p)'
    BY DEF Leads
  <2>1. CASE p = r
    BY <2>1 DEF Leads
  <2>2. CASE p # r
    <3>1. req'[p] = req[p]
      BY <2>2
    <3> QED BY <3>1 DEF Leads
  <2> QED BY <2>1, <2>2
<1>3. Waiting'
  <2> SUFFICES ASSUME NEW p \in Requests, req'[p].pc = "wait"
               PROVE  (validations[req[p].token] = req[p].leader /\ req[p].leader # Nil)'
    BY DEF Waiting
  <2>1. req'[p] = req[p]
    OBVIOUS
  <2> QED BY <2>1 DEF Waiting
<1> QED BY <1>1, <1>2, <1>3

LEMMA JoinShared ==
    ASSUME Shared, NEW r \in Requests, Join(r)
    PROVE  Flights' /\ Leads' /\ Waiting'
<1> USE DEF Shared
<1> DEFINE t == req[r].token
<1>1. /\ req \in [Requests -> Local] /\ req[r].pc = "join" /\ t \in Tokens
      /\ req[r].kind \in {"validate", "ensure"}
      /\ validations \in [Tokens -> Requests \cup {Nil}]
      /\ req[r] \in Local
  BY DEF Orderly, TypeOK, Situated, Join
<1>2. CASE validations[t] = Nil
  <2>1. /\ validations' = [validations EXCEPT ![t] = r]
        /\ req' = [req EXCEPT ![r].pc = "relookup"]
    BY <1>2 DEF Join, Goto
  <2>2. /\ \A p \in Requests \ {r} : req'[p] = req[p]
        /\ req'[r].pc = "relookup" /\ req'[r].token = t /\ req'[r].kind = req[r].kind
    BY <1>1, <2>1 DEF Local
  <2>3. Flights'
    BY <1>1, <1>2, <2>1, <2>2 DEF Flights, Flying, Named
  <2>4. Leads'
    BY <1>1, <1>2, <2>1, <2>2, RequestsAssumption DEF Leads, Named
  <2>5. Waiting'
    BY <1>1, <1>2, <2>1, <2>2 DEF Waiting
  <2> QED BY <2>3, <2>4, <2>5
<1>3. CASE validations[t] # Nil
  <2>1. req' = [req EXCEPT ![r].pc = "wait", ![r].leader = validations[t]] /\ validations' = validations
    BY <1>3 DEF Join
  <2>2. /\ \A p \in Requests \ {r} : req'[p] = req[p]
        /\ req'[r].pc = "wait" /\ req'[r].token = t /\ req'[r].leader = validations[t]
    BY <1>1, <2>1 DEF Local
  <2>3. Flights'
    BY <1>1, <2>1, <2>2 DEF Flights, Flying, Named
  <2>4. Leads'
    BY <2>1, <2>2 DEF Leads, Named
  <2>5. Waiting'
    BY <1>3, <2>1, <2>2 DEF Waiting
  <2> QED BY <2>3, <2>4, <2>5
<1> QED BY <1>2, <1>3

LEMMA BeginEffect ==
    ASSUME Orderly, NEW r \in Requests,
           \/ \E kind \in Kinds, t \in Tokens : Begin(r, kind, t)
           \/ \E u \in Users : BeginRefresh(r, u)
    PROVE  /\ \A p \in Requests \ {r} : req'[p] = req[p]
           /\ validations' = validations
           /\ req[r].pc = "idle" /\ req'[r].via = "none" /\ req'[r].now = now
           /\ req'[r].pc \in {"known", "lookup", "call", "roles"}
           /\ req'[r].pc = "call" => req'[r].kind = "fresh"
           /\ req'[r].roleNow = req[r].roleNow /\ req'[r].result = req[r].result
           /\ UNCHANGED <<now, identityCache, authApp, roleStore>>
<1>1. /\ req \in [Requests -> Local] /\ req[r] \in Local
      /\ req[r].pc = "idle" => req[r].via = "none"
  BY DEF Orderly, TypeOK, Situated
<1>2. ASSUME NEW kind \in Kinds, NEW t \in Tokens, Begin(r, kind, t),
             NEW pc, pc = CASE kind = "validate" -> "lookup"
                            [] kind = "fresh"    -> "call"
                            [] kind = "ensure"   -> "known"
      PROVE  req' = [req EXCEPT ![r] =
                       [req[r] EXCEPT !.pc = pc, !.kind = kind, !.token = t, !.now = now]]
  BY <1>2 DEF Begin
<1>3. ASSUME NEW kind \in Kinds, NEW t \in Tokens, Begin(r, kind, t)
      PROVE  /\ \A p \in Requests \ {r} : req'[p] = req[p]
             /\ req'[r].via = req[r].via /\ req'[r].now = now
             /\ req'[r].pc \in {"known", "lookup", "call"}
             /\ req'[r].pc = "call" => req'[r].kind = "fresh"
             /\ req'[r].roleNow = req[r].roleNow /\ req'[r].result = req[r].result
  <2>1. PICK pc : pc = CASE kind = "validate" -> "lookup"
                         [] kind = "fresh"    -> "call"
                         [] kind = "ensure"   -> "known"
    OBVIOUS
  <2>2. kind \in {"validate", "fresh", "ensure"}
    BY <1>3, RequestsAssumption DEF Begin, AllKinds
  <2>3. pc \in {"known", "lookup", "call"} /\ (pc = "call" => kind = "fresh")
    BY <2>1, <2>2
  <2>4. req' = [req EXCEPT ![r] = [req[r] EXCEPT !.pc = pc, !.kind = kind, !.token = t, !.now = now]]
    BY <1>2, <1>3, <2>1
  <2>5. /\ req'[r].pc = pc /\ req'[r].kind = kind /\ req'[r].via = req[r].via /\ req'[r].now = now
        /\ req'[r].roleNow = req[r].roleNow /\ req'[r].result = req[r].result
    BY <1>1, <2>4 DEF Local
  <2> QED BY <1>1, <2>3, <2>4, <2>5
<1>4. ASSUME NEW u \in Users, BeginRefresh(r, u)
      PROVE  /\ \A p \in Requests \ {r} : req'[p] = req[p]
             /\ req'[r].via = req[r].via /\ req'[r].now = now
             /\ req'[r].pc = "roles"
             /\ req'[r].roleNow = req[r].roleNow /\ req'[r].result = req[r].result
  <2>1. req' = [req EXCEPT ![r] =
            [req[r] EXCEPT !.pc = "roles", !.kind = "refresh", !.user = u, !.now = now]]
    BY <1>4 DEF BeginRefresh
  <2> QED BY <1>1, <2>1 DEF Local
<1>5. req[r].pc = "idle" /\ validations' = validations /\ UNCHANGED <<now, identityCache, authApp, roleStore>>
  BY DEF Begin, BeginRefresh, cacheVars
<1> QED BY <1>1, <1>3, <1>4, <1>5

LEMMA SharedInit == Init => Shared
<1> SUFFICES ASSUME Init PROVE Shared
  OBVIOUS
<1>1. Flights /\ Leads /\ Waiting
  BY DEF Init, NoRequest, Flights, Leads, Waiting
<1> QED BY <1>1, OrderlyInit DEF Shared

LEMMA SharedStep == ASSUME Shared, [Next]_vars PROVE Shared'
<1>1. Orderly /\ Orderly'
  BY OrderlyStep DEF Shared
<1>2. ASSUME NEW r \in Requests, Step(r) PROVE Flights' /\ Leads' /\ Waiting'
  <2>1. CASE Moves(r)
    <3> DEFINE q == req[r]
               y == req'[r]
    <3>1. /\ \A p \in Requests \ {r} : req'[p] = req[p]
          /\ validations' = validations /\ y.kind = q.kind /\ y.token = q.token
          /\ Answered(q, y) \/ Hit(q, y) \/ Missed(q, y) \/ RolesMove(q, y) \/ Stored(q, y) \/ Renamed(q, y)
      BY <2>1 DEF Moves
    <3> HIDE DEF y
    <3>2. y.pc # "wait"
      BY <3>1 DEF Answered, Hit, Missed, RolesMove, Stored, Renamed
    <3>3. q.pc \in Flying /\ q.kind \in {"validate", "ensure"} => y.pc \in Flying
      BY <3>1 DEF Answered, Hit, Missed, RolesMove, Stored, Renamed, Flying, Named
    <3>4. y.pc \in {"relookup", "call", "drop"} \/ (y.pc \in Named /\ y.via = "remote")
          => q.pc \in {"relookup", "call", "drop"} \/ (q.pc \in Named /\ q.via = "remote")
      BY <3>1 DEF Answered, Hit, Missed, RolesMove, Stored, Renamed, Named, SameView
    <3> QED BY <1>1, <3>1, <3>2, <3>3, <3>4, AloneShared DEF y
  <2>2. CASE Join(r)
    BY <2>2, JoinShared
  <2>3. ASSUME NEW result \in Results, Finishes(r, result) PROVE Flights' /\ Leads' /\ Waiting'
    BY <2>3, FinishShared
  <2> QED BY <1>1, <1>2, <2>1, <2>2, <2>3, MovesOrFinishes
<1>3. ASSUME NEW r \in Requests,
             \/ \E kind \in Kinds, t \in Tokens : Begin(r, kind, t)
             \/ \E u \in Users : BeginRefresh(r, u)
      PROVE  Flights' /\ Leads' /\ Waiting'
  <2>1. /\ \A p \in Requests \ {r} : req'[p] = req[p]
        /\ validations' = validations
        /\ req[r].pc = "idle" /\ req'[r].via = "none"
        /\ req'[r].pc \in {"known", "lookup", "call", "roles"}
        /\ req'[r].pc = "call" => req'[r].kind = "fresh"
    BY <1>1, <1>3, BeginEffect
  <2> QED BY <1>1, <2>1, AloneShared DEF Flying, Named
<1>4. ASSUME UNCHANGED requestVars PROVE Flights' /\ Leads' /\ Waiting'
  BY <1>4 DEF requestVars, Shared, Flights, Leads, Waiting
<1>5. UNCHANGED vars => UNCHANGED requestVars
  BY DEF vars, requestVars
<1>6. Elsewhere => UNCHANGED requestVars
  BY <1>1, ElsewhereWorld
<1> QED BY <1>1, <1>2, <1>3, <1>4, <1>5, <1>6, NextCases DEF Shared

-----------------------------------------------------------------------------
(* Ended sessions *)

Endings == Orderly /\ Unissued /\ EndedEntries /\ \A r \in Requests : Ended(r)

\* All that auth_app ever does to a token: issue it, or end it.
AuthAppMoves(t) ==
    \/ owner'[t] = owner[t] /\ endedAt'[t] = endedAt[t]
    \/ owner[t] = Nil /\ endedAt'[t] = endedAt[t]
    \/ endedAt'[t] = now

LEMMA NextAuthApp ==
    ASSUME Endings, [Next]_vars
    PROVE  /\ now' \in Nat /\ now <= now'
           /\ \A t \in Tokens : AuthAppMoves(t)
           /\ Unissued'
<1> USE DEF authApp, Endings
<1>1. TypeOK /\ Unissued
  BY DEF Orderly
<1>2. CASE UNCHANGED <<now, authApp>>
  BY SMTT(40), <1>1, <1>2 DEF TypeOK, Unissued, AuthAppMoves
<1>3. ASSUME NEW r \in Requests, Answer(r)
      PROVE  (\A t \in Tokens : AuthAppMoves(t)) /\ Unissued' /\ now' = now
  <2>1. req[r].token \in Tokens /\ now' = now
    BY <1>3 DEF Answer, Situated, Orderly
  <2>2. CASE UNCHANGED authApp
    BY <1>1, <2>1, <2>2 DEF Unissued, AuthAppMoves
  <2>3. ASSUME NEW n \in Tokens \ issued, NEW keep \in BOOLEAN, owner[req[r].token] # Nil,
               issued' = issued \cup {n},
               owner' = [owner EXCEPT ![n] = owner[req[r].token],
                                      ![req[r].token] = IF keep THEN owner[req[r].token] ELSE Nil],
               endedAt' = [endedAt EXCEPT ![req[r].token] = IF keep THEN @ ELSE now]
        PROVE  (\A t \in Tokens : AuthAppMoves(t)) /\ Unissued'
    <3>1. owner[n] = Nil /\ n # req[r].token /\ req[r].token \in issued
      BY <2>1, <2>3 DEF Unissued
    <3>2. \A t \in Tokens :
             /\ owner'[t] = IF t = n THEN owner[req[r].token]
                            ELSE IF t = req[r].token THEN (IF keep THEN owner[t] ELSE Nil)
                            ELSE owner[t]
             /\ endedAt'[t] = IF t = req[r].token /\ ~keep THEN now ELSE endedAt[t]
      BY <1>1, <2>1, <2>3, <3>1 DEF TypeOK
    <3> QED BY <2>3, <3>1, <3>2 DEF Unissued, AuthAppMoves
  <2> QED BY <1>3, <2>1, <2>2, <2>3 DEF Answer
<1>4. ASSUME NEW r \in Requests, Step(r), ~Answer(r)
      PROVE  UNCHANGED <<now, owner, endedAt>> /\ issued \subseteq issued'
  BY <1>4 DEF Step, Known, FirstLookup, Join, SecondLookup, Drop, CachedRoles, AskProvider, Touch,
         ReadCsrf, Store, StoreNew, DropOld, Lookup, KeepRoles, BecomeAnonymous
<1>5. ASSUME NEW r \in Requests,
             \/ \E kind \in Kinds, t \in Tokens : Begin(r, kind, t)
             \/ \E u \in Users : BeginRefresh(r, u)
      PROVE  UNCHANGED <<now, authApp>>
  BY <1>5 DEF Begin, BeginRefresh
<1>6. ASSUME NEW t \in Tokens, CreateAnonymous(t)
      PROVE  UNCHANGED <<now, owner, endedAt>> /\ issued \subseteq issued'
  BY <1>6 DEF CreateAnonymous
<1>7. UNCHANGED <<now, owner, endedAt>> /\ issued \subseteq issued'
      => now' \in Nat /\ now <= now' /\ (\A t \in Tokens : AuthAppMoves(t)) /\ Unissued'
  BY <1>1 DEF TypeOK, Unissued, AuthAppMoves
<1>8. ASSUME NEW t \in Tokens, Revoke(t)
      PROVE  now' = now /\ (\A s \in Tokens : AuthAppMoves(s)) /\ Unissued'
  <2>1. now' = now /\ issued' = issued
        /\ \A s \in Tokens : /\ owner'[s] = IF s = t THEN Nil ELSE owner[s]
                             /\ endedAt'[s] = IF s = t THEN now ELSE endedAt[s]
    BY <1>1, <1>8 DEF Revoke, TypeOK
  <2> QED BY <1>1, <2>1 DEF Unissued, AuthAppMoves
<1>9. ASSUME NEW t \in Tokens, NEW u \in Users, Login(t, u)
      PROVE  now' = now /\ (\A s \in Tokens : AuthAppMoves(s)) /\ Unissued'
  <2>1. now' = now /\ issued' = issued \cup {t} /\ owner[t] = Nil
        /\ \A s \in Tokens : /\ owner'[s] = IF s = t THEN u ELSE owner[s]
                             /\ endedAt'[s] = endedAt[s]
    BY <1>1, <1>9 DEF Login, TypeOK, Unissued
  <2> QED BY <1>1, <2>1 DEF Unissued, AuthAppMoves
<1>10. Tick => now' = now + 1 /\ UNCHANGED authApp
  BY DEF Tick
<1>11. CASE Tick
  BY <1>1, <1>10, <1>11 DEF TypeOK, Unissued, AuthAppMoves
<1>12. ASSUME Elsewhere, ~Tick, ~(\E t \in Tokens : CreateAnonymous(t) \/ Revoke(t)),
              ~(\E t \in Tokens, u \in Users : Login(t, u))
       PROVE  UNCHANGED <<now, authApp>>
  BY <1>12 DEF Elsewhere, Destroy, SetCsrfToken, EvictExpired, InvalidateRoles, SetRoleProvider,
     ChangeRoles
<1>13. UNCHANGED vars => UNCHANGED <<now, authApp>>
  BY DEF vars
<1>14. ASSUME now' = now, \A t \in Tokens : AuthAppMoves(t), Unissued'
       PROVE  now' \in Nat /\ now <= now' /\ (\A t \in Tokens : AuthAppMoves(t)) /\ Unissued'
  BY <1>1, <1>14 DEF TypeOK
<1> QED
  BY <1>2, <1>3, <1>4, <1>5, <1>6, <1>7, <1>8, <1>9, <1>11, <1>12, <1>13, <1>14, NextCases

\* What was asked before the end stays so, and what lags it by less than a TTL.
LEMMA StillAsked ==
    ASSUME TypeOK, NEW t \in Tokens, AuthAppMoves(t), NEW u \in Users, NEW x \in Int, x <= now
    PROVE  /\ (owner[t] # u => x <= endedAt[t]) => (owner'[t] # u => x <= endedAt'[t])
           /\ (owner[t] # u => x < endedAt[t] + IdentityCacheTTL)
              => (owner'[t] # u => x < endedAt'[t] + IdentityCacheTTL)
<1>1. endedAt[t] \in Nat /\ now \in Nat /\ IdentityCacheTTL \in Nat \ {0}
  BY DEF TypeOK
<1>2. owner[t] = Nil => owner[t] # u
  BY RequestsAssumption
<1> QED BY <1>1, <1>2 DEF AuthAppMoves

\* What a step makes of an entry.
EntryMoves(t) ==
    LET e == identityCache[t]
        f == identityCache'[t]
    IN  \/ f = Nil
        \/ f = AnonymousEntry
        \/ e # Nil /\ f.user = e.user /\ f.validatedAt = e.validatedAt
        \/ \E r \in Requests :
              /\ f = NewEntry(r)
              /\ \/ req[r].pc = "store" /\ t = req[r].token
                 \/ req[r].pc = "storeNew" /\ t = req[r].newToken

LEMMA NextEntries ==
    ASSUME Orderly, [Next]_vars, NEW t \in Tokens
    PROVE  EntryMoves(t)
<1>1. identityCache \in [Tokens -> Entry \cup {Nil}]
  BY DEF Orderly, TypeOK
<1>2. identityCache' = identityCache => EntryMoves(t)
  BY DEF EntryMoves
<1>3. ASSUME NEW s \in Tokens, RemoveIdentity(s) PROVE EntryMoves(t)
  BY <1>1, <1>3 DEF RemoveIdentity, Removed, EntryMoves
<1>4. ASSUME NEW s, NEW e, SetIdentity(s, e) PROVE identityCache'[t] = IF t = s THEN e ELSE identityCache[t]
  BY <1>1, <1>4 DEF SetIdentity, Removed
<1>5. ASSUME NEW r \in Requests, Step(r) PROVE EntryMoves(t)
  <2>1. Situated(req[r])
    BY DEF Orderly
  <2>2. CASE Drop(r) \/ DropOld(r)
    BY <1>3, <2>1, <2>2 DEF Drop, DropOld, Situated, Named
  <2>3. CASE Store(r)
    BY <1>4, <2>3 DEF Store, EntryMoves
  <2>4. CASE StoreNew(r)
    BY <1>4, <2>4 DEF StoreNew, EntryMoves
  <2>5. ASSUME NEW n \in Tokens, BecomeAnonymous(r, n) PROVE EntryMoves(t)
    BY <1>4, <2>5 DEF BecomeAnonymous, EntryMoves
  <2>6. CASE Touch(r)
    <3>1. CASE identityCache[req[r].token] # Nil
               /\ identityCache' = [identityCache EXCEPT ![req[r].token].lastActivity = req[r].now]
      <4>1. req[r].token \in Tokens
        BY <2>1, <2>6 DEF Touch, Situated
      <4>2. identityCache[req[r].token] \in Entry
        BY <1>1, <3>1, <4>1
      <4>3. LET f == [identityCache[req[r].token] EXCEPT !.lastActivity = req[r].now] IN
            /\ f.user = identityCache[req[r].token].user
            /\ f.validatedAt = identityCache[req[r].token].validatedAt
        BY SMTT(40), <4>2 DEF Entry
      <4> QED BY <1>1, <3>1, <4>1, <4>3 DEF EntryMoves
    <3> QED BY <1>2, <2>6, <3>1 DEF Touch
  <2>7. Known(r) \/ FirstLookup(r) \/ Join(r) \/ SecondLookup(r) \/ Answer(r) \/ CachedRoles(r)
        \/ AskProvider(r) \/ KeepRoles(r) \/ ReadCsrf(r) => identityCache' = identityCache
    BY DEF Known, FirstLookup, Join, SecondLookup, Answer, CachedRoles, AskProvider, KeepRoles,
           ReadCsrf, Lookup, cacheVars
  <2> QED BY <1>2, <1>5, <2>2, <2>3, <2>4, <2>5, <2>6, <2>7 DEF Step
<1>6. ASSUME NEW s \in Tokens, CreateAnonymous(s) PROVE EntryMoves(t)
  BY <1>4, <1>6 DEF CreateAnonymous, EntryMoves
<1>7. ASSUME NEW s \in Tokens, Destroy(s) PROVE EntryMoves(t)
  BY <1>3, <1>7 DEF Destroy
<1>8. ASSUME NEW s \in Tokens, SetCsrfToken(s) PROVE EntryMoves(t)
  <2>1. identityCache[s] \in Entry /\ identityCache' = [identityCache EXCEPT ![s].csrf = csrfSeq + 1]
    BY <1>1, <1>8 DEF SetCsrfToken, HasSession
  <2>2. LET f == [identityCache[s] EXCEPT !.csrf = csrfSeq + 1] IN
        f.user = identityCache[s].user /\ f.validatedAt = identityCache[s].validatedAt
    BY <2>1 DEF Entry
  <2>3. identityCache[s] # Nil
    BY <1>8 DEF SetCsrfToken, HasSession
  <2> QED BY <1>1, <2>1, <2>2, <2>3 DEF EntryMoves
<1>9. CASE EvictExpired
  <2>1. identityCache'[t] = IF Expired(t) THEN Nil ELSE identityCache[t]
    BY <1>9 DEF EvictExpired
  <2> QED BY <2>1 DEF EntryMoves
<1>10. ASSUME NEW r \in Requests,
              \/ \E kind \in Kinds, s \in Tokens : Begin(r, kind, s)
              \/ \E u \in Users : BeginRefresh(r, u)
       PROVE  identityCache' = identityCache
  BY <1>10 DEF Begin, BeginRefresh, cacheVars
<1>11. ASSUME Elsewhere, ~EvictExpired,
              ~(\E s \in Tokens : CreateAnonymous(s) \/ Destroy(s) \/ SetCsrfToken(s))
       PROVE  identityCache' = identityCache
  BY <1>11 DEF Elsewhere, Revoke, InvalidateRoles, SetRoleProvider, Login, ChangeRoles, Tick,
     cacheVars
<1>12. UNCHANGED vars => identityCache' = identityCache
  BY DEF vars, cacheVars
<1> QED BY <1>2, <1>5, <1>6, <1>7, <1>8, <1>9, <1>10, <1>11, <1>12, NextCases

LEMMA EntriesStep == ASSUME Endings, Orderly', [Next]_vars PROVE EndedEntries'
<1> USE DEF Endings
<1>1. TypeOK /\ TypeOK'
  BY DEF Orderly
<1>2. now \in Nat /\ now' \in Nat /\ now <= now' /\ \A t \in Tokens : AuthAppMoves(t)
  BY <1>1, NextAuthApp DEF TypeOK
<1> SUFFICES ASSUME NEW t \in Tokens, identityCache'[t] # Nil
             PROVE  /\ identityCache'[t].validatedAt <= now'
                    /\ identityCache'[t].user # Nil =>
                         (owner'[t] # identityCache'[t].user => identityCache'[t].validatedAt <= endedAt'[t])
  BY DEF EndedEntries, AskedBefore
<1> DEFINE f == identityCache'[t]
<1>3. f \in Entry /\ f.user \in Users \cup {Nil} /\ f.validatedAt \in Int
  BY <1>1 DEF TypeOK, Entry
<1>4. ASSUME f.validatedAt <= now, f.user # Nil => (owner[t] # f.user => f.validatedAt <= endedAt[t])
      PROVE  /\ f.validatedAt <= now'
             /\ f.user # Nil => (owner'[t] # f.user => f.validatedAt <= endedAt'[t])
  <2>1. f.validatedAt <= now'
    BY <1>2, <1>3, <1>4
  <2>2. CASE f.user # Nil
    BY <1>1, <1>2, <1>3, <1>4, <2>1, <2>2, StillAsked
  <2> QED BY <2>1, <2>2
<1>5. CASE f = AnonymousEntry
  <2>1. f.user = Nil /\ f.validatedAt = ZeroTime
    BY <1>1, <1>5, EntryTypes
  <2>2. ZeroTime <= now'
    BY <1>2 DEF ZeroTime
  <2> QED BY <2>1, <2>2
<1>6. CASE identityCache[t] # Nil /\ f.user = identityCache[t].user /\ f.validatedAt = identityCache[t].validatedAt
  BY <1>4, <1>6 DEF EndedEntries, AskedBefore
<1>7. ASSUME NEW r \in Requests, f = NewEntry(r),
             \/ req[r].pc = "store" /\ t = req[r].token
             \/ req[r].pc = "storeNew" /\ t = req[r].newToken
      PROVE  /\ f.validatedAt <= now'
             /\ f.user # Nil => (owner'[t] # f.user => f.validatedAt <= endedAt'[t])
  <2>1. f.user = req[r].user /\ f.validatedAt = req[r].now
    BY <1>1, <1>7, EntryTypes
  <2>2. Situated(req[r]) /\ Ended(r) /\ Nil \notin Tokens
    BY DEF Orderly
  <2>3. req[r].via = "remote" /\ t # Nil
    BY <1>7, <2>2 DEF Situated
  <2> QED BY <1>4, <1>7, <2>1, <2>2, <2>3 DEF Ended, AskedBefore
<1> QED BY <1>5, <1>6, <1>7, NextEntries DEF EntryMoves

\* A request's result stays as true as it was while auth_app moves on.
LEMMA StaysEnded ==
    ASSUME Endings, Orderly', [Next]_vars, NEW r \in Requests,
           req'[r].now = req[r].now \/ req'[r].now = now,
           req'[r].via \in {"cache", "remote"} /\ req'[r].user # Nil =>
              /\ req'[r].via = req[r].via /\ req'[r].user = req[r].user
              /\ req'[r].token = req[r].token /\ req'[r].newToken = req[r].newToken
              /\ req'[r].now = req[r].now
    PROVE  Ended(r)'
<1> USE DEF Endings
<1> DEFINE q == req[r]
           y == req'[r]
<1>1. /\ TypeOK /\ q \in Local /\ y \in Local /\ Situated(q) /\ Situated(y) /\ Ended(r)
      /\ now \in Nat /\ now' \in Nat /\ now <= now' /\ \A t \in Tokens : AuthAppMoves(t)
  BY NextAuthApp DEF Orderly, TypeOK
<1>2. y.now \in Nat /\ q.now \in Nat /\ q.now <= now /\ y.now <= now'
  BY <1>1 DEF Local, Ended
<1>3. CASE y.via \in {"cache", "remote"} /\ y.user # Nil
  <2>1. /\ y.via = q.via /\ y.user = q.user /\ y.token = q.token /\ y.newToken = q.newToken
        /\ y.now = q.now
    BY <1>3
  <2>2. y.user \in Users /\ y.token \in Tokens /\ y.newToken \in Tokens \cup {Nil}
    BY <1>1, <1>3 DEF Local, Situated
  <2>3. y.via = "remote" =>
           /\ owner'[y.token] # y.user => y.now <= endedAt'[y.token]
           /\ y.newToken # Nil => (owner'[y.newToken] # y.user => y.now <= endedAt'[y.newToken])
    BY <1>1, <1>2, <1>3, <2>1, <2>2, StillAsked DEF Ended, AskedBefore
  <2>4. y.via = "cache" /\ owner'[y.token] # y.user => y.now < endedAt'[y.token] + IdentityCacheTTL
    BY <1>1, <1>2, <1>3, <2>1, <2>2, StillAsked DEF Ended
  <2> QED BY <1>2, <2>3, <2>4 DEF Ended, AskedBefore
<1>4. CASE ~(y.via \in {"cache", "remote"} /\ y.user # Nil)
  <2>1. y.via # "cache"
    BY <1>1, <1>4, RequestsAssumption DEF Situated
  <2> QED BY <1>2, <1>4, <2>1 DEF Ended
<1> QED BY <1>3, <1>4

LEMMA AnsweredEnded ==
    ASSUME Endings, Orderly', [Next]_vars, NEW r \in Requests,
           req'[r].token = req[r].token, Answered(req[r], req'[r])
    PROVE  Ended(r)'
<1> USE DEF Endings
<1> DEFINE q == req[r]
           y == req'[r]
<1>1. /\ TypeOK /\ q \in Local /\ y \in Local /\ Situated(q) /\ Situated(y) /\ Ended(r)
      /\ now \in Nat /\ now' \in Nat /\ now <= now' /\ \A t \in Tokens : AuthAppMoves(t)
  BY NextAuthApp DEF Orderly, TypeOK
<1>2. /\ y.via = "remote" /\ y.token = q.token /\ y.token \in Tokens
      /\ y.now = q.now /\ y.now \in Nat /\ y.now <= now
      /\ y.user = owner[y.token] /\ y.user \in Users \cup {Nil}
      /\ y.newToken # Nil => owner'[y.newToken] = y.user \/ endedAt'[y.newToken] = now
  BY <1>1 DEF Answered, Situated, Local, Ended
<1>3. y.user # Nil => (owner'[y.token] # y.user => y.now <= endedAt'[y.token])
  BY <1>1, <1>2, StillAsked
<1>4. y.user # Nil /\ y.newToken # Nil =>
         (owner'[y.newToken] # y.user => y.now <= endedAt'[y.newToken])
  BY <1>2
<1> QED BY <1>1, <1>2, <1>3, <1>4 DEF Ended, AskedBefore

LEMMA HitEnded ==
    ASSUME Endings, Orderly', [Next]_vars, NEW r \in Requests,
           req'[r].token = req[r].token, Hit(req[r], req'[r])
    PROVE  Ended(r)'
<1> USE DEF Endings
<1> DEFINE q == req[r]
           y == req'[r]
           e == identityCache[q.token]
<1>1. /\ TypeOK /\ q \in Local /\ y \in Local /\ Situated(q) /\ Ended(r)
      /\ now \in Nat /\ now' \in Nat /\ now <= now' /\ \A t \in Tokens : AuthAppMoves(t)
  BY NextAuthApp DEF Orderly, TypeOK
<1>2. /\ q.token \in Tokens /\ y.token = q.token /\ y.via = "cache" /\ Usable(q.token, y.now)
      /\ y.now \in 0..MaxTime /\ y.now <= now /\ y.user = e.user
  BY <1>1 DEF Hit, Situated, Local, Ended, TypeOK
<1>3. e # Nil /\ e \in Entry /\ e.user \in Users /\ y.now < e.validatedAt + IdentityCacheTTL
  BY <1>2, UsableEntry DEF Usable
<1>4. owner[y.token] # y.user => y.now < endedAt[y.token] + IdentityCacheTTL
  <2>1. endedAt[y.token] \in Nat /\ e.validatedAt \in Int
    BY <1>1, <1>2, <1>3 DEF TypeOK, Entry
  <2>2. owner[y.token] # e.user => e.validatedAt <= endedAt[y.token]
    BY <1>2, <1>3, RequestsAssumption DEF EndedEntries, AskedBefore
  <2> QED BY <1>2, <1>3, <2>1, <2>2
<1>5. owner'[y.token] # y.user => y.now < endedAt'[y.token] + IdentityCacheTTL
  BY <1>1, <1>2, <1>3, <1>4, StillAsked
<1> QED BY <1>1, <1>2, <1>5 DEF Ended

LEMMA EndingsInit == Init => Endings
<1> SUFFICES ASSUME Init PROVE Endings
  OBVIOUS
<1>1. Unissued /\ EndedEntries
  BY DEF Init, Unissued, EndedEntries
<1>2. \A r \in Requests : Ended(r)
  BY DEF Init, Ended, NoRequest
<1> QED BY <1>1, <1>2, OrderlyInit DEF Endings

LEMMA EndingsStep == ASSUME Endings, [Next]_vars PROVE Endings'
<1>1. Orderly /\ Orderly' /\ Unissued' /\ EndedEntries'
  BY OrderlyStep, NextAuthApp, EntriesStep DEF Endings
<1> SUFFICES ASSUME NEW p \in Requests PROVE Ended(p)'
  BY <1>1 DEF Endings
<1>2. CASE req'[p] = req[p]
  BY <1>1, <1>2, StaysEnded
<1>3. ASSUME NEW r \in Requests, Step(r) PROVE Ended(p)'
  <2> DEFINE q == req[r]
             y == req'[r]
  <2>1. Situated(q) /\ q \in Local
    BY <1>1 DEF Orderly, TypeOK
  <2>2. CASE Moves(r)
    <3>1. /\ p # r => req'[p] = req[p]
          /\ y.token = q.token
          /\ Answered(q, y) \/ Hit(q, y) \/ Missed(q, y) \/ RolesMove(q, y) \/ Stored(q, y) \/ Renamed(q, y)
      BY <2>2 DEF Moves
    <3>2. CASE p = r /\ (Missed(q, y) \/ RolesMove(q, y) \/ Stored(q, y) \/ Renamed(q, y))
      <4>1. Missed(q, y) => y.via = "none" /\ y.now \in {q.now, now}
        BY <2>1 DEF Missed, Situated
      <4>2. Renamed(q, y) => y.user = Nil /\ y.now = q.now
        BY <2>1 DEF Renamed, Situated
      <4>3. RolesMove(q, y) \/ Stored(q, y) => SameView(q, y)
        BY DEF RolesMove, Stored
      <4> QED BY <1>1, <3>1, <3>2, <4>1, <4>2, <4>3, StaysEnded DEF SameView
    <3>3. CASE p = r /\ Answered(q, y)
      BY <1>1, <3>1, <3>3, AnsweredEnded
    <3>4. CASE p = r /\ Hit(q, y)
      BY <1>1, <3>1, <3>4, HitEnded
    <3> QED BY <1>2, <3>1, <3>2, <3>3, <3>4
  <2>3. ASSUME NEW result \in Results, Finishes(r, result) PROVE Ended(p)'
    <3>1. CASE p \notin Sharing(r)
      BY <1>1, <1>2, <2>3, <3>1, FinishEffect
    <3>2. CASE p = r /\ p \in Sharing(r)
      BY <1>1, <2>3, <3>2, FinishEffect, StaysEnded
    <3>3. CASE p # r /\ p \in Sharing(r)
      <4>1. req'[p].via = "shared" /\ req'[p].now = req[p].now
        BY <1>1, <2>3, <3>3, FinishEffect
      <4> QED BY <1>1, <4>1, StaysEnded
    <3> QED BY <3>1, <3>2, <3>3
  <2>4. CASE Join(r)
    <3>1. q.pc = "join" /\ q.via = "none"
      BY <2>1, <2>4 DEF Join, Situated
    <3>a. \/ req' = [req EXCEPT ![r].pc = "relookup"]
          \/ req' = [req EXCEPT ![r].pc = "wait", ![r].leader = validations[q.token]]
      BY <2>4 DEF Join, Goto
    <3>b. req \in [Requests -> Local]
      BY <1>1 DEF Orderly, TypeOK
    <3>2. CASE p # r
      <4>1. req'[p] = req[p]
        BY <3>2, <3>a, <3>b
      <4> QED BY <1>2, <4>1
    <3>3. y.via = q.via /\ y.now = q.now
      BY <2>1, <3>a, <3>b DEF Local
    <3>4. CASE p = r
      BY <1>1, <3>1, <3>3, <3>4, StaysEnded
    <3> QED BY <3>2, <3>4
  <2> QED BY <1>1, <1>3, <2>2, <2>3, <2>4, MovesOrFinishes
<1>4. ASSUME NEW r \in Requests,
             \/ \E kind \in Kinds, t \in Tokens : Begin(r, kind, t)
             \/ \E u \in Users : BeginRefresh(r, u)
      PROVE  Ended(p)'
  <2>1. /\ p # r => req'[p] = req[p]
        /\ req'[r].via = "none" /\ req'[r].now = now
    BY <1>1, <1>4, BeginEffect
  <2>2. CASE p = r
    BY <1>1, <2>1, <2>2, StaysEnded
  <2> QED BY <1>2, <2>1, <2>2
<1>5. Elsewhere \/ UNCHANGED vars => req' = req
  BY <1>1, ElsewhereWorld DEF requestVars, vars
<1> QED BY <1>2, <1>3, <1>4, <1>5, NextCases

-----------------------------------------------------------------------------
(* Roles *)

Staleness == Orderly /\ StaleEntries /\ \A r \in Requests : Stale(r)

\* What a step makes of a user's roles and of what is cached of them.
RolesOf(u) ==
    \/ roles'[u] = roles[u] /\ changedAt'[u] = changedAt[u]
    \/ changedAt'[u] = now /\ roles'[u] \in Int

CachedOf(u) ==
    \/ roleCache'[u] = Nil
    \/ roleCache'[u] = roleCache[u]
    \/ \E r \in Requests :
          /\ req[r].pc = "keep" /\ u = req[r].user
          /\ roleCache'[u] = [roles |-> req[r].roles, by |-> req[r].by,
                              expiresAt |-> req[r].roleNow + RoleCacheTTL]

LEMMA NextRoles ==
    ASSUME Orderly, Orderly', [Next]_vars
    PROVE  /\ now' \in Nat /\ now <= now'
           /\ \A u \in Users : RolesOf(u) /\ CachedOf(u)
<1> USE DEF roleStore, roleVars, RolesOf, CachedOf
<1>1. TypeOK /\ TypeOK' /\ now \in Nat /\ now' \in Nat
  BY DEF Orderly, TypeOK
<1>2. CASE UNCHANGED <<now, roleStore, roleCache>>
  BY <1>1, <1>2
<1>3. ASSUME NEW r \in Requests, Step(r) PROVE UNCHANGED <<now, roleStore>>
  BY ZenonT(60), <1>3 DEF Step, Known, FirstLookup, Join, SecondLookup, Answer, Drop, CachedRoles,
     AskProvider,
         KeepRoles, Touch, ReadCsrf, Store, StoreNew, DropOld, Lookup, BecomeAnonymous
<1>4. ASSUME NEW r \in Requests, Step(r), ~KeepRoles(r) PROVE UNCHANGED roleCache
  BY Zenon, <1>4 DEF Step, Known, FirstLookup, Join, SecondLookup, Answer, Drop, CachedRoles,
     AskProvider,
         Touch, ReadCsrf, Store, StoreNew, DropOld, Lookup, BecomeAnonymous
<1>5. ASSUME NEW r \in Requests, KeepRoles(r) PROVE \A u \in Users : CachedOf(u)
  BY <1>1, <1>5 DEF KeepRoles, TypeOK
<1>6. ASSUME NEW r \in Requests,
             \/ \E kind \in Kinds, t \in Tokens : Begin(r, kind, t)
             \/ \E u \in Users : BeginRefresh(r, u)
      PROVE  UNCHANGED <<now, roleStore>> /\ \A u \in Users : CachedOf(u)
  BY <1>1, <1>6 DEF Begin, BeginRefresh, TypeOK
<1>7. Elsewhere => \A u \in Users : CachedOf(u)
  <2>1. CASE EvictExpired
    BY <2>1 DEF EvictExpired
  <2>2. ASSUME NEW U \in SUBSET Users, InvalidateRoles(U) PROVE \A u \in Users : CachedOf(u)
    BY <2>2 DEF InvalidateRoles
  <2>3. CASE SetRoleProvider
    BY <2>3 DEF SetRoleProvider
  <2> QED
    BY <2>1, <2>2, <2>3
    DEF Elsewhere, CreateAnonymous, Destroy, SetCsrfToken, Revoke, Login, ChangeRoles, Tick
<1>8. ASSUME NEW v \in Users, ChangeRoles(v)
      PROVE  now' = now /\ \A u \in Users : RolesOf(u)
  <2>1. \A u \in Users : /\ changedAt'[u] = IF u = v THEN now ELSE changedAt[u]
                         /\ roles'[u] = IF u = v THEN roles[v] + 1 ELSE roles[u]
    BY <1>1, <1>8 DEF ChangeRoles, TypeOK
  <2>2. roles[v] \in Int
    BY <1>1 DEF TypeOK
  <2> QED BY <1>8, <2>1, <2>2 DEF ChangeRoles
<1>9. Elsewhere /\ ~(\E u \in Users : ChangeRoles(u)) => UNCHANGED roleStore /\ now <= now'
  BY <1>1 DEF Elsewhere, CreateAnonymous, Destroy, SetCsrfToken, Revoke, EvictExpired,
         InvalidateRoles, SetRoleProvider, Login, Tick
<1>10. UNCHANGED vars => UNCHANGED <<now, roleStore, roleCache>>
  BY DEF vars
<1>11. CASE Elsewhere
  BY <1>1, <1>7, <1>8, <1>9, <1>11
<1>12. ASSUME NEW r \in Requests, Step(r)
       PROVE  now' = now /\ \A u \in Users : RolesOf(u) /\ CachedOf(u)
  BY <1>3, <1>4, <1>5, <1>12
<1> QED BY <1>1, <1>2, <1>6, <1>10, <1>11, <1>12, NextCases

\* Roles that were right at x, or until less than a TTL before x, still are.
LEMMA StillFresh ==
    ASSUME TypeOK, NEW u \in Users, RolesOf(u), NEW v \in Int, NEW x \in Int, x <= now
    PROVE  /\ (v < roles[u] => x <= changedAt[u]) => (v < roles'[u] => x <= changedAt'[u])
           /\ (v < roles[u] => x < changedAt[u] + RoleCacheTTL)
              => (v < roles'[u] => x < changedAt'[u] + RoleCacheTTL)
<1>1. changedAt[u] \in Nat /\ roles[u] \in Nat /\ now \in Nat /\ RoleCacheTTL \in Nat \ {0}
  BY DEF TypeOK
<1> QED BY <1>1 DEF RolesOf

LEMMA StaleEntriesStep == ASSUME Staleness, Orderly', [Next]_vars PROVE StaleEntries'
<1> USE DEF Staleness
<1>1. TypeOK /\ now \in Nat /\ now' \in Nat /\ now <= now' /\ TypeOK'
  BY NextRoles DEF Orderly, TypeOK
<1> SUFFICES ASSUME NEW u \in Users, roleCache'[u] # Nil
             PROVE  /\ roleCache'[u].expiresAt <= now' + RoleCacheTTL
                    /\ roleCache'[u].roles < roles'[u] =>
                         roleCache'[u].expiresAt <= changedAt'[u] + RoleCacheTTL
  BY DEF StaleEntries
<1> DEFINE f == roleCache'[u]
<1>2. RolesOf(u) /\ CachedOf(u)
  BY NextRoles
<1>3. f.roles \in Int /\ f.expiresAt \in Nat
  BY <1>1 DEF TypeOK, RoleEntry
<1>4. ASSUME f.expiresAt <= now + RoleCacheTTL,
             f.roles < roles[u] => f.expiresAt <= changedAt[u] + RoleCacheTTL
      PROVE  /\ f.expiresAt <= now' + RoleCacheTTL
             /\ f.roles < roles'[u] => f.expiresAt <= changedAt'[u] + RoleCacheTTL
  <2>1. changedAt[u] \in Nat /\ RoleCacheTTL \in Nat
    BY <1>1 DEF TypeOK
  <2> QED BY <1>1, <1>2, <1>3, <1>4, <2>1 DEF RolesOf
<1>5. CASE roleCache'[u] = roleCache[u]
  BY <1>4, <1>5 DEF StaleEntries
<1>6. ASSUME NEW r \in Requests, req[r].pc = "keep", u = req[r].user,
             f = [roles |-> req[r].roles, by |-> req[r].by,
                  expiresAt |-> req[r].roleNow + RoleCacheTTL]
      PROVE  /\ f.expiresAt <= now' + RoleCacheTTL
             /\ f.roles < roles'[u] => f.expiresAt <= changedAt'[u] + RoleCacheTTL
  <2>1. /\ req[r].roleNow \in Nat /\ changedAt[u] \in Nat /\ RoleCacheTTL \in Nat
        /\ f.expiresAt = req[r].roleNow + RoleCacheTTL /\ f.roles = req[r].roles
    BY <1>1, <1>6 DEF TypeOK, Local
  <2>2. /\ req[r].roleNow <= now
        /\ req[r].roles < roles[u] => req[r].roleNow <= changedAt[u]
    BY <1>6 DEF Stale
  <2> QED BY <1>1, <1>4, <2>1, <2>2
<1> QED BY <1>2, <1>5, <1>6 DEF CachedOf

\* A request keeps the roles it has, or forgets them.
LEMMA StaysFresh ==
    ASSUME Staleness, Orderly', [Next]_vars, NEW r \in Requests,
           req'[r].roleNow = req[r].roleNow,
           \/ req'[r].pc \notin Named \cup {"done"}
           \/ req'[r].pc \in {"roles", "ask"}
           \/ req'[r].pc = "done" /\ req'[r].result # "user"
           \/ req'[r].via = "shared" /\ req'[r].pc # "keep"
           \/ /\ req'[r].roles = req[r].roles /\ req'[r].user = req[r].user
              /\ req'[r].via = req[r].via
              /\ req'[r].pc = "keep" => req[r].pc = "keep"
              /\ \/ req[r].pc \in {"touch", "csrf", "store", "storeNew", "dropOld"}
                 \/ req[r].result = "user"
                 \/ req'[r].pc = "keep"
    PROVE  Stale(r)'
<1> USE DEF Staleness
<1> DEFINE q == req[r]
           y == req'[r]
<1>1. /\ TypeOK /\ q \in Local /\ y \in Local /\ Situated(q) /\ Situated(y) /\ Stale(r)
      /\ now \in Nat /\ now' \in Nat /\ now <= now' /\ \A u \in Users : RolesOf(u)
  BY NextRoles DEF Orderly, TypeOK
<1>2. y.roleNow \in Nat /\ q.roleNow = y.roleNow /\ y.roleNow <= now /\ y.roleNow <= now'
      /\ y.roles \in Int
  BY <1>1 DEF Local, Stale, RoleVersions
<1>3. CASE /\ y.pc \notin {"keep", "touch", "csrf", "store", "storeNew", "dropOld"}
           /\ y.result # "user"
  BY <1>2, <1>3 DEF Stale
<1>4. CASE y.via = "shared" /\ y.pc # "keep"
  BY <1>2, <1>4 DEF Stale
<1>5. CASE /\ y.roles = q.roles /\ y.user = q.user /\ y.via = q.via
           /\ y.pc = "keep" => q.pc = "keep"
           /\ \/ q.pc \in {"touch", "csrf", "store", "storeNew", "dropOld"}
              \/ q.result = "user"
              \/ y.pc = "keep"
  <2> SUFFICES ASSUME y.user \in Users
               PROVE  /\ y.roles < roles'[y.user] =>
                            (y.pc = "keep" => y.roleNow <= changedAt'[y.user])
                      /\ y.roles < roles'[y.user] =>
                            (y.via # "shared" /\ y.roles >= 0
                             /\ (y.pc \in {"touch", "csrf", "store", "storeNew", "dropOld"} \/ y.result = "user")
                             => y.roleNow < changedAt'[y.user] + RoleCacheTTL)
    BY <1>2 DEF Stale
  <2>1. y.pc = "keep" => (y.roles < roles[y.user] => y.roleNow <= changedAt[y.user])
    BY <1>2, <1>5 DEF Stale
  <2>2. CASE y.pc = "keep"
    <3>1. y.result # "user"
      BY <1>1, <2>2 DEF Situated
    <3> QED BY <1>1, <1>2, <2>1, <2>2, <3>1, StillFresh
  <2>3. CASE y.pc # "keep" /\ y.via # "shared" /\ y.roles >= 0
    <3>1. y.roles < roles[y.user] => y.roleNow < changedAt[y.user] + RoleCacheTTL
      BY <1>2, <1>5, <2>3 DEF Stale
    <3> QED BY <1>1, <1>2, <2>3, <3>1, StillFresh
  <2> QED BY <2>2, <2>3
<1>6. y.result = "user" => y.pc = "done"
  BY <1>1 DEF Situated
<1> QED BY <1>3, <1>4, <1>5, <1>6 DEF Named

LEMMA ResolvedFresh ==
    ASSUME Staleness, Orderly', [Next]_vars, NEW r \in Requests, RolesMove(req[r], req'[r])
    PROVE  Stale(r)'
<1> USE DEF Staleness
<1> DEFINE q == req[r]
           y == req'[r]
           u == q.user
<1>1. /\ TypeOK /\ q \in Local /\ y \in Local /\ Situated(q) /\ Situated(y) /\ Stale(r)
      /\ now \in Nat /\ now' \in Nat /\ now <= now' /\ \A v \in Users : RolesOf(v)
  BY NextRoles DEF Orderly, TypeOK
<1>2. /\ y.user = u /\ u \in Users /\ q.roleNow \in Nat /\ q.roleNow <= now
      /\ q.roles \in Int /\ y.roles \in Int /\ y.roleNow \in Nat /\ y.roleNow \in {q.roleNow, now}
      /\ q.pc \in {"roles", "ask", "keep"} /\ q.result # "user"
      /\ changedAt[u] \in Nat /\ roles[u] \in Nat /\ RoleCacheTTL \in Nat \ {0}
  <2>1. q.pc \in {"roles", "ask", "keep"} /\ y.user = u /\ y.roleNow \in {q.roleNow, now}
    BY DEF RolesMove, SameView
  <2> QED BY <1>1, <2>1 DEF Situated, Named, Local, RoleVersions, Stale, TypeOK
<1>3. ASSUME y.pc # "keep",
             y.roles >= 0 => (y.roles < roles[u] => y.roleNow < changedAt[u] + RoleCacheTTL)
      PROVE  Stale(r)'
  <2>1. y.roles >= 0 => (y.roles < roles'[u] => y.roleNow < changedAt'[u] + RoleCacheTTL)
    BY <1>1, <1>2, <1>3, StillFresh
  <2> QED BY <1>1, <1>2, <1>3, <2>1 DEF Stale
<1>4. CASE q.pc = "roles" /\ y.pc = "ask" /\ y.roleNow = now /\ y.result = q.result
  BY <1>1, <1>2, <1>4 DEF Stale
<1>5. CASE /\ q.pc = "roles" /\ roleCache[u] # Nil /\ now < roleCache[u].expiresAt
           /\ y.roleNow = now /\ y.roles = roleCache[u].roles /\ y.pc \in {"touch", "csrf", "done"}
  <2>1. roleCache[u].expiresAt \in Nat
    BY <1>1, <1>2, <1>5 DEF TypeOK, RoleEntry
  <2>2. y.roles < roles[u] => roleCache[u].expiresAt <= changedAt[u] + RoleCacheTTL
    BY <1>2, <1>5 DEF StaleEntries
  <2> QED BY <1>1, <1>2, <1>3, <1>5, <2>1, <2>2
<1>6. CASE q.pc = "ask" /\ y.pc = "keep" /\ y.roles = roles[u] /\ y.roleNow = q.roleNow /\ y.result = q.result
  <2>1. y.roles < roles'[u] => y.roleNow <= changedAt'[u]
    BY <1>1, <1>2, <1>6, StillFresh
  <2> QED BY <1>1, <1>2, <1>6, <2>1 DEF Stale
<1>7. CASE /\ q.pc \in {"roles", "ask"} /\ y.pc \in {"touch", "csrf", "done"}
           /\ y.roles = -1 /\ y.roleNow \in {q.roleNow, now}
  BY <1>3, <1>7
<1>8. CASE q.pc = "keep" /\ y.pc \in {"touch", "csrf", "done"} /\ y.roles = q.roles /\ y.roleNow = q.roleNow
  <2>1. q.roles < roles[u] => q.roleNow <= changedAt[u]
    BY <1>1, <1>2, <1>8 DEF Stale
  <2> QED BY <1>2, <1>3, <1>8, <2>1
<1> QED BY <1>4, <1>5, <1>6, <1>7, <1>8 DEF RolesMove

LEMMA StalenessInit == Init => Staleness
<1> SUFFICES ASSUME Init PROVE Staleness
  OBVIOUS
<1>1. StaleEntries /\ \A r \in Requests : Stale(r)
  BY DEF Init, StaleEntries, Stale, NoRequest
<1> QED BY <1>1, OrderlyInit DEF Staleness

LEMMA StalenessStep == ASSUME Staleness, [Next]_vars PROVE Staleness'
<1>1. Orderly /\ Orderly' /\ StaleEntries'
  BY OrderlyStep, StaleEntriesStep DEF Staleness
<1> SUFFICES ASSUME NEW p \in Requests PROVE Stale(p)'
  BY <1>1 DEF Staleness
<1>2. CASE req'[p] = req[p]
  <2>1. req[p].result = "user" => req[p].pc = "done"
    BY <1>1 DEF Orderly, Situated
  <2> QED BY <1>1, <1>2, <2>1, StaysFresh DEF Named
<1>3. ASSUME NEW r \in Requests, Step(r) PROVE Stale(p)'
  <2> DEFINE q == req[r]
             y == req'[r]
  <2>1. Situated(q) /\ q \in Local /\ Situated(y)
    BY <1>1 DEF Orderly, TypeOK
  <2>2. CASE Moves(r)
    <3>1. /\ p # r => req'[p] = req[p]
          /\ Answered(q, y) \/ Hit(q, y) \/ Missed(q, y) \/ RolesMove(q, y) \/ Stored(q, y) \/ Renamed(q, y)
      BY <2>2 DEF Moves
    <3>2. CASE p = r /\ RolesMove(q, y)
      BY <1>1, <3>2, ResolvedFresh
    <3>3. CASE p = r /\ (Answered(q, y) \/ Hit(q, y) \/ Missed(q, y) \/ Renamed(q, y))
      <4>1. /\ y.roleNow = q.roleNow /\ y.result = q.result
            /\ q.pc \in {"call", "lookup", "relookup", "known", "anonymous"}
            /\ y.pc \in {"drop", "roles", "lookup", "join", "call", "done"}
        BY <3>3 DEF Answered, Hit, Missed, Renamed, SameRoles
      <4>2. y.result # "user"
        BY <2>1, <4>1 DEF Situated
      <4> QED BY <1>1, <3>3, <4>1, <4>2, StaysFresh DEF Named
    <3>4. CASE p = r /\ Stored(q, y)
      <4>1. /\ q.pc \in {"csrf", "store", "storeNew"} /\ y.pc # "keep"
            /\ y.roles = q.roles /\ y.roleNow = q.roleNow /\ y.user = q.user /\ y.via = q.via
        BY <3>4 DEF Stored, SameView, SameRoles
      <4> QED BY <1>1, <3>4, <4>1, StaysFresh
    <3> QED BY <1>2, <3>1, <3>2, <3>3, <3>4
  <2>3. ASSUME NEW result \in Results, Finishes(r, result) PROVE Stale(p)'
    <3>1. CASE p \notin Sharing(r)
      BY <1>1, <1>2, <2>3, <3>1, FinishEffect
    <3>2. CASE p = r /\ p \in Sharing(r)
      <4>1. /\ y.pc \in {"anonymous", "done"} /\ y.result = result /\ y.roleNow = q.roleNow
            /\ y.user = q.user /\ y.roles = q.roles /\ y.via = q.via
        BY <1>1, <2>3, <3>2, FinishEffect
      <4>2. result = "user" => q.pc \in {"touch", "store", "dropOld"}
        BY <2>3 DEF Finishes
      <4> QED BY <1>1, <3>2, <4>1, <4>2, StaysFresh DEF Named
    <3>3. CASE p # r /\ p \in Sharing(r)
      <4>1. req'[p].via = "shared" /\ req'[p].roleNow = req[p].roleNow /\ req'[p].pc # "keep"
        BY <1>1, <2>3, <3>3, FinishEffect
      <4> QED BY <1>1, <4>1, StaysFresh
    <3> QED BY <3>1, <3>2, <3>3
  <2>4. CASE Join(r)
    <3>1. \/ req' = [req EXCEPT ![r].pc = "relookup"]
          \/ req' = [req EXCEPT ![r].pc = "wait", ![r].leader = validations[q.token]]
      BY <2>4 DEF Join, Goto
    <3>2. req \in [Requests -> Local]
      BY <1>1 DEF Orderly, TypeOK
    <3>3. CASE p # r
      <4>1. req'[p] = req[p]
        BY <3>1, <3>2, <3>3
      <4> QED BY <1>2, <4>1
    <3>4. y.roleNow = q.roleNow /\ y.result = q.result /\ y.via = q.via /\ y.pc \in {"relookup", "wait"}
      BY <2>1, <3>1, <3>2 DEF Local
    <3>5. CASE p = r
      <4>1. y.pc \notin Named \cup {"done"}
        BY <3>4 DEF Named
      <4> QED BY <1>1, <3>4, <3>5, <4>1, StaysFresh
    <3> QED BY <3>3, <3>5
  <2> QED BY <1>1, <1>3, <2>2, <2>3, <2>4, MovesOrFinishes
<1>4. ASSUME NEW r \in Requests,
             \/ \E kind \in Kinds, t \in Tokens : Begin(r, kind, t)
             \/ \E u \in Users : BeginRefresh(r, u)
      PROVE  Stale(p)'
  <2>1. /\ p # r => req'[p] = req[p]
        /\ req'[r].roleNow = req[r].roleNow
        /\ req'[r].pc \in {"known", "lookup", "call", "roles"}
    BY <1>1, <1>4, BeginEffect
  <2>2. CASE p = r
    BY <1>1, <2>1, <2>2, StaysFresh DEF Named
  <2> QED BY <1>2, <2>1, <2>2
<1>5. Elsewhere \/ UNCHANGED vars => req' = req
  BY <1>1, ElsewhereWorld DEF requestVars, vars
<1> QED BY <1>2, <1>3, <1>4, <1>5, NextCases

-----------------------------------------------------------------------------
(* The theorems *)

\* The invariant of the whole: types and locals, flights, endings, roles.
THEOREM Invariant == Spec => []IInv
<1>1. Init => IInv
  BY SharedInit, EndingsInit, StalenessInit DEF IInv, Shared, Endings, Staleness, Orderly
<1>2. IInv /\ [Next]_vars => IInv'
  BY SharedStep, EndingsStep, StalenessStep DEF IInv, Shared, Endings, Staleness, Orderly
<1> QED BY <1>1, <1>2, PTL DEF Spec

\* The maps and the requests' locals keep their types, for any number of
\* requests, tokens and users (manager.go:104-137).
THEOREM TypesHold == Spec => []TypeOK
<1>1. IInv => TypeOK
  BY DEF IInv
<1> QED BY <1>1, Invariant, PTL

\* The index by user always agrees with the cache (manager.go:489-537).
THEOREM IndexIsExact == Spec => []UserSessionsExact
<1>1. IInv => UserSessionsExact
  BY DEF IInv
<1> QED BY <1>1, Invariant, PTL

\* Whoever waits for a shared validation is led by a request at work on it
\* (manager.go:211-219).
THEOREM WaitingIsLed == Spec => []FollowersAreLed
<1>1. IInv => FollowersAreLed
  <2> SUFFICES ASSUME IInv, NEW r \in Requests, req[r].pc = "wait"
               PROVE  LET l == req[r].leader IN
                      /\ validations[req[r].token] = l
                      /\ req[l].token = req[r].token
                      /\ req[l].kind \in {"validate", "ensure"}
                      /\ req[l].pc \notin {"idle", "known", "lookup", "join", "wait", "anonymous", "done"}
    BY DEF FollowersAreLed
  <2>1. req[r].token \in Tokens /\ validations[req[r].token] = req[r].leader /\ req[r].leader # Nil
    BY DEF IInv, Waiting, Situated
  <2> DEFINE l == req[r].leader
  <2>2. req[l].token = req[r].token /\ req[l].pc \in Flying /\ req[l].kind \in {"validate", "ensure"}
    BY <2>1 DEF IInv, Flights
  <2> QED BY <2>1, <2>2 DEF Flying, Named
<1> QED BY <1>1, Invariant, PTL

\* Concurrent misses for a token share one auth_app request (manager.go:210-216).
THEOREM AskedOnce == Spec => []OneValidation
<1>1. IInv => OneValidation
  <2> SUFFICES ASSUME IInv, NEW t \in Tokens PROVE Cardinality(Validating(t)) <= 1
    BY DEF OneValidation
  <2>1. \A r \in Validating(t) : validations[t] = r
    <3> SUFFICES ASSUME NEW r \in Validating(t) PROVE validations[t] = r
      OBVIOUS
    <3>1. /\ r \in Requests /\ req[r] \in Local /\ Situated(req[r])
          /\ req[r].token = t /\ req[r].kind \in {"validate", "ensure"}
          /\ req[r].pc \notin {"idle", "done", "anonymous", "wait"}
          /\ req[r].pc = "call" \/ req[r].via = "remote"
      BY DEF Validating, IInv, TypeOK
    <3>2. req[r].pc \in {"relookup", "call", "drop"} \/ (req[r].pc \in Named /\ req[r].via = "remote")
      BY <3>1 DEF Local, PCs, Situated, Named
    <3> QED BY <3>1, <3>2 DEF IInv, Leads
  <2>2. CASE Validating(t) = {}
    BY <2>2, FS_EmptySet
  <2>3. ASSUME NEW r \in Validating(t) PROVE Cardinality(Validating(t)) <= 1
    <3>1. Validating(t) = {r}
      BY <2>1
    <3>2. Cardinality({r}) = 1
      BY FS_Singleton
    <3> QED BY <3>1, <3>2
  <2> QED BY <2>2, <2>3
<1> QED BY <1>1, Invariant, PTL

\* The cache never accepts a session later than a TTL after its end
\* (manager.go:206, 215, 231, 270).
THEOREM EndedSessionsAreNotServed == Spec => []EndedSessionsExpire
<1>1. IInv => EndedSessionsExpire
  BY DEF IInv, Ended, EndedSessionsExpire
<1> QED BY <1>1, Invariant, PTL

\* ValidateFresh never accepts a session that had ended before it began
\* (manager.go:190-193, 205-207).
THEOREM FreshIsFresh == Spec => []FreshSeesTheEnd
<1>1. IInv => FreshSeesTheEnd
  <2> SUFFICES ASSUME IInv, NEW r \in Requests, req[r].kind = "fresh",
                      req[r].result = "user", owner[req[r].token] = Nil
               PROVE  req[r].now <= endedAt[req[r].token]
    BY DEF FreshSeesTheEnd
  <2>1. Situated(req[r]) /\ Ended(r)
    BY DEF IInv
  <2>2. req[r].via = "remote" /\ req[r].user # Nil
    BY <2>1, RequestsAssumption DEF Situated
  <2> QED BY <2>1, <2>2 DEF Ended, AskedBefore
<1> QED BY <1>1, Invariant, PTL

\* No request uses roles a TTL or longer after they were withdrawn
\* (manager.go:313-337).
THEOREM StaleRolesAreNotUsed == Spec => []StaleRolesExpire
<1>1. IInv => StaleRolesExpire
  <2> SUFFICES ASSUME IInv, NEW r \in Requests, req[r].result = "user", req[r].via # "shared",
                      req[r].roles >= 0, req[r].roles < roles[req[r].user]
               PROVE  req[r].roleNow < changedAt[req[r].user] + RoleCacheTTL
    BY DEF StaleRolesExpire
  <2>1. Situated(req[r]) /\ Stale(r)
    BY DEF IInv
  <2> QED BY <2>1 DEF Situated, Stale
<1> QED BY <1>1, Invariant, PTL
=============================================================================
