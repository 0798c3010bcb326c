---------------------------- MODULE AuthSession ----------------------------
(***************************************************************************)
(* authsession.Manager: the application-side cache of auth_app sessions.   *)
(* A request is a goroutine in Validate, ValidateFresh, EnsureKnown or     *)
(* RefreshRoles; it takes the manager's lock several times and calls       *)
(* auth_app and the role provider without it, so requests interleave       *)
(* between those points.  auth_app itself (who owns a token, revocation,   *)
(* rotation) and the store behind the role provider are external.          *)
(* Tokens stand for their SHA-256 hashes.                                  *)
(***************************************************************************)
EXTENDS Integers, FiniteSets

CONSTANTS
    Requests, Kinds,     \* goroutines, and which entry points they use
    Tokens, Users, Nil,  \* Nil: no user, no token, no entry
    MaxTime, MaxAge, IdleTimeout, IdentityCacheTTL, RoleCacheTTL,
    DenyRolesOnError,    \* the RoleErrorPolicy
    NilProviders,        \* the numbers that stand for no role provider
    MaxCsrf, MaxVersion, MaxProvider  \* bounds of the counters below

AllKinds == {"validate", "fresh", "ensure", "refresh"}

ASSUME RequestsAssumption ==
    /\ Kinds \subseteq AllKinds
    /\ Nil \notin Requests \cup Tokens \cup Users

\* Config.normalized: all durations positive, the identity TTL within MaxAge.
ASSUME ConfigAssumption ==
    /\ {MaxAge, IdleTimeout, IdentityCacheTTL, RoleCacheTTL} \subseteq Nat \ {0}
    /\ IdentityCacheTTL <= MaxAge
    /\ DenyRolesOnError \in BOOLEAN

ASSUME CountersAssumption == {MaxTime, MaxCsrf, MaxVersion, MaxProvider} \subseteq Nat

VARIABLES
    now,            \* time.Now()
    identityCache,  \* [Tokens -> entry or Nil]
    userSessions,   \* [Users -> set of tokens]; {} is an absent key
    roleCache,      \* [Users -> entry or Nil]
    roleProvider,   \* the provider installed, by number; or one for none
    validations,    \* singleflight: the request leading a token's flight
    req,            \* the local state of each request
    csrfSeq,        \* CSRF tokens generated so far
    owner,          \* auth_app: the user of each token, Nil if not valid
    issued,         \* tokens that exist; random ones never repeat
    endedAt,        \* auth_app: when a token stopped being valid
    roles,          \* role store: version of each user's roles
    changedAt       \* role store: when that version came to be

cacheVars == <<identityCache, userSessions>>
roleVars == <<roleCache, roleProvider>>
authApp == <<owner, issued, endedAt>>
roleStore == <<roles, changedAt>>
vars == <<now, cacheVars, roleVars, validations, req, csrfSeq, authApp, roleStore>>

Entry == [user : Users \cup {Nil}, validatedAt : Int, lastActivity : 0..MaxTime,
          expiresAt : Nat, csrf : 0..MaxCsrf]
RoleEntry == [roles : 0..MaxVersion, by : 0..MaxProvider, expiresAt : Nat]

ASSUME NilAssumption == Nil \notin Entry \cup RoleEntry

PCs == {"idle", "known", "lookup", "join", "relookup", "wait", "call", "drop",
        "roles", "ask", "keep", "touch", "csrf", "store", "storeNew", "dropOld",
        "anonymous", "done"}

\* Where a result came from, what it was, and the roles in it (-1: denied).
Vias == {"none", "cache", "remote", "shared"}
Results == {"none", "user", "known", "error"}
RoleVersions == -1..MaxVersion

\* The local variables of a request.
Local ==
    [pc : PCs, kind : AllKinds \cup {"none"}, token : Tokens \cup {Nil},
     now : 0..MaxTime, leader : Requests \cup {Nil}, user : Users \cup {Nil},
     newToken : Tokens \cup {Nil}, via : Vias, roleNow : 0..MaxTime,
     by : 0..MaxProvider, roles : RoleVersions, csrf : 0..MaxCsrf, result : Results]

NoRequest ==
    [pc |-> "idle", kind |-> "none", token |-> Nil, now |-> 0, leader |-> Nil,
     user |-> Nil, newToken |-> Nil, via |-> "none", roleNow |-> 0, by |-> 0,
     roles |-> -1, csrf |-> 0, result |-> "none"]

\* The process starts at any time, with cookies around that nobody knows any
\* more; where the numbers of providers and tokens start says nothing.
Init ==
    /\ now \in 0..MaxTime
    /\ identityCache = [t \in Tokens |-> Nil]
    /\ userSessions = [u \in Users |-> {}]
    /\ roleCache = [u \in Users |-> Nil]
    /\ roleProvider \in 0..MaxProvider
    /\ validations = [t \in Tokens |-> Nil]
    /\ req = [r \in Requests |-> NoRequest]
    /\ csrfSeq \in 0..MaxCsrf
    /\ owner = [t \in Tokens |-> Nil]
    /\ issued \in SUBSET Tokens
    /\ endedAt = [t \in Tokens |-> 0]
    /\ roles \in [Users -> 0..MaxVersion]
    /\ changedAt = [u \in Users |-> 0]

-----------------------------------------------------------------------------
(* The cache under its lock *)

\* removeIdentityLocked
Removed(t) ==
    LET e == identityCache[t] IN
    [cache |-> [identityCache EXCEPT ![t] = Nil],
     index |-> [u \in Users |-> IF e # Nil /\ e.user = u
                                THEN userSessions[u] \ {t} ELSE userSessions[u]]]

RemoveIdentity(t) ==
    /\ identityCache' = Removed(t).cache
    /\ userSessions' = Removed(t).index

\* setIdentity: the old entry goes, with its index, before the new one comes.
SetIdentity(t, e) ==
    /\ identityCache' = [Removed(t).cache EXCEPT ![t] = e]
    /\ userSessions' = [u \in Users |-> IF e.user = u
                           THEN Removed(t).index[u] \cup {t} ELSE Removed(t).index[u]]

\* Anonymous entries carry the zero validatedAt, older than any TTL.
ZeroTime == 0 - IdentityCacheTTL

\* Mutant: user id 0 is stored as if it were a user.
AnonymousEntryOfZero ==
    [user |-> 0, validatedAt |-> ZeroTime, lastActivity |-> now,
     expiresAt |-> now + MaxAge, csrf |-> 0]

AnonymousEntry ==
    [user |-> Nil, validatedAt |-> ZeroTime, lastActivity |-> now,
     expiresAt |-> now + MaxAge, csrf |-> 0]

HasSession(t) == identityCache[t] # Nil

\* cachedUser, the checks made on the copy taken under the read lock.
Usable(t, at) ==
    LET e == identityCache[t] IN
    /\ e # Nil
    /\ at < e.expiresAt
    /\ at - e.lastActivity < IdleTimeout
    /\ at - e.validatedAt < IdentityCacheTTL

-----------------------------------------------------------------------------
(* Requests *)

\* The request itself and those that wait for the flight it leads.
Sharing(r) == {q \in Requests : q = r \/ (req[q].pc = "wait" /\ req[q].leader = r)}

\* Mutant: followers are left waiting when the leader fails.
FinishAlone(r, result) ==
    /\ req' = [req EXCEPT ![r].pc = "done", ![r].result = result]
    /\ validations' = [t \in Tokens |->
          IF validations[t] = r THEN Nil ELSE validations[t]]

\* validate returns; singleflight hands the leader's result, errors included,
\* to every follower.  EnsureKnown goes on when there is no user.
Finish(r, result) ==
    /\ req' = [q \in Requests |->
          IF q \notin Sharing(r) THEN req[q]
          ELSE [req[q] EXCEPT
                   !.pc = IF req[q].kind = "ensure" /\ result = "none"
                          THEN "anonymous" ELSE "done",
                   !.result = result,
                   !.user = req[r].user,
                   !.roles = req[r].roles,
                   !.via = IF q = r THEN req[r].via ELSE "shared",
                   !.newToken = req[r].newToken]]
    /\ validations' = [t \in Tokens |->
          IF validations[t] = r THEN Nil ELSE validations[t]]

Goto(r, pc) == req' = [req EXCEPT ![r].pc = pc]

\* Mutant: ValidateFresh looks into the cache first.
BeginCached(r, kind, t) ==
    /\ req[r].pc = "idle"
    /\ kind \in Kinds \ {"refresh"}
    /\ t \in issued
    /\ req' = [req EXCEPT ![r] = [@ EXCEPT
          !.pc = IF kind = "ensure" THEN "known" ELSE "lookup",
          !.kind = kind, !.token = t, !.now = now]]
    /\ UNCHANGED <<now, cacheVars, roleVars, validations, csrfSeq, authApp, roleStore>>

Begin(r, kind, t) ==
    /\ req[r].pc = "idle"
    /\ kind \in Kinds \ {"refresh"}
    /\ t \in issued
    /\ req' = [req EXCEPT ![r] = [@ EXCEPT
          !.pc = CASE kind = "validate" -> "lookup"
                   [] kind = "fresh"    -> "call"
                   [] kind = "ensure"   -> "known",
          !.kind = kind, !.token = t, !.now = now]]
    /\ UNCHANGED <<now, cacheVars, roleVars, validations, csrfSeq, authApp, roleStore>>

\* EnsureKnown: HasSession, then Validate.
Known(r) ==
    /\ req[r].pc = "known"
    /\ IF HasSession(req[r].token)
       THEN Finish(r, "known")
       ELSE /\ req' = [req EXCEPT ![r].pc = "lookup", ![r].now = now]
            /\ UNCHANGED validations
    /\ UNCHANGED <<now, cacheVars, roleVars, csrfSeq, authApp, roleStore>>

\* cachedUser, first half.  at is the time the caller read.
Lookup(r, at, miss) ==
    /\ LET t == req[r].token IN
       req' = [req EXCEPT ![r] = IF Usable(t, at)
          THEN [@ EXCEPT !.pc = "roles", !.now = at, !.via = "cache",
                         !.user = identityCache[t].user]
          ELSE [@ EXCEPT !.pc = miss, !.now = at]]
    /\ UNCHANGED <<now, cacheVars, roleVars, validations, csrfSeq, authApp, roleStore>>

FirstLookup(r) == req[r].pc = "lookup" /\ Lookup(r, req[r].now, "join")

\* Mutant: nobody joins a flight; every cache miss calls auth_app.
JoinNobody(r) ==
    /\ req[r].pc = "join"
    /\ Goto(r, "relookup")
    /\ UNCHANGED <<now, cacheVars, roleVars, validations, csrfSeq, authApp, roleStore>>

\* singleflight.Do
Join(r) ==
    /\ req[r].pc = "join"
    /\ LET t == req[r].token IN
       IF validations[t] = Nil
       THEN /\ validations' = [validations EXCEPT ![t] = r]
            /\ Goto(r, "relookup")
       ELSE /\ req' = [req EXCEPT ![r].pc = "wait", ![r].leader = validations[t]]
            /\ UNCHANGED validations
    /\ UNCHANGED <<now, cacheVars, roleVars, csrfSeq, authApp, roleStore>>

SecondLookup(r) == req[r].pc = "relookup" /\ Lookup(r, now, "call")

\* ValidateSession: auth_app answers, rotating the token or not, or the call
\* fails.  The token that was rotated away may stay valid for a while.
Answer(r) ==
    /\ req[r].pc = "call"
    /\ LET t == req[r].token
           u == owner[t]
       IN  \/ /\ req' = [req EXCEPT ![r].pc = IF u = Nil THEN "drop" ELSE "roles",
                                    ![r].user = u, ![r].via = "remote"]
              /\ UNCHANGED <<validations, authApp>>
           \/ /\ u # Nil
              /\ \E n \in Tokens \ issued, keep \in BOOLEAN :
                    /\ issued' = issued \cup {n}
                    /\ owner' = [owner EXCEPT ![n] = u, ![t] = IF keep THEN u ELSE Nil]
                    /\ endedAt' = [endedAt EXCEPT ![t] = IF keep THEN @ ELSE now]
                    /\ req' = [req EXCEPT ![r].pc = "roles", ![r].user = u,
                                          ![r].via = "remote", ![r].newToken = n]
              /\ UNCHANGED validations
           \/ Finish(r, "error") /\ UNCHANGED authApp
    /\ UNCHANGED <<now, cacheVars, roleVars, csrfSeq, roleStore>>

\* auth_app knows no such session: the local entry goes, an anonymous one too.
Drop(r) ==
    /\ req[r].pc = "drop"
    /\ RemoveIdentity(req[r].token)
    /\ Finish(r, "none")
    /\ UNCHANGED <<now, roleVars, csrfSeq, authApp, roleStore>>

HasProvider == roleProvider \notin NilProviders

\* RefreshRoles drops the cached roles and resolves them again; without a
\* provider it only returns an error.
BeginRefresh(r, u) ==
    /\ req[r].pc = "idle"
    /\ "refresh" \in Kinds /\ HasProvider
    /\ roleCache' = [roleCache EXCEPT ![u] = Nil]
    /\ req' = [req EXCEPT ![r] = [@ EXCEPT
          !.pc = "roles", !.kind = "refresh", !.user = u, !.now = now]]
    /\ UNCHANGED <<now, cacheVars, roleProvider, validations, csrfSeq, authApp,
                   roleStore>>

\* What follows resolveRoles: the cache hit's second half, or the store.
Resolved(r, v, at) ==
    /\ req' = [req EXCEPT ![r] = [@ EXCEPT
          !.roles = v, !.roleNow = at,
          !.pc = CASE req[r].kind = "refresh" -> "done"
                   [] req[r].via = "cache"    -> "touch"
                   [] req[r].via = "remote"   -> "csrf",
          !.result = IF req[r].kind = "refresh" THEN "user" ELSE req[r].result]]
    /\ UNCHANGED validations

\* resolveRoles: provider and role cache are read under the read lock; without
\* a provider there are no roles.
CachedRoles(r) ==
    /\ req[r].pc = "roles"
    /\ LET e == roleCache[req[r].user] IN
       \/ ~HasProvider /\ Resolved(r, -1, now)
       \/ HasProvider /\ e # Nil /\ now < e.expiresAt /\ Resolved(r, e.roles, now)
       \/ /\ HasProvider /\ ~(e # Nil /\ now < e.expiresAt)
          /\ req' = [req EXCEPT ![r].pc = "ask", ![r].roleNow = now,
                                ![r].by = roleProvider]
          /\ UNCHANGED validations
    /\ UNCHANGED <<now, cacheVars, roleVars, csrfSeq, authApp, roleStore>>

\* The provider answers with the roles of the moment, or fails.
AskProvider(r) ==
    /\ req[r].pc = "ask"
    /\ \/ /\ req' = [req EXCEPT ![r].pc = "keep", ![r].roles = roles[req[r].user]]
          /\ UNCHANGED validations
       \/ IF DenyRolesOnError /\ req[r].kind # "refresh"
          THEN Resolved(r, -1, req[r].roleNow)
          ELSE Finish(r, "error")
    /\ UNCHANGED <<now, cacheVars, roleVars, csrfSeq, authApp, roleStore>>

\* Mutant: the roles expire a TTL after they are stored, not after the request.
KeepRolesFromNow(r) ==
    /\ req[r].pc = "keep"
    /\ roleCache' = [roleCache EXCEPT ![req[r].user] =
           [roles |-> req[r].roles, by |-> req[r].by, expiresAt |-> now + RoleCacheTTL]]
    /\ Resolved(r, req[r].roles, req[r].roleNow)
    /\ UNCHANGED <<now, cacheVars, roleProvider, csrfSeq, authApp, roleStore>>

\* They are stored with the time read before the provider was asked.
KeepRoles(r) ==
    /\ req[r].pc = "keep"
    /\ roleCache' = [roleCache EXCEPT ![req[r].user] =
           [roles |-> req[r].roles, by |-> req[r].by,
            expiresAt |-> req[r].roleNow + RoleCacheTTL]]
    /\ Resolved(r, req[r].roles, req[r].roleNow)
    /\ UNCHANGED <<now, cacheVars, roleProvider, csrfSeq, authApp, roleStore>>

\* cachedUser, second half: the entry may be gone or another one by now.
Touch(r) ==
    /\ req[r].pc = "touch"
    /\ LET t == req[r].token
           e == identityCache[t]
       IN  identityCache' = IF e # Nil /\ req[r].now < e.expiresAt
                            THEN [identityCache EXCEPT ![t].lastActivity = req[r].now]
                            ELSE identityCache
    /\ Finish(r, "user")
    /\ UNCHANGED <<now, userSessions, roleVars, csrfSeq, authApp, roleStore>>

\* validateAndCache: the CSRF token is copied under the read lock, ...
ReadCsrf(r) ==
    /\ req[r].pc = "csrf"
    /\ LET e == identityCache[req[r].token] IN
       req' = [req EXCEPT ![r].pc = "store", ![r].csrf = IF e = Nil THEN 0 ELSE e.csrf]
    /\ UNCHANGED <<now, cacheVars, roleVars, validations, csrfSeq, authApp, roleStore>>

\* Mutant: the entry counts as validated when it is stored.
NewEntryStampedLate(r) ==
    [user |-> req[r].user, validatedAt |-> now, lastActivity |-> req[r].now,
     expiresAt |-> req[r].now + MaxAge, csrf |-> req[r].csrf]

NewEntry(r) ==
    [user |-> req[r].user, validatedAt |-> req[r].now, lastActivity |-> req[r].now,
     expiresAt |-> req[r].now + MaxAge, csrf |-> req[r].csrf]

\* ... the entry is stored under the token presented, ...
Store(r) ==
    /\ req[r].pc = "store"
    /\ SetIdentity(req[r].token, NewEntry(r))
    /\ IF req[r].newToken = Nil
       THEN Finish(r, "user")
       ELSE Goto(r, "storeNew") /\ UNCHANGED validations
    /\ UNCHANGED <<now, roleVars, csrfSeq, authApp, roleStore>>

\* ... and if auth_app rotated it, under the new one, and dropped under the old.
StoreNew(r) ==
    /\ req[r].pc = "storeNew"
    /\ SetIdentity(req[r].newToken, NewEntry(r))
    /\ Goto(r, "dropOld")
    /\ UNCHANGED <<now, roleVars, validations, csrfSeq, authApp, roleStore>>

DropOld(r) ==
    /\ req[r].pc = "dropOld"
    /\ RemoveIdentity(req[r].token)
    /\ Finish(r, "user")
    /\ UNCHANGED <<now, roleVars, csrfSeq, authApp, roleStore>>

\* EnsureKnown without a user: a fresh anonymous session replaces the token.
BecomeAnonymous(r, n) ==
    /\ req[r].pc = "anonymous"
    /\ n \in Tokens \ issued
    /\ issued' = issued \cup {n}
    /\ SetIdentity(n, AnonymousEntry)
    /\ req' = [req EXCEPT ![r].pc = "done", ![r].newToken = n]
    /\ UNCHANGED <<now, roleVars, validations, csrfSeq, owner, endedAt, roleStore>>

Step(r) ==
    \/ Known(r) \/ FirstLookup(r) \/ Join(r) \/ SecondLookup(r) \/ Answer(r)
    \/ Drop(r) \/ CachedRoles(r) \/ AskProvider(r) \/ KeepRoles(r) \/ Touch(r)
    \/ ReadCsrf(r) \/ Store(r) \/ StoreNew(r) \/ DropOld(r)
    \/ \E n \in Tokens : BecomeAnonymous(r, n)

-----------------------------------------------------------------------------
(* The manager's other operations; each is one critical section *)

requestVars == <<validations, req>>

\* CreateAnonymous, for a client without a cookie.
CreateAnonymous(n) ==
    /\ n \in Tokens \ issued
    /\ issued' = issued \cup {n}
    /\ SetIdentity(n, AnonymousEntry)
    /\ UNCHANGED <<now, roleVars, requestVars, csrfSeq, owner, endedAt, roleStore>>

Destroy(t) ==
    /\ RemoveIdentity(t)
    /\ UNCHANGED <<now, roleVars, requestVars, csrfSeq, authApp, roleStore>>

SetCsrfToken(t) ==
    /\ HasSession(t)
    /\ csrfSeq < MaxCsrf
    /\ csrfSeq' = csrfSeq + 1
    /\ identityCache' = [identityCache EXCEPT ![t].csrf = csrfSeq + 1]
    /\ UNCHANGED <<now, userSessions, roleVars, requestVars, authApp, roleStore>>

Expired(t) ==
    LET e == identityCache[t] IN
    e # Nil /\ (now >= e.expiresAt \/ now - e.lastActivity > IdleTimeout)

\* Mutant: the eviction leaves the index of the users alone.
EvictEntriesOnly ==
    /\ identityCache' = [t \in Tokens |-> IF Expired(t) THEN Nil ELSE identityCache[t]]
    /\ roleCache' = [u \in Users |->
           IF roleCache[u] # Nil /\ now >= roleCache[u].expiresAt
           THEN Nil ELSE roleCache[u]]
    /\ UNCHANGED <<now, userSessions, roleProvider, requestVars, csrfSeq, authApp, roleStore>>

\* evictExpired, at every tick of the cleanup goroutine.
EvictExpired ==
    /\ identityCache' = [t \in Tokens |-> IF Expired(t) THEN Nil ELSE identityCache[t]]
    /\ userSessions' = [u \in Users |-> userSessions[u] \
           {t \in Tokens : Expired(t) /\ identityCache[t].user = u}]
    /\ roleCache' = [u \in Users |->
           IF roleCache[u] # Nil /\ now >= roleCache[u].expiresAt
           THEN Nil ELSE roleCache[u]]
    /\ UNCHANGED <<now, roleProvider, requestVars, csrfSeq, authApp, roleStore>>

\* InvalidateRoles; InvalidateAllRoles is the same for every user at once.
InvalidateRoles(U) ==
    /\ roleCache' = [u \in Users |-> IF u \in U THEN Nil ELSE roleCache[u]]
    /\ UNCHANGED <<now, cacheVars, roleProvider, requestVars, csrfSeq, authApp,
                   roleStore>>

\* The next number is another provider, or none.
SetRoleProvider ==
    /\ roleProvider < MaxProvider
    /\ roleProvider' = roleProvider + 1
    /\ roleCache' = [u \in Users |-> Nil]
    /\ UNCHANGED <<now, cacheVars, requestVars, csrfSeq, authApp, roleStore>>

-----------------------------------------------------------------------------
(* External: auth_app, the role store, the clock *)

Login(t, u) ==
    /\ t \in Tokens \ issued
    /\ issued' = issued \cup {t}
    /\ owner' = [owner EXCEPT ![t] = u]
    /\ UNCHANGED <<now, cacheVars, roleVars, requestVars, csrfSeq, endedAt, roleStore>>

Revoke(t) ==
    /\ owner[t] # Nil
    /\ owner' = [owner EXCEPT ![t] = Nil]
    /\ endedAt' = [endedAt EXCEPT ![t] = now]
    /\ UNCHANGED <<now, cacheVars, roleVars, requestVars, csrfSeq, issued, roleStore>>

ChangeRoles(u) ==
    /\ roles[u] < MaxVersion
    /\ roles' = [roles EXCEPT ![u] = @ + 1]
    /\ changedAt' = [changedAt EXCEPT ![u] = now]
    /\ UNCHANGED <<now, cacheVars, roleVars, requestVars, csrfSeq, authApp>>

Tick ==
    /\ now < MaxTime
    /\ now' = now + 1
    /\ UNCHANGED <<cacheVars, roleVars, requestVars, csrfSeq, authApp, roleStore>>

Next ==
    \/ \E r \in Requests :
          \/ \E kind \in Kinds, t \in Tokens : Begin(r, kind, t)
          \/ \E u \in Users : BeginRefresh(r, u)
          \/ Step(r)
    \/ \E t \in Tokens : CreateAnonymous(t) \/ Destroy(t) \/ SetCsrfToken(t) \/ Revoke(t)
    \/ EvictExpired
    \/ \E U \in SUBSET Users : InvalidateRoles(U)
    \/ SetRoleProvider
    \/ \E t \in Tokens, u \in Users : Login(t, u)
    \/ \E u \in Users : ChangeRoles(u)
    \/ Tick

Spec == Init /\ [][Next]_vars

-----------------------------------------------------------------------------
(* Correctness *)

\* The maps and the requests' locals keep their types (manager.go:104-137).
TypeOK ==
    /\ now \in 0..MaxTime
    /\ identityCache \in [Tokens -> Entry \cup {Nil}]
    /\ userSessions \in [Users -> SUBSET Tokens]
    /\ roleCache \in [Users -> RoleEntry \cup {Nil}]
    /\ roleProvider \in 0..MaxProvider
    /\ validations \in [Tokens -> Requests \cup {Nil}]
    /\ req \in [Requests -> Local]
    /\ csrfSeq \in 0..MaxCsrf
    /\ owner \in [Tokens -> Users \cup {Nil}]
    /\ issued \subseteq Tokens
    /\ endedAt \in [Tokens -> 0..MaxTime]
    /\ roles \in [Users -> 0..MaxVersion]
    /\ changedAt \in [Users -> 0..MaxTime]

\* ActiveSessionIDs lists exactly the sessions cached for a user, whatever mix
\* of validation, rotation, destruction and eviction went before
\* (manager.go:339-349, 489-537); applications route events by that list.
UserSessionsExact ==
    \A u \in Users :
        userSessions[u] =
            {t \in Tokens : identityCache[t] # Nil /\ identityCache[t].user = u}

\* Concurrent cache misses for one token share one auth_app request
\* (manager.go:210-216).
Validating(t) ==
    {r \in Requests : /\ req[r].token = t
                      /\ req[r].kind \in {"validate", "ensure"}
                      /\ req[r].pc \notin {"idle", "done", "anonymous", "wait"}
                      /\ req[r].pc = "call" \/ req[r].via = "remote"}

OneValidation == \A t \in Tokens : Cardinality(Validating(t)) <= 1

\* A session that ended at auth_app is accepted from the cache only to requests
\* made within IdentityCacheTTL of the end, because validatedAt is the time
\* before auth_app was asked (manager.go:206, 215, 231, 270).
EndedSessionsExpire ==
    \A r \in Requests :
        LET t == req[r].token IN
        /\ req[r].via = "cache"
        /\ req[r].result = "user"
        /\ owner[t] # req[r].user
        => req[r].now < endedAt[t] + IdentityCacheTTL

\* A mutation never runs for a session that had ended before its ValidateFresh
\* began, whatever is cached or in flight (manager.go:190-193, 205-207).
FreshSeesTheEnd ==
    \A r \in Requests :
        /\ req[r].kind = "fresh"
        /\ req[r].result = "user"
        /\ owner[req[r].token] = Nil
        => req[r].now <= endedAt[req[r].token]

\* Roles used by a request are the user's current ones, or were until less than
\* RoleCacheTTL before the request resolved them (manager.go:313-337).
StaleRolesExpire ==
    \A r \in Requests :
        /\ req[r].pc = "done"
        /\ req[r].result = "user"
        /\ req[r].via # "shared"
        /\ req[r].roles >= 0
        /\ req[r].roles < roles[req[r].user]
        => req[r].roleNow < changedAt[req[r].user] + RoleCacheTTL

\* A request that waits for a shared validation waits for one that leads it and
\* is still at work on that token, so no failure, eviction or join at the last
\* moment leaves it waiting for nobody (manager.go:211-219).
FollowersAreLed ==
    \A r \in Requests : req[r].pc = "wait" =>
        LET l == req[r].leader IN
        /\ validations[req[r].token] = l
        /\ req[l].token = req[r].token
        /\ req[l].kind \in {"validate", "ensure"}
        /\ req[l].pc \notin {"idle", "known", "lookup", "join", "wait", "anonymous", "done"}

\* After ValidateFresh found the session revoked it is not cached (test
\* authsession/manager_test.go:67-69), although other requests may be in flight.
RevokedIsForgotten ==
    \A r \in Requests :
        /\ req[r].kind = "fresh"
        /\ req[r].pc = "done"
        /\ req[r].result = "none"
        => ~HasSession(req[r].token)
=============================================================================
