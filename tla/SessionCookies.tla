--------------------------- MODULE SessionCookies ---------------------------
(***************************************************************************)
(* The session cookie and the CSRF token of one browser with several tabs: *)
(* the middlewares of authsession/http.go (EnsureSessionCookie,            *)
(* EnsureSessionKnown, then SetUserFromSession or RequireAuth), the        *)
(* manager's entries behind them, HandleGetCsrf, and the check of a form.  *)
(* The manager is that of AuthSession without clock and roles: whether an  *)
(* entry is young enough is a choice, a failing role provider is a failed  *)
(* call.  The process may restart and forget every entry; the browser and  *)
(* auth_app go on.                                                         *)
(***************************************************************************)
EXTENDS Naturals, FiniteSets

CONSTANTS
    Tabs,        \* each has at most one request under way
    Tokens,      \* session tokens; random ones are not reused while in use
    CsrfTokens,  \* the same for CSRF tokens
    Nil

ASSUME NilAssumption == Nil \notin Tabs \cup Tokens \cup CsrfTokens

\* What is behind EnsureSessionKnown: HandleGetCsrf, a page with
\* SetUserFromSession, or a mutation with RequireAuth and CheckCsrf.
Handlers == {"form", "page", "post"}
Stages == {"idle", "create", "known", "lookup", "join", "relookup", "wait", "roles",
           "call", "drop", "copy", "store", "storeNew", "dropOld", "anonymous",
           "handler", "get", "reread", "set", "check", "reply"}

Entry == [user : BOOLEAN, csrf : CsrfTokens \cup {Nil}, readers : SUBSET Tabs]

ASSUME EntryAssumption == Nil \notin Entry

VARIABLES
    identityCache,  \* [Tokens -> entry or Nil]
    validations,    \* singleflight: the tab leading a token's flight
    valid,          \* auth_app: the tokens it knows
    jar,            \* the cookie the browser sends, Nil if none
    stage,          \* where the request of each tab is
    req,            \* and its local variables
    gone            \* history: requests whose session was removed under them

managerVars == <<identityCache, validations>>
vars == <<identityCache, validations, valid, jar, stage, req, gone>>

\* handler: Nil until EnsureSessionKnown has passed the request on;
\* token: the request's cookie by now;
\* set: the Set-Cookie of the response; new: where auth_app rotated it to;
\* csrf: the token the request copied, found or made.
Local == [handler : Handlers \cup {Nil}, token : Tokens \cup {Nil},
          set : Tokens \cup {Nil}, new : Tokens \cup {Nil},
          csrf : CsrfTokens \cup {Nil}]

NoRequest == [handler |-> Nil, token |-> Nil, set |-> Nil, new |-> Nil,
              csrf |-> Nil]

\* What is left of a request that has been handled.
Handled(r) == [NoRequest EXCEPT !.set = r.set]

Init ==
    /\ identityCache = [t \in Tokens |-> Nil]
    /\ validations = [t \in Tokens |-> Nil]
    /\ valid = {}
    /\ jar = Nil
    /\ stage = [q \in Tabs |-> "idle"]
    /\ req = [q \in Tabs |-> NoRequest]
    /\ gone = {}

Anonymous == [user |-> FALSE, csrf |-> Nil, readers |-> {}]

\* A random token is none of those in use.
UnusedTokens ==
    {t \in Tokens : /\ t # jar /\ t \notin valid /\ identityCache[t] = Nil
                    /\ \A q \in Tabs : t \notin {req[q].token, req[q].set, req[q].new}}

Has(t) == t # Nil /\ identityCache[t] # Nil

Held(t) == IF Has(t) THEN identityCache[t].csrf ELSE Nil

UnusedCsrf == {c \in CsrfTokens : /\ \A t \in Tokens : Held(t) # c
                                  /\ \A q \in Tabs : req[q].csrf # c}

SetIdentity(t, e) == identityCache' = [identityCache EXCEPT ![t] = e]
RemoveIdentity(t) == SetIdentity(t, Nil)

Go(q, there) == stage' = [stage EXCEPT ![q] = there]

Answered(q) == req' = [req EXCEPT ![q] = Handled(@)] /\ Go(q, "reply")

-----------------------------------------------------------------------------
(* EnsureSessionCookie, EnsureSessionKnown, and the manager below them *)

\* A cookie without a value names no session either; it is answered with 500.
Send(q) ==
    /\ stage[q] = "idle"
    /\ req' = [req EXCEPT ![q].token = jar]
    /\ \/ Go(q, IF jar = Nil THEN "create" ELSE "known")
       \/ jar = Nil /\ Go(q, "reply")
    /\ UNCHANGED <<managerVars, valid, jar>>

\* setCookie and replaceRequestCookie.
WithCookie(r, n) == [r EXCEPT !.set = n, !.token = n]

\* EnsureSessionCookie: a browser without a cookie gets an anonymous session.
CreateSession(q) ==
    /\ stage[q] = "create"
    /\ \E n \in UnusedTokens :
          /\ SetIdentity(n, Anonymous)
          /\ req' = [req EXCEPT ![q] = WithCookie(@, n)]
    /\ Go(q, "known")
    /\ UNCHANGED <<validations, valid, jar>>

\* EnsureKnown: a session the manager has is good enough.
Known(q) ==
    /\ stage[q] = "known"
    /\ Go(q, IF Has(req[q].token) THEN "handler" ELSE "lookup")
    /\ UNCHANGED <<managerVars, valid, jar, req>>

\* Mutant: the handlers see the cookie the browser sent.
RotatedForBrowser(r, n) == IF n = Nil THEN r ELSE [r EXCEPT !.set = n]

\* SetRotatedSessionCookies: the response's cookie and the request's own.
Rotated(r, n) == IF n = Nil THEN r ELSE WithCookie(r, n)

\* Mutant: a failed call is taken for a session auth_app does not know.
ReturnedForgiving(r, result, n) ==
    CASE result = "user" /\ r.handler = Nil    -> <<"handler", Rotated(r, n)>>
      [] result = "user" /\ r.handler = "post" -> <<"check", Rotated(r, n)>>
      [] result = "user" /\ r.handler = "page" -> <<"reply", Handled(Rotated(r, n))>>
      [] result # "user" /\ r.handler = Nil    -> <<"anonymous", r>>
      [] OTHER                                 -> <<"reply", Handled(r)>>

\* validate returns to EnsureKnown, or to the handler's own middleware.
Returned(r, result, n) ==
    CASE result = "user" /\ r.handler = Nil    -> <<"handler", Rotated(r, n)>>
      [] result = "user" /\ r.handler = "post" -> <<"check", Rotated(r, n)>>
      [] result = "user" /\ r.handler = "page" -> <<"reply", Handled(Rotated(r, n))>>
      [] result = "none" /\ r.handler = Nil    -> <<"anonymous", r>>
      [] OTHER                                 -> <<"reply", Handled(r)>>

\* The request and those that wait for the flight it leads.
Sharing(q) ==
    {q} \cup {p \in Tabs : /\ stage[p] = "wait" /\ req[p].token = req[q].token
                           /\ validations[req[q].token] = q}

\* Mutant: the followers of a flight are left behind.
FinishAlone(q, result) ==
    LET after == Returned([req[q] EXCEPT !.new = Nil, !.csrf = Nil], result, req[q].new) IN
    /\ req' = [req EXCEPT ![q] = after[2]]
    /\ Go(q, after[1])
    /\ validations' = [t \in Tokens |-> IF validations[t] = q THEN Nil ELSE validations[t]]

Finish(q, result) ==
    LET after(p) == Returned([req[p] EXCEPT !.new = Nil, !.csrf = Nil], result, req[q].new) IN
    /\ req' = [p \in Tabs |-> IF p \in Sharing(q) THEN after(p)[2] ELSE req[p]]
    /\ stage' = [p \in Tabs |-> IF p \in Sharing(q) THEN after(p)[1] ELSE stage[p]]
    /\ validations' = [t \in Tokens |-> IF validations[t] = q THEN Nil ELSE validations[t]]

\* cachedUser: an anonymous entry never counts, a user's while it is young.
LookedUp(q, miss) ==
    LET t == req[q].token IN
    \/ Has(t) /\ identityCache[t].user /\ Go(q, "roles")
    \/ Go(q, miss)

Lookup(q) ==
    /\ stage[q] = "lookup"
    /\ LookedUp(q, "join")
    /\ UNCHANGED <<managerVars, valid, jar, req>>

\* singleflight.Do
Join(q) ==
    /\ stage[q] = "join"
    /\ LET t == req[q].token IN
       IF validations[t] # Nil
       THEN Go(q, "wait") /\ UNCHANGED validations
       ELSE Go(q, "relookup") /\ validations' = [validations EXCEPT ![t] = q]
    /\ UNCHANGED <<identityCache, valid, jar, req>>

\* The leader looks again before it calls auth_app.
Relookup(q) ==
    /\ stage[q] = "relookup"
    /\ LookedUp(q, "call")
    /\ UNCHANGED <<managerVars, valid, jar, req>>

\* buildUser, of a hit, with whatever the cache holds by then.
ResolveRoles(q) ==
    /\ stage[q] = "roles"
    /\ \E result \in {"user", "error"} : Finish(q, result)
    /\ UNCHANGED <<identityCache, valid, jar>>

\* auth_app does not know the token, or it does and may rotate it, or the call
\* fails, maybe after the rotation.  The token rotated away is over at once; an
\* overlap is in AuthSession.
Answer(q) ==
    /\ stage[q] = "call"
    /\ LET t == req[q].token IN
       \/ t \notin valid /\ Go(q, "drop") /\ UNCHANGED <<valid, req, validations>>
       \/ t \in valid /\ Go(q, "copy") /\ UNCHANGED <<valid, req, validations>>
       \/ /\ t \in valid
          /\ \E n \in UnusedTokens :
                /\ valid' = (valid \ {t}) \cup {n}
                /\ \/ /\ req' = [req EXCEPT ![q].new = n]
                      /\ Go(q, "copy") /\ UNCHANGED validations
                   \/ Finish(q, "error")
       \/ Finish(q, "error") /\ UNCHANGED valid
    /\ UNCHANGED <<identityCache, jar>>

\* removeIdentity, of an anonymous session too.
Drop(q) ==
    /\ stage[q] = "drop"
    /\ RemoveIdentity(req[q].token)
    /\ Finish(q, "none")
    /\ UNCHANGED <<valid, jar>>

\* validateAndCache copies the CSRF token, ...
CopyCsrf(q) ==
    /\ stage[q] = "copy"
    /\ req' = [req EXCEPT ![q].csrf = Held(req[q].token)]
    /\ Go(q, "store")
    /\ UNCHANGED <<managerVars, valid, jar>>

NewEntry(q) == [user |-> TRUE, csrf |-> req[q].csrf, readers |-> {}]

\* ... stores a new entry with it, ...
Store(q) ==
    /\ stage[q] = "store"
    /\ SetIdentity(req[q].token, NewEntry(q))
    /\ IF req[q].new = Nil
       THEN Finish(q, "user")
       ELSE Go(q, "storeNew") /\ UNCHANGED <<req, validations>>
    /\ UNCHANGED <<valid, jar>>

\* Mutant: the rotated session starts without a CSRF token.
StoreNewBare(q) ==
    /\ stage[q] = "storeNew"
    /\ SetIdentity(req[q].new, [NewEntry(q) EXCEPT !.csrf = Nil])
    /\ Go(q, "dropOld")
    /\ UNCHANGED <<validations, valid, jar, req>>

\* ... one under the rotated token, and drops the old one.
StoreNew(q) ==
    /\ stage[q] = "storeNew"
    /\ SetIdentity(req[q].new, NewEntry(q))
    /\ Go(q, "dropOld")
    /\ UNCHANGED <<validations, valid, jar, req>>

DropOld(q) ==
    /\ stage[q] = "dropOld"
    /\ RemoveIdentity(req[q].token)
    /\ Finish(q, "user")
    /\ UNCHANGED <<valid, jar>>

\* EnsureKnown: a token nobody knows is replaced by an anonymous session.
BecomeAnonymous(q) ==
    /\ stage[q] = "anonymous"
    /\ \E n \in UnusedTokens :
          /\ SetIdentity(n, Anonymous)
          /\ req' = [req EXCEPT ![q] = Rotated(@, n)]
    /\ Go(q, "handler")
    /\ UNCHANGED <<validations, valid, jar>>

\* CreateAnonymous fails: the request is answered with 500.
CreationFails(q) ==
    /\ stage[q] \in {"create", "anonymous"}
    /\ Answered(q)
    /\ UNCHANGED <<managerVars, valid, jar>>

-----------------------------------------------------------------------------
(* The handlers *)

\* RequireAuth of a mutation asks auth_app whatever the cache says.
Dispatch(q, h) ==
    /\ stage[q] = "handler"
    /\ req' = [req EXCEPT ![q].handler = h]
    /\ Go(q, CASE h = "form" -> "get" [] h = "page" -> "lookup" [] h = "post" -> "call")
    /\ UNCHANGED <<managerVars, valid, jar>>

\* HandleGetCsrf: a token that has not expired is answered.  An entry with a
\* token is copied under the lock; one without is used after the lock is gone.
GetCsrf(q) ==
    /\ stage[q] = "get"
    /\ LET t == req[q].token IN
       \/ ~Has(t) /\ Answered(q) /\ UNCHANGED identityCache
       \/ /\ Held(t) # Nil
          /\ Answered(q) \/ (Go(q, "set") /\ UNCHANGED req)
          /\ UNCHANGED identityCache
       \/ /\ Has(t) /\ Held(t) = Nil
          /\ identityCache' = [identityCache EXCEPT ![t].readers = @ \cup {q}]
          /\ Go(q, "reread") /\ UNCHANGED req
    /\ UNCHANGED <<validations, valid, jar>>

\* The unlocked read of entry.csrf races with SetCsrfToken: it finds nothing,
\* or what has been written to that entry since.
Reread(q) ==
    /\ stage[q] = "reread"
    /\ identityCache' = [t \in Tokens |->
           IF identityCache[t] = Nil THEN Nil
           ELSE [identityCache[t] EXCEPT !.readers = @ \ {q}]]
    /\ \/ /\ req' = [req EXCEPT ![q].csrf = Nil]
          /\ Go(q, "set")
       \/ req[q].csrf # Nil /\ Answered(q)
    /\ UNCHANGED <<validations, valid, jar>>

\* SetCsrfToken, for a session that had none, or one that has expired.
SetCsrf(q) ==
    /\ stage[q] = "set"
    /\ Go(q, "reply")
    /\ LET t == req[q].token IN
       IF identityCache[t] = Nil
       THEN req' = [req EXCEPT ![q] = Handled(@)] /\ UNCHANGED identityCache
       ELSE \E c \in UnusedCsrf :
              /\ identityCache' = [identityCache EXCEPT ![t].csrf = c]
              /\ req' = [p \in Tabs |->
                     IF p = q THEN Handled(req[p])
                     ELSE IF p \in identityCache[t].readers THEN [req[p] EXCEPT !.csrf = c]
                     ELSE req[p]]
    /\ UNCHANGED <<validations, valid, jar>>

\* CheckCsrf, of a form: the answer depends on the entry and changes nothing.
CheckCsrf(q) ==
    /\ stage[q] = "check"
    /\ Answered(q)
    /\ UNCHANGED <<managerVars, valid, jar>>

\* The response arrives, with the last Set-Cookie of its chain, or is lost.
Reply(q) ==
    /\ stage[q] = "reply"
    /\ jar' \in {jar, IF req[q].set = Nil THEN jar ELSE req[q].set}
    /\ Go(q, "idle")
    /\ req' = [req EXCEPT ![q] = NoRequest]
    /\ UNCHANGED <<managerVars, valid>>

Step(q) ==
    \/ CreateSession(q) \/ CreationFails(q) \/ Known(q) \/ Lookup(q) \/ Join(q) \/ Relookup(q)
    \/ ResolveRoles(q) \/ Answer(q) \/ Drop(q)
    \/ CopyCsrf(q) \/ Store(q) \/ StoreNew(q) \/ DropOld(q) \/ BecomeAnonymous(q)
    \/ GetCsrf(q) \/ Reread(q) \/ SetCsrf(q) \/ CheckCsrf(q) \/ Reply(q)
    \/ \E h \in Handlers : Dispatch(q, h)

-----------------------------------------------------------------------------
(* What else happens to sessions *)

\* evictExpired or Destroy takes a session out of the cache.
Forget(t) ==
    /\ identityCache[t] # Nil
    /\ RemoveIdentity(t)
    /\ UNCHANGED <<validations, valid, jar, stage, req>>

\* The process ends and starts again: its memory and its requests are gone.
Restart ==
    /\ identityCache' = [t \in Tokens |-> Nil]
    /\ validations' = [t \in Tokens |-> Nil]
    /\ stage' = [q \in Tabs |-> "idle"]
    /\ req' = [q \in Tabs |-> NoRequest]
    /\ UNCHANGED <<valid, jar>>

\* The user signs in at auth_app, which shares the cookie's domain, and the
\* login ends, with every token it has been rotated to.
Login(n) ==
    /\ jar \notin valid /\ n \in UnusedTokens
    /\ valid' = valid \cup {n}
    /\ jar' = n
    /\ UNCHANGED <<managerVars, stage, req>>

Logout ==
    /\ valid # {}
    /\ valid' = {}
    /\ UNCHANGED <<managerVars, jar, stage, req>>

Environment ==
    \/ \E t \in Tokens : Forget(t) \/ Login(t)
    \/ Logout
    \/ Restart

\* The session a request will have in the end: a follower's is its leader's.
Leader(q) == IF stage[q] = "wait" THEN validations[req[q].token] ELSE q

Session(q) ==
    IF req[Leader(q)].new # Nil THEN req[Leader(q)].new ELSE req[q].token

Watch ==
    gone' = {q \in Tabs : /\ stage'[q] # "idle"
                          /\ \/ Has(Session(q)) /\ ~Has(Session(q))'
                             \/ LET l == Leader(q)' IN
                                l \in gone /\ Session(l) = Session(q)'}

Next ==
    /\ \/ \E q \in Tabs : Send(q) \/ Step(q)
       \/ Environment
    /\ Watch

Spec == Init /\ [][Next]_vars

-----------------------------------------------------------------------------
(* Correctness *)

\* Every variable keeps its type, and whoever waits waits for a request that
\* leads a flight for the same token.
TypeOK ==
    /\ identityCache \in [Tokens -> Entry \cup {Nil}]
    /\ validations \in [Tokens -> Tabs \cup {Nil}]
    /\ valid \subseteq Tokens
    /\ jar \in Tokens \cup {Nil}
    /\ stage \in [Tabs -> Stages]
    /\ req \in [Tabs -> Local]
    /\ gone \subseteq Tabs
    /\ \A q \in Tabs : stage[q] = "wait" =>
          Leader(q) \in Tabs \ {q} /\ req[Leader(q)].token = req[q].token

\* Behind EnsureSessionKnown a handler works on a session the manager has,
\* after a restart, a rotation or a first visit, unless the session has been
\* taken away during the request (http.go:105-163, manager.go:363-375).
KnownWhenHandled ==
    \A q \in Tabs : stage[q] \in {"handler", "get", "set", "check"} /\ q \notin gone => Has(req[q].token)

\* EnsureKnown gives up the cookie a request came with only if auth_app has
\* said that it does not know that token, and it is still so: no restart, failed
\* call, eviction, shared flight or concurrent login turns into an anonymous
\* session.  It is a claim about the request's own token: an anonymous session
\* made for an old cookie may reach the browser after the answer that carried a
\* newer one (manager.go:358-375).
OnlyDeniedGivenUp ==
    \A q \in Tabs : stage[q] = "anonymous" => req[q].token \notin valid

Live(c) == \E t \in Tokens : Held(t) = c

\* While a session lasts, so does its CSRF token, through revalidation and
\* rotation by any number of requests.  It is lost only when its session is, when
\* HandleGetCsrf replaces one it had seen expired or had not seen, or when it
\* was set while a validation of the session was under way
\* (manager.go:259-288, 415-432; handlers.go:45-52).
CsrfSurvives ==
    [][\A c \in CsrfTokens : Live(c) /\ ~Live(c)' =>
          \/ Restart
          \/ \E t \in Tokens : Held(t) = c /\ Forget(t)
          \/ \E q \in Tabs : Held(req[q].token) = c /\
                \/ Drop(q) /\ req[q].token \notin valid
                \/ SetCsrf(q)
                \/ Store(q) /\ req[q].csrf # c
                \/ DropOld(q) /\ (req[q].csrf = c => ~Has(req[q].new))]_vars
=============================================================================
