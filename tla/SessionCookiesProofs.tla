------------------------ MODULE SessionCookiesProofs ------------------------
(***************************************************************************)
(* For any number of tabs and tokens: a handler finds its session, only a  *)
(* cookie auth_app has denied is given up, and a CSRF token lives as long  *)
(* as its session.                                                         *)
(***************************************************************************)
EXTENDS SessionCookies, TLAPS

\* Stages at which a request may lead a flight.
Flying == {"relookup", "roles", "call", "drop", "copy", "store", "storeNew", "dropOld"}

\* A flight is for the token of the request that leads it, which is at work.
Flights ==
    \A t \in Tokens : validations[t] # Nil =>
        req[validations[t]].token = t /\ stage[validations[t]] \in Flying

\* A request in the middle of the chain has a token.
HasToken ==
    \A q \in Tabs : stage[q] \notin {"idle", "create", "reply"} => req[q].token \in Tokens

\* What auth_app rotated a token to is known to one request only, until it has
\* stored the new entry with the CSRF token it had copied.
NewTokens ==
    \A q \in Tabs :
        /\ stage[q] \in {"storeNew", "dropOld"} => req[q].new # Nil
        /\ req[q].new # Nil =>
              /\ stage[q] \in {"copy", "store", "storeNew", "dropOld"}
              /\ req[q].new # jar
              /\ \A p \in Tabs : /\ req[p].token # req[q].new
                                 /\ req[p].set # req[q].new
                                 /\ p # q => req[p].new # req[q].new
              /\ stage[q] # "dropOld" => ~Has(req[q].new)
              /\ Has(req[q].new) => Held(req[q].new) = req[q].csrf

\* A cookie is given up for a token auth_app has denied.
Denied == \A q \in Tabs : stage[q] \in {"drop", "anonymous"} => req[q].token \notin valid

\* The session a request works on is there, or was taken away.
Present ==
    \A q \in Tabs \ gone :
        /\ stage[q] \in {"handler", "get", "reread", "set", "check", "roles"} => Has(req[q].token)
        /\ stage[q] = "dropOld" => Has(req[q].new)

\* What is taken from the leader is taken from those that wait for it.
SharedLoss == \A q \in Tabs : stage[q] = "wait" /\ Leader(q) \in gone => q \in gone

\* Who reads an entry without the lock is about to read it.
Readers ==
    \A t \in Tokens : identityCache[t] # Nil =>
        \A q \in identityCache[t].readers : stage[q] = "reread"

IInv == TypeOK /\ Readers /\ Flights /\ HasToken /\ NewTokens /\ Denied /\ Present /\ SharedLoss

-----------------------------------------------------------------------------
(* Types *)

Typed ==
    /\ identityCache \in [Tokens -> Entry \cup {Nil}]
    /\ validations \in [Tokens -> Tabs \cup {Nil}]
    /\ valid \subseteq Tokens
    /\ jar \in Tokens \cup {Nil}
    /\ stage \in [Tabs -> Stages]
    /\ req \in [Tabs -> Local]
    /\ gone \subseteq Tabs

LEMMA HandledType == ASSUME NEW r \in Local PROVE Handled(r) \in Local /\ Handled(r).set = r.set
BY DEF Handled, NoRequest, Local

LEMMA RotatedType ==
    ASSUME NEW r \in Local, NEW n \in Tokens \cup {Nil}
    PROVE  /\ Rotated(r, n) \in Local
           /\ Rotated(r, n).token = IF n = Nil THEN r.token ELSE n
           /\ Rotated(r, n).set = IF n = Nil THEN r.set ELSE n
           /\ Rotated(r, n).new = r.new
BY DEF Rotated, WithCookie, Local

\* What validate's return makes of one request.
LEMMA ReturnedEffect ==
    ASSUME NEW r \in Local, NEW n \in Tokens \cup {Nil}, NEW result, r.new = Nil
    PROVE  LET to == Returned(r, result, n)[1]
               s == Returned(r, result, n)[2]
           IN  /\ s \in Local /\ s.new = Nil
               /\ to \in {"handler", "check", "reply", "anonymous"}
               /\ to = "anonymous" => result = "none" /\ s.token = r.token /\ s.set = r.set
               /\ to \in {"handler", "check"} =>
                     result = "user" /\ s.token = IF n = Nil THEN r.token ELSE n
               /\ to = "reply" => s.token = Nil
               /\ s.set \in {r.set, n, Nil}
<1> DEFINE rot == Rotated(r, n)
<1>1. /\ rot \in Local /\ rot.token = (IF n = Nil THEN r.token ELSE n)
      /\ rot.set \in {r.set, n} /\ rot.new = Nil
  BY RotatedType
<1>2. \A x \in Local : /\ Handled(x) \in Local /\ Handled(x).set = x.set
                       /\ Handled(x).new = Nil /\ Handled(x).token = Nil
  BY HandledType DEF Handled, NoRequest
<1> HIDE DEF rot
<1>3. Returned(r, result, n) =
        CASE result = "user" /\ r.handler = Nil    -> <<"handler", rot>>
          [] result = "user" /\ r.handler = "post" -> <<"check", rot>>
          [] result = "user" /\ r.handler = "page" -> <<"reply", Handled(rot)>>
          [] result = "none" /\ r.handler = Nil    -> <<"anonymous", r>>
          [] OTHER                                 -> <<"reply", Handled(r)>>
  BY DEF Returned, rot
<1> QED
  BY <1>1, <1>2, <1>3


\* The end of a validation, for the request that made it and those that share it.
LEMMA FinishEffect ==
    ASSUME Typed, NEW q \in Tabs, NEW result, Finish(q, result)
    PROVE  /\ req' \in [Tabs -> Local] /\ stage' \in [Tabs -> Stages]
           /\ validations' \in [Tokens -> Tabs \cup {Nil}]
           /\ \A t \in Tokens : validations'[t] = IF validations[t] = q THEN Nil ELSE validations[t]
           /\ \A p \in Tabs \ Sharing(q) : req'[p] = req[p] /\ stage'[p] = stage[p]
           /\ \A p \in Sharing(q) :
                 /\ req'[p].new = Nil
                 /\ stage'[p] \in {"handler", "check", "reply", "anonymous"}
                 /\ stage'[p] = "anonymous" =>
                       result = "none" /\ req'[p].token = req[p].token /\ req'[p].set = req[p].set
                 /\ stage'[p] \in {"handler", "check"} =>
                       /\ result = "user"
                       /\ req'[p].token = IF req[q].new = Nil THEN req[p].token ELSE req[q].new
                 /\ stage'[p] = "reply" => req'[p].token = Nil
                 /\ req'[p].set \in {req[p].set, req[q].new, Nil}
<1> DEFINE back(p) == [req[p] EXCEPT !.new = Nil, !.csrf = Nil]
           after(p) == Returned(back(p), result, req[q].new)
<1>1. \A p \in Tabs : /\ back(p) \in Local /\ back(p).new = Nil
                      /\ back(p).token = req[p].token /\ back(p).set = req[p].set
  BY DEF Typed, Local
<1>2. req[q].new \in Tokens \cup {Nil}
  BY DEF Typed, Local
<1>3. /\ req' = [p \in Tabs |-> IF p \in Sharing(q) THEN after(p)[2] ELSE req[p]]
      /\ stage' = [p \in Tabs |-> IF p \in Sharing(q) THEN after(p)[1] ELSE stage[p]]
      /\ validations' = [t \in Tokens |-> IF validations[t] = q THEN Nil ELSE validations[t]]
  BY DEF Finish
<1>4. ASSUME NEW p \in Tabs
      PROVE  /\ after(p)[2] \in Local /\ after(p)[2].new = Nil
             /\ after(p)[1] \in {"handler", "check", "reply", "anonymous"}
             /\ after(p)[1] = "anonymous" =>
                   result = "none" /\ after(p)[2].token = req[p].token /\ after(p)[2].set = req[p].set
             /\ after(p)[1] \in {"handler", "check"} =>
                   result = "user" /\ after(p)[2].token = IF req[q].new = Nil THEN req[p].token ELSE req[q].new
             /\ after(p)[1] = "reply" => after(p)[2].token = Nil
             /\ after(p)[2].set \in {req[p].set, req[q].new, Nil}
  <2> HIDE DEF back
  <2> QED
    BY <1>1, <1>2, ReturnedEffect
<1>5. Sharing(q) \subseteq Tabs
  BY DEF Sharing
<1>6. {"handler", "check", "reply", "anonymous"} \subseteq Stages
  BY DEF Stages
<1> HIDE DEF after
<1>7. req' \in [Tabs -> Local] /\ stage' \in [Tabs -> Stages]
  BY <1>3, <1>4, <1>6 DEF Typed
<1>8. validations' \in [Tokens -> Tabs \cup {Nil}]
  BY <1>3 DEF Typed
<1>9. \A t \in Tokens : validations'[t] = IF validations[t] = q THEN Nil ELSE validations[t]
  BY <1>3
<1>10. \A p \in Tabs \ Sharing(q) : req'[p] = req[p] /\ stage'[p] = stage[p]
  BY <1>3
<1>11. \A p \in Sharing(q) : req'[p] = after(p)[2] /\ stage'[p] = after(p)[1]
  BY <1>3, <1>5
<1> QED
  BY <1>4, <1>5, <1>7, <1>8, <1>9, <1>10, <1>11

LEMMA FinishTyped ==
    ASSUME Typed, NEW q \in Tabs, NEW result, Finish(q, result),
           identityCache' \in [Tokens -> Entry \cup {Nil}], valid' \subseteq Tokens,
           jar' \in Tokens \cup {Nil}, gone' \subseteq Tabs
    PROVE  Typed'
BY FinishEffect DEF Typed

\* The usual step: one request goes on, with new locals.
LEMMA GoTyped ==
    ASSUME Typed, NEW q \in Tabs, NEW there \in Stages, Go(q, there),
           NEW r \in Local, req' = [req EXCEPT ![q] = r],
           identityCache' \in [Tokens -> Entry \cup {Nil}],
           validations' \in [Tokens -> Tabs \cup {Nil}], valid' \subseteq Tokens,
           jar' \in Tokens \cup {Nil}, gone' \subseteq Tabs
    PROVE  Typed'
BY DEF Typed, Go

LEMMA SetIdentityType ==
    ASSUME Typed, NEW t \in Tokens \cup {Nil}, NEW e \in Entry \cup {Nil}, SetIdentity(t, e)
    PROVE  /\ identityCache' \in [Tokens -> Entry \cup {Nil}]
           /\ \A u \in Tokens : identityCache'[u] = IF u = t THEN e ELSE identityCache[u]
BY DEF Typed, SetIdentity

LEMMA EntryTypes ==
    ASSUME Typed
    PROVE  /\ Anonymous \in Entry
           /\ \A q \in Tabs : NewEntry(q) \in Entry
           /\ \A t \in Tokens \cup {Nil} : Held(t) \in CsrfTokens \cup {Nil}
           /\ \A t \in Tokens : identityCache[t] # Nil => identityCache[t] \in Entry
           /\ Nil \notin Entry
BY EntryAssumption DEF Typed, Anonymous, NewEntry, Entry, Local, Held, Has


LEMMA TypedStep == ASSUME Typed, Next PROVE Typed'
<1> USE DEF managerVars
<1>1. gone' \subseteq Tabs
  BY DEF Next, Watch
<1>2. \A q \in Tabs : req[q] \in Local /\ req[q].token \in Tokens \cup {Nil} /\ req[q].new \in Tokens \cup {Nil}
  BY DEF Typed, Local
<1>3. UnusedTokens \subseteq Tokens /\ UnusedCsrf \subseteq CsrfTokens
  BY DEF UnusedTokens, UnusedCsrf
<1>4. NoRequest \in Local
  BY DEF NoRequest, Local
<1>5. ASSUME NEW q \in Tabs, Send(q) PROVE Typed'
  <2>1. [req[q] EXCEPT !.token = jar] \in Local
    BY <1>2 DEF Typed, Local
  <2>2. stage' \in [Tabs -> Stages]
    BY <1>5 DEF Send, Typed, Go, Stages
  <2> QED BY <1>1, <1>5, <2>1, <2>2 DEF Send, Typed
<1>6. ASSUME NEW q \in Tabs, CreateSession(q) PROVE Typed'
  <2>1. PICK n \in UnusedTokens : /\ SetIdentity(n, Anonymous)
                                 /\ req' = [req EXCEPT ![q] = WithCookie(@, n)]
    BY <1>6 DEF CreateSession
  <2>2. WithCookie(req[q], n) \in Local
    BY <1>2, <1>3 DEF Local, WithCookie
  <2>4. identityCache' \in [Tokens -> Entry \cup {Nil}]
    BY <2>1, <1>3, SetIdentityType, EntryTypes
  <2> QED BY <1>1, <1>6, <2>1, <2>2, <2>4, GoTyped DEF CreateSession, Typed, Stages
<1>7. ASSUME NEW q \in Tabs, Known(q) \/ Lookup(q) \/ Join(q) \/ Relookup(q) PROVE Typed'
  <2>1. validations' \in [Tokens -> Tabs \cup {Nil}]
    BY <1>7 DEF Typed, Known, Lookup, Join, Relookup
  <2>2. stage' \in [Tabs -> Stages]
    BY <1>7 DEF Typed, Known, Lookup, Join, Relookup, LookedUp, Go, Stages
  <2> QED BY <1>1, <1>7, <2>1, <2>2 DEF Typed, Known, Lookup, Join, Relookup
<1>8. ASSUME NEW q \in Tabs, ResolveRoles(q) PROVE Typed'
  BY <1>1, <1>8, FinishTyped DEF ResolveRoles, Typed
<1>9. ASSUME NEW q \in Tabs, Answer(q) PROVE Typed'
  <2>1. valid' \subseteq Tokens
    BY <1>9, <1>3 DEF Answer, Typed
  <2>2. identityCache' = identityCache /\ jar' = jar
    BY <1>9 DEF Answer
  <2>3. CASE Finish(q, "error")
    BY <1>1, <2>1, <2>2, <2>3, FinishTyped DEF Typed
  <2>4. CASE ~Finish(q, "error")
    <3>1. validations' = validations /\ \E there \in {"drop", "copy"} : Go(q, there)
      BY <1>9, <2>4 DEF Answer
    <3>2. req' = req \/ \E n \in UnusedTokens : req' = [req EXCEPT ![q].new = n]
      BY <1>9, <2>4 DEF Answer
    <3>3. req' \in [Tabs -> Local]
      <4>1. ASSUME NEW n \in UnusedTokens, req' = [req EXCEPT ![q].new = n]
            PROVE  req' \in [Tabs -> Local]
        <5>1. [req[q] EXCEPT !.new = n] \in Local
          BY <1>2, <1>3 DEF Local
        <5> QED BY <4>1, <5>1 DEF Typed
      <4> QED BY <3>2, <4>1 DEF Typed
    <3>4. stage' \in [Tabs -> Stages]
      BY <3>1 DEF Go, Typed, Stages
    <3> QED BY <1>1, <2>1, <2>2, <3>1, <3>3, <3>4 DEF Typed
  <2> QED BY <2>3, <2>4
<1>10. ASSUME NEW q \in Tabs, Drop(q) \/ DropOld(q) PROVE Typed'
  <2>1. identityCache' \in [Tokens -> Entry \cup {Nil}]
    BY <1>10, <1>2, SetIdentityType DEF Drop, DropOld, RemoveIdentity
  <2> QED BY <1>1, <1>10, <2>1, FinishTyped DEF Drop, DropOld, Typed
<1>11. ASSUME NEW q \in Tabs, CopyCsrf(q) PROVE Typed'
  <2>1. [req[q] EXCEPT !.csrf = Held(req[q].token)] \in Local
    BY <1>2, EntryTypes DEF Local
  <2> QED BY <1>1, <1>11, <2>1 DEF CopyCsrf, Typed, Go, Stages
<1>12. ASSUME NEW q \in Tabs, Store(q) PROVE Typed'
  <2>1. identityCache' \in [Tokens -> Entry \cup {Nil}]
    BY <1>12, <1>2, SetIdentityType, EntryTypes DEF Store
  <2>2. CASE Finish(q, "user")
    BY <1>1, <1>12, <2>1, <2>2, FinishTyped DEF Store, Typed
  <2>3. CASE Go(q, "storeNew") /\ UNCHANGED <<req, validations>>
    BY <1>1, <1>12, <2>1, <2>3 DEF Store, Typed, Go, Stages
  <2> QED BY <1>12, <2>2, <2>3 DEF Store
<1>13. ASSUME NEW q \in Tabs, StoreNew(q) PROVE Typed'
  <2>1. identityCache' \in [Tokens -> Entry \cup {Nil}]
    BY <1>13, <1>2, SetIdentityType, EntryTypes DEF StoreNew
  <2> QED BY <1>1, <1>13, <2>1 DEF StoreNew, Typed, Go, Stages
<1>14. ASSUME NEW q \in Tabs, BecomeAnonymous(q) PROVE Typed'
  <2>1. PICK n \in UnusedTokens : /\ SetIdentity(n, Anonymous)
                                 /\ req' = [req EXCEPT ![q] = Rotated(@, n)]
    BY <1>14 DEF BecomeAnonymous
  <2>2. identityCache' \in [Tokens -> Entry \cup {Nil}]
    BY <2>1, <1>3, SetIdentityType, EntryTypes
  <2>3. Rotated(req[q], n) \in Local
    BY <1>2, <1>3, RotatedType
  <2> QED BY <1>1, <1>14, <2>1, <2>2, <2>3 DEF BecomeAnonymous, Typed, Go, Stages
<1>15. ASSUME NEW q \in Tabs, NEW h \in Handlers, Dispatch(q, h) PROVE Typed'
  <2>1. [req[q] EXCEPT !.handler = h] \in Local
    BY <1>2 DEF Local
  <2>2. stage' \in [Tabs -> Stages]
    BY <1>15 DEF Dispatch, Typed, Go, Stages, Handlers
  <2> QED BY <1>1, <1>15, <2>1, <2>2 DEF Dispatch, Typed
<1>16. ASSUME NEW q \in Tabs, Answered(q) PROVE req' \in [Tabs -> Local] /\ stage' \in [Tabs -> Stages]
  BY <1>16, <1>2, HandledType DEF Answered, Typed, Go, Stages
<1>17. ASSUME NEW q \in Tabs, GetCsrf(q) PROVE Typed'
  <2>1. identityCache' \in [Tokens -> Entry \cup {Nil}]
    <3>1. ASSUME Has(req[q].token),
                 identityCache' = [identityCache EXCEPT ![req[q].token].readers = @ \cup {q}]
          PROVE  identityCache' \in [Tokens -> Entry \cup {Nil}]
      <4>1. identityCache[req[q].token] \in Entry /\ req[q].token \in Tokens
        BY <3>1, <1>2, EntryTypes DEF Has
      <4>2. [identityCache[req[q].token] EXCEPT !.readers = @ \cup {q}] \in Entry
        BY <4>1 DEF Entry
      <4> QED BY <3>1, <4>1, <4>2 DEF Typed
    <3> QED BY <1>17, <3>1 DEF GetCsrf, Typed
  <2>2. req' \in [Tabs -> Local] /\ stage' \in [Tabs -> Stages]
    <3>1. CASE Answered(q)
      BY <3>1, <1>16
    <3>2. CASE \E there \in {"set", "reread"} : Go(q, there) /\ UNCHANGED req
      BY <3>2 DEF Go, Typed, Stages
    <3> QED BY <1>17, <3>1, <3>2 DEF GetCsrf
  <2> QED BY <1>1, <1>17, <2>1, <2>2 DEF GetCsrf, Typed
<1>18. ASSUME NEW q \in Tabs, Reread(q) PROVE Typed'
  <2>1. identityCache' \in [Tokens -> Entry \cup {Nil}]
    <3>1. \A e \in Entry : [e EXCEPT !.readers = @ \ {q}] \in Entry
      BY DEF Entry
    <3> QED BY <1>18, <3>1, EntryTypes DEF Reread, Typed
  <2>2. req' \in [Tabs -> Local] /\ stage' \in [Tabs -> Stages]
    <3>1. CASE Answered(q)
      BY <3>1, <1>16
    <3>2. CASE req' = [req EXCEPT ![q].csrf = Nil] /\ Go(q, "set")
      <4>1. [req[q] EXCEPT !.csrf = Nil] \in Local
        BY <1>2 DEF Local
      <4> QED BY <3>2, <4>1 DEF Typed, Go, Stages
    <3> QED BY <1>18, <3>1, <3>2 DEF Reread
  <2> QED BY <1>1, <1>18, <2>1, <2>2 DEF Reread, Typed
<1>19. ASSUME NEW q \in Tabs, SetCsrf(q) PROVE Typed'
  <2>1. stage' \in [Tabs -> Stages]
    BY <1>19 DEF SetCsrf, Go, Typed, Stages
  <2>2. CASE req' = [req EXCEPT ![q] = Handled(@)] /\ UNCHANGED identityCache
    BY <1>1, <1>2, <1>19, <2>1, <2>2, HandledType DEF SetCsrf, Typed
  <2>3. ASSUME identityCache[req[q].token] # Nil, NEW c \in UnusedCsrf,
               identityCache' = [identityCache EXCEPT ![req[q].token].csrf = c],
               req' = [p \in Tabs |->
                     IF p = q THEN Handled(req[p])
                     ELSE IF p \in identityCache[req[q].token].readers
                          THEN [req[p] EXCEPT !.csrf = c] ELSE req[p]]
        PROVE  Typed'
    <3>1. \A e \in Entry : [e EXCEPT !.csrf = c] \in Entry
      BY <1>3 DEF Entry
    <3>2. \A r \in Local : [r EXCEPT !.csrf = c] \in Local
      BY <1>3 DEF Local
    <3>3. identityCache' \in [Tokens -> Entry \cup {Nil}]
      BY <2>3, <3>1, EntryTypes DEF Typed
    <3>4. req' \in [Tabs -> Local]
      BY <2>3, <3>2, <1>2, HandledType
    <3> QED BY <1>1, <1>19, <2>1, <3>3, <3>4 DEF SetCsrf, Typed
  <2> QED BY <1>19, <2>2, <2>3 DEF SetCsrf
<1>20. ASSUME NEW q \in Tabs, CheckCsrf(q) \/ CreationFails(q) PROVE Typed'
  BY <1>1, <1>16, <1>20 DEF CheckCsrf, CreationFails, Typed
<1>21. ASSUME NEW q \in Tabs, Reply(q) PROVE Typed'
  <2>1. jar' \in Tokens \cup {Nil}
    BY <1>2, <1>21 DEF Reply, Typed, Local
  <2> QED BY <1>1, <1>4, <1>21, <2>1 DEF Reply, Typed, Go, Stages
<1>22. ASSUME Environment PROVE Typed'
  <2>1. ASSUME NEW t \in Tokens, Forget(t) PROVE Typed'
    BY <1>1, <2>1, SetIdentityType DEF Forget, RemoveIdentity, Typed
  <2>2. ASSUME NEW t \in Tokens, Login(t) PROVE Typed'
    BY <1>1, <2>2 DEF Login, Typed
  <2>3. CASE Logout
    BY <1>1, <2>3 DEF Logout, Typed
  <2>4. CASE Restart
    BY <1>1, <1>4, <2>4 DEF Restart, Typed, Stages
  <2> QED BY <1>22, <2>1, <2>2, <2>3, <2>4 DEF Environment
<1> QED
  BY <1>5, <1>6, <1>7, <1>8, <1>9, <1>10, <1>11, <1>12, <1>13, <1>14, <1>15, <1>17,
     <1>18, <1>19, <1>20, <1>21, <1>22 DEF Next, Step


-----------------------------------------------------------------------------
(* Flights and their followers *)

Followers ==
    \A q \in Tabs : stage[q] = "wait" =>
        Leader(q) \in Tabs \ {q} /\ req[Leader(q)].token = req[q].token

Shared == Typed /\ Followers /\ Flights /\ HasToken

\* A step of one request alone that neither opens nor ends a flight.
LocalStep(q) ==
    /\ validations' = validations
    /\ \A p \in Tabs \ {q} : stage'[p] = stage[p] /\ req'[p].token = req[p].token
    /\ stage[q] # "wait" /\ stage'[q] # "wait"
    /\ stage[q] \in Flying => stage'[q] \in Flying /\ req'[q].token = req[q].token
    /\ stage'[q] \notin {"idle", "create", "reply"} => req'[q].token \in Tokens

LEMMA LocalShared ==
    ASSUME Shared, Typed', NEW q \in Tabs, LocalStep(q)
    PROVE  Shared'
<1>1. HasToken'
  BY DEF Shared, HasToken, LocalStep
<1>2. Flights'
  BY DEF Shared, Flights, LocalStep, Typed
<1>3. Followers'
  <2> SUFFICES ASSUME NEW p \in Tabs, stage'[p] = "wait"
               PROVE  (Leader(p) \in Tabs \ {p} /\ req[Leader(p)].token = req[p].token)'
    BY DEF Followers
  <2>1. p # q /\ stage[p] = "wait" /\ req'[p].token = req[p].token /\ req[p].token \in Tokens
    BY DEF LocalStep, Shared, HasToken
  <2>2. Leader(p)' = Leader(p) /\ Leader(p) = validations[req[p].token] /\ Leader(p) \in Tabs \ {p}
    BY <2>1 DEF Leader, LocalStep, Shared, Followers
  <2>3. stage[Leader(p)] \in Flying /\ req[Leader(p)].token = req[p].token
    BY <2>1, <2>2, NilAssumption DEF Shared, Flights, Followers
  <2>4. req'[Leader(p)].token = req[Leader(p)].token
    BY <2>2, <2>3 DEF LocalStep
  <2> QED BY <2>1, <2>2, <2>3, <2>4
<1> QED BY <1>1, <1>2, <1>3 DEF Shared

LEMMA FinishShared ==
    ASSUME Shared, Typed', NEW q \in Tabs, NEW result, Finish(q, result), stage[q] \in Flying
    PROVE  Shared'
<1> USE FinishEffect DEF Shared
<1>1. \A p \in Sharing(q) : p \in Tabs /\ req[p].token = req[q].token /\ req[p].token \in Tokens
  BY DEF Sharing, HasToken, Flying
<1>2. HasToken'
  <2> SUFFICES ASSUME NEW p \in Tabs, stage'[p] \notin {"idle", "create", "reply"}
               PROVE  req'[p].token \in Tokens
    BY DEF HasToken
  <2>1. CASE p \in Sharing(q)
    <3>1. req[q].new \in Tokens \cup {Nil}
      BY DEF Typed, Local
    <3> QED BY <1>1, <2>1, <3>1
  <2> QED BY <2>1 DEF HasToken
<1>3. \A l \in Tabs \ {q} : stage[l] \in Flying => l \notin Sharing(q)
  BY DEF Sharing, Flying
<1>4. Flights'
  <2> SUFFICES ASSUME NEW t \in Tokens, validations'[t] # Nil
               PROVE  req'[validations'[t]].token = t /\ stage'[validations'[t]] \in Flying
    BY DEF Flights
  <2>1. validations'[t] = validations[t] /\ validations[t] \in Tabs \ {q}
    BY DEF Typed
  <2> QED BY <1>3, <2>1 DEF Flights
<1>5. Followers'
  <2> SUFFICES ASSUME NEW p \in Tabs, stage'[p] = "wait"
               PROVE  (Leader(p) \in Tabs \ {p} /\ req[Leader(p)].token = req[p].token)'
    BY DEF Followers
  <2>1. p \notin Sharing(q) /\ stage[p] = "wait" /\ req'[p] = req[p] /\ req[p].token \in Tokens
    BY DEF HasToken
  <2> DEFINE l == validations[req[p].token]
  <2>2. l \in Tabs \ {p} /\ req[l].token = req[p].token /\ stage[l] \in Flying
    BY <2>1, NilAssumption DEF Followers, Flights, Leader
  <2>3. l # q
    BY <2>1, <2>2 DEF Sharing
  <2>4. Leader(p)' = l /\ req'[l] = req[l]
    BY <1>3, <2>1, <2>2, <2>3 DEF Leader
  <2> QED BY <2>1, <2>2, <2>4
<1> QED BY <1>2, <1>4, <1>5


LEMMA LocalSteps ==
    ASSUME Shared, Typed', NEW q \in Tabs,
           \/ Send(q) \/ CreateSession(q) \/ Known(q) \/ Lookup(q) \/ Relookup(q)
           \/ Answer(q) /\ ~Finish(q, "error")
           \/ CopyCsrf(q) \/ (Store(q) /\ ~Finish(q, "user")) \/ StoreNew(q)
           \/ BecomeAnonymous(q) \/ \E h \in Handlers : Dispatch(q, h)
           \/ GetCsrf(q) \/ Reread(q) \/ SetCsrf(q) \/ CheckCsrf(q) \/ CreationFails(q) \/ Reply(q)
    PROVE  LocalStep(q)
<1> USE DEF managerVars, Shared, Typed
<1>1. req[q] \in Local /\ \A r \in Local : Handled(r).token = Nil
  BY DEF Handled, NoRequest
<1>2. UnusedTokens \subseteq Tokens
  BY DEF UnusedTokens
<1>3. CASE Send(q)
  BY <1>3, <1>1 DEF Send, LocalStep, Go, Flying, Local
<1>4. CASE CreateSession(q)
  <2>1. PICK n \in UnusedTokens : req' = [req EXCEPT ![q] = WithCookie(@, n)]
    BY <1>4 DEF CreateSession
  <2>2. req'[q].token \in Tokens /\ \A p \in Tabs \ {q} : req'[p] = req[p]
    <3>1. WithCookie(req[q], n).token \in Tokens
      BY <1>1, <1>2 DEF Local, WithCookie
    <3> QED BY <2>1, <3>1
  <2>3. /\ validations' = validations /\ stage[q] = "create"
        /\ \A p \in Tabs \ {q} : stage'[p] = stage[p]
        /\ stage'[q] = "known"
    BY <1>4 DEF CreateSession, Go
  <2> QED BY <2>2, <2>3 DEF LocalStep, Flying
<1>5. CASE Known(q) \/ Lookup(q) \/ Relookup(q)
  BY <1>5 DEF Known, Lookup, Relookup, LookedUp, LocalStep, Go, Flying, HasToken
<1>6. CASE Answer(q) /\ ~Finish(q, "error")
  <2>1. stage[q] = "call" /\ validations' = validations /\ \E there \in {"drop", "copy"} : Go(q, there)
    BY <1>6 DEF Answer
  <2>2. req' = req \/ \E n \in UnusedTokens : req' = [req EXCEPT ![q].new = n]
    BY <1>6 DEF Answer
  <2>3. \A p \in Tabs : req'[p].token = req[p].token
    BY <1>1, <2>2 DEF Local
  <2> QED BY <2>1, <2>3 DEF LocalStep, Go, Flying, HasToken
<1>7. CASE CopyCsrf(q) \/ StoreNew(q)
  <2>1. \A p \in Tabs : req'[p].token = req[p].token
    BY <1>1, <1>7 DEF CopyCsrf, StoreNew, Local
  <2> QED BY <1>7, <2>1 DEF CopyCsrf, StoreNew, LocalStep, Go, Flying, HasToken
<1>8. CASE Store(q) /\ ~Finish(q, "user")
  BY <1>8 DEF Store, LocalStep, Go, Flying, HasToken
<1>9. CASE BecomeAnonymous(q)
  <2>1. PICK n \in UnusedTokens : req' = [req EXCEPT ![q] = Rotated(req[q], n)]
    BY <1>9 DEF BecomeAnonymous
  <2>2. Rotated(req[q], n).token \in Tokens
    <3>1. n \in Tokens /\ n # Nil
      BY <1>2, NilAssumption
    <3> QED BY <1>1, <3>1 DEF Rotated, WithCookie, Local
  <2> QED BY <1>9, <2>1, <2>2 DEF BecomeAnonymous, LocalStep, Go, Flying
<1>10. ASSUME NEW h \in Handlers, Dispatch(q, h) PROVE LocalStep(q)
  <2>1. \A p \in Tabs : req'[p].token = req[p].token
    BY <1>1, <1>10 DEF Dispatch, Local
  <2> QED BY <1>10, <2>1 DEF Dispatch, LocalStep, Go, Flying, HasToken, Handlers
<1>11. ASSUME Answered(q)
       PROVE  /\ stage'[q] = "reply"
              /\ \A p \in Tabs \ {q} : stage'[p] = stage[p] /\ req'[p].token = req[p].token
  BY <1>11 DEF Answered, Go
<1>12. CASE GetCsrf(q)
  BY <1>11, <1>12 DEF GetCsrf, LocalStep, Go, Flying, HasToken
<1>13. CASE Reread(q)
  <2>1. CASE Answered(q)
    BY <1>11, <1>13, <2>1 DEF Reread, LocalStep, Flying
  <2>2. CASE req' = [req EXCEPT ![q].csrf = Nil] /\ Go(q, "set")
    <3>1. \A p \in Tabs : req'[p].token = req[p].token
      BY <1>1, <2>2 DEF Local
    <3> QED BY <1>13, <2>2, <3>1 DEF Reread, LocalStep, Go, Flying, HasToken
  <2> QED BY <1>13, <2>1, <2>2 DEF Reread
<1>14. CASE SetCsrf(q)
  <2>1. \A r \in Local, c \in CsrfTokens : [r EXCEPT !.csrf = c].token = r.token
    BY DEF Local
  <2>2. UnusedCsrf \subseteq CsrfTokens
    BY DEF UnusedCsrf
  <2>3. \A p \in Tabs \ {q} : req'[p].token = req[p].token
    <3>1. CASE req' = [req EXCEPT ![q] = Handled(@)]
      BY <3>1
    <3>2. CASE \E c \in UnusedCsrf : req' = [p \in Tabs |->
                     IF p = q THEN Handled(req[p])
                     ELSE IF p \in identityCache[req[q].token].readers
                          THEN [req[p] EXCEPT !.csrf = c] ELSE req[p]]
      BY <2>1, <2>2, <3>2
    <3> QED BY <1>14, <3>1, <3>2 DEF SetCsrf
  <2> QED BY <1>14, <2>3 DEF SetCsrf, LocalStep, Go, Flying
<1>15. CASE CheckCsrf(q) \/ CreationFails(q)
  BY <1>11, <1>15 DEF CheckCsrf, CreationFails, LocalStep, Flying
<1>16. CASE Reply(q)
  BY <1>16 DEF Reply, LocalStep, Go, Flying
<1> QED
  BY <1>3, <1>4, <1>5, <1>6, <1>7, <1>8, <1>9, <1>10, <1>12, <1>13, <1>14, <1>15, <1>16

LEMMA SharedStep == ASSUME Shared, Next PROVE Shared'
<1>1. Typed'
  BY TypedStep DEF Shared
<1>2. ASSUME NEW q \in Tabs, Send(q) \/ Step(q) PROVE Shared'
  <2>1. CASE \/ Send(q) \/ CreateSession(q) \/ Known(q) \/ Lookup(q) \/ Relookup(q)
             \/ Answer(q) /\ ~Finish(q, "error")
             \/ CopyCsrf(q) \/ (Store(q) /\ ~Finish(q, "user")) \/ StoreNew(q)
             \/ BecomeAnonymous(q) \/ \E h \in Handlers : Dispatch(q, h)
             \/ GetCsrf(q) \/ Reread(q) \/ SetCsrf(q) \/ CheckCsrf(q) \/ CreationFails(q) \/ Reply(q)
    BY <1>1, <2>1, LocalSteps, LocalShared
  <2>2. CASE ResolveRoles(q) \/ Drop(q) \/ DropOld(q)
    BY <1>1, <2>2, FinishShared DEF ResolveRoles, Drop, DropOld, Flying
  <2>3. CASE Answer(q) /\ Finish(q, "error")
    BY <1>1, <2>3, FinishShared DEF Answer, Flying
  <2>4. CASE Store(q) /\ Finish(q, "user")
    BY <1>1, <2>4, FinishShared DEF Store, Flying
  <2>5. CASE Join(q)
    <3>1. /\ stage[q] = "join" /\ req' = req /\ req[q].token \in Tokens
          /\ \A p \in Tabs \ {q} : stage'[p] = stage[p]
      BY <2>5 DEF Join, Go, Shared, Typed, HasToken
    <3>2. CASE validations[req[q].token] # Nil
      <4>1. stage'[q] = "wait" /\ validations' = validations
        BY <2>5, <3>2 DEF Join, Go, Shared, Typed
      <4>2. HasToken'
        BY <3>1, <3>2, <4>1 DEF Shared, HasToken
      <4>4. Flights'
        BY <3>1, <3>2, <4>1 DEF Shared, Flights, Flying, Typed
      <4>3. Followers'
        BY <3>1, <3>2, <4>1 DEF Shared, Followers, Flights, Flying, Leader, Typed
      <4> QED BY <1>1, <4>2, <4>3, <4>4 DEF Shared
    <3>3. CASE validations[req[q].token] = Nil
      <4>1. stage'[q] = "relookup" /\ validations' = [validations EXCEPT ![req[q].token] = q]
        BY <2>5, <3>3 DEF Join, Go, Shared, Typed
      <4>2. HasToken' /\ Flights'
        BY <3>1, <3>3, <4>1 DEF Shared, HasToken, Flights, Flying, Typed
      <4>3. \A p \in Tabs : stage[p] = "wait" => req[p].token # req[q].token
        BY <3>1, <3>3, NilAssumption DEF Shared, Followers, Leader
      <4>4. Followers'
        BY <3>1, <4>1, <4>3 DEF Shared, Followers, Leader, Typed
      <4> QED BY <1>1, <4>2, <4>4 DEF Shared
    <3> QED BY <3>2, <3>3
  <2>6. CASE Answer(q) \/ Store(q)
    BY <2>1, <2>3, <2>4, <2>6
  <2> QED BY <1>2, <2>1, <2>2, <2>5, <2>6 DEF Step
<1>3. CASE Environment
  <2>1. CASE Restart
    <3>1. /\ \A p \in Tabs : stage'[p] = "idle"
          /\ \A t \in Tokens : validations'[t] = Nil
      BY <2>1 DEF Restart
    <3> QED BY <1>1, <3>1 DEF Shared, Followers, Flights, HasToken
  <2>2. CASE ~Restart
    <3>1. UNCHANGED <<stage, req, validations>>
      BY <1>3, <2>2 DEF Environment, Forget, Login, Logout, managerVars
    <3> QED BY <1>1, <3>1 DEF Shared, Followers, Flights, HasToken, Leader
  <2> QED BY <2>1, <2>2
<1> QED BY <1>2, <1>3 DEF Next


-----------------------------------------------------------------------------
(* What a step of one request does to the tokens and the entries *)

LEMMA Fields ==
    ASSUME NEW r \in Local, NEW x
    PROVE  /\ [r EXCEPT !.token = x].set = r.set /\ [r EXCEPT !.token = x].new = r.new
           /\ [r EXCEPT !.token = x].token = x
           /\ [r EXCEPT !.csrf = x].token = r.token /\ [r EXCEPT !.csrf = x].set = r.set
           /\ [r EXCEPT !.csrf = x].new = r.new /\ [r EXCEPT !.csrf = x].csrf = x
           /\ [r EXCEPT !.handler = x].token = r.token /\ [r EXCEPT !.handler = x].set = r.set
           /\ [r EXCEPT !.handler = x].new = r.new
           /\ [r EXCEPT !.new = x].token = r.token /\ [r EXCEPT !.new = x].set = r.set
           /\ [r EXCEPT !.new = x].new = x
           /\ WithCookie(r, x).token = x /\ WithCookie(r, x).set = x
           /\ WithCookie(r, x).new = r.new
           /\ Handled(r).token = Nil /\ Handled(r).set = r.set /\ Handled(r).new = Nil
           /\ NoRequest.token = Nil /\ NoRequest.set = Nil /\ NoRequest.new = Nil
BY DEF Local, WithCookie, Handled, NoRequest

\* Another request is left alone, but for a token set under its eyes.
Same(p) ==
    /\ stage'[p] = stage[p]
    /\ req'[p].token = req[p].token /\ req'[p].set = req[p].set /\ req'[p].new = req[p].new
    /\ stage[p] # "reread" => req'[p].csrf = req[p].csrf

\* The steps that end a validation, and what they return.
EndsWith(q, result) ==
    /\ Finish(q, result)
    /\ \/ ResolveRoles(q) /\ result # "none"
       \/ Answer(q) /\ result = "error"
       \/ Drop(q) /\ result = "none"
       \/ (Store(q) \/ DropOld(q)) /\ result = "user"

Ends(q) == \E result \in {"user", "none", "error"} : EndsWith(q, result)

LEMMA NotEnding ==
    ASSUME NEW q \in Tabs, ~Ends(q)
    PROVE  /\ ~ResolveRoles(q) /\ ~Drop(q) /\ ~DropOld(q)
           /\ Answer(q) => ~Finish(q, "error")
           /\ Store(q) => ~Finish(q, "user")
BY DEF Ends, EndsWith, ResolveRoles, Drop, DropOld

LEMMA OthersStay ==
    ASSUME Typed, HasToken, Readers, NEW q \in Tabs, Send(q) \/ Step(q), NEW p \in Tabs \ {q}
    PROVE  Same(p) \/ (Ends(q) /\ p \in Sharing(q))
<1>1. CASE Ends(q)
  BY <1>1, FinishEffect DEF Ends, EndsWith, Same
<1>2. CASE ~Ends(q)
  <2>1. \A r \in Local, c \in CsrfTokens :
           /\ [r EXCEPT !.csrf = c].token = r.token /\ [r EXCEPT !.csrf = c].set = r.set
           /\ [r EXCEPT !.csrf = c].new = r.new
    BY DEF Local
  <2>2. ~SetCsrf(q) => req'[p] = req[p] /\ stage'[p] = stage[p]
    <3>1. /\ ~ResolveRoles(q) /\ ~Drop(q) /\ ~DropOld(q)
          /\ Answer(q) => ~Finish(q, "error")
          /\ Store(q) => ~Finish(q, "user")
      BY <1>2, NotEnding
    <3>2. CASE Send(q) \/ CreateSession(q) \/ Known(q) \/ Lookup(q) \/ Relookup(q) \/ Join(q)
      BY <3>2 DEF Send, CreateSession, Known, Lookup, Relookup, Join, LookedUp, Go, Typed
    <3>3. CASE Answer(q)
      BY <3>1, <3>3 DEF Answer, Go, Typed
    <3>4. CASE CopyCsrf(q) \/ Store(q) \/ StoreNew(q) \/ BecomeAnonymous(q)
      BY <3>1, <3>4 DEF CopyCsrf, Store, StoreNew, BecomeAnonymous, Go, Typed
    <3>5. ASSUME NEW h \in Handlers, Dispatch(q, h) PROVE req'[p] = req[p] /\ stage'[p] = stage[p]
      BY <3>5 DEF Dispatch, Go, Typed
    <3>6. CASE GetCsrf(q) \/ Reread(q) \/ CheckCsrf(q) \/ CreationFails(q) \/ Reply(q)
      BY <3>6 DEF GetCsrf, Reread, CheckCsrf, CreationFails, Reply, Answered, Go, Typed
    <3> QED BY <3>1, <3>2, <3>3, <3>4, <3>5, <3>6 DEF Step
  <2>3. CASE SetCsrf(q)
    <3>1. stage'[p] = stage[p]
      BY <2>3 DEF SetCsrf, Go, Typed
    <3>2. CASE req' = [req EXCEPT ![q] = Handled(@)]
      BY <3>1, <3>2 DEF Same
    <3>3. ASSUME identityCache[req[q].token] # Nil, NEW c \in UnusedCsrf,
                 req' = [r \in Tabs |->
                     IF r = q THEN Handled(req[r])
                     ELSE IF r \in identityCache[req[q].token].readers
                          THEN [req[r] EXCEPT !.csrf = c] ELSE req[r]]
          PROVE  Same(p)
      <4>1. CASE p \notin identityCache[req[q].token].readers
        BY <3>1, <3>3, <4>1 DEF Same
      <4>2. CASE p \in identityCache[req[q].token].readers
        <5>1. req[q].token \in Tokens /\ stage[p] = "reread"
          BY <2>3, <3>3, <4>2 DEF SetCsrf, Readers, HasToken
        <5>2. req'[p] = [req[p] EXCEPT !.csrf = c] /\ c \in CsrfTokens /\ req[p] \in Local
          BY <3>3, <4>2 DEF UnusedCsrf, Typed
        <5> QED BY <2>1, <3>1, <5>1, <5>2 DEF Same
      <4> QED BY <4>1, <4>2
    <3> QED BY <2>3, <3>2, <3>3 DEF SetCsrf
  <2> QED BY <2>2, <2>3 DEF Same
<1> QED BY <1>1, <1>2

\* Where a request's token, its Set-Cookie and its rotated token come from.
LEMMA OwnTokens ==
    ASSUME Typed, NEW q \in Tabs, Send(q) \/ Step(q)
    PROVE  /\ \/ req'[q].token \in {req[q].token, jar, Nil} \cup UnusedTokens
              \/ req'[q].token = req[q].new /\ req'[q].new = Nil
           /\ \/ req'[q].set \in {req[q].set, Nil} \cup UnusedTokens
              \/ req'[q].set = req[q].new /\ req'[q].new = Nil
           /\ \/ req'[q].new \in {req[q].new, Nil}
              \/ /\ stage[q] = "call" /\ stage'[q] = "copy" /\ req'[q].new \in UnusedTokens
                 /\ identityCache' = identityCache /\ jar' = jar
                 /\ req'[q].token = req[q].token /\ req'[q].set = req[q].set
<1> DEFINE Goal == /\ \/ req'[q].token \in {req[q].token, jar, Nil} \cup UnusedTokens
                      \/ req'[q].token = req[q].new /\ req'[q].new = Nil
                   /\ \/ req'[q].set \in {req[q].set, Nil} \cup UnusedTokens
                      \/ req'[q].set = req[q].new /\ req'[q].new = Nil
                   /\ req'[q].new \in {req[q].new, Nil}
<1>1. req[q] \in Local /\ \A n \in UnusedTokens : n \in Tokens /\ n # Nil
  BY NilAssumption DEF Typed, UnusedTokens
<1>2. CASE Ends(q)
  <2>1. q \in Sharing(q)
    BY DEF Sharing
  <2> QED BY <1>2, <2>1, FinishEffect DEF Ends, EndsWith
<1>3. ASSUME Send(q) PROVE Goal
  BY <1>1, <1>3, Fields DEF Send, Typed
<1>4. ASSUME CreateSession(q) \/ BecomeAnonymous(q) PROVE Goal
  <2>1. PICK n \in UnusedTokens : req' = [req EXCEPT ![q] = WithCookie(@, n)]
    BY <1>1, <1>4 DEF CreateSession, BecomeAnonymous, Rotated
  <2>2. req'[q] = WithCookie(req[q], n)
    BY <2>1 DEF Typed
  <2> QED BY <1>1, <2>2, Fields
<1>5. ASSUME Known(q) \/ Lookup(q) \/ Join(q) \/ Relookup(q) \/ StoreNew(q) PROVE Goal
  BY <1>5 DEF Known, Lookup, Join, Relookup, StoreNew
<1>6. CASE Answer(q) /\ ~Ends(q)
  <2>1. /\ identityCache' = identityCache /\ jar' = jar /\ stage[q] = "call"
        /\ req' = req \/ (\E n \in UnusedTokens : req' = [req EXCEPT ![q].new = n] /\ stage'[q] = "copy")
    BY <1>6, NotEnding DEF Answer, Go, Typed
  <2>2. CASE req' = req
    BY <2>2
  <2>3. ASSUME NEW n \in UnusedTokens, req' = [req EXCEPT ![q].new = n], stage'[q] = "copy"
        PROVE  /\ req'[q].new = n /\ req'[q].token = req[q].token /\ req'[q].set = req[q].set
    <3>1. req'[q] = [req[q] EXCEPT !.new = n]
      BY <2>3 DEF Typed
    <3> QED BY <1>1, <3>1, Fields
  <2> QED BY <2>1, <2>2, <2>3
<1>7. ASSUME CopyCsrf(q) PROVE Goal
  <2>1. req'[q] = [req[q] EXCEPT !.csrf = Held(req[q].token)]
    BY <1>7 DEF CopyCsrf, Typed
  <2> QED BY <1>1, <2>1, Fields
<1>8. ASSUME Store(q), ~Ends(q) PROVE Goal
  BY <1>8, NotEnding DEF Store
<1>9. ASSUME NEW h \in Handlers, Dispatch(q, h) PROVE Goal
  <2>1. req'[q] = [req[q] EXCEPT !.handler = h]
    BY <1>9 DEF Dispatch, Typed
  <2> QED BY <1>1, <2>1, Fields
<1>10. ASSUME req'[q] = Handled(req[q]) PROVE Goal
  BY <1>1, <1>10, Fields
<1>11. ASSUME GetCsrf(q) \/ CheckCsrf(q) \/ CreationFails(q) PROVE Goal
  BY <1>10, <1>11 DEF GetCsrf, CheckCsrf, CreationFails, Answered, Typed
<1>12. ASSUME Reread(q) PROVE Goal
  <2>1. req'[q] = Handled(req[q]) \/ req'[q] = [req[q] EXCEPT !.csrf = Nil]
    BY <1>12 DEF Reread, Answered, Typed
  <2>2. CASE req'[q] = [req[q] EXCEPT !.csrf = Nil]
    BY <1>1, <2>2, Fields
  <2> QED BY <1>10, <2>1, <2>2
<1>13. ASSUME SetCsrf(q) PROVE Goal
  <2>1. req'[q] = Handled(req[q])
    BY <1>13 DEF SetCsrf, Typed
  <2> QED BY <1>10, <2>1
<1>14. ASSUME Reply(q) PROVE Goal
  <2>1. req'[q] = NoRequest
    BY <1>14 DEF Reply, Typed
  <2> QED BY <1>1, <2>1, Fields
<1>15. ~Ends(q) => ~ResolveRoles(q) /\ ~Drop(q) /\ ~DropOld(q)
  BY NotEnding
<1>16. Goal => /\ \/ req'[q].token \in {req[q].token, jar, Nil} \cup UnusedTokens
                  \/ req'[q].token = req[q].new /\ req'[q].new = Nil
               /\ \/ req'[q].set \in {req[q].set, Nil} \cup UnusedTokens
                  \/ req'[q].set = req[q].new /\ req'[q].new = Nil
               /\ req'[q].new \in {req[q].new, Nil}
  OBVIOUS
<1> HIDE DEF Goal
<1> QED
  BY <1>2, <1>3, <1>4, <1>5, <1>6, <1>7, <1>8, <1>9, <1>11, <1>12, <1>13, <1>14, <1>15,
     <1>16 DEF Step

\* Which entries it changes, and which tokens the browser and auth_app have after it.
LEMMA Effects ==
    ASSUME Typed, NEW q \in Tabs, Send(q) \/ Step(q)
    PROVE  /\ jar' \in {jar, req[q].set}
           /\ valid' \subseteq valid \cup UnusedTokens
           /\ \A t \in Tokens :
                 \/ identityCache'[t] = identityCache[t]
                 \/ t = req[q].token /\ stage[q] \notin {"storeNew", "reread"}
                 \/ /\ t = req[q].new /\ stage[q] = "storeNew" /\ stage'[q] = "dropOld"
                    /\ identityCache'[t] = NewEntry(q) /\ req' = req
                 \/ t \in UnusedTokens /\ identityCache'[t] = Anonymous
                 \/ /\ stage[q] = "reread" /\ identityCache[t] # Nil
                    /\ identityCache'[t] = [identityCache[t] EXCEPT !.readers = @ \ {q}]
<1> USE DEF managerVars
<1>1. CASE Send(q) \/ Known(q) \/ Lookup(q) \/ Join(q) \/ Relookup(q) \/ ResolveRoles(q)
           \/ CopyCsrf(q) \/ CheckCsrf(q) \/ CreationFails(q) \/ Reply(q) \/ \E h \in Handlers : Dispatch(q, h)
  BY <1>1 DEF Send, Known, Lookup, Join, Relookup, ResolveRoles, CopyCsrf, CheckCsrf, CreationFails, Reply,
     Dispatch
<1>2. CASE Answer(q)
  BY <1>2 DEF Answer
<1>3. CASE CreateSession(q) \/ BecomeAnonymous(q)
  BY <1>3 DEF CreateSession, BecomeAnonymous, SetIdentity, Typed
<1>4. CASE Drop(q) \/ DropOld(q) \/ Store(q)
  BY <1>4 DEF Drop, DropOld, Store, RemoveIdentity, SetIdentity, Typed
<1>5. CASE StoreNew(q)
  BY <1>5 DEF StoreNew, SetIdentity, Go, Typed
<1>6. CASE GetCsrf(q)
  BY <1>6 DEF GetCsrf, Typed
<1>7. CASE SetCsrf(q)
  BY <1>7 DEF SetCsrf, Typed
<1>8. CASE Reread(q)
  BY <1>8 DEF Reread
<1> QED BY <1>1, <1>2, <1>3, <1>4, <1>5, <1>6, <1>7, <1>8 DEF Step

-----------------------------------------------------------------------------
(* The session of a request, and what is taken from it *)

\* What a flight's end means for a request that shared it.
LEMMA SharedEnd ==
    ASSUME Typed, NEW q \in Tabs, Ends(q), NEW p \in Sharing(q)
    PROVE  /\ p \in Tabs /\ req[p].token = req[q].token
           /\ stage[q] # "wait" => Leader(p) = q
           /\ req'[p].new = Nil /\ stage'[p] \in {"handler", "check", "reply", "anonymous"}
BY FinishEffect DEF Ends, EndsWith, Sharing, Leader

\* Who waits after a step waited for the same request before, or has just joined.
LEMMA Waiting ==
    ASSUME Shared, Readers, Next, NEW p \in Tabs, stage'[p] = "wait"
    PROVE  \/ /\ stage[p] = "wait" /\ Leader(p)' = Leader(p)
              /\ req'[p].token = req[p].token /\ req'[p].new = req[p].new
           \/ /\ stage[p] = "join" /\ UNCHANGED <<identityCache, validations, req>>
              /\ \A q \in Tabs \ {p} : stage'[q] = stage[q]
<1> USE DEF Shared
<1>1. ASSUME NEW q \in Tabs, Send(q) \/ Step(q), stage[p] = "wait", p # q
      PROVE  validations'[req[p].token] = validations[req[p].token]
  <2>1. p \notin Sharing(q) \/ ~Ends(q)
    BY <1>1, SharedEnd
  <2>2. req[p].token \in Tokens /\ validations[req[p].token] # Nil
    BY <1>1, NilAssumption DEF HasToken, Followers, Leader
  <2>3. CASE Ends(q)
    <3>1. validations[req[p].token] # q
      BY <1>1, <2>1, <2>2, <2>3 DEF Flights, Sharing
    <3> QED BY <2>2, <2>3, <3>1, FinishEffect DEF Ends, EndsWith
  <2>4. CASE ~Ends(q)
    <3>1. CASE Join(q)
      BY <2>2, <3>1 DEF Join, Typed
    <3>2. CASE ~Join(q)
      <4>1. /\ ~ResolveRoles(q) /\ ~Drop(q) /\ ~DropOld(q)
            /\ Answer(q) => ~Finish(q, "error")
            /\ Store(q) => ~Finish(q, "user")
        BY <2>4, NotEnding
      <4>2. Answer(q) \/ Store(q) => validations' = validations
        BY <4>1 DEF Answer, Store
      <4>3. \/ Send(q) \/ CreateSession(q) \/ Known(q) \/ Lookup(q) \/ Relookup(q)
            \/ CopyCsrf(q) \/ StoreNew(q) \/ BecomeAnonymous(q) \/ (\E h \in Handlers : Dispatch(q, h))
            \/ GetCsrf(q) \/ Reread(q) \/ SetCsrf(q) \/ CheckCsrf(q) \/ CreationFails(q) \/ Reply(q)
            => validations' = validations
        BY DEF Send, CreateSession, Known, Lookup, Relookup, CopyCsrf, StoreNew, BecomeAnonymous,
               Dispatch, GetCsrf, Reread, SetCsrf, CheckCsrf, CreationFails, Reply, managerVars
      <4> QED BY <1>1, <3>2, <4>1, <4>2, <4>3 DEF Step
    <3> QED BY <3>1, <3>2
  <2> QED BY <2>3, <2>4
<1>2. ASSUME NEW q \in Tabs, Send(q) \/ Step(q), p # q
      PROVE  /\ stage[p] = "wait" /\ Leader(p)' = Leader(p)
             /\ req'[p].token = req[p].token /\ req'[p].new = req[p].new
  <2>1. Same(p)
    BY <1>2, OthersStay, SharedEnd
  <2> QED BY <1>1, <1>2, <2>1 DEF Same, Leader
<1>3. ASSUME Send(p) \/ Step(p)
      PROVE  /\ stage[p] = "join" /\ UNCHANGED <<identityCache, validations, req>>
             /\ \A q \in Tabs \ {p} : stage'[q] = stage[q]
  <2>1. stage[p] # "wait"
    BY <1>3 DEF Send, Step, CreateSession, Known, Lookup, Join, Relookup, ResolveRoles, Answer,
       Drop,
                CopyCsrf, Store, StoreNew, DropOld, BecomeAnonymous, GetCsrf, Reread, SetCsrf,
                CheckCsrf, CreationFails, Reply, Dispatch
  <2>2. ~Ends(p)
    BY SharedEnd DEF Sharing
  <2>3. /\ ~ResolveRoles(p) /\ ~Drop(p) /\ ~DropOld(p)
        /\ (~Answer(p) \/ ~Finish(p, "error")) /\ (~Store(p) \/ ~Finish(p, "user"))
    BY <2>2, NotEnding
  <2>4. Join(p)
    <3>1. Typed'
      BY TypedStep
    <3> QED BY <1>3, <2>3, <3>1, LocalSteps DEF Step, LocalStep
  <2> QED BY <2>4 DEF Join, Go, Typed
<1>4. CASE Environment
  <2>1. ~Restart
    BY DEF Restart
  <2> QED BY <1>4, <2>1 DEF Environment, Forget, Login, Logout, Leader, managerVars
<1> QED BY <1>2, <1>3, <1>4 DEF Next

LEMMA SharedLossStep == ASSUME Shared, Shared', Readers, NewTokens, Next PROVE SharedLoss'
<1> SUFFICES ASSUME NEW q \in Tabs, stage'[q] = "wait", Leader(q)' \in gone' PROVE q \in gone'
  BY DEF SharedLoss
<1>0. PICK l \in Tabs : l = Leader(q)'
  BY DEF Shared, Followers
<1>1. l \in Tabs \ {q} /\ req'[l].token = req'[q].token /\ req'[q].token \in Tokens
  BY <1>0 DEF Shared, Followers, HasToken
<1>2. stage'[l] \in Flying /\ Leader(l)' = l
  BY <1>0, <1>1, NilAssumption DEF Shared, Flights, Leader, Flying
<1>3. Session(q)' = Session(l)'
  BY <1>0, <1>1, <1>2 DEF Session
<1>4. CASE l \in gone /\ Session(l) = Session(l)'
  BY <1>0, <1>3, <1>4 DEF Next, Watch
<1>5. CASE Has(Session(l)) /\ ~Has(Session(l))'
  <2>1. CASE stage[q] = "join" /\ UNCHANGED <<identityCache, validations, req>>
             /\ \A p \in Tabs \ {q} : stage'[p] = stage[p]
    <3>1. Session(l)' = Session(l)
      BY <1>1, <2>1 DEF Session, Leader
    <3>2. Has(Session(l))' = Has(Session(l))
      BY <2>1, <3>1 DEF Has
    <3> QED BY <1>5, <3>2
  <2>2. CASE /\ stage[q] = "wait" /\ Leader(q)' = Leader(q)
             /\ req'[q].token = req[q].token /\ req'[q].new = req[q].new
    <3>1. l = Leader(q) /\ req[q].token \in Tokens
      BY <1>0, <2>2 DEF Shared, HasToken
    <3>2. req[l].token = req[q].token /\ Leader(l) = l
      BY <1>1, <2>2, <3>1, NilAssumption DEF Shared, Followers, Flights, Leader, Flying
    <3>3. Session(q) = Session(l)
      BY <2>2, <3>1, <3>2 DEF Session
    <3> QED BY <1>3, <1>5, <3>3 DEF Next, Watch, Has
  <2> QED BY <2>1, <2>2, Waiting
<1> QED
  BY <1>0, <1>1, <1>2, <1>4, <1>5 DEF Next, Watch

\* A request that goes on with the session it had, and is not struck, still has it.
LEMMA Kept ==
    ASSUME Typed, Next, NEW q \in Tabs \ gone', stage'[q] # "idle", Leader(q)' = q,
           Session(q)' = Session(q)
    PROVE  q \notin gone /\ (Has(Session(q)) => Has(Session(q))')
BY DEF Next, Watch

At == {"handler", "get", "reread", "set", "check", "roles"}

LEMMA PresentStep ==
    ASSUME IInv, Shared', Next
    PROVE  Present'
<1> USE DEF IInv
<1>0. Typed /\ Followers /\ Shared
  BY DEF TypeOK, Typed, Followers, Shared
<1>1. \A q \in Tabs : stage[q] \in At => req[q].new = Nil /\ Session(q) = req[q].token
  BY DEF At, NewTokens, Session, Leader
<1>2. \A q \in Tabs : stage[q] = "dropOld" => Session(q) = req[q].new
  BY DEF NewTokens, Session, Leader
<1>3. ASSUME NEW p \in Tabs \ gone', Same(p)
      PROVE  /\ stage'[p] \in At => Has(req[p].token)'
             /\ stage'[p] = "dropOld" => Has(req[p].new)'
  <2>1. CASE stage[p] \in At
    <3>1. Leader(p)' = p /\ stage'[p] # "idle" /\ Session(p)' = req'[p].token /\ Session(p) = req[p].token
      BY <1>1, <1>3, <2>1 DEF Same, At, Leader, Session
    <3>2. Session(p)' = Session(p)
      BY <1>3, <3>1 DEF Same
    <3>3. p \notin gone /\ (Has(Session(p)) => Has(Session(p))')
      BY <1>0, <3>1, <3>2, Kept
    <3>4. Has(Session(p))
      BY <2>1, <3>1, <3>3 DEF Present, At
    <3>5. Has(Session(p))'
      BY <3>3, <3>4
    <3> QED BY <1>3, <2>1, <3>1, <3>5 DEF Same, At, Has
  <2>2. CASE stage[p] = "dropOld"
    <3>1. Leader(p)' = p /\ stage'[p] # "idle" /\ Session(p)' = req'[p].new /\ Session(p) = req[p].new
      BY <1>2, <1>3, <2>2 DEF Same, Leader, Session, NewTokens
    <3>2. Session(p)' = Session(p)
      BY <1>3, <3>1 DEF Same
    <3>3. p \notin gone /\ (Has(Session(p)) => Has(Session(p))')
      BY <1>0, <3>1, <3>2, Kept
    <3>4. Has(Session(p))
      BY <2>2, <3>1, <3>3 DEF Present
    <3>5. Has(Session(p))'
      BY <3>3, <3>4
    <3> QED BY <1>3, <2>2, <3>1, <3>5 DEF Same, At, Has
  <2> QED BY <1>3, <2>1, <2>2 DEF Same
<1>4. ASSUME NEW q \in Tabs, EndsWith(q, "user"),
             NEW p \in Sharing(q), p \notin gone', stage'[p] \in {"handler", "check"}
      PROVE  Has(req[p].token)'
  <2>0. stage[q] # "wait" /\ Finish(q, "user") /\ (ResolveRoles(q) \/ Store(q) \/ DropOld(q))
    BY <1>4 DEF EndsWith, ResolveRoles, Store, DropOld
  <2>1. /\ p \in Tabs /\ req[p].token = req[q].token /\ req'[p].new = Nil /\ Leader(p) = q
        /\ Leader(p)' = p /\ stage'[p] # "idle"
        /\ req'[p].token = IF req[q].new = Nil THEN req[q].token ELSE req[q].new
    BY <1>0, <1>4, <2>0, SharedEnd, FinishEffect DEF Ends, Leader
  <2>2. Session(p)' = Session(p) /\ Session(p)' = req'[p].token /\ Session(q) = Session(p)
    BY <2>0, <2>1 DEF Session, Leader
  <2>3. p \notin gone /\ (Has(Session(p)) => Has(Session(p))')
    BY <1>0, <1>4, <2>1, <2>2, Kept
  <2>4. q \notin gone
    BY <2>1, <2>3 DEF SharedLoss, Leader
  <2>5. CASE ResolveRoles(q)
    <3>1. Has(Session(p))
      BY <1>1, <2>2, <2>4, <2>5 DEF ResolveRoles, Present, At
    <3>2. Has(Session(p))'
      BY <2>3, <3>1
    <3> QED BY <2>2, <3>2 DEF Has
  <2>6. CASE DropOld(q)
    <3>1. Has(Session(p))
      BY <1>2, <2>2, <2>4, <2>6 DEF DropOld, Present
    <3>2. Has(Session(p))'
      BY <2>3, <3>1
    <3> QED BY <2>2, <3>2 DEF Has
  <2>7. CASE Store(q)
    <3>1. req[q].new = Nil
      BY <1>0, <1>4, <2>0, <2>1, <2>7 DEF Store, Go, Typed, Sharing
    <3>2. req[q].token \in Tokens /\ SetIdentity(req[q].token, NewEntry(q)) /\ NewEntry(q) # Nil
      BY <1>0, <2>7, EntryTypes DEF Store, HasToken
    <3> QED BY <1>0, <2>1, <3>1, <3>2, NilAssumption DEF SetIdentity, Typed, Has
  <2> QED BY <2>0, <2>5, <2>6, <2>7
<1>5. ASSUME NEW q \in Tabs, Ends(q), NEW p \in Sharing(q), p \notin gone'
      PROVE  /\ stage'[p] \in At => Has(req[p].token)'
             /\ stage'[p] # "dropOld"
  <2>1. PICK result \in {"user", "none", "error"} : EndsWith(q, result)
    BY <1>5 DEF Ends
  <2>2. stage'[p] \in {"handler", "check", "reply", "anonymous"}
    BY <1>0, <1>5, SharedEnd
  <2>3. stage'[p] \in {"handler", "check"} => result = "user"
    BY <1>0, <1>5, <2>1, FinishEffect DEF EndsWith
  <2> QED BY <1>4, <1>5, <2>1, <2>2, <2>3 DEF At
<1>6. ASSUME NEW q \in Tabs \ gone', Send(q) \/ Step(q), ~Ends(q)
      PROVE  /\ stage'[q] \in At => Has(req[q].token)'
             /\ stage'[q] = "dropOld" => Has(req[q].new)'
  <2>1. CASE Send(q) \/ CreateSession(q) \/ Answer(q) \/ CopyCsrf(q) \/ Join(q) \/ Store(q)
    BY <1>0, <1>6, <2>1, NotEnding
       DEF Send, CreateSession, Answer, CopyCsrf, Join, Store, Go, At, Typed
  <2>2. CASE SetCsrf(q) \/ CheckCsrf(q) \/ CreationFails(q) \/ Reply(q)
    BY <1>0, <2>2 DEF SetCsrf, CheckCsrf, CreationFails, Reply, Answered, Go, At, Typed
  <2>3. CASE Known(q) \/ Lookup(q) \/ Relookup(q)
    BY <1>0, <2>3 DEF Known, Lookup, Relookup, LookedUp, Go, At, Has, managerVars, Typed
  <2>4. CASE StoreNew(q)
    <3>1. req[q].new \in Tokens /\ NewEntry(q) # Nil /\ stage'[q] = "dropOld" /\ req' = req
      BY <1>0, <2>4, EntryTypes DEF StoreNew, NewTokens, Typed, Local, Go
    <3> QED BY <1>0, <2>4, <3>1, NilAssumption DEF StoreNew, SetIdentity, Has, At, Typed
  <2>5. CASE BecomeAnonymous(q)
    <3>1. PICK n \in UnusedTokens : SetIdentity(n, Anonymous) /\ req' = [req EXCEPT ![q] = Rotated(@, n)]
      BY <2>5 DEF BecomeAnonymous
    <3>2. n \in Tokens /\ n # Nil /\ Anonymous # Nil
      BY <1>0, NilAssumption, EntryTypes DEF UnusedTokens
    <3>3. req'[q].token = n /\ identityCache'[n] = Anonymous
      BY <1>0, <3>1, <3>2, RotatedType DEF SetIdentity, Typed
    <3> QED BY <1>0, <2>5, <3>2, <3>3 DEF BecomeAnonymous, Go, At, Has, Typed
  <2>6. CASE stage[q] \in At /\ stage'[q] \in At \cup {"call", "lookup"}
             /\ req'[q].token = req[q].token /\ req'[q].new = Nil
    <3>1. Session(q)' = Session(q) /\ Leader(q)' = q /\ stage'[q] # "idle" /\ Session(q)' = req'[q].token
      BY <1>1, <2>6 DEF Session, Leader, At
    <3>2. q \notin gone /\ (Has(Session(q)) => Has(Session(q))')
      BY <1>0, <3>1, Kept
    <3>3. Has(Session(q))
      BY <1>1, <2>6, <3>2 DEF Present, At
    <3> QED BY <2>6, <3>1, <3>2, <3>3 DEF At, Has
  <2>7. ASSUME NEW h \in Handlers, Dispatch(q, h)
        PROVE  stage[q] \in At /\ stage'[q] \in At \cup {"call", "lookup"}
               /\ req'[q].token = req[q].token /\ req'[q].new = Nil
    <3>1. stage[q] \in At /\ stage'[q] \in At \cup {"call", "lookup"}
      BY <1>0, <2>7 DEF Dispatch, Go, At, Handlers, Typed
    <3>2. req'[q] = [req[q] EXCEPT !.handler = h] /\ req[q] \in Local
      BY <1>0, <2>7 DEF Dispatch, Typed
    <3> QED BY <1>1, <3>1, <3>2, Fields
  <2>8. CASE GetCsrf(q) \/ Reread(q)
    <3>1. CASE Answered(q)
      BY <1>0, <2>8, <3>1 DEF GetCsrf, Reread, Answered, Go, At, Typed
    <3>2. CASE ~Answered(q)
      <4>1. /\ stage[q] \in At /\ stage'[q] \in At
            /\ req'[q] = req[q] \/ req'[q] = [req[q] EXCEPT !.csrf = Nil]
        BY <1>0, <2>8, <3>2 DEF GetCsrf, Reread, Go, At, Typed
      <4>2. req[q] \in Local
        BY <1>0 DEF Typed
      <4>3. req'[q].token = req[q].token /\ req'[q].new = req[q].new
        <5>1. CASE req'[q] = [req[q] EXCEPT !.csrf = Nil]
          BY <4>2, <5>1, Fields
        <5> QED BY <4>1, <5>1
      <4> QED BY <1>1, <2>6, <4>1, <4>3
    <3> QED BY <3>1, <3>2
  <2> QED BY <1>6, <2>1, <2>2, <2>3, <2>4, <2>5, <2>6, <2>7, <2>8, NotEnding DEF Step
<1>7. CASE Environment
  <2>1. Restart => Present'
    BY DEF Restart, Present
  <2>2. ~Restart => \A p \in Tabs : Same(p)
    BY <1>7 DEF Environment, Forget, Login, Logout, Same
  <2> QED BY <1>3, <2>1, <2>2 DEF Present, At
<1>8. ASSUME NEW q \in Tabs, Send(q) \/ Step(q) PROVE Present'
  <2>1. ASSUME NEW p \in Tabs \ gone'
        PROVE  /\ stage'[p] \in At => Has(req[p].token)'
               /\ stage'[p] = "dropOld" => Has(req[p].new)'
    <3>1. q \in Sharing(q)
      BY DEF Sharing
    <3>2. CASE p = q
      BY <1>5, <1>6, <1>8, <2>1, <3>1, <3>2
    <3>3. CASE p # q
      BY <1>0, <1>3, <1>5, <1>8, <2>1, <3>3, OthersStay
    <3> QED BY <3>2, <3>3
  <2> QED BY <2>1 DEF Present, At
<1> QED BY <1>7, <1>8 DEF Next

-----------------------------------------------------------------------------
(* Cookies given up, rotated tokens, and unlocked readers *)

LEMMA ReadersStep == ASSUME Shared, Readers, Typed', Next PROVE Readers'
<1> SUFFICES ASSUME NEW t \in Tokens, identityCache'[t] # Nil, NEW p \in identityCache'[t].readers
             PROVE  stage'[p] = "reread"
  BY DEF Readers
<1> USE DEF Shared
<1>0. p \in Tabs
  BY DEF Typed, Entry
<1>1. Anonymous.readers = {} /\ \A q \in Tabs : NewEntry(q).readers = {}
  BY DEF Anonymous, NewEntry
<1>2. ASSUME NEW q \in Tabs, Send(q) \/ Step(q),
             identityCache[t] # Nil, p \in identityCache[t].readers, ~Reread(q)
      PROVE  stage'[p] = "reread"
  <2>1. stage[p] = "reread"
    BY <1>2 DEF Readers
  <2>2. p # q
    BY <1>2, <2>1 DEF Send, Step, CreateSession, Known, Lookup, Join, Relookup, ResolveRoles,
       Answer,
        Drop, CopyCsrf, Store, StoreNew, DropOld, BecomeAnonymous, GetCsrf, SetCsrf,
        CheckCsrf, CreationFails, Reply, Dispatch
  <2>3. ~(Ends(q) /\ p \in Sharing(q))
    BY <2>1, <2>2 DEF Sharing
  <2> QED BY <1>0, <1>2, <2>1, <2>2, <2>3, OthersStay DEF Same
<1>3. ASSUME NEW q \in Tabs, Send(q) \/ Step(q), ~Reread(q),
             ~(identityCache[t] # Nil /\ p \in identityCache[t].readers)
      PROVE  stage'[p] = "reread"
  <2>1. CASE GetCsrf(q)
    <3>1. identityCache' = [identityCache EXCEPT ![req[q].token].readers = @ \cup {q}]
          /\ Go(q, "reread") /\ req[q].token \in Tokens /\ Has(req[q].token)
      BY <1>3, <2>1 DEF GetCsrf, HasToken
    <3>2. identityCache[req[q].token] \in Entry
      BY <3>1, EntryTypes DEF Has
    <3>3. t = req[q].token /\ p \in identityCache[t].readers \cup {q}
      BY <1>3, <3>1, <3>2 DEF Typed, Entry
    <3> QED BY <1>3, <3>1, <3>2, <3>3 DEF Go, Typed, Has
  <2>2. CASE SetCsrf(q)
    <3>1. PICK c \in CsrfTokens : identityCache' = [identityCache EXCEPT ![req[q].token].csrf = c]
      BY <1>3, <2>2 DEF SetCsrf, UnusedCsrf
    <3>2. t = req[q].token /\ identityCache[t] # Nil
      BY <1>3, <2>2, <3>1 DEF SetCsrf, Typed
    <3>3. identityCache[t] \in Entry /\ identityCache'[t] = [identityCache[t] EXCEPT !.csrf = c]
      BY <3>1, <3>2, EntryTypes DEF Typed
    <3> QED BY <1>3, <3>2, <3>3 DEF Entry
  <2>3. CASE CreateSession(q) \/ BecomeAnonymous(q)
    BY <1>1, <1>3, <2>3 DEF CreateSession, BecomeAnonymous, SetIdentity, Typed
  <2>4. CASE Store(q) \/ StoreNew(q)
    BY <1>1, <1>3, <2>4 DEF Store, StoreNew, SetIdentity, Typed
  <2>5. CASE Drop(q) \/ DropOld(q)
    BY <1>3, <2>5 DEF Drop, DropOld, SetIdentity, RemoveIdentity, Typed
  <2>6. CASE Send(q) \/ Known(q) \/ Lookup(q) \/ Join(q) \/ Relookup(q) \/ ResolveRoles(q) \/ Answer(q)
           \/ CopyCsrf(q) \/ CheckCsrf(q) \/ CreationFails(q) \/ Reply(q) \/ \E h \in Handlers : Dispatch(q, h)
    BY <1>3, <2>6 DEF Send, Known, Lookup, Join, Relookup, ResolveRoles, Answer, CopyCsrf,
       CheckCsrf, CreationFails,
                      Reply, Dispatch, managerVars
  <2> QED BY <1>3, <2>1, <2>2, <2>3, <2>4, <2>5, <2>6 DEF Step
<1>4. ASSUME NEW q \in Tabs, Reread(q) PROVE stage'[p] = "reread"
  <2>1. identityCache[t] # Nil /\ identityCache[t] \in Entry
        /\ identityCache'[t] = [identityCache[t] EXCEPT !.readers = @ \ {q}]
    BY <1>4, EntryTypes DEF Reread
  <2>2. p \in identityCache[t].readers /\ p # q
    BY <2>1 DEF Entry
  <2> QED BY <1>0, <1>4, <2>1, <2>2 DEF Readers, Reread, Answered, Go, Typed
<1>5. CASE Environment
  <2>1. CASE Restart
    BY <2>1 DEF Restart
  <2>2. CASE ~Restart
    BY <1>5, <2>2 DEF Environment, Forget, Login, Logout, RemoveIdentity, SetIdentity, Readers,
       managerVars, Typed
  <2> QED BY <2>1, <2>2
<1> QED BY <1>2, <1>3, <1>4, <1>5 DEF Next

LEMMA DeniedStep == ASSUME Shared, Readers, Denied, Next PROVE Denied'
<1> USE DEF Shared
<1> SUFFICES ASSUME NEW p \in Tabs, stage'[p] \in {"drop", "anonymous"}
             PROVE  req'[p].token \notin valid'
  BY DEF Denied
<1>1. ASSUME NEW q \in Tabs, Send(q) \/ Step(q) PROVE req'[p].token \notin valid'
  <2>1. valid' \subseteq valid \cup UnusedTokens
    BY <1>1, Effects
  <2>2. \A t \in UnusedTokens : t # req[p].token
    BY DEF UnusedTokens
  <2>3. CASE Same(p)
    BY <2>1, <2>2, <2>3 DEF Same, Denied
  <2>4. CASE Ends(q) /\ p \in Sharing(q)
    <3>1. PICK result \in {"user", "none", "error"} : EndsWith(q, result)
      BY <2>4 DEF Ends
    <3>2. stage'[p] = "anonymous" /\ result = "none" /\ req'[p].token = req[q].token
      BY <2>4, <3>1, SharedEnd, FinishEffect DEF EndsWith
    <3>3. Drop(q)
      BY <3>1, <3>2 DEF EndsWith
    <3> QED BY <3>2, <3>3 DEF Drop, Denied
  <2>5. CASE p = q /\ ~Ends(q)
    <3>1. Answer(q)
      <4>1. /\ ~ResolveRoles(q) /\ ~Drop(q) /\ ~DropOld(q)
            /\ Store(q) => ~Finish(q, "user")
        BY <2>5, NotEnding
      <4>2. ~Send(q) /\ ~CreateSession(q) /\ ~Known(q) /\ ~Lookup(q) /\ ~Join(q) /\ ~Relookup(q)
        BY <2>5 DEF Send, CreateSession, Known, Lookup, Join, Relookup, LookedUp, Go, Typed
      <4>3. ~CopyCsrf(q) /\ ~Store(q) /\ ~StoreNew(q) /\ ~BecomeAnonymous(q)
        BY <2>5, <4>1 DEF CopyCsrf, Store, StoreNew, BecomeAnonymous, Go, Typed
      <4>4. ~GetCsrf(q) /\ ~Reread(q) /\ ~SetCsrf(q) /\ ~CheckCsrf(q) /\ ~CreationFails(q) /\ ~Reply(q)
        BY <2>5 DEF GetCsrf, Reread, SetCsrf, CheckCsrf, CreationFails, Reply, Answered, Go, Typed
      <4>5. ~\E h \in Handlers : Dispatch(q, h)
        BY <2>5 DEF Dispatch, Handlers, Go, Typed
      <4> QED BY <1>1, <4>1, <4>2, <4>3, <4>4, <4>5 DEF Step
    <3>2. req[q].token \notin valid /\ valid' = valid /\ req' = req
      BY <2>5, <3>1, NotEnding DEF Answer, Go, Typed
    <3> QED BY <2>5, <3>2
  <2>6. q \in Sharing(q)
    BY DEF Sharing
  <2> QED BY <1>1, <2>3, <2>4, <2>5, <2>6, OthersStay
<1>2. CASE Environment
  <2>1. ~Restart
    BY DEF Restart
  <2>2. req' = req /\ stage' = stage /\ valid' \subseteq valid \cup UnusedTokens
    BY <1>2, <2>1 DEF Environment, Forget, Login, Logout
  <2> QED BY <2>2 DEF Denied, UnusedTokens
<1> QED BY <1>1, <1>2 DEF Next

Rotating == {"copy", "store", "storeNew", "dropOld"}

\* How a request comes by a rotated token, and gets rid of it.
LEMMA OwnStage ==
    ASSUME Typed, NewTokens, NEW q \in Tabs, Send(q) \/ Step(q)
    PROVE  /\ stage'[q] \in {"storeNew", "dropOld"} => req'[q].new # Nil
           /\ req'[q].new # Nil => stage'[q] \in Rotating /\ stage[q] # "dropOld"
<1>0. /\ req[q] \in Local /\ \A n \in UnusedTokens : n \in Tokens /\ n # Nil
      /\ stage[q] \notin Rotating => req[q].new = Nil
  BY NilAssumption DEF Typed, UnusedTokens, NewTokens, Rotating
<1> DEFINE Goal == /\ stage'[q] \in {"storeNew", "dropOld"} => req'[q].new # Nil
                   /\ req'[q].new # Nil => stage'[q] \in Rotating /\ stage[q] # "dropOld"
<1>1. CASE Ends(q)
  <2>1. q \in Sharing(q)
    BY DEF Sharing
  <2> QED BY <1>1, <2>1, SharedEnd
<1>2. ASSUME Answer(q), ~Ends(q) PROVE Goal
  BY <1>0, <1>2, NotEnding DEF Answer, Go, Rotating, Typed
<1>3. ASSUME CopyCsrf(q) PROVE Goal
  BY <1>3 DEF CopyCsrf, Go, Rotating, Typed
<1>4. ASSUME Store(q), ~Ends(q) PROVE Goal
  BY <1>4, NotEnding DEF Store, Go, Rotating, Typed
<1>5. ASSUME StoreNew(q) PROVE Goal
  BY <1>5 DEF StoreNew, Go, Rotating, Typed, NewTokens
<1>6. ASSUME stage[q] \notin Rotating, stage'[q] \notin Rotating, req'[q].new = Nil PROVE Goal
  BY <1>6 DEF Rotating
<1>7. ASSUME CreateSession(q) \/ BecomeAnonymous(q) PROVE Goal
  <2>1. PICK n \in UnusedTokens : req' = [req EXCEPT ![q] = WithCookie(@, n)]
    BY <1>0, <1>7 DEF CreateSession, BecomeAnonymous, Rotated
  <2>2. req'[q] = WithCookie(req[q], n)
    BY <2>1 DEF Typed
  <2>3. req'[q].new = req[q].new
    BY <1>0, <2>2, Fields
  <2> QED BY <1>0, <1>6, <1>7, <2>3 DEF CreateSession, BecomeAnonymous, Go, Rotating, Typed
<1>8. ASSUME Send(q) \/ Known(q) \/ Lookup(q) \/ Join(q) \/ Relookup(q) PROVE Goal
  <2>1. /\ stage[q] \notin Rotating /\ stage'[q] \notin Rotating
        /\ req'[q] = req[q] \/ req'[q] = [req[q] EXCEPT !.token = jar]
    BY <1>8 DEF Send, Known, Lookup, Join, Relookup, LookedUp, Go, Rotating, Typed
  <2>2. CASE req'[q] = [req[q] EXCEPT !.token = jar]
    BY <1>0, <1>6, <2>1, <2>2, Fields
  <2> QED BY <1>0, <1>6, <2>1, <2>2
<1>9. ASSUME NEW h \in Handlers, Dispatch(q, h) PROVE Goal
  <2>1. /\ stage[q] \notin Rotating /\ stage'[q] \notin Rotating
        /\ req'[q] = [req[q] EXCEPT !.handler = h]
    BY <1>9 DEF Dispatch, Handlers, Go, Rotating, Typed
  <2> QED BY <1>0, <1>6, <2>1, Fields
<1>10. ASSUME GetCsrf(q) \/ Reread(q) \/ SetCsrf(q) \/ CheckCsrf(q) \/ CreationFails(q) \/ Reply(q) PROVE Goal
  <2>1. stage[q] \notin Rotating /\ stage'[q] \notin Rotating
    BY <1>10 DEF GetCsrf, Reread, SetCsrf, CheckCsrf, CreationFails, Reply, Answered, Go, Rotating, Typed
  <2>2. \/ req'[q] \in {req[q], NoRequest, Handled(req[q])}
        \/ req'[q] = [req[q] EXCEPT !.csrf = Nil]
    BY <1>10 DEF GetCsrf, Reread, SetCsrf, CheckCsrf, CreationFails, Reply, Answered, Typed
  <2>3. CASE req'[q] = [req[q] EXCEPT !.csrf = Nil]
    BY <1>0, <1>6, <2>1, <2>3, Fields
  <2>4. CASE req'[q] \in {req[q], NoRequest, Handled(req[q])}
    BY <1>0, <1>6, <2>1, <2>4, Fields
  <2> QED BY <2>2, <2>3, <2>4
<1> HIDE DEF Goal
<1>11. Goal => /\ stage'[q] \in {"storeNew", "dropOld"} => req'[q].new # Nil
               /\ req'[q].new # Nil => stage'[q] \in Rotating /\ stage[q] # "dropOld"
  BY DEF Goal
<1> QED
  BY <1>1, <1>2, <1>3, <1>4, <1>5, <1>7, <1>8, <1>9, <1>10, <1>11, NotEnding DEF Step

LEMMA NewTokensStep == ASSUME Shared, Readers, NewTokens, Next PROVE NewTokens'
<1> USE DEF Shared
<1>1. ASSUME NEW l \in Tabs, Send(l) \/ Step(l) PROVE NewTokens'
  <2> SUFFICES ASSUME NEW q \in Tabs
               PROVE  /\ stage'[q] \in {"storeNew", "dropOld"} => req'[q].new # Nil
                      /\ req'[q].new # Nil =>
                            /\ stage'[q] \in Rotating
                            /\ req'[q].new # jar'
                            /\ \A p \in Tabs : /\ req'[p].token # req'[q].new
                                               /\ req'[p].set # req'[q].new
                                               /\ p # q => req'[p].new # req'[q].new
                            /\ stage'[q] # "dropOld" => ~Has(req[q].new)'
                            /\ Has(req[q].new)' => Held(req[q].new)' = req'[q].csrf
    BY DEF NewTokens, Rotating
  <2>1. \A p \in Tabs : Same(p) \/ (Ends(l) /\ p \in Sharing(l)) \/ p = l
    BY <1>1, OthersStay
  <2>2. l \in Sharing(l) /\ \A p \in Sharing(l) : p \in Tabs
    BY DEF Sharing
  <2>3. Ends(l) => \A p \in Sharing(l) :
           /\ req'[p].new = Nil /\ stage'[p] \in {"handler", "check", "reply", "anonymous"}
           /\ req'[p].token \in {req[p].token, req[l].new, Nil}
           /\ req'[p].set \in {req[p].set, req[l].new, Nil}
    <3>1. ASSUME Ends(l), NEW p \in Sharing(l)
          PROVE  /\ req'[p].token \in {req[p].token, req[l].new, Nil}
                 /\ req'[p].set \in {req[p].set, req[l].new, Nil}
      BY <3>1, FinishEffect DEF Ends, EndsWith
    <3> QED BY <3>1, SharedEnd
  <2>4. /\ stage'[q] \in {"storeNew", "dropOld"} => req'[q].new # Nil
        /\ req'[q].new # Nil => stage'[q] \in Rotating
    <3>1. CASE q = l
      BY <1>1, <3>1, OwnStage
    <3>2. CASE Same(q)
      BY <3>2 DEF Same, NewTokens, Rotating
    <3> QED BY <2>1, <2>3, <3>1, <3>2
  <2> SUFFICES ASSUME req'[q].new # Nil
               PROVE  /\ req'[q].new # jar'
                      /\ \A p \in Tabs : /\ req'[p].token # req'[q].new
                                         /\ req'[p].set # req'[q].new
                                         /\ p # q => req'[p].new # req'[q].new
                      /\ stage'[q] # "dropOld" => ~Has(req[q].new)'
                      /\ Has(req[q].new)' => Held(req[q].new)' = req'[q].csrf
    BY <2>4
  <2>5. CASE req[q].new # req'[q].new
    <3>1. q = l /\ ~Ends(l)
      BY <2>1, <2>2, <2>3, <2>5 DEF Same
    <3>2. /\ stage'[q] = "copy" /\ req'[q].new \in UnusedTokens
          /\ identityCache' = identityCache /\ jar' = jar
          /\ req'[q].token = req[q].token /\ req'[q].set = req[q].set
      BY <1>1, <2>5, <3>1, OwnTokens
    <3>3. \A p \in Tabs : /\ req'[p].token = req[p].token /\ req'[p].set = req[p].set
                          /\ p # q => req'[p].new = req[p].new
      BY <2>1, <3>1, <3>2 DEF Same
    <3> QED BY <3>2, <3>3 DEF UnusedTokens, Has
  <2>6. CASE req[q].new = req'[q].new
    <3> DEFINE m == req[q].new
    <3>0. /\ m \in Tokens /\ m # Nil /\ m # jar
          /\ \A p \in Tabs : req[p].token # m /\ req[p].set # m /\ (p # q => req[p].new # m)
          /\ m \notin UnusedTokens
      BY <2>6 DEF NewTokens, Typed, Local, UnusedTokens
    <3>1. ~(Ends(l) /\ q \in Sharing(l)) /\ (q = l => stage[q] # "dropOld")
      BY <1>1, <2>3, OwnStage
    <3>2. jar' # m
      BY <1>1, <3>0, Effects
    <3>3. \A p \in Tabs : req'[p].token # m /\ req'[p].set # m /\ (p # q => req'[p].new # m)
      <4> SUFFICES ASSUME NEW p \in Tabs
                   PROVE  req'[p].token # m /\ req'[p].set # m /\ (p # q => req'[p].new # m)
        OBVIOUS
      <4>1. CASE Same(p)
        BY <3>0, <4>1 DEF Same
      <4>2. CASE Ends(l) /\ p \in Sharing(l)
        <5>1. q # l
          BY <2>2, <3>1, <4>2
        <5>2. req[l].new # m
          BY <3>0, <5>1
        <5> HIDE DEF m
        <5> QED BY <2>3, <3>0, <4>2, <5>2
      <4>3. CASE p = l
        <5>1. req[l].new # m \/ l = q
          BY <3>0
        <5>2. l = q => req'[l].new = m
          BY <2>6
        <5> HIDE DEF m
        <5> QED BY <1>1, <3>0, <4>3, <5>1, <5>2, OwnTokens
      <4> QED BY <2>1, <4>1, <4>2, <4>3
    <3>4. \/ identityCache'[m] = identityCache[m]
          \/ l = q /\ stage'[q] = "dropOld" /\ identityCache'[m] = NewEntry(q) /\ req' = req
          \/ /\ identityCache[m] # Nil
             /\ identityCache'[m] = [identityCache[m] EXCEPT !.readers = @ \ {l}]
      BY <1>1, <3>0, Effects
    <3>5. stage[q] # "dropOld" => ~Has(m)
      BY <2>6 DEF NewTokens
    <3>6. Has(m) => Held(m) = req[q].csrf /\ q # l /\ stage[q] = "dropOld"
      BY <2>6, <3>1, <3>5 DEF NewTokens
    <3>7. Has(m) => stage'[q] = "dropOld" /\ req'[q].csrf = req[q].csrf
      BY <2>1, <3>1, <3>6 DEF Same
    <3>8. CASE identityCache'[m] = identityCache[m]
      <4>1. Has(m)' = Has(m) /\ Held(m)' = Held(m)
        BY <2>6, <3>8 DEF Has, Held
      <4> QED BY <2>6, <3>2, <3>3, <3>6, <3>7, <4>1
    <3>9. CASE l = q /\ stage'[q] = "dropOld" /\ identityCache'[m] = NewEntry(q) /\ req' = req
      BY <2>6, <3>0, <3>2, <3>3, <3>9, EntryTypes DEF Has, Held, NewEntry
    <3>10. CASE /\ identityCache[m] # Nil
                /\ identityCache'[m] = [identityCache[m] EXCEPT !.readers = @ \ {l}]
      <4>1. identityCache[m] \in Entry /\ Has(m)
        BY <3>0, <3>10, EntryTypes DEF Has
      <4>2. identityCache'[m].csrf = identityCache[m].csrf
        BY <3>10, <4>1 DEF Entry
      <4>3. Has(m)' => Held(m)' = Held(m)
        BY <2>6, <4>1, <4>2 DEF Has, Held
      <4> QED BY <2>6, <3>2, <3>3, <3>6, <3>7, <4>1, <4>3
    <3> QED BY <3>4, <3>8, <3>9, <3>10
  <2> QED BY <2>5, <2>6
<1>2. CASE Environment
  <2>1. CASE Restart
    BY <2>1, Fields DEF Restart, NewTokens, NoRequest
  <2>2. CASE ~Restart
    <3>1. /\ req' = req /\ stage' = stage
          /\ jar' = jar \/ jar' \in UnusedTokens
          /\ \A t \in Tokens : identityCache'[t] \in {identityCache[t], Nil}
      BY <1>2, <2>2 DEF Environment, Forget, Login, Logout, RemoveIdentity, SetIdentity,
         managerVars, Typed
    <3>2. \A q \in Tabs : req[q].new # jar'
                          \/ req[q].new = Nil
      BY <3>1 DEF NewTokens, UnusedTokens
    <3>3. \A q \in Tabs : req[q].new # Nil => req[q].new \in Tokens
      BY DEF Typed, Local
    <3> QED BY <3>1, <3>2, <3>3 DEF NewTokens, Has, Held
  <2> QED BY <2>1, <2>2
<1> QED BY <1>1, <1>2 DEF Next

-----------------------------------------------------------------------------
(* The theorems *)

LEMMA InitIInv == Init => IInv
<1> SUFFICES ASSUME Init PROVE IInv
  OBVIOUS
<1>1. NoRequest \in Local /\ NoRequest.new = Nil
  BY DEF NoRequest, Local
<1>2. \A q \in Tabs : stage[q] = "idle" /\ req[q] = NoRequest
  BY DEF Init
<1>3. TypeOK
  BY <1>1, <1>2 DEF Init, TypeOK, Stages
<1> QED
  BY <1>1, <1>2, <1>3 DEF IInv, Init, Readers, Flights, HasToken, NewTokens, Denied, Present,
     SharedLoss

LEMMA Parts == (TypeOK <=> Typed /\ Followers) /\ (IInv => Shared)
BY DEF TypeOK, Typed, Followers, IInv, Shared

LEMMA NextIInv == IInv /\ [Next]_vars => IInv'
<1>1. ASSUME IInv, Next PROVE IInv'
  <2>1. Shared /\ Shared'
    BY <1>1, Parts, SharedStep
  <2>2. TypeOK' /\ Flights' /\ HasToken'
    BY <2>1 DEF Shared, TypeOK, Typed, Followers
  <2>3. Readers'
    BY <1>1, <2>1, ReadersStep DEF IInv, Shared
  <2>4. NewTokens' /\ Denied'
    BY <1>1, <2>1, NewTokensStep, DeniedStep DEF IInv
  <2>5. Present' /\ SharedLoss'
    BY <1>1, <2>1, PresentStep, SharedLossStep DEF IInv
  <2> QED BY <2>2, <2>3, <2>4, <2>5 DEF IInv
<1>2. ASSUME IInv, UNCHANGED vars PROVE IInv'
  BY <1>2 DEF IInv, vars, TypeOK, Readers, Flights, HasToken, NewTokens, Denied, Present,
     SharedLoss,
              Has, Held, Leader
<1> QED BY <1>1, <1>2

LEMMA IInvHolds == Spec => []IInv
<1> QED BY InitIInv, NextIInv, PTL DEF Spec

\* A CSRF token leaves the cache with its session, or by a step that replaces it.
LEMMA CsrfStep ==
    ASSUME IInv, Next, NEW c \in CsrfTokens, Live(c), ~Live(c)'
    PROVE  \/ Restart
           \/ \E t \in Tokens : Held(t) = c /\ Forget(t)
           \/ \E q \in Tabs : Held(req[q].token) = c /\
                 \/ Drop(q) /\ req[q].token \notin valid
                 \/ SetCsrf(q)
                 \/ Store(q) /\ req[q].csrf # c
                 \/ DropOld(q) /\ (req[q].csrf = c => ~Has(req[q].new))
<1>0. Shared /\ Typed /\ NewTokens /\ Denied
  BY Parts DEF IInv, Shared
<1>1. PICK t \in Tokens : Held(t) = c
  BY DEF Live
<1>2. /\ identityCache[t] # Nil /\ identityCache[t].csrf = c /\ identityCache[t] \in Entry
      /\ t # Nil /\ t \notin UnusedTokens
  BY <1>0, <1>1, NilAssumption, EntryTypes DEF Held, Has, UnusedTokens
<1>3. Held(t)' # c
  BY DEF Live
<1>4. identityCache'[t] = Nil \/ identityCache'[t].csrf # c
  BY <1>2, <1>3 DEF Held, Has
<1>5. ASSUME NEW q \in Tabs, Send(q) \/ Step(q)
      PROVE  Held(req[q].token) = c /\
                \/ Drop(q) /\ req[q].token \notin valid
                \/ SetCsrf(q)
                \/ Store(q) /\ req[q].csrf # c
                \/ DropOld(q) /\ (req[q].csrf = c => ~Has(req[q].new))
  <2>1. ~(stage[q] = "reread" /\ identityCache'[t] = [identityCache[t] EXCEPT !.readers = @ \ {q}])
    BY <1>2, <1>4, EntryAssumption DEF Entry
  <2>2. ~(t = req[q].new /\ stage[q] = "storeNew")
    BY <1>0, <1>2 DEF NewTokens, Has
  <2>3. t = req[q].token /\ identityCache'[t] # identityCache[t]
    BY <1>0, <1>2, <1>4, <1>5, <2>1, <2>2, Effects
  <2>4. Held(req[q].token) = c
    BY <1>1, <2>3
  <2>5. CASE Drop(q)
    BY <1>0, <2>4, <2>5 DEF Drop, Denied
  <2>6. CASE Store(q)
    <3>1. identityCache'[t] = NewEntry(q) /\ NewEntry(q) # Nil
      BY <1>0, <2>3, <2>6, EntryTypes DEF Store, SetIdentity, Typed
    <3> QED BY <1>4, <2>4, <2>6, <3>1 DEF NewEntry
  <2>7. CASE DropOld(q)
    <3> SUFFICES ASSUME req[q].csrf = c, Has(req[q].new) PROVE FALSE
      BY <2>4, <2>7
    <3>1. Held(req[q].new) = c /\ req[q].new \in Tokens /\ req[q].new # req[q].token
      BY <1>0, <2>7 DEF NewTokens, Typed, Local, Has
    <3>2. identityCache'[req[q].new] = identityCache[req[q].new]
      BY <1>0, <2>7, <3>1 DEF DropOld, RemoveIdentity, SetIdentity, Typed
    <3> DEFINE m == req[q].new
    <3>3. PICK n \in Tokens : n = m
      BY <3>1
    <3>4. Held(n)' = c
      BY <3>1, <3>2, <3>3 DEF Held, Has
    <3> QED BY <3>4 DEF Live
  <2>8. CASE GetCsrf(q)
    <3>1. identityCache'[t] = [identityCache[t] EXCEPT !.readers = @ \cup {q}]
      BY <1>0, <2>3, <2>8 DEF GetCsrf, Typed
    <3> QED BY <1>2, <1>4, <3>1, EntryAssumption DEF Entry
  <2>9. ~CreateSession(q) /\ ~BecomeAnonymous(q) /\ ~StoreNew(q)
    BY <1>0, <1>2, <2>2, <2>3 DEF CreateSession, BecomeAnonymous, StoreNew, SetIdentity, Typed
  <2>10. \/ Send(q) \/ Known(q) \/ Lookup(q) \/ Join(q) \/ Relookup(q) \/ ResolveRoles(q) \/ Answer(q)
         \/ CopyCsrf(q) \/ CheckCsrf(q) \/ CreationFails(q) \/ Reply(q) \/ (\E h \in Handlers : Dispatch(q, h))
         => identityCache' = identityCache
    BY DEF Send, Known, Lookup, Join, Relookup, ResolveRoles, Answer, CopyCsrf, CheckCsrf, CreationFails,
           Reply, Dispatch, managerVars
  <2>11. ~Reread(q)
    BY <1>2, <2>1 DEF Reread
  <2> QED BY <1>5, <2>3, <2>4, <2>5, <2>6, <2>7, <2>8, <2>9, <2>10, <2>11 DEF Step
<1>6. CASE Environment
  <2>1. identityCache' # identityCache
    BY <1>2, <1>4
  <2>2. Restart \/ \E u \in Tokens : Forget(u)
    BY <1>6, <2>1 DEF Environment, Login, Logout, managerVars
  <2>3. ASSUME NEW u \in Tokens, Forget(u) PROVE u = t
    BY <1>0, <1>2, <1>4, <2>3 DEF Forget, RemoveIdentity, SetIdentity, Typed
  <2> QED BY <1>1, <2>2, <2>3
<1> QED BY <1>5, <1>6 DEF Next

\* Every variable keeps its type, and a follower's leader leads a flight for its
\* token (singleflight in manager.go:181-230).
THEOREM TypesHold == Spec => []TypeOK
<1>1. IInv => TypeOK
  BY DEF IInv
<1> QED BY <1>1, IInvHolds, PTL

\* Behind EnsureSessionKnown a handler has its session, unless it was taken away
\* under the request (http.go:105-163, manager.go:363-375).
THEOREM HandlersKnowTheirSession == Spec => []KnownWhenHandled
<1>1. IInv => KnownWhenHandled
  BY DEF IInv, KnownWhenHandled, Present
<1> QED BY <1>1, IInvHolds, PTL

\* EnsureKnown gives up the cookie of a request only when auth_app has denied
\* it (manager.go:358-375).
THEOREM OnlyDeniedIsGivenUp == Spec => []OnlyDeniedGivenUp
<1>1. IInv => OnlyDeniedGivenUp
  BY DEF IInv, OnlyDeniedGivenUp, Denied
<1> QED BY <1>1, IInvHolds, PTL

\* A CSRF token lives as long as its session (manager.go:259-288, 415-432).
THEOREM CsrfTokensSurvive == Spec => CsrfSurvives
<1> DEFINE Lost(c) == Live(c) /\ ~Live(c)' =>
          \/ Restart
          \/ \E t \in Tokens : Held(t) = c /\ Forget(t)
          \/ \E q \in Tabs : Held(req[q].token) = c /\
                \/ Drop(q) /\ req[q].token \notin valid
                \/ SetCsrf(q)
                \/ Store(q) /\ req[q].csrf # c
                \/ DropOld(q) /\ (req[q].csrf = c => ~Has(req[q].new))
<1>1. IInv /\ [Next]_vars => [\A c \in CsrfTokens : Lost(c)]_vars
  BY CsrfStep
<1> QED BY <1>1, IInvHolds, PTL DEF Spec, CsrfSurvives

=============================================================================
