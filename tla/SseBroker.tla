----------------------------- MODULE SseBroker -----------------------------
(***************************************************************************)
(* sse.Broker: publish/subscribe of typed events with user, session and    *)
(* connection routing.  Three maps (connections, sessions, users) are      *)
(* guarded by one RWMutex; the publish operations hold the read lock while *)
(* they walk the maps and send without blocking, the others hold the write *)
(* lock.  One client is one call of a Subscribe function together with the *)
(* cleanup closure that call returned; one publisher is one goroutine that *)
(* calls the publish functions.                                            *)
(***************************************************************************)
EXTENDS Naturals, Sequences, FiniteSets

CONSTANTS
    Clients,      \* subscription calls
    Primary,      \* the clients whose id this broker allocates
    ExternalId,   \* the id another broker allocated, for the other clients
    Sessions, NoSession,   \* session ids; NoSession is the empty string
    Users, NoUser,         \* user ids; NoUser is the empty string
    Grants,       \* <<session, user>> pairs the HTTP layer presents
    Renames,      \* <<old, new>> pairs the applications pass to UpdateUserID
    Pages, NoPage,         \* page paths; NoPage is the empty string
    Fragments, NoFilter, FragmentsOn, \* what is on each page
    Publishers, MaxEvents, \* goroutines that publish, events of each
    Calls,        \* the arguments they publish with
    MaxID,        \* bound of the id counter
    BufSize,      \* channel capacity
    Nil

Ids == 1..MaxID

ASSUME ClientsAssumption ==
    /\ Primary \subseteq Clients
    /\ ExternalId \in [Clients \ Primary -> Ids]
    \* another broker's counter never issues an id twice
    /\ \A c, d \in Clients \ Primary : ExternalId[c] = ExternalId[d] => c = d

ASSUME RoutingAssumption ==
    /\ Grants \subseteq Sessions \X Users
    /\ Renames \subseteq Users \X Users
    /\ NoPage \notin Pages
    /\ FragmentsOn \in [Pages -> SUBSET Fragments]

ASSUME BoundsAssumption ==
    /\ MaxID \in Nat
    /\ MaxEvents \in Nat
    /\ BufSize \in Nat \ {0}

Conn == [session : Sessions, user : Users, page : Pages \cup {NoPage}, ch : Clients]

ASSUME NilAssumption == Nil \notin Conn /\ Nil \notin Users \X Sessions

(***************************************************************************)
(* The arguments of Publish, PublishToConnection(s) and PublishToUser(s),  *)
(* the latter with their options: all sessions for a nil map, NoFilter for *)
(* a nil predicate.  Ids are given once: PublishToConnections walks a slice *)
(* and delivers twice to an id that is in it twice.                        *)
(***************************************************************************)
Call == [to : {"all"}]
        \cup [to : {"ids"}, ids : SUBSET Ids]
        \cup [to : {"users"}, users : SUBSET Users, active : SUBSET Sessions,
              filter : Fragments \cup {NoFilter}]

ASSUME CallsAssumption == Calls \subseteq Call /\ Nil \notin Call

Event == [by : Publishers, n : 0..MaxEvents]

(***************************************************************************)
(* A route is one visit of the publishing loops: the connection id and the *)
(* <<user, session>> index entries that led to it (Nil for a loop over the *)
(* connections themselves).                                                *)
(***************************************************************************)
Route == [via : (Users \X Sessions) \cup {Nil}, id : Ids]

VARIABLES
    connections,  \* [Ids -> Conn or Nil]
    sessions,     \* [Sessions -> set of ids]; {} is an absent key
    users,        \* [Users -> set of sessions]; {} is an absent key
    unindexed,    \* history: ids the code has left out of the user index
    nextID,
    stage,        \* where each client is in its Subscribe call
    cid,          \* the id the client's cleanup closure captured, 0 before
    buf, closed,  \* the channels, named by the client they were made for
    got,          \* what each client has received, in order
    sent,         \* events each publisher has published
    call,         \* the call each publisher is in, Nil outside
    todo          \* routes it has still to visit

maps == <<connections, sessions, users, unindexed>>
clientVars == <<nextID, stage, cid>>
chanVars == <<buf, closed, got>>
pubVars == <<sent, call, todo>>
vars == <<connections, sessions, users, unindexed, nextID, stage, cid, buf, closed, got,
          sent, call, todo>>

Init ==
    /\ connections = [i \in Ids |-> Nil]
    /\ sessions = [s \in Sessions |-> {}]
    /\ users = [u \in Users |-> {}]
    /\ unindexed = {}
    /\ nextID = 0
    /\ stage = [c \in Clients |-> "new"]
    /\ cid = [c \in Clients |-> 0]
    /\ buf = [c \in Clients |-> <<>>]
    /\ closed = {}
    /\ got = [c \in Clients |-> <<>>]
    /\ sent = [p \in Publishers |-> 0]
    /\ call = [p \in Publishers |-> Nil]
    /\ todo = [p \in Publishers |-> {}]

Live == {i \in Ids : connections[i] # Nil}

\* The publishers that hold the read lock.
Reading == {p \in Publishers : call[p] # Nil}

\* Mutant: the writers do not take the lock.
Unlocked == TRUE

\* b.mu.Lock() returns only when no publisher holds the read lock.
WriteLocked == Reading = {}

-----------------------------------------------------------------------------
(* Subscribing *)

\* SubscribeWithIDs: the id comes from the atomic counter, before the lock.
AllocateID(c) ==
    /\ c \in Primary
    /\ stage[c] = "new"
    /\ nextID < MaxID
    /\ nextID' = nextID + 1
    /\ cid' = [cid EXCEPT ![c] = nextID + 1]
    /\ stage' = [stage EXCEPT ![c] = "allocated"]
    /\ UNCHANGED <<maps, chanVars, pubVars>>

\* subscribeWithID: the connection replaces whatever the id named before.
Register(c, i, s, u) ==
    /\ WriteLocked
    /\ connections' = [connections EXCEPT ![i] =
           [session |-> s, user |-> u, page |-> NoPage, ch |-> c]]
    /\ sessions' = [sessions EXCEPT ![s] = @ \cup {i}]
    /\ users' = [users EXCEPT ![u] = @ \cup {s}]
    /\ unindexed' = unindexed \ {i}

SubscribeOwn(c, s, u) ==
    /\ stage[c] = "allocated"
    /\ Register(c, cid[c], s, u)
    /\ stage' = [stage EXCEPT ![c] = "open"]
    /\ UNCHANGED <<nextID, cid, chanVars, pubVars>>

\* SubscribeWithConnectionID registers first and reserves the id afterwards.
SubscribeExternal(c, s, u) ==
    /\ c \notin Primary
    /\ stage[c] = "new"
    /\ Register(c, ExternalId[c], s, u)
    /\ cid' = [cid EXCEPT ![c] = ExternalId[c]]
    /\ stage' = [stage EXCEPT ![c] = "registered"]
    /\ UNCHANGED <<nextID, chanVars, pubVars>>

\* Mutant: the counter stops one short of the id.
ReserveBelow(c) ==
    /\ stage[c] = "registered"
    /\ nextID' = IF nextID >= cid[c] THEN nextID ELSE cid[c] - 1
    /\ stage' = [stage EXCEPT ![c] = "open"]
    /\ UNCHANGED <<maps, cid, chanVars, pubVars>>

\* The load / compare-and-swap loop: an atomic maximum.
ReserveID(c) ==
    /\ stage[c] = "registered"
    /\ nextID' = IF nextID >= cid[c] THEN nextID ELSE cid[c]
    /\ stage' = [stage EXCEPT ![c] = "open"]
    /\ UNCHANGED <<maps, cid, chanVars, pubVars>>

(***************************************************************************)
(* The cleanup closure calls removeConnection(id); it may be called again. *)
(***************************************************************************)

\* Mutant: the last-connection check is missing.
AlwaysLast(S) == TRUE

\* len(sessionConns) <= 1
AtMostOne(S) == \A a, b \in S : a = b

RemoveConnection(i) ==
    /\ WriteLocked
    /\ IF connections[i] = Nil
       THEN UNCHANGED <<maps, closed>>
       ELSE LET conn == connections[i] IN
            /\ connections' = [connections EXCEPT ![i] = Nil]
            /\ users' = IF AtMostOne(sessions[conn.session])
                        THEN [users EXCEPT ![conn.user] = @ \ {conn.session}]
                        ELSE users
            /\ sessions' = [sessions EXCEPT ![conn.session] = @ \ {i}]
            /\ unindexed' = unindexed \ {i}
            /\ closed' = closed \cup {conn.ch}

Cleanup(c) ==
    /\ stage[c] \in {"open", "done"}
    /\ RemoveConnection(cid[c])
    /\ stage' = [stage EXCEPT ![c] = "done"]
    /\ UNCHANGED <<nextID, cid, buf, got, pubVars>>

-----------------------------------------------------------------------------
(* Re-association *)

\* Mutant: the connection stays in the index of its old session.
RotateWithoutDetach(i, s) ==
    /\ WriteLocked
    /\ connections[i] # Nil
    /\ connections[i].session # s
    /\ sessions' = [sessions EXCEPT ![s] = @ \cup {i}]
    /\ connections' = [connections EXCEPT ![i].session = s]
    /\ users' = [users EXCEPT ![connections[i].user] = @ \cup {s}]
    /\ UNCHANGED <<unindexed, clientVars, chanVars, pubVars>>

\* The user index follows if the connection has a user id.
UpdateConnectionSessionID(i, s) ==
    /\ WriteLocked
    /\ connections[i] # Nil
    /\ connections[i].session # s
    /\ LET conn == connections[i]
           detached == IF conn.session # NoSession
                       THEN [sessions EXCEPT ![conn.session] = @ \ {i}]
                       ELSE sessions
       IN  /\ sessions' = [detached EXCEPT ![s] = @ \cup {i}]
           /\ connections' = [connections EXCEPT ![i].session = s]
           /\ users' = IF conn.user # NoUser
                       THEN [users EXCEPT ![conn.user] = @ \cup {s}]
                       ELSE users
           /\ unindexed' = IF conn.user # NoUser THEN unindexed \ {i} ELSE unindexed \cup {i}
    /\ UNCHANGED <<clientVars, chanVars, pubVars>>

UpdateConnectionPage(i, pg) ==
    /\ WriteLocked
    /\ connections[i] # Nil
    /\ connections' = [connections EXCEPT ![i].page = pg]
    /\ UNCHANGED <<sessions, users, unindexed, clientVars, chanVars, pubVars>>

UpdateSessionPage(s, pg) ==
    /\ WriteLocked
    /\ connections' = [i \in Ids |->
           IF i \in sessions[s] /\ connections[i] # Nil
           THEN [connections[i] EXCEPT !.page = pg] ELSE connections[i]]
    /\ UNCHANGED <<sessions, users, unindexed, clientVars, chanVars, pubVars>>

\* A rename to the same id deletes the entry it has just copied to.
UpdateUserID(old, new) ==
    /\ WriteLocked
    /\ connections' = [i \in Ids |->
           IF connections[i] # Nil /\ connections[i].user = old
           THEN [connections[i] EXCEPT !.user = new] ELSE connections[i]]
    /\ users' = IF users[old] # {}
                THEN [users EXCEPT ![new] = @ \cup users[old], ![old] = {}]
                ELSE users
    /\ unindexed' = IF old = new
                    THEN unindexed \cup {i \in Live : connections[i].user = old}
                    ELSE unindexed
    /\ UNCHANGED <<sessions, clientVars, chanVars, pubVars>>

-----------------------------------------------------------------------------
(* Publishing *)

\* The predicate app installs: no page context yet, or the fragment is shown.
Accepts(conn, f) ==
    \/ f = NoFilter
    \/ conn.page = NoPage
    \/ f \in FragmentsOn[conn.page]

\* Publish walks b.connections, PublishToConnection(s) skips unknown ids.
DirectRoutes(I) == {[via |-> Nil, id |-> i] : i \in I \cap Live}

\* Mutant: ActiveSessionIDs is ignored.
IndexedRoutesOfAll(us, active, f) ==
    {r \in Route :
        /\ r.via # Nil
        /\ r.via[1] \in us
        /\ r.via[2] \in users[r.via[1]]
        /\ r.id \in sessions[r.via[2]] \cap Live
        /\ Accepts(connections[r.id], f)}

\* PublishToUser(s)WithOptions: users -> sessions -> connections.
IndexedRoutes(us, active, f) ==
    {r \in Route :
        /\ r.via # Nil
        /\ r.via[1] \in us
        /\ r.via[2] \in users[r.via[1]] \cap active
        /\ r.id \in sessions[r.via[2]] \cap Live
        /\ Accepts(connections[r.id], f)}

Routes(a) ==
    CASE a.to = "all"   -> DirectRoutes(Ids)
      [] a.to = "ids"   -> DirectRoutes(a.ids)
      [] a.to = "users" -> IndexedRoutes(a.users, a.active, a.filter)

\* b.mu.RLock(): no writer runs until EndPublish, so the routes are settled.
BeginPublish(p, a) ==
    /\ call[p] = Nil
    /\ sent[p] < MaxEvents
    /\ call' = [call EXCEPT ![p] = a]
    /\ sent' = [sent EXCEPT ![p] = @ + 1]
    /\ todo' = [todo EXCEPT ![p] = Routes(a)]
    /\ UNCHANGED <<maps, clientVars, chanVars>>

\* Mutant: the send has no default branch.
SendBlocking(p) ==
    /\ \E r \in todo[p] :
        LET c == connections[r.id].ch IN
        /\ Len(buf[c]) < BufSize
        /\ buf' = [buf EXCEPT ![c] = Append(@, [by |-> p, n |-> sent[p]])]
        /\ todo' = [todo EXCEPT ![p] = @ \ {r}]
    /\ UNCHANGED <<maps, clientVars, closed, got, sent, call>>

\* select { case c.ch <- e: default: }
Send(p) ==
    /\ \E r \in todo[p] :
        LET c == connections[r.id].ch IN
        /\ buf' = IF Len(buf[c]) < BufSize
                  THEN [buf EXCEPT ![c] = Append(@, [by |-> p, n |-> sent[p]])]
                  ELSE buf
        /\ todo' = [todo EXCEPT ![p] = @ \ {r}]
    /\ UNCHANGED <<maps, clientVars, closed, got, sent, call>>

EndPublish(p) ==
    /\ call[p] # Nil
    /\ todo[p] = {}
    /\ call' = [call EXCEPT ![p] = Nil]
    /\ UNCHANGED <<maps, clientVars, chanVars, sent, todo>>

\* The client's goroutine receives; a closed channel is drained first.
Receive(c) ==
    /\ buf[c] # <<>>
    /\ got' = [got EXCEPT ![c] = Append(@, Head(buf[c]))]
    /\ buf' = [buf EXCEPT ![c] = Tail(@)]
    /\ UNCHANGED <<maps, clientVars, closed, pubVars>>

-----------------------------------------------------------------------------
Subscribing ==
    \E c \in Clients :
        \/ AllocateID(c)
        \/ ReserveID(c)
        \/ Cleanup(c)
        \/ \E g \in Grants :
              SubscribeOwn(c, g[1], g[2]) \/ SubscribeExternal(c, g[1], g[2])

\* The session layer rotates a connection to a session of the same user.
Reassociating ==
    \/ \E i \in Ids, s \in Sessions :
          /\ connections[i] # Nil => <<s, connections[i].user>> \in Grants
          /\ UpdateConnectionSessionID(i, s)
    \/ \E i \in Ids, pg \in Pages : UpdateConnectionPage(i, pg)
    \/ \E s \in Sessions, pg \in Pages : UpdateSessionPage(s, pg)
    \/ \E r \in Renames : UpdateUserID(r[1], r[2])

Publishing ==
    \E p \in Publishers :
        \/ \E a \in Calls : BeginPublish(p, a)
        \/ Send(p)
        \/ EndPublish(p)

Next ==
    \/ Subscribing
    \/ Reassociating
    \/ Publishing
    \/ \E c \in Clients : Receive(c)

\* A goroutine inside a publish call keeps running; nobody else has to.
PublishersRun == \A p \in Publishers : WF_vars(Send(p) \/ EndPublish(p))

Spec == Init /\ [][Next]_vars
FairSpec == Spec /\ PublishersRun
-----------------------------------------------------------------------------
(* Correctness *)

\* Every variable has the type its Go counterpart gives it (broker.go:18-80).
TypeOK ==
    /\ connections \in [Ids -> Conn \cup {Nil}]
    /\ sessions \in [Sessions -> SUBSET Ids]
    /\ users \in [Users -> SUBSET Sessions]
    /\ unindexed \subseteq Ids
    /\ nextID \in 0..MaxID
    /\ stage \in [Clients -> {"new", "allocated", "registered", "open", "done"}]
    /\ cid \in [Clients -> 0..MaxID]
    /\ \A c \in Clients : stage[c] # "new" => cid[c] \in Ids
    /\ buf \in [Clients -> Seq(Event)]
    /\ closed \subseteq Clients
    /\ got \in [Clients -> Seq(Event)]
    /\ sent \in [Publishers -> 0..MaxEvents]
    /\ call \in [Publishers -> Call \cup {Nil}]
    /\ todo \in [Publishers -> SUBSET Route]

\* The calling discipline under which delivery is proved right.  A broker serves
\* as the first stream of its endpoints or never does, and no request has an
\* empty session id.
UniformStreams == Primary = Clients \/ Primary = {}
ProperSessions == NoSession \notin Sessions

\* So far no two subscriptions were given one id.  A broker that is given ids
\* and issues its own may break this in two ways: an id arrives that its counter
\* has issued before, or the counter issues it between registration and
\* reservation (broker.go:113-118).
IdsDistinct ==
    \A c, d \in Clients :
        c # d /\ stage[c] # "new" /\ stage[d] # "new" => cid[c] # cid[d]

\* One cleanup closure stands behind each registered connection.
ConnectionsOwned ==
    \A i \in Live :
        LET c == connections[i].ch IN
        cid[c] = i /\ stage[c] \in {"registered", "open"}

\* The counter never issues an id that it has issued before or that an external
\* subscription has reserved, also when both kinds of subscription share the
\* broker and several reserve and issue at once (broker.go:114-123).
NoIDReuse ==
    [][\A c, d \in Clients :
          /\ stage[c] = "new" /\ stage'[c] = "allocated"
          /\ stage[d] \notin {"new", "registered"}
          => cid'[c] # cid[d]]_vars

SessionsExact ==
    \A s \in Sessions : sessions[s] = {i \in Live : connections[i].session = s}

\* The session index and the connections say the same: after any mix of
\* subscriptions, rotations and cleanups (broker.go:137-147, 172-185, 405-420)
\* no session lists a dead connection and none misses a live one.
SessionIndexExact == IdsDistinct => SessionsExact

UsersCovered ==
    \A i \in Live \ unindexed : connections[i].session \in users[connections[i].user]

\* No connection becomes unreachable for PublishToUser through somebody else:
\* closing one tab (broker.go:407-416), rotating another (187-194), renaming a user
\* or the anonymous one (376-394) leaves every session in the user index.  The code
\* itself leaves out what rotates while it has no user id (189), which a later
\* rename does not repair (385-391), and what is renamed to the same id (392).
UserIndexCovers == IdsDistinct => UsersCovered

\* The user index lists a session only while the user has a connection in it,
\* so that it stays in step with rotation (comment at broker.go:187-188).
UserIndexInSync ==
    \A u \in Users : u # NoUser =>
        \A s \in users[u] :
            \E i \in Live : connections[i].user = u /\ connections[i].session = s

\* The loops of the publish calls never send on a closed channel, which would
\* panic (broker.go:239-244, 312-324 against close at 422): a connection a
\* publisher has still to visit stays registered and its channel open.
NoSendOnClosed ==
    \A p \in Publishers : \A r \in todo[p] :
        /\ connections[r.id] # Nil
        /\ connections[r.id].ch \notin closed

\* An event addressed to users is offered only to connections that belong to
\* one of them at the moment of the send, in the session that was matched
\* against the active ones (broker.go:308-325, 349-371).
UserScopedDelivery ==
    \A p \in Publishers : \A r \in todo[p] :
        r.via # Nil =>
            /\ connections[r.id] # Nil
            /\ connections[r.id].user = r.via[1]
            /\ connections[r.id].session = r.via[2]

\* A client sees the events of one publisher in the order published, and each
\* at most once although the loops meet it through two nested indexes
\* (broker.go:308-325).
PerPublisherOrder ==
    \A c \in Clients :
        LET log == got[c] \o buf[c] IN
        \A j, k \in 1..Len(log) :
            j < k /\ log[j].by = log[k].by => log[j].n < log[k].n

\* A publish call returns even if no client ever receives (broker.go:233-234:
\* slow clients are skipped), so writers are not locked out forever.
EveryPublishReturns ==
    \A p \in Publishers : p \in Reading ~> p \notin Reading
-----------------------------------------------------------------------------
(***************************************************************************)
(* The inductive invariant behind the four safety properties: ids are told *)
(* apart by the counter that issued them, a channel is closed only by the  *)
(* cleanup of its own client, and routes exist only inside a call, that is *)
(* under the read lock.                                                    *)
(***************************************************************************)
IdsIssued ==
    \A c \in Clients : stage[c] # "new" =>
        IF c \in Primary THEN cid[c] <= nextID ELSE cid[c] = ExternalId[c]

ClosedByCleanup == \A c \in closed : stage[c] = "done"

RoutesUnderLock == \A p \in Publishers : todo[p] # {} => call[p] # Nil

\* As long as ids are distinct, indexes, channels and locks stay consistent
\* together, whatever the clients, applications and publishers do.
BrokerInvariant ==
    /\ TypeOK
    /\ IdsIssued
    /\ IdsDistinct
    /\ ConnectionsOwned
    /\ ClosedByCleanup
    /\ SessionsExact
    /\ UsersCovered
    /\ RoutesUnderLock
    /\ NoSendOnClosed

\* The indexes implement the plain table: what a publish call selects through
\* users -> sessions -> connections is what a scan of the connections by user,
\* session and page would, through every subscription, rotation and cleanup
\* (broker.go:127-153, 158-231, 295-372, 396-423).
Table == INSTANCE RoutingTable WITH
    table <- connections, queue <- buf, seen <- got, published <- sent,
    owed <- [p \in Publishers |-> {r.id : r \in todo[p]}]

ImplementsTable == Table!Spec
=============================================================================
