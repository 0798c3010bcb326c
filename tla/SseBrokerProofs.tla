-------------------------- MODULE SseBrokerProofs --------------------------
(***************************************************************************)
(* What TLAPS proves about SseBroker for every number of clients, users,   *)
(* sessions and publishers.                                                *)
(***************************************************************************)
EXTENDS SseBroker, SequenceTheorems, TLAPS

-----------------------------------------------------------------------------
(* Type correctness *)

LEMMA ConnType ==
    ASSUME NEW conn \in Conn
    PROVE  /\ conn.session \in Sessions
           /\ conn.user \in Users
           /\ conn.page \in Pages \cup {NoPage}
           /\ conn.ch \in Clients
BY DEF Conn

LEMMA RoutesType ==
    ASSUME TypeOK, NEW a \in Calls
    PROVE  /\ Routes(a) \subseteq Route
           /\ \A r \in Routes(a) : connections[r.id] # Nil
BY CallsAssumption
   DEF TypeOK, Routes, DirectRoutes, IndexedRoutes, Route, Live, Call

LEMMA InitType == Init => TypeOK
BY BoundsAssumption DEF Init, TypeOK

\* Taking an element from an entry of an index, or adding one, keeps its type.
LEMMA IndexRemove ==
    ASSUME NEW D, NEW R, NEW f \in [D -> SUBSET R], NEW d \in D, NEW x
    PROVE  [f EXCEPT ![d] = @ \ {x}] \in [D -> SUBSET R]
<1>1. f[d] \ {x} \in SUBSET R
  OBVIOUS
<1> QED BY <1>1

LEMMA RemoveType ==
    ASSUME TypeOK, NEW i \in Ids, RemoveConnection(i)
    PROVE  /\ connections' \in [Ids -> Conn \cup {Nil}]
           /\ sessions' \in [Sessions -> SUBSET Ids]
           /\ users' \in [Users -> SUBSET Sessions]
           /\ closed' \subseteq Clients
           /\ unindexed' \subseteq Ids
<1>1. /\ connections \in [Ids -> Conn \cup {Nil}]
      /\ sessions \in [Sessions -> SUBSET Ids]
      /\ users \in [Users -> SUBSET Sessions]
      /\ closed \subseteq Clients
      /\ unindexed \subseteq Ids
  BY DEF TypeOK
<1>2. CASE connections[i] = Nil
  BY <1>1, <1>2 DEF RemoveConnection, maps
<1>3. CASE connections[i] # Nil
  <2> DEFINE s == connections[i].session
             u == connections[i].user
             d == connections[i].ch
  <2>1. s \in Sessions /\ u \in Users /\ d \in Clients
    BY <1>1, <1>3, ConnType
  <2>2. /\ connections' = [connections EXCEPT ![i] = Nil]
        /\ users' = users \/ users' = [users EXCEPT ![u] = @ \ {s}]
        /\ sessions' = [sessions EXCEPT ![s] = @ \ {i}]
        /\ closed' = closed \cup {d}
        /\ unindexed' = unindexed \ {i}
    BY <1>3 DEF RemoveConnection
  <2> HIDE DEF s, u, d
  <2>3. users' \in [Users -> SUBSET Sessions]
    BY <1>1, <2>1, <2>2, IndexRemove
  <2>4. sessions' \in [Sessions -> SUBSET Ids]
    BY <1>1, <2>1, <2>2, IndexRemove
  <2> QED BY <1>1, <2>1, <2>2, <2>3, <2>4
<1> QED BY <1>2, <1>3

LEMMA SubscribingType ==
    ASSUME TypeOK, Subscribing
    PROVE  TypeOK'
<1> USE BoundsAssumption, ClientsAssumption, RoutingAssumption, NilAssumption
    DEF TypeOK, Ids
<1> SUFFICES ASSUME NEW c \in Clients,
                    \/ AllocateID(c)
                    \/ ReserveID(c)
                    \/ Cleanup(c)
                    \/ \E g \in Grants :
                          \/ SubscribeOwn(c, g[1], g[2])
                          \/ SubscribeExternal(c, g[1], g[2])
             PROVE  TypeOK'
  BY DEF Subscribing
<1>1. CASE AllocateID(c)
  BY <1>1 DEF AllocateID, maps, chanVars, pubVars
<1>2. CASE ReserveID(c)
  BY <1>2 DEF ReserveID, maps, chanVars, pubVars
<1>3. CASE Cleanup(c)
  <2>1. cid[c] \in Ids
    BY <1>3 DEF Cleanup
  <2>2. /\ connections' \in [Ids -> Conn \cup {Nil}]
        /\ sessions' \in [Sessions -> SUBSET Ids]
        /\ users' \in [Users -> SUBSET Sessions]
        /\ closed' \subseteq Clients
        /\ unindexed' \subseteq Ids
    BY <1>3, <2>1, RemoveType DEF Cleanup
  <2> QED BY <1>3, <2>1, <2>2 DEF Cleanup, pubVars
<1>4. CASE \E g \in Grants : SubscribeOwn(c, g[1], g[2])
  <2> PICK g \in Grants : SubscribeOwn(c, g[1], g[2])
    BY <1>4
  <2>1. g[1] \in Sessions /\ g[2] \in Users
    OBVIOUS
  <2> QED
    BY <2>1 DEF SubscribeOwn, Register, Conn, chanVars, pubVars
<1>5. CASE \E g \in Grants : SubscribeExternal(c, g[1], g[2])
  <2> PICK g \in Grants : SubscribeExternal(c, g[1], g[2])
    BY <1>5
  <2>1. g[1] \in Sessions /\ g[2] \in Users
    OBVIOUS
  <2>2. ExternalId[c] \in Ids
    BY DEF SubscribeExternal
  <2>3. unindexed' \subseteq Ids
    BY DEF SubscribeExternal, Register
  <2> QED
    BY <2>1, <2>2, <2>3 DEF SubscribeExternal, Register, Conn, chanVars, pubVars
<1> QED BY <1>1, <1>2, <1>3, <1>4, <1>5

LEMMA IndexAdd ==
    ASSUME NEW D, NEW R, NEW f \in [D -> SUBSET R], NEW d \in D, NEW S \in SUBSET R
    PROVE  [f EXCEPT ![d] = @ \cup S] \in [D -> SUBSET R]
<1>1. f[d] \cup S \in SUBSET R
  OBVIOUS
<1> QED BY <1>1

\* Rewriting one field of a connection leaves a connection.
LEMMA ConnUpdate ==
    ASSUME NEW conn \in Conn
    PROVE  /\ \A s \in Sessions : [conn EXCEPT !.session = s] \in Conn
           /\ \A u \in Users : [conn EXCEPT !.user = u] \in Conn
           /\ \A pg \in Pages : [conn EXCEPT !.page = pg] \in Conn
BY DEF Conn

LEMMA RotateType ==
    ASSUME TypeOK, NEW i \in Ids, NEW s \in Sessions,
           UpdateConnectionSessionID(i, s)
    PROVE  TypeOK'
<1> DEFINE o == connections[i].session
           u == connections[i].user
<1>1. connections[i] \in Conn
  BY DEF TypeOK, UpdateConnectionSessionID
<1>2. o \in Sessions /\ u \in Users
  BY <1>1, ConnType
<1>3. connections' \in [Ids -> Conn \cup {Nil}]
  <2>1. [connections[i] EXCEPT !.session = s] \in Conn
    BY <1>1, ConnUpdate
  <2>2. connections' = [connections EXCEPT ![i] = [connections[i] EXCEPT !.session = s]]
    BY DEF UpdateConnectionSessionID
  <2> QED BY <2>1, <2>2 DEF TypeOK
<1>4. sessions' \in [Sessions -> SUBSET Ids]
  <2> DEFINE detached == IF o # NoSession THEN [sessions EXCEPT ![o] = @ \ {i}]
                                          ELSE sessions
  <2>1. sessions \in [Sessions -> SUBSET Ids]
    BY DEF TypeOK
  <2>2. detached \in [Sessions -> SUBSET Ids]
    <3>1. [sessions EXCEPT ![o] = @ \ {i}] \in [Sessions -> SUBSET Ids]
      BY <1>2, <2>1, IndexRemove
    <3> QED BY <2>1, <3>1
  <2>3. sessions' = [detached EXCEPT ![s] = @ \cup {i}]
    BY DEF UpdateConnectionSessionID
  <2> HIDE DEF detached
  <2> QED BY <2>2, <2>3, IndexAdd
<1>5. users' \in [Users -> SUBSET Sessions]
  <2>1. users' = users \/ users' = [users EXCEPT ![u] = @ \cup {s}]
    BY DEF UpdateConnectionSessionID
  <2>2. users \in [Users -> SUBSET Sessions]
    BY DEF TypeOK
  <2> HIDE DEF u
  <2> QED BY SMTT(40), <1>2, <2>1, <2>2, IndexAdd
<1>6. unindexed' \subseteq Ids
  BY DEF TypeOK, UpdateConnectionSessionID
<1> QED
  BY <1>3, <1>4, <1>5, <1>6
     DEF TypeOK, UpdateConnectionSessionID, clientVars, chanVars, pubVars

LEMMA ReassociatingType ==
    ASSUME TypeOK, Reassociating
    PROVE  TypeOK'
<1>1. CASE \E i \in Ids, s \in Sessions : UpdateConnectionSessionID(i, s)
  BY <1>1, RotateType
<1>2. CASE \E i \in Ids, pg \in Pages : UpdateConnectionPage(i, pg)
  <2> PICK i \in Ids, pg \in Pages : UpdateConnectionPage(i, pg)
    BY <1>2
  <2>1. connections[i] \in Conn
    BY DEF TypeOK, UpdateConnectionPage
  <2>2. [connections[i] EXCEPT !.page = pg] \in Conn
    BY <2>1, ConnUpdate
  <2>3. connections' = [connections EXCEPT ![i] = [connections[i] EXCEPT !.page = pg]]
    BY DEF UpdateConnectionPage
  <2> QED
    BY <2>2, <2>3 DEF TypeOK, UpdateConnectionPage, clientVars, chanVars, pubVars
<1>3. CASE \E s \in Sessions, pg \in Pages : UpdateSessionPage(s, pg)
  <2> PICK s \in Sessions, pg \in Pages : UpdateSessionPage(s, pg)
    BY <1>3
  <2>1. \A i \in Ids : connections[i] # Nil =>
            [connections[i] EXCEPT !.page = pg] \in Conn
    BY ConnUpdate DEF TypeOK
  <2>2. connections' \in [Ids -> Conn \cup {Nil}]
    BY <2>1 DEF TypeOK, UpdateSessionPage
  <2> QED
    BY <2>2 DEF TypeOK, UpdateSessionPage, clientVars, chanVars, pubVars
<1>4. CASE \E r \in Renames : UpdateUserID(r[1], r[2])
  <2> PICK r \in Renames : UpdateUserID(r[1], r[2])
    BY <1>4
  <2> DEFINE old == r[1]
             new == r[2]
  <2>1. old \in Users /\ new \in Users
    BY RoutingAssumption
  <2>2. connections' \in [Ids -> Conn \cup {Nil}]
    <3>1. \A i \in Ids : connections[i] # Nil =>
              [connections[i] EXCEPT !.user = new] \in Conn
      BY <2>1, ConnUpdate DEF TypeOK
    <3> QED BY <3>1 DEF TypeOK, UpdateUserID
  <2>3. users' \in [Users -> SUBSET Sessions]
    <3>1. users \in [Users -> SUBSET Sessions]
      BY DEF TypeOK
    <3>2. \/ users' = users
          \/ users' = [[users EXCEPT ![new] = @ \cup users[old]] EXCEPT ![old] = {}]
      BY DEF UpdateUserID
    <3>3. [users EXCEPT ![new] = @ \cup users[old]] \in [Users -> SUBSET Sessions]
      BY <2>1, <3>1, IndexAdd
    <3> QED BY <2>1, <3>1, <3>2, <3>3
  <2>4. unindexed' \subseteq Ids
    BY DEF TypeOK, UpdateUserID, Live
  <2> QED
    BY <2>2, <2>3, <2>4 DEF TypeOK, UpdateUserID, clientVars, chanVars, pubVars
<1> QED BY <1>1, <1>2, <1>3, <1>4 DEF Reassociating

LEMMA PublishingType ==
    ASSUME TypeOK, NEW p \in Publishers,
           \/ \E a \in Calls : BeginPublish(p, a)
           \/ Send(p)
           \/ EndPublish(p)
    PROVE  TypeOK'
<1> USE BoundsAssumption
<1>1. CASE \E a \in Calls : BeginPublish(p, a)
  <2> PICK a \in Calls : BeginPublish(p, a)
    BY <1>1
  <2>1. Routes(a) \in SUBSET Route /\ a \in Call
    BY RoutesType, CallsAssumption
  <2>2. sent' \in [Publishers -> 0..MaxEvents]
    BY DEF TypeOK, BeginPublish
  <2> QED
    BY <2>1, <2>2 DEF TypeOK, BeginPublish, maps, clientVars, chanVars
<1>2. CASE Send(p)
  <2>1. todo' \in [Publishers -> SUBSET Route]
    BY ZenonT(60), <1>2 DEF TypeOK, Send
  <2>2. buf' \in [Clients -> Seq(Event)]
    <3> PICK r \in todo[p] :
             LET c == connections[r.id].ch IN
             buf' = IF Len(buf[c]) < BufSize
                    THEN [buf EXCEPT ![c] = Append(@, [by |-> p, n |-> sent[p]])]
                    ELSE buf
      BY Zenon, <1>2 DEF Send
    <3> DEFINE c == connections[r.id].ch
               e == [by |-> p, n |-> sent[p]]
    <3>1. buf \in [Clients -> Seq(Event)] /\ e \in Event
      BY DEF TypeOK, Event
    <3>2. buf' = buf \/ buf' = [buf EXCEPT ![c] = Append(@, e)]
      OBVIOUS
    <3> HIDE DEF c, e
    <3>3. CASE c \in Clients
      <4>1. Append(buf[c], e) \in Seq(Event)
        BY <3>1, <3>3
      <4> QED BY <3>1, <3>2, <4>1
    <3>4. CASE c \notin Clients
      <4>1. [buf EXCEPT ![c] = Append(@, e)] = buf
        BY <3>1, <3>4
      <4> QED BY <3>1, <3>2, <4>1
    <3> QED BY <3>3, <3>4
  <2> QED BY ZenonT(60), <1>2, <2>1, <2>2 DEF TypeOK, Send, maps, clientVars
<1>3. CASE EndPublish(p)
  BY <1>3 DEF TypeOK, EndPublish, maps, clientVars, chanVars
<1> QED BY <1>1, <1>2, <1>3

LEMMA ReceiveType ==
    ASSUME TypeOK, NEW c \in Clients, Receive(c)
    PROVE  TypeOK'
<1>1. buf[c] \in Seq(Event) /\ got[c] \in Seq(Event) /\ buf[c] # <<>>
  BY DEF TypeOK, Receive
<1>2. Tail(buf[c]) \in Seq(Event) /\ Append(got[c], Head(buf[c])) \in Seq(Event)
  BY <1>1
<1>3. /\ buf' \in [Clients -> Seq(Event)]
      /\ got' \in [Clients -> Seq(Event)]
  BY <1>2 DEF TypeOK, Receive
<1> QED
  BY <1>3 DEF TypeOK, Receive, maps, clientVars, pubVars

LEMMA NextType == TypeOK /\ [Next]_vars => TypeOK'
<1> SUFFICES ASSUME TypeOK, [Next]_vars PROVE TypeOK'
  OBVIOUS
<1>1. CASE Next
  BY <1>1, SubscribingType, ReassociatingType, PublishingType, ReceiveType
     DEF Next, Publishing
<1>2. CASE UNCHANGED vars
  BY <1>2 DEF TypeOK, vars
<1> QED BY <1>1, <1>2

\* Every variable keeps its type: no operation stores a connection without a
\* session, user or channel, or leaves an index entry of another kind.
THEOREM TypeCorrect == Spec => []TypeOK
BY InitType, NextType, PTL DEF Spec

-----------------------------------------------------------------------------
(* Safety *)

\* What the theorems about delivery assume of the callers: with one kind of
\* subscription, ids are distinct (IdsStayDistinct).
Discipline == UniformStreams /\ ProperSessions

LEMMA InitInvariant == Init => BrokerInvariant
<1> SUFFICES ASSUME Init PROVE BrokerInvariant
  OBVIOUS
<1>1. TypeOK
  BY InitType
<1> QED
  BY <1>1 DEF Init, BrokerInvariant, IdsIssued, IdsDistinct, ConnectionsOwned, ClosedByCleanup,
              SessionsExact, UsersCovered, RoutesUnderLock, NoSendOnClosed,
              Live

\* A writer finds no route pending.
LEMMA WriterAlone ==
    ASSUME BrokerInvariant, WriteLocked, UNCHANGED todo
    PROVE  RoutesUnderLock' /\ NoSendOnClosed'
BY DEF BrokerInvariant, RoutesUnderLock, NoSendOnClosed, WriteLocked, Reading

\* A new connection enters both indexes and leaves no other entry behind,
\* provided its id was free.
LEMMA RegisterIndexes ==
    ASSUME BrokerInvariant, NEW c \in Clients, NEW i \in Ids,
           NEW s \in Sessions, NEW u \in Users,
           Register(c, i, s, u), connections[i] = Nil
    PROVE  SessionsExact' /\ UsersCovered'
<1> DEFINE new == [session |-> s, user |-> u, page |-> NoPage, ch |-> c]
<1>1. /\ connections' = [connections EXCEPT ![i] = new]
      /\ sessions' = [sessions EXCEPT ![s] = @ \cup {i}]
      /\ users' = [users EXCEPT ![u] = @ \cup {s}]
      /\ unindexed' = unindexed \ {i}
  BY DEF Register
<1>2. new # Nil /\ new.session = s /\ new.user = u
  BY NilAssumption DEF Conn
<1> HIDE DEF new
<1>3. /\ connections \in [Ids -> Conn \cup {Nil}]
      /\ sessions \in [Sessions -> SUBSET Ids]
      /\ users \in [Users -> SUBSET Sessions]
      /\ SessionsExact
      /\ UsersCovered
  BY DEF BrokerInvariant, TypeOK
<1>4. Live' = Live \cup {i}
  BY <1>1, <1>2, <1>3 DEF Live
<1>5. SessionsExact'
  BY <1>1, <1>2, <1>3, <1>4 DEF SessionsExact, Live
<1>6. UsersCovered'
  BY <1>1, <1>2, <1>3, <1>4, ConnType DEF UsersCovered, Live
<1> QED BY <1>5, <1>6

\* A live connection belongs to a client that called Subscribe and holds its id.
LEMMA Owner ==
    ASSUME BrokerInvariant, NEW i \in Ids, connections[i] # Nil
    PROVE  \E d \in Clients : /\ connections[i].ch = d
                              /\ cid[d] = i
                              /\ stage[d] \in {"registered", "open"}
<1>1. connections[i] \in Conn
  BY DEF BrokerInvariant, TypeOK
<1> QED BY <1>1, ConnType DEF BrokerInvariant, ConnectionsOwned, Live

LEMMA SubscribeOwnInvariant ==
    ASSUME BrokerInvariant, NEW c \in Clients, NEW s \in Sessions, NEW u \in Users,
           SubscribeOwn(c, s, u), TypeOK', IdsDistinct'
    PROVE  BrokerInvariant'
<1> DEFINE i == cid[c]
<1>1. i \in Ids /\ stage[c] = "allocated"
  BY DEF BrokerInvariant, TypeOK, SubscribeOwn
<1>2. connections[i] = Nil
  BY <1>1, Owner DEF BrokerInvariant, IdsDistinct
<1>3. IdsIssued'
  BY <1>1 DEF BrokerInvariant, IdsIssued, TypeOK, SubscribeOwn
<1>4. ConnectionsOwned'
  BY <1>1, <1>2, ConnType
     DEF BrokerInvariant, ConnectionsOwned, TypeOK, SubscribeOwn, Register, Live
<1>5. ClosedByCleanup'
  BY <1>1 DEF BrokerInvariant, ClosedByCleanup, TypeOK, SubscribeOwn, chanVars
<1>6. SessionsExact' /\ UsersCovered'
  BY <1>1, <1>2, RegisterIndexes DEF SubscribeOwn
<1>7. RoutesUnderLock' /\ NoSendOnClosed'
  BY WriterAlone DEF SubscribeOwn, Register, pubVars
<1> QED
  BY <1>3, <1>4, <1>5, <1>6, <1>7 DEF BrokerInvariant

LEMMA SubscribeExternalInvariant ==
    ASSUME BrokerInvariant, NEW c \in Clients, NEW s \in Sessions, NEW u \in Users,
           SubscribeExternal(c, s, u), TypeOK', IdsDistinct'
    PROVE  BrokerInvariant'
<1> DEFINE i == ExternalId[c]
<1>1. i \in Ids /\ stage[c] = "new" /\ c \notin Primary
  BY ClientsAssumption DEF SubscribeExternal
<1>2. connections[i] = Nil
  <2>1. SUFFICES ASSUME connections[i] # Nil PROVE FALSE
    OBVIOUS
  <2>2. PICK d \in Clients : cid[d] = i /\ stage[d] \in {"registered", "open"}
    BY <1>1, <2>1, Owner
  <2>3. /\ d # c /\ stage'[d] # "new" /\ stage'[c] # "new"
        /\ cid'[d] = i /\ cid'[c] = i
    BY <1>1, <2>2 DEF BrokerInvariant, TypeOK, SubscribeExternal
  <2> QED BY <2>3 DEF IdsDistinct
<1>3. IdsIssued'
  BY SMTT(40), <1>1, ClientsAssumption
     DEF BrokerInvariant, IdsIssued, TypeOK, SubscribeExternal
<1>4. ConnectionsOwned'
  BY <1>1, <1>2, ConnType
     DEF BrokerInvariant, ConnectionsOwned, TypeOK, SubscribeExternal, Register, Live
<1>5. ClosedByCleanup'
  BY <1>1 DEF BrokerInvariant, ClosedByCleanup, TypeOK, SubscribeExternal, chanVars
<1>6. SessionsExact' /\ UsersCovered'
  BY <1>1, <1>2, RegisterIndexes DEF SubscribeExternal
<1>7. RoutesUnderLock' /\ NoSendOnClosed'
  BY WriterAlone DEF SubscribeExternal, Register, pubVars
<1> QED
  BY <1>3, <1>4, <1>5, <1>6, <1>7 DEF BrokerInvariant

LEMMA AllocateInvariant ==
    ASSUME BrokerInvariant, NEW c \in Clients, AllocateID(c), TypeOK', IdsDistinct'
    PROVE  BrokerInvariant'
<1>2. IdsIssued'
  <2>1. nextID \in Nat /\ nextID' = nextID + 1 /\ c \in Primary
    BY BoundsAssumption DEF BrokerInvariant, TypeOK, AllocateID
  <2>2. \A d \in Clients \ {c} :
            /\ stage'[d] = stage[d]
            /\ cid'[d] = cid[d]
            /\ cid[d] \in Nat
    BY BoundsAssumption DEF BrokerInvariant, TypeOK, AllocateID
  <2>3. cid'[c] = nextID + 1
    BY DEF BrokerInvariant, TypeOK, AllocateID
  <2> QED BY <2>1, <2>2, <2>3 DEF BrokerInvariant, IdsIssued
<1>3. ConnectionsOwned'
  BY DEF BrokerInvariant, ConnectionsOwned, TypeOK, AllocateID, maps, Live, Conn
<1>4. ClosedByCleanup'
  BY DEF BrokerInvariant, ClosedByCleanup, TypeOK, AllocateID, chanVars
<1> QED
  BY <1>2, <1>3, <1>4
     DEF BrokerInvariant, AllocateID, maps, chanVars, pubVars, Live,
         SessionsExact, UsersCovered, RoutesUnderLock, NoSendOnClosed

LEMMA ReserveInvariant ==
    ASSUME BrokerInvariant, NEW c \in Clients, ReserveID(c), TypeOK', IdsDistinct'
    PROVE  BrokerInvariant'
<1>1. IdsIssued'
  <2>1. /\ nextID \in Nat /\ nextID' \in Nat
        /\ \A d \in Clients : cid[d] \in Nat
    BY BoundsAssumption DEF BrokerInvariant, TypeOK, ReserveID
  <2>2. nextID <= nextID'
    BY <2>1 DEF ReserveID
  <2>3. \A d \in Clients : stage'[d] # "new" => stage[d] # "new"
    BY DEF BrokerInvariant, TypeOK, ReserveID
  <2>4. UNCHANGED cid
    BY DEF ReserveID
  <2> QED BY <2>1, <2>2, <2>3, <2>4 DEF BrokerInvariant, IdsIssued
<1>2. ConnectionsOwned'
  BY DEF BrokerInvariant, ConnectionsOwned, TypeOK, ReserveID, maps, Live
<1>3. ClosedByCleanup'
  BY DEF BrokerInvariant, ClosedByCleanup, TypeOK, ReserveID, chanVars
<1> QED
  BY <1>1, <1>2, <1>3
     DEF BrokerInvariant, ReserveID, maps, chanVars, pubVars, Live,
         SessionsExact, UsersCovered, RoutesUnderLock, NoSendOnClosed

\* Removing the last connection of a session, and only the last one, takes the
\* session out of the user index: nobody else's route is lost.
LEMMA RemoveIndexes ==
    ASSUME BrokerInvariant, NEW i \in Ids, connections[i] # Nil, RemoveConnection(i)
    PROVE  SessionsExact' /\ UsersCovered'
<1> DEFINE s == connections[i].session
           u == connections[i].user
<1>1. /\ connections \in [Ids -> Conn \cup {Nil}]
      /\ sessions \in [Sessions -> SUBSET Ids]
      /\ users \in [Users -> SUBSET Sessions]
      /\ SessionsExact
      /\ UsersCovered
  BY DEF BrokerInvariant, TypeOK
<1>2. s \in Sessions /\ u \in Users
  BY <1>1, ConnType
<1>3. /\ connections' = [connections EXCEPT ![i] = Nil]
      /\ sessions' = [sessions EXCEPT ![s] = @ \ {i}]
      /\ users' = IF AtMostOne(sessions[s]) THEN [users EXCEPT ![u] = @ \ {s}]
                                           ELSE users
      /\ unindexed' = unindexed \ {i}
  BY DEF RemoveConnection
<1>4. /\ Live' = Live \ {i}
      /\ \A j \in Live' : connections'[j] = connections[j] /\ connections[j] \in Conn
  BY <1>1, <1>3 DEF Live
<1>5. SessionsExact'
  BY <1>1, <1>2, <1>3, <1>4 DEF SessionsExact
<1>6. ASSUME NEW j \in Live' \ unindexed'
      PROVE  connections'[j].session \in users'[connections'[j].user]
  <2>1. /\ connections[j].session \in users[connections[j].user]
        /\ connections[j].user \in Users
        /\ connections[j].session \in Sessions
        /\ j # i /\ j \in Live
    <3>1. j # i /\ j \in Live /\ j \notin unindexed /\ connections[j] \in Conn
      BY <1>3, <1>4, <1>6
    <3> QED BY <1>1, <3>1, ConnType DEF UsersCovered
  <2>2. CASE connections[j].session = s /\ connections[j].user = u
    <3>1. i \in sessions[s] /\ j \in sessions[s]
      BY <1>1, <1>2, <2>1, <2>2 DEF SessionsExact, Live
    <3>2. ~AtMostOne(sessions[s])
      BY <2>1, <3>1 DEF AtMostOne
    <3> QED BY <1>3, <1>4, <2>1, <3>2
  <2>3. CASE ~(connections[j].session = s /\ connections[j].user = u)
    <3> HIDE DEF s, u
    <3> QED BY <1>1, <1>2, <1>3, <1>4, <2>1, <2>3
  <2> QED BY <2>2, <2>3
<1> QED BY <1>5, <1>6 DEF UsersCovered

LEMMA CleanupInvariant ==
    ASSUME BrokerInvariant, NEW c \in Clients, Cleanup(c), TypeOK', IdsDistinct'
    PROVE  BrokerInvariant'
<1> DEFINE i == cid[c]
<1>1. /\ i \in Ids
      /\ stage[c] # "new"
      /\ stage' = [stage EXCEPT ![c] = "done"]
      /\ UNCHANGED <<cid, nextID, todo, call>>
      /\ stage \in [Clients -> {"new", "allocated", "registered", "open", "done"}]
  BY DEF BrokerInvariant, TypeOK, Cleanup, pubVars
<1>2. IdsIssued'
  BY <1>1 DEF BrokerInvariant, IdsIssued
<1>3. RoutesUnderLock' /\ NoSendOnClosed'
  BY <1>1, WriterAlone DEF Cleanup, RemoveConnection
<1>4. CASE connections[i] = Nil
  <2>1. UNCHANGED <<maps, closed>>
    BY <1>4 DEF Cleanup, RemoveConnection
  <2>2. ConnectionsOwned'
    BY <1>1, <1>4, <2>1 DEF BrokerInvariant, ConnectionsOwned, Live, maps, TypeOK
  <2>3. ClosedByCleanup'
    BY <1>1, <2>1 DEF BrokerInvariant, ClosedByCleanup, TypeOK
  <2>4. SessionsExact' /\ UsersCovered'
    BY <2>1 DEF BrokerInvariant, SessionsExact, UsersCovered, Live, maps
  <2> QED BY <1>2, <1>3, <2>2, <2>3, <2>4 DEF BrokerInvariant
<1>5. CASE connections[i] # Nil
  <2>1. connections[i].ch = c
    BY <1>1, <1>5, Owner DEF BrokerInvariant, IdsDistinct
  <2>2. /\ closed' = closed \cup {c}
        /\ connections' = [connections EXCEPT ![i] = Nil]
    BY <1>5, <2>1 DEF Cleanup, RemoveConnection
  <2>3. ConnectionsOwned'
    <3> SUFFICES ASSUME NEW j \in Live'
                 PROVE  LET d == connections'[j].ch IN
                        cid'[d] = j /\ stage'[d] \in {"registered", "open"}
      BY DEF ConnectionsOwned
    <3>1. j # i /\ j \in Ids /\ connections[j] # Nil /\ connections'[j] = connections[j]
      BY <1>1, <2>2 DEF Live, BrokerInvariant, TypeOK
    <3>2. PICK d \in Clients : /\ connections[j].ch = d
                               /\ cid[d] = j
                               /\ stage[d] \in {"registered", "open"}
      BY <3>1, Owner
    <3>3. d # c
      BY <3>1, <3>2
    <3> QED BY <1>1, <3>1, <3>2, <3>3
  <2>4. ClosedByCleanup'
    BY <1>1, <2>2 DEF BrokerInvariant, ClosedByCleanup, TypeOK
  <2>5. SessionsExact' /\ UsersCovered'
    BY <1>1, <1>5, RemoveIndexes DEF Cleanup
  <2> QED BY <1>2, <1>3, <2>3, <2>4, <2>5 DEF BrokerInvariant
<1> QED BY <1>4, <1>5

\* What a re-association leaves alone.
LEMMA ReassociateFrame ==
    ASSUME BrokerInvariant, WriteLocked, UNCHANGED <<clientVars, chanVars, pubVars>>,
           \A j \in Ids : connections'[j] # Nil =>
               connections[j] # Nil /\ connections'[j].ch = connections[j].ch
    PROVE  /\ IdsIssued' /\ ConnectionsOwned' /\ ClosedByCleanup'
           /\ RoutesUnderLock' /\ NoSendOnClosed'
<1>1. IdsIssued' /\ ClosedByCleanup'
  BY DEF BrokerInvariant, IdsIssued, ClosedByCleanup, clientVars, chanVars
<1>2. ConnectionsOwned'
  BY DEF BrokerInvariant, ConnectionsOwned, Live, clientVars
<1>3. RoutesUnderLock' /\ NoSendOnClosed'
  BY WriterAlone DEF pubVars
<1> QED BY <1>1, <1>2, <1>3

LEMMA RotateInvariant ==
    ASSUME ProperSessions, BrokerInvariant, NEW i \in Ids, NEW s \in Sessions,
           UpdateConnectionSessionID(i, s), TypeOK', IdsDistinct'
    PROVE  BrokerInvariant'
<1> DEFINE o == connections[i].session
           u == connections[i].user
           moved == [connections[i] EXCEPT !.session = s]
<1>1. /\ connections \in [Ids -> Conn \cup {Nil}]
      /\ sessions \in [Sessions -> SUBSET Ids]
      /\ users \in [Users -> SUBSET Sessions]
      /\ SessionsExact
      /\ UsersCovered
      /\ connections[i] # Nil
  BY DEF BrokerInvariant, TypeOK, UpdateConnectionSessionID
<1>2. /\ o \in Sessions /\ u \in Users /\ o # s /\ o # NoSession
  BY <1>1, ConnType DEF UpdateConnectionSessionID, ProperSessions
<1>3. /\ connections' = [connections EXCEPT ![i] = moved]
      /\ sessions' = [sessions EXCEPT ![o] = @ \ {i}, ![s] = @ \cup {i}]
      /\ users' = IF u # NoUser THEN [users EXCEPT ![u] = @ \cup {s}] ELSE users
      /\ unindexed' = IF u # NoUser THEN unindexed \ {i} ELSE unindexed \cup {i}
  BY <1>2 DEF UpdateConnectionSessionID
<1>4. /\ moved.session = s /\ moved.user = u
      /\ moved.ch = connections[i].ch /\ moved # Nil
  BY <1>1, ConnUpdate, NilAssumption DEF Conn
<1>5. Live' = Live
  BY <1>1, <1>3, <1>4 DEF Live
<1> HIDE DEF moved, o, u
<1>6. SessionsExact'
  BY <1>1, <1>2, <1>3, <1>4, <1>5 DEF SessionsExact, Live, o
<1>7. UsersCovered'
  BY <1>1, <1>2, <1>3, <1>4, <1>5, ConnType DEF UsersCovered, Live
<1>8. \A j \in Ids : connections'[j] # Nil =>
          connections[j] # Nil /\ connections'[j].ch = connections[j].ch
  BY <1>1, <1>3, <1>4
<1> QED
  BY <1>6, <1>7, <1>8, ReassociateFrame DEF BrokerInvariant, UpdateConnectionSessionID

\* A page change touches neither index nor what they are keyed by.
LEMMA PageInvariant ==
    ASSUME BrokerInvariant, TypeOK', IdsDistinct', NEW I \in SUBSET Live, NEW pg \in Pages,
           WriteLocked,
           connections' = [j \in Ids |-> IF j \in I
                              THEN [connections[j] EXCEPT !.page = pg]
                              ELSE connections[j]],
           UNCHANGED <<sessions, users, unindexed, clientVars, chanVars, pubVars>>
    PROVE  BrokerInvariant'
<1>1. \A j \in Ids :
          /\ connections[j] = Nil => connections'[j] = Nil
          /\ connections[j] # Nil =>
                /\ connections'[j] # Nil
                /\ connections'[j].session = connections[j].session
                /\ connections'[j].user = connections[j].user
                /\ connections'[j].ch = connections[j].ch
  <2> SUFFICES ASSUME NEW j \in Ids, connections[j] # Nil
               PROVE  /\ connections'[j] # Nil
                      /\ connections'[j].session = connections[j].session
                      /\ connections'[j].user = connections[j].user
                      /\ connections'[j].ch = connections[j].ch
    BY DEF Live
  <2>1. connections[j] \in Conn
    BY DEF BrokerInvariant, TypeOK
  <2>2. CASE j \in I
    BY <2>1, <2>2, ConnUpdate, NilAssumption DEF Conn
  <2>3. CASE j \notin I
    BY <2>3
  <2> QED BY <2>2, <2>3
<1>2. Live' = Live
  BY <1>1 DEF Live
<1>3. SessionsExact' /\ UsersCovered'
  BY <1>1, <1>2 DEF BrokerInvariant, SessionsExact, UsersCovered, Live
<1> QED
  BY <1>1, <1>3, ReassociateFrame DEF BrokerInvariant

LEMMA RenameInvariant ==
    ASSUME BrokerInvariant, NEW r \in Renames,
           UpdateUserID(r[1], r[2]), TypeOK', IdsDistinct'
    PROVE  BrokerInvariant'
<1> DEFINE old == r[1]
           new == r[2]
<1>1. /\ connections \in [Ids -> Conn \cup {Nil}]
      /\ users \in [Users -> SUBSET Sessions]
      /\ SessionsExact
      /\ UsersCovered
  BY DEF BrokerInvariant, TypeOK
<1>2. old \in Users /\ new \in Users
  BY RoutingAssumption
<1>3. \A j \in Ids :
          /\ connections[j] = Nil => connections'[j] = Nil
          /\ connections[j] # Nil =>
                /\ connections'[j] # Nil
                /\ connections'[j].session = connections[j].session
                /\ connections'[j].user =
                      IF connections[j].user = old THEN new ELSE connections[j].user
                /\ connections'[j].ch = connections[j].ch
  <2> SUFFICES ASSUME NEW j \in Ids, connections[j] # Nil
               PROVE  /\ connections'[j] # Nil
                      /\ connections'[j].session = connections[j].session
                      /\ connections'[j].user =
                            IF connections[j].user = old THEN new
                                                         ELSE connections[j].user
                      /\ connections'[j].ch = connections[j].ch
    BY DEF UpdateUserID
  <2>1. connections[j] \in Conn
    BY <1>1
  <2>2. CASE connections[j].user = old
    <3>1. connections'[j] = [connections[j] EXCEPT !.user = new]
      BY <2>2 DEF UpdateUserID
    <3> QED BY <1>2, <2>1, <2>2, <3>1, ConnUpdate, NilAssumption DEF Conn
  <2>3. CASE connections[j].user # old
    BY <2>3 DEF UpdateUserID
  <2> QED BY <2>2, <2>3
<1>4. Live' = Live
  BY <1>3 DEF Live
<1>5. SessionsExact'
  BY <1>1, <1>3, <1>4 DEF SessionsExact, UpdateUserID, Live
<1>6. /\ old # new => users[old] \subseteq users'[new]
      /\ \A w \in Users \ {old} : users[w] \subseteq users'[w]
  BY <1>1, <1>2 DEF UpdateUserID
<1>9. unindexed' = IF old = new THEN unindexed \cup {j \in Live : connections[j].user = old}
                              ELSE unindexed
  BY DEF UpdateUserID
<1> HIDE DEF old, new
<1>7. UsersCovered'
  <2> SUFFICES ASSUME NEW j \in Live \ unindexed'
               PROVE  connections'[j].session \in users'[connections'[j].user]
    BY <1>4 DEF UsersCovered
  <2>1. /\ j \in Ids /\ connections[j] # Nil /\ connections[j] \in Conn
        /\ j \notin unindexed /\ j \in Live
        /\ old = new => connections[j].user # old
    BY <1>1, <1>9 DEF Live
  <2>2. /\ connections[j].session \in users[connections[j].user]
        /\ connections[j].user \in Users
    BY <1>1, <2>1, ConnType DEF UsersCovered
  <2> QED BY <1>3, <1>6, <2>1, <2>2
<1> QED
  BY <1>3, <1>5, <1>7, ReassociateFrame DEF BrokerInvariant, UpdateUserID

LEMMA PublishingInvariant ==
    ASSUME BrokerInvariant, TypeOK', IdsDistinct', NEW p \in Publishers,
           \/ \E a \in Calls : BeginPublish(p, a)
           \/ Send(p)
           \/ EndPublish(p)
    PROVE  BrokerInvariant'
<1>1. UNCHANGED <<maps, clientVars, closed>>
  BY DEF BeginPublish, Send, EndPublish, chanVars
<1>2. /\ IdsIssued' /\ ConnectionsOwned' /\ ClosedByCleanup'
      /\ SessionsExact' /\ UsersCovered'
  BY <1>1 DEF BrokerInvariant, IdsIssued, ConnectionsOwned, ClosedByCleanup,
              SessionsExact, UsersCovered, Live, maps, clientVars
<1>3. RoutesUnderLock' /\ NoSendOnClosed'
  <2>1. CASE \E a \in Calls : BeginPublish(p, a)
    <3> PICK a \in Calls : BeginPublish(p, a)
      BY <2>1
    <3>1. \A r \in Routes(a) : r.id \in Ids /\ connections[r.id] # Nil
      BY RoutesType DEF BrokerInvariant, Route
    <3>2. \A i \in Ids : connections[i] # Nil => connections[i].ch \notin closed
      BY Owner DEF BrokerInvariant, ClosedByCleanup
    <3>3. a # Nil
      BY CallsAssumption
    <3> QED
      BY <1>1, <3>1, <3>2, <3>3
         DEF BrokerInvariant, TypeOK, BeginPublish, RoutesUnderLock, NoSendOnClosed, maps
  <2>2. CASE Send(p)
    <3>1. /\ \A q \in Publishers : todo'[q] \subseteq todo[q]
          /\ UNCHANGED <<connections, closed, call>>
      BY Zenon, <1>1, <2>2 DEF BrokerInvariant, TypeOK, Send, maps
    <3> QED
      BY <3>1 DEF BrokerInvariant, RoutesUnderLock, NoSendOnClosed
  <2>3. CASE EndPublish(p)
    BY <1>1, <2>3
       DEF BrokerInvariant, TypeOK, EndPublish, RoutesUnderLock, NoSendOnClosed, maps
  <2> QED BY <2>1, <2>2, <2>3
<1> QED BY <1>2, <1>3 DEF BrokerInvariant

LEMMA ReassociatingInvariant ==
    ASSUME ProperSessions, BrokerInvariant, Reassociating, TypeOK', IdsDistinct'
    PROVE  BrokerInvariant'
<1>1. CASE \E i \in Ids, s \in Sessions : UpdateConnectionSessionID(i, s)
  BY <1>1, RotateInvariant
<1>2. CASE \E i \in Ids, pg \in Pages : UpdateConnectionPage(i, pg)
  <2> PICK i \in Ids, pg \in Pages : UpdateConnectionPage(i, pg)
    BY <1>2
  <2>1. /\ {i} \in SUBSET Live
        /\ connections \in [Ids -> Conn \cup {Nil}]
        /\ connections' = [connections EXCEPT ![i] = [connections[i] EXCEPT !.page = pg]]
    BY DEF BrokerInvariant, TypeOK, UpdateConnectionPage, Live
  <2>2. connections' = [j \in Ids |-> IF j \in {i}
                              THEN [connections[j] EXCEPT !.page = pg]
                              ELSE connections[j]]
    BY <2>1
  <2> QED BY <2>1, <2>2, PageInvariant DEF UpdateConnectionPage
<1>3. CASE \E s \in Sessions, pg \in Pages : UpdateSessionPage(s, pg)
  <2> PICK s \in Sessions, pg \in Pages : UpdateSessionPage(s, pg)
    BY <1>3
  <2> DEFINE I == {j \in Ids : j \in sessions[s] /\ connections[j] # Nil}
  <2>1. I \in SUBSET Live
    BY DEF Live
  <2>2. connections' = [j \in Ids |-> IF j \in I
                              THEN [connections[j] EXCEPT !.page = pg]
                              ELSE connections[j]]
    BY DEF UpdateSessionPage
  <2> HIDE DEF I
  <2> QED BY <2>1, <2>2, PageInvariant DEF UpdateSessionPage
<1>4. CASE \E r \in Renames : UpdateUserID(r[1], r[2])
  BY <1>4, RenameInvariant
<1> QED BY <1>1, <1>2, <1>3, <1>4 DEF Reassociating

LEMMA SubscribingInvariant ==
    ASSUME BrokerInvariant, Subscribing, TypeOK', IdsDistinct'
    PROVE  BrokerInvariant'
<1> PICK c \in Clients :
         \/ AllocateID(c)
         \/ ReserveID(c)
         \/ Cleanup(c)
         \/ \E g \in Grants :
               SubscribeOwn(c, g[1], g[2]) \/ SubscribeExternal(c, g[1], g[2])
  BY DEF Subscribing
<1>1. \A g \in Grants : g[1] \in Sessions /\ g[2] \in Users
  BY RoutingAssumption
<1> QED
  BY <1>1, AllocateInvariant, ReserveInvariant, CleanupInvariant,
     SubscribeOwnInvariant, SubscribeExternalInvariant

LEMMA ReceiveInvariant ==
    ASSUME BrokerInvariant, NEW c \in Clients, Receive(c), TypeOK', IdsDistinct'
    PROVE  BrokerInvariant'
BY DEF BrokerInvariant, Receive, maps, clientVars, pubVars, Live, IdsIssued,
       ConnectionsOwned, ClosedByCleanup, SessionsExact, UsersCovered,
       RoutesUnderLock, NoSendOnClosed

LEMMA NextInvariant ==
    ProperSessions => (BrokerInvariant /\ [Next]_vars /\ IdsDistinct' => BrokerInvariant')
<1> SUFFICES ASSUME ProperSessions, BrokerInvariant, [Next]_vars, IdsDistinct'
             PROVE  BrokerInvariant'
  OBVIOUS
<1>1. TypeOK'
  BY NextType DEF BrokerInvariant
<1>2. CASE Next
  BY <1>1, <1>2, SubscribingInvariant, ReassociatingInvariant, PublishingInvariant,
     ReceiveInvariant DEF Next, Publishing
<1>3. CASE UNCHANGED vars
  BY <1>3 DEF vars, BrokerInvariant, TypeOK, Live, IdsIssued, ConnectionsOwned,
              ClosedByCleanup, SessionsExact, UsersCovered, RoutesUnderLock,
              NoSendOnClosed
<1> QED BY <1>2, <1>3

\* A client's stage and id only move forward.
LEMMA ClientsMove ==
    ASSUME TypeOK, [Next]_vars
    PROVE  \A c \in Clients :
               \/ stage'[c] = stage[c] /\ cid'[c] = cid[c]
               \/ stage[c] = "new" /\ AllocateID(c)
               \/ /\ stage[c] = "new" /\ c \notin Primary
                  /\ cid'[c] = ExternalId[c] /\ stage'[c] = "registered"
                  /\ nextID' = nextID
               \/ /\ stage[c] \in {"allocated", "open", "done"} /\ cid'[c] = cid[c]
                  /\ stage'[c] \in {"open", "done"} /\ nextID' = nextID
               \/ stage[c] = "registered" /\ ReserveID(c) /\ cid'[c] = cid[c]
<1> SUFFICES ASSUME NEW c \in Clients
             PROVE  \/ stage'[c] = stage[c] /\ cid'[c] = cid[c]
                    \/ stage[c] = "new" /\ AllocateID(c)
                    \/ /\ stage[c] = "new" /\ c \notin Primary
                       /\ cid'[c] = ExternalId[c] /\ stage'[c] = "registered"
                       /\ nextID' = nextID
                    \/ /\ stage[c] \in {"allocated", "open", "done"} /\ cid'[c] = cid[c]
                       /\ stage'[c] \in {"open", "done"} /\ nextID' = nextID
                    \/ stage[c] = "registered" /\ ReserveID(c) /\ cid'[c] = cid[c]
  OBVIOUS
<1>1. CASE Subscribing
  <2> PICK d \in Clients :
           \/ AllocateID(d)
           \/ ReserveID(d)
           \/ Cleanup(d)
           \/ \E g \in Grants :
                 SubscribeOwn(d, g[1], g[2]) \/ SubscribeExternal(d, g[1], g[2])
    BY <1>1 DEF Subscribing
  <2>1. CASE AllocateID(d)
    BY <2>1 DEF AllocateID, TypeOK
  <2>2. CASE ReserveID(d)
    BY <2>2 DEF ReserveID, TypeOK
  <2>3. CASE Cleanup(d)
    BY <2>3 DEF Cleanup, TypeOK
  <2>4. CASE \E g \in Grants :
                SubscribeOwn(d, g[1], g[2]) \/ SubscribeExternal(d, g[1], g[2])
    BY <2>4 DEF SubscribeOwn, SubscribeExternal, TypeOK
  <2> QED BY <2>1, <2>2, <2>3, <2>4
<1>2. CASE UNCHANGED clientVars
  BY <1>2 DEF clientVars
<1> QED
  BY <1>1, <1>2
     DEF Next, Reassociating, Publishing, UpdateConnectionSessionID, UpdateConnectionPage,
         UpdateSessionPage, UpdateUserID, BeginPublish, Send, EndPublish, Receive, vars,
         clientVars

LEMMA SharedIdsStay == TypeOK /\ [Next]_vars /\ IdsDistinct' => IdsDistinct
<1> SUFFICES ASSUME TypeOK, [Next]_vars, IdsDistinct',
                    NEW c \in Clients, NEW d \in Clients,
                    c # d, stage[c] # "new", stage[d] # "new"
             PROVE  cid[c] # cid[d]
  BY DEF IdsDistinct
<1>1. ASSUME NEW e \in Clients, stage[e] # "new"
      PROVE  stage'[e] # "new" /\ cid'[e] = cid[e]
  <2>1. CASE ReserveID(e) /\ cid'[e] = cid[e]
    BY <2>1 DEF ReserveID, TypeOK
  <2> QED BY <1>1, <2>1, ClientsMove
<1> QED BY <1>1 DEF IdsDistinct

\* As long as no id has two subscriptions, ids, indexes, channels and locks stay
\* consistent through any interleaving of subscriptions of either kind, rotations,
\* renames, cleanups and publish calls (broker.go:98-231, 374-423).
THEOREM BrokerSafety == ProperSessions => (Spec => [](IdsDistinct => BrokerInvariant))
<1> SUFFICES ASSUME ProperSessions PROVE Spec => [](IdsDistinct => BrokerInvariant)
  OBVIOUS
<1> DEFINE J == TypeOK /\ (IdsDistinct => BrokerInvariant)
<1>1. Init => J
  BY InitInvariant DEF BrokerInvariant
<1>2. J /\ [Next]_vars => J'
  BY NextType, NextInvariant, SharedIdsStay
<1>3. J => (IdsDistinct => BrokerInvariant)
  OBVIOUS
<1> HIDE DEF J
<1> QED BY <1>1, <1>2, <1>3, PTL DEF Spec

\* The session index is exactly the inverse of the connections' sessions, whatever
\* mix of subscriptions, rotations, renames and cleanups came before.
THEOREM SessionIndexIsExact == ProperSessions => (Spec => []SessionIndexExact)
<1>1. (IdsDistinct => BrokerInvariant) => SessionIndexExact
  BY DEF BrokerInvariant, SessionIndexExact
<1> QED BY <1>1, BrokerSafety, PTL

\* Every connection stays reachable through the user index, but those that the
\* code itself left out: rotated while anonymous or renamed to the same id.
THEOREM UserIndexIsComplete == ProperSessions => (Spec => []UserIndexCovers)
<1>1. (IdsDistinct => BrokerInvariant) => UserIndexCovers
  BY DEF BrokerInvariant, UserIndexCovers
<1> QED BY <1>1, BrokerSafety, PTL

\* What the counter has issued or been told of is not above it.
Reserved == \A c \in Clients : stage[c] \notin {"new", "registered"} => cid[c] <= nextID

LEMMA StepReserved == TypeOK /\ Reserved /\ [Next]_vars => Reserved'
<1> SUFFICES ASSUME TypeOK, Reserved, [Next]_vars, NEW c \in Clients,
                    stage'[c] \notin {"new", "registered"}
             PROVE  cid'[c] <= nextID'
  BY DEF Reserved
<1>1. nextID \in Nat /\ \A d \in Clients : cid[d] \in Nat
  BY BoundsAssumption DEF TypeOK
<1>2. nextID' \in Nat /\ nextID <= nextID'
  <2>1. ASSUME NEW d \in Clients, AllocateID(d) \/ ReserveID(d)
        PROVE  nextID' \in Nat /\ nextID <= nextID'
    BY <1>1, <2>1 DEF AllocateID, ReserveID
  <2>2. CASE nextID' = nextID
    BY <1>1, <2>2
  <2> QED
    BY <2>1, <2>2
       DEF Next, Subscribing, Reassociating, Publishing, SubscribeOwn, SubscribeExternal,
           Cleanup, UpdateConnectionSessionID, UpdateConnectionPage, UpdateSessionPage,
           UpdateUserID, BeginPublish, Send, EndPublish, Receive, vars, clientVars
<1>3. CASE stage'[c] = stage[c] /\ cid'[c] = cid[c]
  BY <1>1, <1>2, <1>3 DEF Reserved
<1>4. CASE AllocateID(c)
  BY <1>1, <1>4 DEF AllocateID, TypeOK
<1>5. CASE stage[c] \in {"allocated", "open", "done"} /\ cid'[c] = cid[c]
  BY <1>1, <1>2, <1>5 DEF Reserved
<1>6. CASE ReserveID(c) /\ cid'[c] = cid[c]
  BY <1>1, <1>6 DEF ReserveID
<1> QED BY <1>3, <1>4, <1>5, <1>6, ClientsMove

\* No id is issued that was issued or reserved before, in any mix of own and
\* external subscriptions (broker.go:103-125).
THEOREM IdsAreNotReused == Spec => NoIDReuse
<1>1. Init => Reserved
  BY DEF Init, Reserved
<1>2. TypeOK /\ Reserved /\ [Next]_vars =>
        [\A c, d \in Clients :
            /\ stage[c] = "new" /\ stage'[c] = "allocated"
            /\ stage[d] \notin {"new", "registered"}
            => cid'[c] # cid[d]]_vars
  <2> SUFFICES ASSUME TypeOK, Reserved, [Next]_vars,
                      NEW c \in Clients, NEW d \in Clients,
                      stage[c] = "new", stage'[c] = "allocated",
                      stage[d] \notin {"new", "registered"}
               PROVE  cid'[c] # cid[d]
    OBVIOUS
  <2>1. AllocateID(c)
    BY ClientsMove
  <2>2. cid'[c] = nextID + 1 /\ nextID \in Nat /\ cid[d] \in Nat /\ cid[d] <= nextID
    BY <2>1, BoundsAssumption DEF AllocateID, TypeOK, Reserved
  <2> QED BY <2>2
<1> QED BY <1>1, <1>2, StepReserved, TypeCorrect, PTL DEF Spec, NoIDReuse

\* Where all clients subscribe in one way, their ids stay distinct.
LEMMA IdsStayDistinct ==
    ASSUME UniformStreams, BrokerInvariant, [Next]_vars
    PROVE  IdsDistinct'
<1> SUFFICES ASSUME NEW c \in Clients, NEW d \in Clients,
                    c # d, stage'[c] # "new", stage'[d] # "new"
             PROVE  cid'[c] # cid'[d]
  BY DEF IdsDistinct
<1>1. TypeOK /\ IdsDistinct /\ IdsIssued
  BY DEF BrokerInvariant
<1>2. nextID \in Nat /\ \A e \in Clients : cid[e] \in Nat
  BY <1>1, BoundsAssumption DEF TypeOK
<1>3. CASE Primary = Clients
  <2>1. \A e \in Clients :
            \/ AllocateID(e)
            \/ stage[e] # "new" /\ cid'[e] = cid[e]
            \/ stage'[e] = stage[e] /\ cid'[e] = cid[e]
    <3> TAKE e \in Clients
    <3> QED BY <1>1, <1>3, ClientsMove
  <2>2. ASSUME NEW e \in Clients, NEW f \in Clients, e # f, AllocateID(e), stage'[f] # "new"
        PROVE  cid'[e] # cid'[f]
    <3>1. cid'[e] = nextID + 1 /\ cid'[f] = cid[f] /\ stage[f] # "new"
      BY <1>1, <2>2 DEF AllocateID, TypeOK
    <3> QED BY <1>1, <1>2, <1>3, <3>1 DEF IdsIssued
  <2>3. CASE ~AllocateID(c) /\ ~AllocateID(d)
    BY <1>1, <2>1, <2>3 DEF IdsDistinct
  <2> QED BY <2>2, <2>3
<1>4. CASE Primary = {}
  <2>1. \A e \in Clients : stage'[e] # "new" => cid'[e] = ExternalId[e]
    BY <1>1, <1>4, ClientsMove DEF IdsIssued, AllocateID
  <2> QED BY <1>4, <2>1, ClientsAssumption
<1> QED BY <1>3, <1>4 DEF UniformStreams

\* With one kind of subscription the invariant needs no further condition.
THEOREM BrokerIsConsistent == Discipline => (Spec => []BrokerInvariant)
<1> SUFFICES ASSUME Discipline PROVE Spec => []BrokerInvariant
  OBVIOUS
<1>1. BrokerInvariant /\ [Next]_vars => BrokerInvariant'
  BY NextInvariant, IdsStayDistinct DEF Discipline
<1> QED BY <1>1, InitInvariant, PTL DEF Spec

\* No publish call sends on a closed channel.
THEOREM NeverSendsOnClosed == Discipline => (Spec => []NoSendOnClosed)
<1>1. BrokerInvariant => NoSendOnClosed
  BY DEF BrokerInvariant
<1> QED BY <1>1, BrokerIsConsistent, PTL

-----------------------------------------------------------------------------
(* Delivery *)

\* What delivery assumes beyond Discipline: a session belongs to one user, who
\* keeps his id.  Where two users share a session the broker offers an event
\* for both twice, and one for the first to the second.
OneOwner == Renames = {} /\ \A g, h \in Grants : g[1] = h[1] => g[2] = h[2]

\* Connections and user index hold only what the HTTP layer presented, and only
\* anonymous connections are left out of the index.
Granted ==
    /\ \A i \in Live : <<connections[i].session, connections[i].user>> \in Grants
    /\ \A u \in Users : \A s \in users[u] : <<s, u>> \in Grants
    /\ \A i \in Live \cap unindexed : connections[i].user = NoUser

\* A connection is met once in the nested loops.
OneRoute == \A p \in Publishers : \A r, q \in todo[p] : r.id = q.id => r = q

DeliveryInvariant == BrokerInvariant /\ Granted /\ UserScopedDelivery /\ OneRoute

\* The log of a client: what it has received and what waits for it.
Log(c) == got[c] \o buf[c]

\* Nothing in a log is newer than what has been published, and a publisher that
\* has a connection still to serve has put nothing of this call in its log.
OrderedLog(c) ==
    /\ \A j, k \in 1..Len(Log(c)) :
          j < k /\ Log(c)[j].by = Log(c)[k].by => Log(c)[j].n < Log(c)[k].n
    /\ \A k \in 1..Len(Log(c)) :
          /\ Log(c)[k].n <= sent[Log(c)[k].by]
          /\ \A r \in todo[Log(c)[k].by] :
                connections[r.id].ch = c => Log(c)[k].n < sent[Log(c)[k].by]

Ordered == \A c \in Clients : OrderedLog(c)

LEMMA InitDelivery == Init => DeliveryInvariant
BY InitInvariant DEF Init, DeliveryInvariant, Granted, UserScopedDelivery, OneRoute, Live

\* A writer finds no route pending.
LEMMA WriterFindsNoRoute ==
    ASSUME BrokerInvariant, WriteLocked
    PROVE  \A p \in Publishers : todo[p] = {}
BY DEF BrokerInvariant, RoutesUnderLock, WriteLocked, Reading

LEMMA WriterDelivers ==
    ASSUME BrokerInvariant, WriteLocked, UNCHANGED todo
    PROVE  UserScopedDelivery' /\ OneRoute'
BY WriterFindsNoRoute DEF UserScopedDelivery, OneRoute

LEMMA RegisterGranted ==
    ASSUME BrokerInvariant, Granted, NEW c \in Clients, NEW i \in Ids, NEW g \in Grants,
           Register(c, i, g[1], g[2])
    PROVE  Granted'
<1> DEFINE new == [session |-> g[1], user |-> g[2], page |-> NoPage, ch |-> c]
<1>1. /\ connections' = [connections EXCEPT ![i] = new]
      /\ users' = [users EXCEPT ![g[2]] = @ \cup {g[1]}]
      /\ unindexed' = unindexed \ {i}
  BY DEF Register
<1>2. new.session = g[1] /\ new.user = g[2] /\ g = <<g[1], g[2]>>
  BY RoutingAssumption
<1> HIDE DEF new
<1>3. /\ connections \in [Ids -> Conn \cup {Nil}]
      /\ users \in [Users -> SUBSET Sessions]
  BY DEF BrokerInvariant, TypeOK
<1>4. \A j \in Live' : <<connections'[j].session, connections'[j].user>> \in Grants
  BY <1>1, <1>2, <1>3 DEF Granted, Live
<1>5. \A u \in Users : \A s \in users'[u] : <<s, u>> \in Grants
  BY <1>1, <1>2, <1>3 DEF Granted
<1>6. \A j \in Live' \cap unindexed' : connections'[j].user = NoUser
  BY <1>1, <1>3 DEF Granted, Live
<1> QED BY <1>4, <1>5, <1>6 DEF Granted

LEMMA SubscribingDelivery ==
    ASSUME DeliveryInvariant, Subscribing
    PROVE  Granted' /\ UserScopedDelivery' /\ OneRoute'
<1>1. BrokerInvariant /\ Granted /\ UserScopedDelivery /\ OneRoute
  BY DEF DeliveryInvariant
<1> PICK c \in Clients :
         \/ AllocateID(c)
         \/ ReserveID(c)
         \/ Cleanup(c)
         \/ \E g \in Grants :
               SubscribeOwn(c, g[1], g[2]) \/ SubscribeExternal(c, g[1], g[2])
  BY DEF Subscribing
<1>2. CASE AllocateID(c) \/ ReserveID(c)
  BY <1>1, <1>2 DEF AllocateID, ReserveID, maps, pubVars, Granted, UserScopedDelivery,
                    OneRoute, Live
<1>3. CASE Cleanup(c)
  <2>1. cid[c] \in Ids /\ RemoveConnection(cid[c]) /\ UNCHANGED todo
    BY <1>1, <1>3 DEF BrokerInvariant, TypeOK, Cleanup, pubVars
  <2>2. \A j \in Ids : connections'[j] = Nil \/ connections'[j] = connections[j]
    BY <1>1, <2>1 DEF BrokerInvariant, TypeOK, RemoveConnection, maps
  <2>3. \A u \in Users : users'[u] \subseteq users[u]
    <3> DEFINE conn == connections[cid[c]]
    <3>1. users' = users \/ users' = [users EXCEPT ![conn.user] = @ \ {conn.session}]
      BY <2>1 DEF RemoveConnection, maps
    <3> HIDE DEF conn
    <3> QED BY <1>1, <3>1 DEF BrokerInvariant, TypeOK
  <2>5. unindexed' \subseteq unindexed
    BY <2>1 DEF RemoveConnection, maps
  <2>4. Granted'
    BY <1>1, <2>2, <2>3, <2>5 DEF Granted, Live
  <2> QED BY <1>1, <2>1, <2>4, WriterDelivers DEF RemoveConnection
<1>4. CASE \E g \in Grants : SubscribeOwn(c, g[1], g[2]) \/ SubscribeExternal(c, g[1], g[2])
  <2> PICK g \in Grants : SubscribeOwn(c, g[1], g[2]) \/ SubscribeExternal(c, g[1], g[2])
    BY <1>4
  <2>1. PICK k \in Ids : Register(c, k, g[1], g[2])
    <3>1. stage[c] # "new" => cid[c] \in Ids
      BY <1>1 DEF BrokerInvariant, TypeOK
    <3>2. c \notin Primary => ExternalId[c] \in Ids
      BY ClientsAssumption
    <3>3. CASE SubscribeOwn(c, g[1], g[2])
      BY <3>1, <3>3 DEF SubscribeOwn
    <3>4. CASE SubscribeExternal(c, g[1], g[2])
      BY <3>2, <3>4 DEF SubscribeExternal
    <3> QED BY <3>3, <3>4
  <2>2. UNCHANGED todo
    BY DEF SubscribeOwn, SubscribeExternal, pubVars
  <2> QED BY <1>1, <2>1, <2>2, RegisterGranted, WriterDelivers DEF Register
<1> QED BY <1>2, <1>3, <1>4

LEMMA ReassociatingDelivery ==
    ASSUME OneOwner, DeliveryInvariant, BrokerInvariant', Reassociating
    PROVE  Granted' /\ UserScopedDelivery' /\ OneRoute'
<1>1. /\ BrokerInvariant /\ Granted /\ UserScopedDelivery /\ OneRoute
      /\ connections \in [Ids -> Conn \cup {Nil}]
      /\ users \in [Users -> SUBSET Sessions]
  BY DEF DeliveryInvariant, BrokerInvariant, TypeOK
<1>2. WriteLocked /\ UNCHANGED todo
  BY DEF Reassociating, UpdateConnectionSessionID, UpdateConnectionPage, UpdateSessionPage,
         UpdateUserID, pubVars
<1>3. Granted'
  <2>1. CASE \E i \in Ids, s \in Sessions :
                /\ connections[i] # Nil => <<s, connections[i].user>> \in Grants
                /\ UpdateConnectionSessionID(i, s)
    <3> PICK i \in Ids, s \in Sessions :
                /\ connections[i] # Nil => <<s, connections[i].user>> \in Grants
                /\ UpdateConnectionSessionID(i, s)
      BY <2>1
    <3> DEFINE u == connections[i].user
               moved == [connections[i] EXCEPT !.session = s]
    <3>1. /\ connections' = [connections EXCEPT ![i] = moved]
          /\ users' = users \/ users' = [users EXCEPT ![u] = @ \cup {s}]
          /\ <<s, u>> \in Grants /\ connections[i] \in Conn
          /\ unindexed' = IF u # NoUser THEN unindexed \ {i} ELSE unindexed \cup {i}
      BY <1>1 DEF UpdateConnectionSessionID
    <3>2. moved.session = s /\ moved.user = u
      BY <3>1 DEF Conn
    <3> HIDE DEF moved, u
    <3>3. \A j \in Live' : <<connections'[j].session, connections'[j].user>> \in Grants
      BY <1>1, <3>1, <3>2 DEF Granted, Live
    <3>4. \A w \in Users : \A t \in users'[w] : <<t, w>> \in Grants
      BY <1>1, <3>1 DEF Granted
    <3>5. \A j \in Live' \cap unindexed' : connections'[j].user = NoUser
      <4> TAKE j \in Live' \cap unindexed'
      <4>1. CASE j = i
        BY <1>1, <3>1, <3>2, <4>1 DEF u
      <4>2. CASE j # i
        BY <1>1, <3>1, <4>2 DEF Granted, Live
      <4> QED BY <4>1, <4>2
    <3> QED BY <3>3, <3>4, <3>5 DEF Granted
  <2>2. CASE \/ \E i \in Ids, pg \in Pages : UpdateConnectionPage(i, pg)
             \/ \E s \in Sessions, pg \in Pages : UpdateSessionPage(s, pg)
    <3>1. PICK pg \in Pages : \A j \in Ids :
              \/ connections'[j] = connections[j]
              \/ connections[j] # Nil /\ connections'[j] = [connections[j] EXCEPT !.page = pg]
      BY <1>1, <2>2 DEF UpdateConnectionPage, UpdateSessionPage
    <3>2. \A j \in Ids : connections[j] # Nil =>
              /\ connections'[j].session = connections[j].session
              /\ connections'[j].user = connections[j].user
      BY <1>1, <3>1 DEF Conn
    <3>3. Live' \subseteq Live /\ UNCHANGED <<users, unindexed>>
      BY <2>2, <3>1 DEF Live, UpdateConnectionPage, UpdateSessionPage
    <3> QED BY <1>1, <3>2, <3>3 DEF Granted, Live
  <2> QED BY <2>1, <2>2 DEF Reassociating, OneOwner
<1> QED BY <1>1, <1>2, <1>3, WriterDelivers

\* What a publish call selects through the indexes, and through which entry.
LEMMA IndexedRoutesSound ==
    ASSUME OneOwner, BrokerInvariant, Granted, NEW us, NEW active, NEW f,
           NEW r \in IndexedRoutes(us, active, f)
    PROVE  /\ connections[r.id] # Nil /\ r.id \in Ids
           /\ r.via = <<connections[r.id].user, connections[r.id].session>>
<1>1. /\ r \in Route /\ r.via # Nil
      /\ r.via[2] \in users[r.via[1]]
      /\ r.id \in sessions[r.via[2]] \cap Live
  BY DEF IndexedRoutes
<1>2. PICK u \in Users, s \in Sessions : r.via = <<u, s>>
  BY <1>1 DEF Route
<1>3. connections[r.id].session = s /\ r.id \in Live
  BY <1>1, <1>2 DEF BrokerInvariant, SessionsExact
<1>4. <<s, u>> \in Grants /\ <<s, connections[r.id].user>> \in Grants
  BY <1>1, <1>2, <1>3 DEF Granted
<1>5. connections[r.id].user = u
  BY <1>4 DEF OneOwner
<1> QED BY <1>2, <1>3, <1>5 DEF Live

LEMMA RoutesSound ==
    ASSUME OneOwner, BrokerInvariant, Granted, NEW a \in Calls
    PROVE  /\ \A r \in Routes(a) :
                 /\ connections[r.id] # Nil
                 /\ r.via = Nil \/ r.via = <<connections[r.id].user, connections[r.id].session>>
           /\ \A r, q \in Routes(a) : r.id = q.id => r = q
<1>1. CASE a.to = "users"
  <2>1. Routes(a) = IndexedRoutes(a.users, a.active, a.filter)
    BY <1>1 DEF Routes
  <2>2. Routes(a) \subseteq Route
    BY RoutesType DEF BrokerInvariant
  <2>3. \A r \in Routes(a) :
            /\ connections[r.id] # Nil
            /\ r.via = <<connections[r.id].user, connections[r.id].session>>
    BY <2>1, IndexedRoutesSound
  <2>4. \A r, q \in Routes(a) : r.id = q.id => r = q
    BY <2>2, <2>3 DEF Route
  <2> QED BY <2>3, <2>4
<1>2. CASE a.to # "users"
  <2>1. PICK I : Routes(a) = DirectRoutes(I)
    BY <1>2, CallsAssumption DEF Routes, Call
  <2> QED BY <2>1 DEF DirectRoutes, Live
<1> QED BY <1>1, <1>2

LEMMA PublishingDelivery ==
    ASSUME OneOwner, DeliveryInvariant, NEW p \in Publishers,
           \/ \E a \in Calls : BeginPublish(p, a)
           \/ Send(p)
           \/ EndPublish(p)
    PROVE  Granted' /\ UserScopedDelivery' /\ OneRoute'
<1>1. BrokerInvariant /\ Granted /\ UserScopedDelivery /\ OneRoute
  BY SMTT(40) DEF DeliveryInvariant
<1>2. UNCHANGED maps
  BY DEF BeginPublish, Send, EndPublish
<1>3. Granted'
  BY <1>1, <1>2 DEF Granted, Live, maps
<1>4. CASE \E a \in Calls : BeginPublish(p, a)
  <2> PICK a \in Calls : BeginPublish(p, a)
    BY <1>4
  <2>1. \A q \in Publishers : todo'[q] = IF q = p THEN Routes(a) ELSE todo[q]
    BY <1>1 DEF BeginPublish, BrokerInvariant, TypeOK
  <2>2. OneRoute'
    BY <1>1, <2>1, RoutesSound DEF OneRoute
  <2>3. UserScopedDelivery'
    BY <1>1, <1>2, <2>1, RoutesSound DEF UserScopedDelivery, maps
  <2> QED BY <1>3, <2>2, <2>3
<1>5. CASE Send(p) \/ EndPublish(p)
  <2>1. \A q \in Publishers : todo'[q] \subseteq todo[q]
    BY Zenon, <1>1, <1>5 DEF Send, EndPublish, BrokerInvariant, TypeOK
  <2> QED BY <1>1, <1>2, <1>3, <2>1 DEF UserScopedDelivery, OneRoute, maps
<1> QED BY <1>4, <1>5

LEMMA NextDelivery ==
    Discipline /\ OneOwner => (DeliveryInvariant /\ [Next]_vars => DeliveryInvariant')
<1> SUFFICES ASSUME Discipline, OneOwner, DeliveryInvariant, [Next]_vars
             PROVE  DeliveryInvariant'
  OBVIOUS
<1>1. BrokerInvariant'
  BY NextInvariant, IdsStayDistinct DEF DeliveryInvariant, Discipline
<1>2. CASE Subscribing \/ Reassociating \/ Publishing
  BY <1>1, <1>2, SubscribingDelivery, ReassociatingDelivery, PublishingDelivery
     DEF Publishing, DeliveryInvariant
<1>3. CASE (\E c \in Clients : Receive(c)) \/ UNCHANGED vars
  <2>1. UNCHANGED <<connections, users, unindexed, todo>>
    BY <1>3 DEF Receive, vars, maps, pubVars
  <2>2. Granted' /\ UserScopedDelivery' /\ OneRoute'
    BY <2>1 DEF DeliveryInvariant, Granted, UserScopedDelivery, OneRoute, Live
  <2> QED BY <1>1, <2>2 DEF DeliveryInvariant
<1> QED BY <1>2, <1>3 DEF Next

\* With one owner per session, an event for users is offered to nobody else.
THEOREM DeliveryIsUserScoped == Discipline /\ OneOwner => (Spec => []UserScopedDelivery)
<1> SUFFICES ASSUME Discipline, OneOwner PROVE Spec => []UserScopedDelivery
  OBVIOUS
<1>1. DeliveryInvariant /\ [Next]_vars => DeliveryInvariant'
  BY NextDelivery
<1>2. DeliveryInvariant => UserScopedDelivery
  BY DEF DeliveryInvariant
<1> QED BY <1>1, <1>2, InitDelivery, PTL DEF Spec
-----------------------------------------------------------------------------
(* Order *)

\* The n-th event of a client, wherever it is.
LEMMA LogType ==
    ASSUME TypeOK, NEW c \in Clients
    PROVE  /\ got[c] \in Seq(Event) /\ buf[c] \in Seq(Event)
           /\ Log(c) \in Seq(Event)
           /\ Len(Log(c)) \in Nat
           /\ \A k \in 1..Len(Log(c)) :
                 /\ Log(c)[k] \in Event
                 /\ Log(c)[k].by \in Publishers
                 /\ Log(c)[k].n \in Nat
<1>1. got[c] \in Seq(Event) /\ buf[c] \in Seq(Event)
  BY DEF TypeOK
<1>2. Log(c) \in Seq(Event)
  BY <1>1, ConcatProperties DEF Log
<1> HIDE DEF Log
<1>3. \A e \in Event : e.by \in Publishers /\ e.n \in Nat
  BY BoundsAssumption DEF Event
<1> QED BY <1>1, <1>2, <1>3

\* Receiving moves an event from one part of the log to the other.
LEMMA ReceiveKeepsLog ==
    ASSUME NEW S, NEW g \in Seq(S), NEW b \in Seq(S), b # <<>>
    PROVE  Append(g, Head(b)) \o Tail(b) = g \o b
<1>1. Head(b) \in S /\ Tail(b) \in Seq(S) /\ <<Head(b)>> \in Seq(S)
  BY HeadTailProperties
<1>2. Append(g, Head(b)) = g \o <<Head(b)>>
  BY <1>1, AppendIsConcat
<1>3. <<Head(b)>> \o Tail(b) = b
  BY <1>1
<1>4. (g \o <<Head(b)>>) \o Tail(b) = g \o (<<Head(b)>> \o Tail(b))
  BY <1>1, ConcatAssociative
<1> QED BY <1>2, <1>3, <1>4

\* A send puts the event at the end of the log.
LEMMA SendExtendsLog ==
    ASSUME NEW S, NEW g \in Seq(S), NEW b \in Seq(S), NEW e \in S
    PROVE  g \o Append(b, e) = Append(g \o b, e)
<1>1. Append(b, e) = b \o <<e>> /\ Append(g \o b, e) = (g \o b) \o <<e>>
  BY AppendIsConcat, ConcatProperties
<1>2. <<e>> \in Seq(S)
  OBVIOUS
<1> QED BY <1>1, <1>2, ConcatAssociative

LEMMA OrderedLogStays ==
    ASSUME TypeOK, NEW c \in Clients, OrderedLog(c), Log(c)' = Log(c),
           \A p \in Publishers :
              /\ \/ sent'[p] = sent[p]
                 \/ sent'[p] = sent[p] + 1
              /\ \/ sent'[p] = sent[p] + 1
                 \/ \A r \in todo'[p] : r \in todo[p] /\ connections'[r.id] = connections[r.id]
    PROVE  OrderedLog(c)'
<1>1. \A p \in Publishers : sent[p] \in Nat
  BY BoundsAssumption DEF TypeOK
<1> DEFINE L == Log(c)
<1>2. \A k \in 1..Len(L) : L[k].by \in Publishers /\ L[k].n \in Nat
  BY LogType
<1>3. /\ \A j, k \in 1..Len(L) : j < k /\ L[j].by = L[k].by => L[j].n < L[k].n
      /\ \A k \in 1..Len(L) :
            /\ L[k].n <= sent[L[k].by]
            /\ \A r \in todo[L[k].by] : connections[r.id].ch = c => L[k].n < sent[L[k].by]
  BY DEF OrderedLog
<1> HIDE DEF L
<1>4. \A k \in 1..Len(L) :
         /\ L[k].n <= sent'[L[k].by]
         /\ \A r \in todo'[L[k].by] : connections'[r.id].ch = c => L[k].n < sent'[L[k].by]
  <2> SUFFICES ASSUME NEW k \in 1..Len(L), NEW p \in Publishers, p = L[k].by
               PROVE  /\ L[k].n <= sent'[p]
                      /\ \A r \in todo'[p] : connections'[r.id].ch = c => L[k].n < sent'[p]
    BY <1>2
  <2>1. /\ L[k].n \in Nat /\ sent[p] \in Nat /\ L[k].n <= sent[p]
        /\ \A r \in todo[p] : connections[r.id].ch = c => L[k].n < sent[p]
    BY <1>1, <1>2, <1>3
  <2>2. CASE sent'[p] = sent[p] + 1
    BY <2>1, <2>2
  <2>3. CASE sent'[p] # sent[p] + 1
    <3>1. /\ sent'[p] = sent[p]
          /\ \A r \in todo'[p] : r \in todo[p] /\ connections'[r.id] = connections[r.id]
      BY <2>3
    <3> QED BY <2>1, <3>1
  <2> QED BY <2>2, <2>3
<1>5. Log(c)' = L
  BY DEF L
<1> QED BY <1>3, <1>4, <1>5 DEF OrderedLog

\* Two routes that lead to one channel are one route.
LEMMA OneChannelOneRoute ==
    ASSUME DeliveryInvariant, NEW p \in Publishers, NEW r \in todo[p], NEW q \in todo[p],
           connections[r.id].ch = connections[q.id].ch
    PROVE  r = q
<1>1. r.id \in Live /\ q.id \in Live
  BY DEF DeliveryInvariant, BrokerInvariant, NoSendOnClosed, TypeOK, Route, Live
<1>2. r.id = q.id
  BY <1>1 DEF DeliveryInvariant, BrokerInvariant, ConnectionsOwned
<1> QED BY <1>2 DEF DeliveryInvariant, OneRoute

LEMMA SendOrder ==
    ASSUME DeliveryInvariant, Ordered, NEW p \in Publishers, Send(p), NEW c \in Clients
    PROVE  OrderedLog(c)'
<1>1. TypeOK /\ OrderedLog(c)
  BY DEF Ordered, DeliveryInvariant, BrokerInvariant
<1>2. PICK r \in todo[p] :
          /\ buf' = IF Len(buf[connections[r.id].ch]) < BufSize
                    THEN [buf EXCEPT ![connections[r.id].ch] = Append(@, [by |-> p, n |-> sent[p]])]
                    ELSE buf
          /\ todo' = [todo EXCEPT ![p] = @ \ {r}]
  BY DEF Send
<1>3. UNCHANGED <<connections, sent, got>>
  BY DEF Send, maps
<1>4. \A q \in Publishers : todo'[q] \subseteq todo[q]
  BY <1>1, <1>2 DEF TypeOK
<1>5. CASE Log(c)' = Log(c)
  BY <1>1, <1>3, <1>4, <1>5, OrderedLogStays
<1>6. CASE Log(c)' # Log(c)
  <2> DEFINE e == [by |-> p, n |-> sent[p]]
  <2>1. connections[r.id].ch = c /\ buf' = [buf EXCEPT ![c] = Append(@, e)]
    BY Zenon, <1>1, <1>2, <1>3, <1>6 DEF Log, TypeOK
  <2>2. e \in Event /\ e.by = p /\ e.n = sent[p] /\ sent[p] \in Nat
    BY <1>1, BoundsAssumption DEF TypeOK, Event
  <2> HIDE DEF e
  <2>3. Log(c)' = Append(Log(c), e)
    BY SMTT(40), <1>1, <1>3, <2>1, <2>2, LogType, SendExtendsLog DEF Log, TypeOK
  <2>4. \A q \in todo'[p] : connections[q.id].ch # c
    BY <1>1, <1>2, <2>1, OneChannelOneRoute DEF TypeOK
  <2> DEFINE L == Log(c)
             m == Len(L)
  <2>5. /\ L \in Seq(Event) /\ m \in Nat
        /\ \A k \in 1..m : L[k].by \in Publishers /\ L[k].n \in Nat
    BY <1>1, LogType
  <2>6. /\ \A j, k \in 1..m : j < k /\ L[j].by = L[k].by => L[j].n < L[k].n
        /\ \A k \in 1..m :
              /\ L[k].n <= sent[L[k].by]
              /\ L[k].by = p => L[k].n < sent[p]
              /\ \A q \in todo[L[k].by] : connections[q.id].ch = c => L[k].n < sent[L[k].by]
    BY <1>1, <2>1 DEF OrderedLog
  <2> HIDE DEF L
  <2>7. /\ Len(Append(L, e)) = m + 1
        /\ Append(L, e)[m + 1] = e
        /\ \A k \in 1..m : Append(L, e)[k] = L[k]
    BY <2>5
  <2>8. Log(c)' = Append(L, e)
    BY <2>3 DEF L
  <2>9. \A j, k \in 1..(m + 1) :
           j < k /\ Append(L, e)[j].by = Append(L, e)[k].by => Append(L, e)[j].n < Append(L, e)[k].n
    <3> SUFFICES ASSUME NEW j \in 1..(m + 1), NEW k \in 1..(m + 1), j < k,
                        Append(L, e)[j].by = Append(L, e)[k].by
                 PROVE  Append(L, e)[j].n < Append(L, e)[k].n
      OBVIOUS
    <3>1. j \in 1..m /\ Append(L, e)[j] = L[j]
      BY <2>5, <2>7
    <3>2. CASE k \in 1..m
      BY <2>6, <2>7, <3>1, <3>2
    <3>3. CASE k = m + 1
      BY <2>2, <2>6, <2>7, <3>1, <3>3
    <3> QED BY SMTT(40), <2>5, <3>2, <3>3
  <2>10. \A k \in 1..(m + 1) :
            /\ Append(L, e)[k].n <= sent[Append(L, e)[k].by]
            /\ \A q \in todo'[Append(L, e)[k].by] :
                  connections[q.id].ch = c => Append(L, e)[k].n < sent[Append(L, e)[k].by]
    BY <1>4, <2>2, <2>4, <2>5, <2>6, <2>7
  <2> QED BY <1>3, <2>7, <2>8, <2>9, <2>10 DEF OrderedLog
<1> QED BY <1>5, <1>6

LEMMA NextOrder ==
    Discipline /\ OneOwner => (DeliveryInvariant /\ Ordered /\ [Next]_vars => Ordered')
<1> SUFFICES ASSUME Discipline, OneOwner, DeliveryInvariant, Ordered, [Next]_vars,
                    NEW c \in Clients
             PROVE  OrderedLog(c)'
  BY DEF Ordered
<1>1. TypeOK /\ BrokerInvariant /\ OrderedLog(c)
  BY DEF Ordered, DeliveryInvariant, BrokerInvariant
<1>2. CASE WriteLocked /\ UNCHANGED <<buf, got, sent, todo>>
  BY <1>1, <1>2, OrderedLogStays, WriterFindsNoRoute DEF Log
<1>3. CASE UNCHANGED <<connections, buf, got, sent, todo>>
  BY <1>1, <1>3, OrderedLogStays DEF Log
<1>4. CASE Subscribing
  <2> PICK d \in Clients :
           \/ AllocateID(d)
           \/ ReserveID(d)
           \/ Cleanup(d)
           \/ \E g \in Grants :
                 SubscribeOwn(d, g[1], g[2]) \/ SubscribeExternal(d, g[1], g[2])
    BY <1>4 DEF Subscribing
  <2>1. \/ WriteLocked /\ UNCHANGED <<buf, got, sent, todo>>
        \/ UNCHANGED <<connections, buf, got, sent, todo>>
    BY DEF AllocateID, ReserveID, Cleanup, RemoveConnection, SubscribeOwn,
                SubscribeExternal, Register, maps, chanVars, pubVars
  <2> QED BY <1>2, <1>3, <2>1
<1>5. CASE Reassociating
  <2>1. WriteLocked /\ UNCHANGED <<buf, got, sent, todo>>
    BY <1>5 DEF Reassociating, UpdateConnectionSessionID, UpdateConnectionPage,
                UpdateSessionPage, UpdateUserID, chanVars, pubVars
  <2> QED BY <1>2, <2>1
<1>6. CASE Publishing
  <2> PICK p \in Publishers : \/ \E a \in Calls : BeginPublish(p, a)
                              \/ Send(p)
                              \/ EndPublish(p)
    BY <1>6 DEF Publishing
  <2>1. CASE \E a \in Calls : BeginPublish(p, a)
    <3>1. /\ UNCHANGED <<connections, buf, got>>
          /\ \A q \in Publishers \ {p} : sent'[q] = sent[q] /\ todo'[q] = todo[q]
          /\ sent'[p] = sent[p] + 1
      BY <1>1, <2>1 DEF BeginPublish, maps, chanVars, TypeOK
    <3> QED BY <1>1, <3>1, OrderedLogStays DEF Log
  <2>2. CASE Send(p)
    BY <2>2, SendOrder
  <2>3. CASE EndPublish(p)
    BY <1>3, <2>3 DEF EndPublish, maps, chanVars
  <2> QED BY <2>1, <2>2, <2>3
<1>7. CASE \E d \in Clients : Receive(d)
  <2> PICK d \in Clients : Receive(d)
    BY <1>7
  <2>1. UNCHANGED <<connections, sent, todo>>
    BY DEF Receive, maps, pubVars
  <2>2. got[d] \in Seq(Event) /\ buf[d] \in Seq(Event) /\ buf[d] # <<>>
    BY <1>1 DEF TypeOK, Receive
  <2>3. got'[d] \o buf'[d] = got[d] \o buf[d]
    BY <1>1, <2>2, ReceiveKeepsLog DEF TypeOK, Receive
  <2>4. c # d => got'[c] = got[c] /\ buf'[c] = buf[c]
    BY <1>1 DEF TypeOK, Receive
  <2>5. Log(c)' = Log(c)
    BY <2>3, <2>4 DEF Log
  <2> QED BY <1>1, <2>1, <2>5, OrderedLogStays
<1>8. CASE UNCHANGED vars
  BY <1>3, <1>8 DEF vars
<1> QED BY <1>4, <1>5, <1>6, <1>7, <1>8 DEF Next

LEMMA InitOrder == Init => Ordered
<1> SUFFICES ASSUME Init, NEW c \in Clients PROVE OrderedLog(c)
  BY DEF Ordered
<1>1. Log(c) = <<>>
  BY DEF Init, Log
<1> QED BY <1>1 DEF OrderedLog

\* For any number of clients and publishers, and channels of any size, a client
\* gets the events of one publisher in their order, and each at most once.
THEOREM OrderIsKept == Discipline /\ OneOwner => (Spec => []PerPublisherOrder)
<1> SUFFICES ASSUME Discipline, OneOwner PROVE Spec => []PerPublisherOrder
  OBVIOUS
<1>1. DeliveryInvariant /\ Ordered /\ [Next]_vars => (DeliveryInvariant /\ Ordered)'
  BY NextDelivery, NextOrder
<1>2. Ordered => PerPublisherOrder
  BY DEF Ordered, OrderedLog, PerPublisherOrder, Log
<1> QED BY <1>1, <1>2, InitDelivery, InitOrder, PTL DEF Spec
-----------------------------------------------------------------------------
(* The broker implements the plain table *)

\* Nobody publishes to the empty user id, whose connections are not indexed.
ProperCalls == \A a \in Calls : a.to = "users" => NoUser \notin a.users

\* The table's view of the pending routes.
Owed == [p \in Publishers |-> {r.id : r \in todo[p]}]

\* What the loops select is what a scan of the table selects.
LEMMA RoutesAreAudience ==
    ASSUME OneOwner, ProperCalls, BrokerInvariant, Granted, NEW a \in Calls
    PROVE  {r.id : r \in Routes(a)} = Table!Audience(a)
<1>1. \A i \in Live : /\ connections[i].user \in Users
                      /\ connections[i].session \in Sessions
                      /\ i \in sessions[connections[i].session]
  BY ConnType DEF BrokerInvariant, TypeOK, Live, SessionsExact
<1>2. CASE a.to = "users"
  <2>1. Routes(a) = IndexedRoutes(a.users, a.active, a.filter)
    BY <1>2 DEF Routes
  <2>2. Table!Audience(a) = Table!Addressed(a.users, a.active, a.filter)
    BY <1>2 DEF Table!Audience
  <2>3. a.users \in SUBSET Users
    BY <1>2, CallsAssumption DEF Call
  <2>4. ASSUME NEW r \in IndexedRoutes(a.users, a.active, a.filter)
        PROVE  r.id \in Table!Addressed(a.users, a.active, a.filter)
    <3>1. /\ connections[r.id] # Nil /\ r.id \in Ids
          /\ r.via = <<connections[r.id].user, connections[r.id].session>>
      BY <2>4, IndexedRoutesSound
    <3> QED BY <3>1 DEF IndexedRoutes, Accepts, Table!Addressed, Table!Connected, Table!Shows
  <2>5. ASSUME NEW i \in Table!Addressed(a.users, a.active, a.filter)
        PROVE  \E r \in IndexedRoutes(a.users, a.active, a.filter) : r.id = i
    <3> DEFINE u == connections[i].user
               s == connections[i].session
               r == [via |-> <<u, s>>, id |-> i]
    <3>1. /\ i \in Live /\ u \in a.users /\ s \in a.active
          /\ Accepts(connections[i], a.filter)
      BY DEF Table!Addressed, Table!Connected, Table!Shows, Accepts, Live
    <3>2. s \in users[u]
      <4>1. u # NoUser
        BY <1>2, <3>1 DEF ProperCalls
      <4>2. i \notin unindexed
        BY <3>1, <4>1 DEF Granted
      <4> QED BY <3>1, <4>2 DEF BrokerInvariant, UsersCovered
    <3>3. r \in Route /\ r.via # Nil
      BY <1>1, <3>1, NilAssumption DEF Route, Live
    <3> QED BY <1>1, <3>1, <3>2, <3>3 DEF IndexedRoutes
  <2> QED BY <2>1, <2>2, <2>4, <2>5
<1>3. \A I : {r.id : r \in DirectRoutes(I)} = I \cap Live
  <2> TAKE I
  <2>1. \A i \in I \cap Live : \E r \in DirectRoutes(I) : r.id = i
    <3> TAKE i \in I \cap Live
    <3> DEFINE r == [via |-> Nil, id |-> i]
    <3>1. r \in DirectRoutes(I)
      BY DEF DirectRoutes
    <3>2. r.id = i
      OBVIOUS
    <3> QED BY <3>1, <3>2
  <2>2. \A r \in DirectRoutes(I) : r.id \in I \cap Live
    BY DEF DirectRoutes
  <2> QED BY <2>1, <2>2
<1>4. CASE a.to = "all"
  <2>1. Routes(a) = DirectRoutes(Ids) /\ Table!Audience(a) = Ids \cap Live
    BY <1>4 DEF Routes, Table!Audience, Table!Connected, Live
  <2> QED BY <1>3, <2>1
<1>5. CASE a.to = "ids"
  <2>1. Routes(a) = DirectRoutes(a.ids) /\ Table!Audience(a) = a.ids \cap Live
    BY <1>5 DEF Routes, Table!Audience, Table!Connected, Live
  <2> QED BY <1>3, <2>1
<1> QED BY <1>2, <1>4, <1>5, CallsAssumption DEF Call

LEMMA InitImplements == Init => Table!Init
<1> SUFFICES ASSUME Init PROVE Table!Init
  OBVIOUS
<1>1. Owed = [p \in Publishers |-> {}]
  BY DEF Init, Owed
<1> QED BY <1>1 DEF Init, Owed, Table!Init

\* A writer leaves the queues and the publishers alone, and runs while they do not.
LEMMA WriterImplements ==
    ASSUME WriteLocked, UNCHANGED <<buf, got, sent, call, todo>>
    PROVE  Table!Still /\ Owed' = Owed /\ UNCHANGED <<buf, got, sent, call>>
BY DEF WriteLocked, Reading, Table!Still, Owed

LEMMA OpenImplements ==
    ASSUME BrokerInvariant, NEW c \in Clients, NEW i \in Ids, NEW s \in Sessions, NEW u \in Users,
           Register(c, i, s, u), connections[i] = Nil, UNCHANGED <<buf, got, sent, call, todo>>
    PROVE  Table!Next
<1>1. WriteLocked /\ connections' = [connections EXCEPT ![i] =
          [session |-> s, user |-> u, page |-> NoPage, ch |-> c]]
  BY DEF Register
<1>2. Table!Open(c, i, s, u)
  BY <1>1, WriterImplements DEF Table!Open, Table!TableStep, Owed
<1> QED BY <1>2 DEF Table!Next

LEMMA SubscribingImplements ==
    ASSUME Discipline, BrokerInvariant, Subscribing
    PROVE  Table!Next \/ UNCHANGED Table!vars
<1> PICK c \in Clients :
         \/ AllocateID(c)
         \/ ReserveID(c)
         \/ Cleanup(c)
         \/ \E g \in Grants :
               SubscribeOwn(c, g[1], g[2]) \/ SubscribeExternal(c, g[1], g[2])
  BY DEF Subscribing
<1>1. \A g \in Grants : g[1] \in Sessions /\ g[2] \in Users
  BY RoutingAssumption
<1>2. CASE AllocateID(c) \/ ReserveID(c)
  <2>1. UNCHANGED <<connections, buf, got, sent, call, todo>>
    BY <1>2 DEF AllocateID, ReserveID, maps, chanVars, pubVars
  <2> QED BY <2>1 DEF Table!vars
<1>3. CASE Cleanup(c)
  <2>1. /\ cid[c] \in Ids /\ RemoveConnection(cid[c])
        /\ UNCHANGED <<buf, got, sent, call, todo>>
    BY <1>3 DEF BrokerInvariant, TypeOK, Cleanup, pubVars
  <2>2. WriteLocked
    BY <2>1 DEF RemoveConnection
  <2>3. CASE connections[cid[c]] = Nil
    <3>1. UNCHANGED connections
      BY <2>1, <2>3 DEF RemoveConnection, maps
    <3> QED BY <2>1, <3>1 DEF Table!vars
  <2>4. CASE connections[cid[c]] # Nil
    <3>1. connections' = [connections EXCEPT ![cid[c]] = Nil]
      BY <2>1, <2>4 DEF RemoveConnection
    <3>2. Table!Close(cid[c])
      BY <2>1, <2>2, <3>1, WriterImplements DEF Table!Close, Table!TableStep, Owed
    <3> QED BY <2>1, <3>2 DEF Table!Next
  <2> QED BY <2>3, <2>4
<1>4. CASE \E g \in Grants : SubscribeOwn(c, g[1], g[2])
  <2> PICK g \in Grants : SubscribeOwn(c, g[1], g[2])
    BY <1>4
  <2>1. cid[c] \in Ids /\ stage[c] = "allocated"
    BY DEF BrokerInvariant, TypeOK, SubscribeOwn
  <2>2. connections[cid[c]] = Nil
    BY <2>1, Owner DEF BrokerInvariant, IdsDistinct
  <2>3. Register(c, cid[c], g[1], g[2]) /\ UNCHANGED <<buf, got, sent, call, todo>>
    BY DEF SubscribeOwn, chanVars, pubVars
  <2> QED BY <1>1, <2>1, <2>2, <2>3, OpenImplements
<1>5. CASE \E g \in Grants : SubscribeExternal(c, g[1], g[2])
  <2> PICK g \in Grants : SubscribeExternal(c, g[1], g[2])
    BY <1>5
  <2> DEFINE i == ExternalId[c]
  <2>1. i \in Ids /\ stage[c] = "new" /\ Primary = {}
    BY ClientsAssumption DEF SubscribeExternal, Discipline, UniformStreams
  <2>2. connections[i] = Nil
    BY <2>1, Owner, ClientsAssumption DEF BrokerInvariant, IdsIssued
  <2>3. Register(c, i, g[1], g[2]) /\ UNCHANGED <<buf, got, sent, call, todo>>
    BY DEF SubscribeExternal, chanVars, pubVars
  <2> QED BY <1>1, <2>1, <2>2, <2>3, OpenImplements
<1> QED BY <1>2, <1>3, <1>4, <1>5

LEMMA ReassociatingImplements ==
    ASSUME OneOwner, BrokerInvariant, Reassociating
    PROVE  Table!Next
<1>1. /\ connections \in [Ids -> Conn \cup {Nil}]
      /\ sessions \in [Sessions -> SUBSET Ids]
      /\ SessionsExact
  BY DEF BrokerInvariant, TypeOK
<1>2. WriteLocked /\ UNCHANGED <<buf, got, sent, call, todo>>
  BY DEF Reassociating, UpdateConnectionSessionID, UpdateConnectionPage, UpdateSessionPage,
         UpdateUserID, chanVars, pubVars
<1>3. Table!TableStep
  BY <1>2, WriterImplements DEF Table!TableStep, Owed
<1>4. CASE \E i \in Ids, s \in Sessions : UpdateConnectionSessionID(i, s)
  <2> PICK i \in Ids, s \in Sessions : UpdateConnectionSessionID(i, s)
    BY <1>4
  <2>1. Table!Rotate(i, s)
    BY <1>3 DEF UpdateConnectionSessionID, Table!Rotate, Table!Connected
  <2> QED BY <2>1 DEF Table!Next
<1>5. CASE \E i \in Ids, pg \in Pages : UpdateConnectionPage(i, pg)
  <2> PICK i \in Ids, pg \in Pages : UpdateConnectionPage(i, pg)
    BY <1>5
  <2>1. /\ connections[i] # Nil
        /\ connections' = [connections EXCEPT ![i] = [connections[i] EXCEPT !.page = pg]]
    BY DEF UpdateConnectionPage
  <2>2. connections' = [j \in Ids |-> IF j \in {i} THEN [connections[j] EXCEPT !.page = pg]
                                                   ELSE connections[j]]
    BY <1>1, <2>1
  <2>3. i \in Table!Connected /\ Table!ShowPage({i}, pg)
    BY <1>3, <2>1, <2>2 DEF Table!Connected, Table!ShowPage, Table!Revise
  <2> QED BY <2>3 DEF Table!Next
<1>6. CASE \E s \in Sessions, pg \in Pages : UpdateSessionPage(s, pg)
  <2> PICK s \in Sessions, pg \in Pages : UpdateSessionPage(s, pg)
    BY <1>6
  <2>1. \A j \in Ids : j \in Table!InSession(s) <=> j \in sessions[s] /\ connections[j] # Nil
    BY <1>1 DEF Table!InSession, Table!Connected, SessionsExact, Live
  <2>2. connections' = [j \in Ids |-> IF j \in Table!InSession(s)
                                      THEN [connections[j] EXCEPT !.page = pg]
                                      ELSE connections[j]]
    BY <2>1 DEF UpdateSessionPage
  <2>3. Table!ShowPage(Table!InSession(s), pg)
    BY <1>3, <2>2 DEF Table!ShowPage, Table!Revise
  <2> QED BY <2>3 DEF Table!Next
<1> QED BY <1>4, <1>5, <1>6 DEF Reassociating, OneOwner

LEMMA PublishingImplements ==
    ASSUME OneOwner, ProperCalls, DeliveryInvariant, NEW p \in Publishers,
           \/ \E a \in Calls : BeginPublish(p, a)
           \/ Send(p)
           \/ EndPublish(p)
    PROVE  Table!Next
<1>1. TypeOK /\ BrokerInvariant /\ Granted /\ OneRoute
  BY DEF DeliveryInvariant, BrokerInvariant
<1>2. UNCHANGED <<connections, got>>
  BY DEF BeginPublish, Send, EndPublish, maps, chanVars
<1>3. CASE \E a \in Calls : BeginPublish(p, a)
  <2> PICK a \in Calls : BeginPublish(p, a)
    BY <1>3
  <2>1. todo' = [todo EXCEPT ![p] = Routes(a)]
    BY DEF BeginPublish
  <2>2. Owed' = [Owed EXCEPT ![p] = Table!Audience(a)]
    BY Zenon, <1>1, <2>1, RoutesAreAudience DEF Owed, TypeOK
  <2>3. Table!Publish(p, a)
    BY <1>2, <2>2 DEF BeginPublish, Table!Publish, Owed, chanVars
  <2> QED BY <2>3 DEF Table!Next
<1>4. CASE Send(p)
  <2>1. PICK r \in todo[p] :
          /\ buf' = IF Len(buf[connections[r.id].ch]) < BufSize
                    THEN [buf EXCEPT ![connections[r.id].ch] = Append(@, [by |-> p, n |-> sent[p]])]
                    ELSE buf
          /\ todo' = [todo EXCEPT ![p] = @ \ {r}]
    BY Zenon, <1>4 DEF Send
  <2>2. r.id \in Owed[p] /\ r.id \in Ids
    BY <1>1 DEF Owed, TypeOK, Route
  <2>3. Owed' = [Owed EXCEPT ![p] = @ \ {r.id}]
    <3>1. {q.id : q \in todo[p] \ {r}} = {q.id : q \in todo[p]} \ {r.id}
      BY <1>1 DEF OneRoute
    <3> QED BY Zenon, <1>1, <2>1, <3>1 DEF Owed, TypeOK
  <2>4. UNCHANGED <<sent, call>>
    BY Zenon, <1>4 DEF Send
  <2>5. Table!Offer(p, r.id)
    BY <1>2, <2>1, <2>2, <2>3, <2>4 DEF Table!Offer, Owed
  <2> QED BY <2>2, <2>5 DEF Table!Next
<1>5. CASE EndPublish(p)
  <2>1. Table!Return(p)
    <3>1. Owed' = Owed /\ Owed[p] = {}
      BY <1>5 DEF EndPublish, Owed
    <3> QED BY <1>2, <1>5, <3>1 DEF EndPublish, Table!Return, Owed, chanVars
  <2> QED BY <2>1 DEF Table!Next
<1> QED BY <1>3, <1>4, <1>5

LEMMA NextImplements ==
    Discipline /\ OneOwner /\ ProperCalls =>
        (DeliveryInvariant /\ [Next]_vars => [Table!Next]_Table!vars)
<1> SUFFICES ASSUME Discipline, OneOwner, ProperCalls, DeliveryInvariant, [Next]_vars
             PROVE  Table!Next \/ UNCHANGED Table!vars
  OBVIOUS
<1>1. CASE Subscribing
  BY <1>1, SubscribingImplements DEF DeliveryInvariant
<1>2. CASE Reassociating
  BY <1>2, ReassociatingImplements DEF DeliveryInvariant
<1>3. CASE Publishing
  BY <1>3, PublishingImplements DEF Publishing
<1>4. CASE \E c \in Clients : Receive(c)
  <2> PICK c \in Clients : Receive(c)
    BY <1>4
  <2>1. Table!Receive(c)
    BY DEF Receive, Table!Receive, maps, pubVars
  <2> QED BY <2>1 DEF Table!Next
<1>5. CASE UNCHANGED vars
  BY <1>5 DEF vars, Table!vars
<1> QED BY <1>1, <1>2, <1>3, <1>4, <1>5 DEF Next

\* For any number of clients, sessions, users, pages and publishers, whatever
\* the broker does with its indexes is a step of the plain table.
THEOREM BrokerImplementsTable ==
    Discipline /\ OneOwner /\ ProperCalls => (Spec => ImplementsTable)
<1> SUFFICES ASSUME Discipline, OneOwner, ProperCalls PROVE Spec => ImplementsTable
  OBVIOUS
<1>1. DeliveryInvariant /\ [Next]_vars => DeliveryInvariant'
  BY NextDelivery
<1>2. DeliveryInvariant /\ [Next]_vars => [Table!Next]_Table!vars
  BY NextImplements
<1> QED BY <1>1, <1>2, InitDelivery, InitImplements, PTL DEF Spec, ImplementsTable, Table!Spec
=============================================================================
