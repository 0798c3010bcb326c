---------------------------- MODULE RoutingTable ----------------------------
(***************************************************************************)
(* What sse.Broker promises: one table of connections and no index.  The   *)
(* audience of a publish call is read off the table in one step; until the *)
(* call has offered the event to the whole audience the table stands       *)
(* still.  An offer is accepted while the connection's queue has room and  *)
(* dropped otherwise.                                                      *)
(***************************************************************************)
EXTENDS Naturals, Sequences

CONSTANTS Clients, Ids, Sessions, Users, Pages, NoPage, Fragments, NoFilter,
          FragmentsOn, Publishers, MaxEvents, Calls, BufSize, Nil

VARIABLES
    table,      \* [Ids -> connection or Nil]
    queue,      \* events accepted and not yet received, per client
    seen,       \* events received, per client
    published,  \* events published, per publisher
    call,       \* the publish call each publisher is in, Nil outside
    owed        \* connections the running call of a publisher has yet to serve

vars == <<table, queue, seen, published, call, owed>>

Init ==
    /\ table = [i \in Ids |-> Nil]
    /\ queue = [c \in Clients |-> <<>>]
    /\ seen = [c \in Clients |-> <<>>]
    /\ published = [p \in Publishers |-> 0]
    /\ call = [p \in Publishers |-> Nil]
    /\ owed = [p \in Publishers |-> {}]

Still == \A p \in Publishers : call[p] = Nil

Connected == {i \in Ids : table[i] # Nil}

TableStep ==
    /\ Still
    /\ UNCHANGED <<queue, seen, published, call, owed>>

\* SubscribeWithIDs, SubscribeWithConnectionID: the id is a fresh one.
Open(c, i, s, u) ==
    /\ table[i] = Nil
    /\ table' = [table EXCEPT ![i] =
           [session |-> s, user |-> u, page |-> NoPage, ch |-> c]]
    /\ TableStep

\* The cleanup closure.
Close(i) ==
    /\ table' = [table EXCEPT ![i] = Nil]
    /\ TableStep

\* UpdateConnectionSessionID
Rotate(i, s) ==
    /\ i \in Connected
    /\ table' = [table EXCEPT ![i].session = s]
    /\ TableStep

Revise(I, f(_)) ==
    /\ table' = [i \in Ids |-> IF i \in I THEN f(table[i]) ELSE table[i]]
    /\ TableStep

\* UpdateConnectionPage and UpdateSessionPage
ShowPage(I, pg) == Revise(I, LAMBDA conn : [conn EXCEPT !.page = pg])

InSession(s) == {i \in Connected : table[i].session = s}
OfUser(u) == {i \in Connected : table[i].user = u}

\* UpdateUserID
Rename(old, new) == Revise(OfUser(old), LAMBDA conn : [conn EXCEPT !.user = new])

\* app/publish.go: a fragment goes to the pages that show it.
Shows(conn, f) == f = NoFilter \/ conn.page = NoPage \/ f \in FragmentsOn[conn.page]

\* PublishToUser(s)WithOptions
Addressed(us, active, f) ==
    {i \in Connected :
        table[i].user \in us /\ table[i].session \in active /\ Shows(table[i], f)}

Audience(a) ==
    CASE a.to = "all"   -> Connected
      [] a.to = "ids"   -> a.ids \cap Connected
      [] a.to = "users" -> Addressed(a.users, a.active, a.filter)

Publish(p, a) ==
    /\ call[p] = Nil
    /\ published[p] < MaxEvents
    /\ published' = [published EXCEPT ![p] = @ + 1]
    /\ call' = [call EXCEPT ![p] = a]
    /\ owed' = [owed EXCEPT ![p] = Audience(a)]
    /\ UNCHANGED <<table, queue, seen>>

Offer(p, i) ==
    LET c == table[i].ch IN
    /\ i \in owed[p]
    /\ owed' = [owed EXCEPT ![p] = @ \ {i}]
    /\ queue' = IF Len(queue[c]) < BufSize
                THEN [queue EXCEPT ![c] = Append(@, [by |-> p, n |-> published[p]])]
                ELSE queue
    /\ UNCHANGED <<table, seen, published, call>>

\* The call returns: it has offered the event to its whole audience.
Return(p) ==
    /\ call[p] # Nil
    /\ owed[p] = {}
    /\ call' = [call EXCEPT ![p] = Nil]
    /\ UNCHANGED <<table, queue, seen, published, owed>>

Receive(c) ==
    /\ queue[c] # <<>>
    /\ seen' = [seen EXCEPT ![c] = Append(@, Head(queue[c]))]
    /\ queue' = [queue EXCEPT ![c] = Tail(@)]
    /\ UNCHANGED <<table, published, call, owed>>

Next ==
    \/ \E c \in Clients, i \in Ids, s \in Sessions, u \in Users : Open(c, i, s, u)
    \/ \E i \in Ids : Close(i)
    \/ \E i \in Ids, s \in Sessions : Rotate(i, s)
    \/ \E i \in Connected, pg \in Pages : ShowPage({i}, pg)
    \/ \E s \in Sessions, pg \in Pages : ShowPage(InSession(s), pg)
    \/ \E old, new \in Users : Rename(old, new)
    \/ \E p \in Publishers, a \in Calls : Publish(p, a)
    \/ \E p \in Publishers : Return(p)
    \/ \E p \in Publishers, i \in Ids : Offer(p, i)
    \/ \E c \in Clients : Receive(c)

Spec == Init /\ [][Next]_vars
=============================================================================
