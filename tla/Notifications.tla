--------------------------- MODULE Notifications ---------------------------
(***************************************************************************)
(* notifications.Service and its HTTP handlers.  A request is one handler  *)
(* (or one Create call of the application) on its own goroutine: it        *)
(* changes the store, asks the store for the unread count and publishes an *)
(* event that carries the count, in three calls that requests interleave.  *)
(* The store and the publisher are external.                               *)
(***************************************************************************)
EXTENDS Naturals, Sequences, FiniteSets, Functions

CONSTANTS
    Users, Nil,
    Requests,   \* handler goroutines, one request each
    Inputs,     \* what they are called with
    MaxRows,    \* bound of the notifications created
    Walks,      \* clients that page through a list
    Limits,     \* the limits they ask for; 0 stands for an absent one
    DefaultLimit, MaxLimit   \* 20 and 100 in HandleList

Rows == 1..MaxRows

(***************************************************************************)
(* Create has no HTTP handler.  The others know their user from the        *)
(* request (Nil: not authenticated) and find a session, a CSRF token and   *)
(* the ids, which for "one" are those the path parses to.                  *)
(***************************************************************************)
Input == [op : {"create"}, user : Users]
         \cup [op : {"summary"}, user : Users \cup {Nil}]
         \cup [op : {"one", "many", "all"}, user : Users \cup {Nil},
               session : BOOLEAN, csrf : {"missing", "refused", "good"},
               ids : SUBSET Rows]

ASSUME NotificationsAssumption ==
    /\ Nil \notin Users
    /\ Inputs \subseteq Input
    /\ \A q \in Inputs : q.op = "one" => Cardinality(q.ids) <= 1
    /\ MaxRows \in Nat
    /\ Limits \subseteq Nat
    /\ DefaultLimit \in Nat \ {0} /\ MaxLimit \in Nat

VARIABLES
    owner,      \* the notifications table: the user of each row, in order
    unread,     \* the rows without read_at
    pc, input,  \* where each request is, and what it was called with
    changed,    \* the ids the store returned to it
    count,      \* the unread count the store returned to it
    answer,     \* the status of its response, 0 before
    announced,  \* history: events that announced each row as read
    reported,   \* history: counts published to a user since the last change
    failed,     \* history: users one of whose counts or events was lost
    walk        \* [user, limit, cursor, seen, more] of each client, or Nil

storeVars == <<owner, unread>>
requestVars == <<pc, input, changed, count, answer>>
eventVars == <<announced, reported, failed>>
vars == <<storeVars, requestVars, eventVars, walk>>

Init ==
    /\ owner = <<>>
    /\ unread = {}
    /\ pc = [r \in Requests |-> "new"]
    /\ input = [r \in Requests |-> Nil]
    /\ changed = [r \in Requests |-> {}]
    /\ count = [r \in Requests |-> 0]
    /\ answer = [r \in Requests |-> 0]
    /\ announced = [i \in Rows |-> 0]
    /\ reported = [u \in Users |-> {}]
    /\ failed = {}
    /\ walk = [w \in Walks |-> Nil]

UnreadRows(u) == {i \in unread : owner[i] = u}

\* Store.UnreadCount
UnreadCount(u) == Cardinality(UnreadRows(u))

-----------------------------------------------------------------------------
(* The handlers' checks, in their order *)

Marks(q) == q.op \in {"one", "many", "all"}

Unauthorized(q) == q.user = Nil \/ (Marks(q) /\ ~q.session)

Malformed(q) == Marks(q) /\ (q.csrf = "missing" \/ (q.op = "many" /\ q.ids = {}))

Forbidden(q) == Marks(q) /\ q.csrf = "refused"

\* The path's id is parsed after the token is checked.
NoSuchPath(q) == q.op = "one" /\ q.ids = {}

Status(q) == IF Unauthorized(q) THEN 401
             ELSE IF Malformed(q) THEN 400
             ELSE IF Forbidden(q) THEN 403
             ELSE IF NoSuchPath(q) THEN 400 ELSE 0

Start(r, q) ==
    /\ pc[r] = "new"
    /\ input' = [input EXCEPT ![r] = q]
    /\ UNCHANGED walk

Reply(r, status) ==
    /\ pc' = [pc EXCEPT ![r] = "done"]
    /\ answer' = [answer EXCEPT ![r] = status]

Refuse(r) == \E q \in Inputs :
    /\ Status(q) # 0
    /\ Start(r, q)
    /\ Reply(r, Status(q))
    /\ UNCHANGED <<storeVars, eventVars, changed, count>>

-----------------------------------------------------------------------------
(* The change in the store *)

\* Store.MarkRead, MarkReadMany, MarkAllRead: the rows whose read_at changes.
Changed(q) == IF q.op = "all" THEN UnreadRows(q.user) ELSE q.ids \cap UnreadRows(q.user)

Create(r) == \E q \in Inputs :
    /\ q.op = "create"
    /\ Len(owner) < MaxRows
    /\ Start(r, q)
    /\ owner' = Append(owner, q.user)
    /\ unread' = unread \cup {Len(owner) + 1}
    /\ reported' = [reported EXCEPT ![q.user] = {}]
    /\ pc' = [pc EXCEPT ![r] = "count"]
    /\ UNCHANGED <<changed, count, answer, announced, failed>>

\* Mutant: the ids asked for are broadcast, not those whose rows changed.
MarkAnnouncingAsked(r) == \E q \in Inputs :
    /\ Marks(q)
    /\ Status(q) = 0
    /\ Start(r, q)
    /\ unread' = unread \ Changed(q)
    /\ changed' = [changed EXCEPT ![r] = IF q.op = "all" THEN Changed(q) ELSE q.ids]
    /\ reported' = [reported EXCEPT ![q.user] = {}]
    /\ pc' = [pc EXCEPT ![r] = "count"]
    /\ UNCHANGED <<owner, count, answer, announced, failed>>

\* Mutant: the rows are counted before they are changed.
MarkAfterCount(r) == \E q \in Inputs :
    /\ Marks(q)
    /\ Status(q) = 0
    /\ Start(r, q)
    /\ unread' = unread \ Changed(q)
    /\ changed' = [changed EXCEPT ![r] = Changed(q)]
    /\ count' = [count EXCEPT ![r] = UnreadCount(q.user)]
    /\ reported' = IF Changed(q) = {} THEN reported ELSE [reported EXCEPT ![q.user] = {}]
    /\ pc' = [pc EXCEPT ![r] = "publish"]
    /\ UNCHANGED <<owner, answer, announced, failed>>

\* MarkRead, MarkReadMany and MarkAllRead of the service: nothing is
\* broadcast when no row changed.
Mark(r) == \E q \in Inputs :
    /\ Marks(q)
    /\ Status(q) = 0
    /\ Start(r, q)
    /\ unread' = unread \ Changed(q)
    /\ changed' = [changed EXCEPT ![r] = Changed(q)]
    /\ IF Changed(q) = {}
       THEN Reply(r, 204) /\ UNCHANGED reported
       ELSE /\ reported' = [reported EXCEPT ![q.user] = {}]
            /\ pc' = [pc EXCEPT ![r] = "count"]
            /\ UNCHANGED answer
    /\ UNCHANGED <<owner, count, announced, failed>>

Summary(r) == \E q \in Inputs :
    /\ q.op = "summary"
    /\ Status(q) = 0
    /\ Start(r, q)
    /\ pc' = [pc EXCEPT ![r] = "count"]
    /\ UNCHANGED <<storeVars, eventVars, changed, count, answer>>

Committed(q) ==
    IF q.op = "create"
    THEN /\ Len(owner) < MaxRows
         /\ owner' = Append(owner, q.user)
         /\ unread' = unread \cup {Len(owner) + 1}
    ELSE unread' = unread \ Changed(q) /\ UNCHANGED owner

\* The store's error may come instead of the change or, when only its answer
\* was lost, after it.
StoreFails(r) == \E q \in Inputs :
    /\ q.op # "summary"
    /\ Status(q) = 0
    /\ Start(r, q)
    /\ Reply(r, 500)
    /\ Committed(q) \/ UNCHANGED storeVars
    /\ failed' = failed \cup {q.user}
    /\ UNCHANGED <<changed, count, announced, reported>>

-----------------------------------------------------------------------------
(* The count and the event *)

User(r) == input[r].user
Announces(r) == input[r].op # "summary"

Count(r) ==
    /\ pc[r] = "count"
    /\ count' = [count EXCEPT ![r] = UnreadCount(User(r))]
    /\ pc' = [pc EXCEPT ![r] = "publish"]
    /\ UNCHANGED <<storeVars, eventVars, input, changed, answer, walk>>

\* Create falls back to 1; the broadcast is skipped silently, the summary
\* answered with an error.
CountFails(r) ==
    /\ pc[r] = "count"
    /\ failed' = IF Announces(r) THEN failed \cup {User(r)} ELSE failed
    /\ IF input[r].op = "create"
       THEN /\ count' = [count EXCEPT ![r] = 1]
            /\ pc' = [pc EXCEPT ![r] = "publish"]
            /\ UNCHANGED answer
       ELSE /\ Reply(r, IF Announces(r) THEN 204 ELSE 500)
            /\ UNCHANGED count
    /\ UNCHANGED <<storeVars, announced, reported, input, changed, walk>>

Succeeded(r) == IF input[r].op = "create" THEN 201 ELSE IF Announces(r) THEN 204 ELSE 200

\* The event is published; a summary is answered.
Publish(r) ==
    /\ pc[r] = "publish"
    /\ Reply(r, Succeeded(r))
    /\ reported' = IF Announces(r)
                   THEN [reported EXCEPT ![User(r)] = @ \cup {count[r]}] ELSE reported
    /\ announced' = [i \in Rows |-> announced[i] + IF i \in changed[r] THEN 1 ELSE 0]
    /\ UNCHANGED <<storeVars, failed, input, changed, count, walk>>

\* The publisher's error is only logged.
PublishFails(r) ==
    /\ pc[r] = "publish"
    /\ Announces(r)
    /\ Reply(r, Succeeded(r))
    /\ failed' = failed \cup {User(r)}
    /\ UNCHANGED <<storeVars, announced, reported, input, changed, count, walk>>

-----------------------------------------------------------------------------
(* The list, page by page *)

RowsAfter(u, cursor) == {i \in 1..Len(owner) : owner[i] = u /\ i > cursor}

Increasing(s) == \A m, n \in DOMAIN s : m < n => s[m] < s[n]

PageSize(limit) == IF limit \in 1..MaxLimit THEN limit ELSE DefaultLimit

(***************************************************************************)
(* What Store.List may return: rows after the cursor, oldest first, of     *)
(* which only a full page leaves any out, and those are later.  This is an *)
(* ASSUMPTION about the application's store: the interface says "oldest    *)
(* first within the page, with cursor-based pagination" and no more, but   *)
(* Service.List takes a short page for the last one and the last row of a  *)
(* full one for the cursor, and so relies on all of it.                    *)
(***************************************************************************)
Pages(u, cursor, size) ==
    LET rest == RowsAfter(u, cursor)
    IN {items \in UNION {[1..n -> rest] : n \in 0..Cardinality(rest)} :
          /\ Len(items) <= size
          /\ Increasing(items)
          /\ \A i \in rest \ Range(items) :
                Len(items) = size /\ \A n \in DOMAIN items : items[n] < i}

StartWalk(w, u, limit) ==
    /\ walk[w] = Nil
    /\ walk' = [walk EXCEPT ![w] =
          [user |-> u, limit |-> limit, cursor |-> 0, seen |-> <<>>, more |-> TRUE]]
    /\ UNCHANGED <<storeVars, requestVars, eventVars>>

\* Mutant: the cursor is the first item of the page.
CursorOfFirst(items) == items[1]

NextCursor(items) == items[Len(items)]

\* A full page promises another one, which may turn out to be empty.
ReadPage(w) ==
    /\ walk[w] # Nil /\ walk[w].more
    /\ LET size == PageSize(walk[w].limit)
       IN \E items \in Pages(walk[w].user, walk[w].cursor, size) :
             LET full == Len(items) = size
             IN walk' = [walk EXCEPT ![w] =
                   [user |-> @.user, limit |-> @.limit, seen |-> @.seen \o items,
                    cursor |-> IF full THEN NextCursor(items) ELSE 0, more |-> full]]
    /\ UNCHANGED <<storeVars, requestVars, eventVars>>

\* A page is refused without a user (401) or the store fails (500): the client
\* has no page.  It asks again, which changes nothing here, or gives up.
ReadFails(w) ==
    /\ walk[w] # Nil /\ walk[w].more
    /\ walk' = [walk EXCEPT ![w] = Nil]
    /\ UNCHANGED <<storeVars, requestVars, eventVars>>

Serve(r) == Refuse(r) \/ Create(r) \/ Mark(r) \/ Summary(r) \/ StoreFails(r)
Finish(r) == Count(r) \/ CountFails(r) \/ Publish(r) \/ PublishFails(r)

Next ==
    \/ \E r \in Requests : Serve(r) \/ Finish(r)
    \/ \E w \in Walks, u \in Users, limit \in Limits : StartWalk(w, u, limit)
    \/ \E w \in Walks : ReadPage(w) \/ ReadFails(w)

Spec == Init /\ [][Next]_vars

-----------------------------------------------------------------------------
(* Correctness *)

Walk == [user : Users, limit : Limits, cursor : Nat, seen : Seq(Rows), more : BOOLEAN]

TypeOK ==
    /\ owner \in Seq(Users) /\ Len(owner) <= MaxRows
    /\ unread \subseteq 1..Len(owner)
    /\ pc \in [Requests -> {"new", "count", "publish", "done"}]
    /\ input \in [Requests -> Inputs \cup {Nil}]
    /\ changed \in [Requests -> SUBSET (1..Len(owner))]
    /\ count \in [Requests -> Nat]
    /\ answer \in [Requests -> {0, 200, 201, 204, 400, 401, 403, 500}]
    /\ announced \in [Rows -> Nat]
    /\ reported \in [Users -> SUBSET Nat]
    /\ failed \subseteq Users
    /\ walk \in [Walks -> Walk \cup {Nil}]
    /\ \A w \in Walks : walk[w] # Nil => walk[w].cursor <= Len(owner)

\* The requests that will still publish an event to the user.
Publishing(u) == {r \in Requests : pc[r] \in {"count", "publish"} /\ Announces(r) /\ User(r) = u}

Read(i, u) == i \in (1..Len(owner)) \ unread /\ owner[i] = u

\* Requests that mark the same rows at once announce each row once between
\* them: never twice and, once they are done and nothing failed, not less
\* (service.go:96-150; the store's contract is store.go:16-26).
ReadOnce ==
    /\ \A i \in Rows : announced[i] <= 1
    /\ \A i \in Rows, u \in Users \ failed :
          Read(i, u) /\ Publishing(u) = {} => announced[i] = 1

\* The store is changed first and counted after, in two calls that others may
\* come between: still, of the counts published to a user since the last
\* change to its rows, one is true (service.go:38-62, 98-103, 129-149).
TrueCountReported ==
    \A u \in Users \ failed :
        Publishing(u) = {} /\ (\E i \in 1..Len(owner) : owner[i] = u)
            => UnreadCount(u) \in reported[u]

\* A client that follows the cursors while rows are created has, at the page
\* that promises no more, every row of its user once and in order, if the store
\* lists as Pages says (service.go:68-85, http.go:57-88).
WalkComplete ==
    [][\A w \in Walks : walk[w] # Nil /\ walk'[w] # Nil /\ walk'[w].more # walk[w].more =>
          /\ Increasing(walk'[w].seen)
          /\ Range(walk'[w].seen) = RowsAfter(walk[w].user, 0)']_vars
=============================================================================
