----------------------------- MODULE SseHandler -----------------------------
(***************************************************************************)
(* sse.Handler: the life of one streaming HTTP request.  The handler       *)
(* subscribes it to the broker of every event stream under one connection  *)
(* id, starts one pump goroutine per stream, tells the client its id, and  *)
(* then writes what the pumps hand over until the request is cancelled.    *)
(* Of a broker the module keeps what this connection can see of it: which  *)
(* channel is registered under the id, its page and the channel's content. *)
(***************************************************************************)
EXTENDS Naturals, Sequences

CONSTANTS
    N,            \* event streams of the endpoint
    Brokers,
    BrokerOf,     \* the broker of each stream; two streams may share one
    DomBroker,    \* the broker page changes go to (App.DomUpdateBroker)
    BufSize,      \* channel capacity
    MaxEvents,    \* [Brokers -> how many events are published to this connection]
    HasReferer,   \* the request names a page and a PageResolver is set
    Heartbeat     \* some stream has a heartbeat interval

Streams == 1..N

ASSUME StreamsAssumption ==
    /\ N \in Nat \ {0}
    /\ BrokerOf \in [Streams -> Brokers]
    /\ DomBroker \in Brokers
    /\ BufSize \in Nat \ {0}
    /\ MaxEvents \in [Brokers -> Nat]
    /\ {HasReferer, Heartbeat} \subseteq BOOLEAN

\* The message with the connection id, and what applications publish.
ConnectionId == 0
Event == Nat

VARIABLES
    pc, at,       \* where the handler is, and at which stream
    conn,         \* [Brokers -> the stream whose channel is registered, or 0]
    page,         \* [Brokers -> the page recorded for the connection]
    published,    \* [Brokers -> events published so far]
    buf, closed,  \* the channels, named by their streams
    accepted,     \* what each channel has taken, in order
    pump, held,   \* the pump goroutines and the event each holds
    wire,         \* [Streams -> the stream's events whose write has begun]
    cancelled,    \* r.Context() is done
    stalled,      \* the client no longer reads
    connected,    \* streams whose OnConnect has returned
    disconnected, \* streams whose OnDisconnect has run
    callerOn,     \* the caller's opts.OnConnect has returned
    callerOff     \* the caller's opts.OnDisconnect has run

hookVars == <<connected, disconnected, callerOn, callerOff>>
handlerVars == <<pc, at, hookVars>>
clientVars == <<cancelled, stalled>>
brokerVars == <<conn, page, published>>
chanVars == <<buf, closed, accepted>>
pumpVars == <<pump, held>>
vars == <<handlerVars, brokerVars, chanVars, pumpVars, wire, clientVars>>

Init ==
    /\ pc = "subscribe"
    /\ at = 1
    /\ conn = [b \in Brokers |-> 0]
    /\ page = [b \in Brokers |-> "none"]
    /\ published = [b \in Brokers |-> 0]
    /\ buf = [s \in Streams |-> <<>>]
    /\ closed = {}
    /\ accepted = [s \in Streams |-> <<>>]
    /\ pump = [s \in Streams |-> "none"]
    /\ held = [s \in Streams |-> <<>>]
    /\ wire = [s \in Streams |-> <<>>]
    /\ cancelled = FALSE
    /\ stalled = FALSE
    /\ connected = {}
    /\ disconnected = {}
    /\ callerOn = FALSE
    /\ callerOff = FALSE

\* select { case conn.ch <- e: default: }
Offer(b, e) ==
    LET s == conn[b] IN
    IF s # 0 /\ Len(buf[s]) < BufSize
    THEN /\ buf' = [buf EXCEPT ![s] = Append(@, e)]
         /\ accepted' = [accepted EXCEPT ![s] = Append(@, e)]
    ELSE UNCHANGED <<buf, accepted>>

-----------------------------------------------------------------------------
(* The handler sets the connection up *)

\* SubscribeWithIDs for the first stream, SubscribeWithConnectionID after it.
Subscribe ==
    /\ pc = "subscribe"
    /\ conn' = [conn EXCEPT ![BrokerOf[at]] = at]
    /\ page' = [page EXCEPT ![BrokerOf[at]] = "none"]
    /\ pc' = "onConnect"
    /\ UNCHANGED <<at, hookVars, published, chanVars, pumpVars, wire, clientVars>>

\* OnConnect returns: the cleanup is deferred and the pump started.
Connect ==
    /\ pc = "onConnect"
    /\ connected' = connected \cup {at}
    /\ pump' = [pump EXCEPT ![at] = "receiving"]
    /\ at' = IF at < N THEN at + 1 ELSE 1
    /\ pc' = IF at < N THEN "subscribe" ELSE "callerConnect"
    /\ UNCHANGED <<disconnected, callerOn, callerOff, brokerVars, chanVars, held, wire,
                   clientVars>>

\* Mutant: the caller's OnDisconnect is deferred before its OnConnect is called.
PanicWithDefer ==
    /\ UNCHANGED <<hookVars, brokerVars, chanVars, pumpVars, wire, clientVars>>
    /\ \/ /\ pc = "onConnect"
          /\ pc' = IF at = 1 THEN "gone" ELSE "returning"
          /\ at' = IF at = 1 THEN 1 ELSE at - 1
       \/ /\ pc = "callerConnect" \/ (pc = "page" /\ at = 1)
          /\ pc' = "callerDisconnect"
          /\ at' = 1

\* OnConnect, the caller's OnConnect or PageResolver panics: net/http runs what
\* has been deferred so far.
Panic ==
    /\ UNCHANGED <<hookVars, brokerVars, chanVars, pumpVars, wire, clientVars>>
    /\ \/ /\ pc = "onConnect"
          /\ pc' = IF at = 1 THEN "gone" ELSE "returning"
          /\ at' = IF at = 1 THEN 1 ELSE at - 1
       \/ /\ pc = "callerConnect"
          /\ pc' = "returning"
          /\ at' = N
       \/ /\ pc = "page" /\ at = 1
          /\ pc' = "callerDisconnect"
          /\ at' = at

\* The caller's OnConnect(r, connID) returns and its OnDisconnect is deferred.
\* A hook that is nil is one that does nothing.
CallerConnect ==
    /\ pc = "callerConnect"
    /\ callerOn' = TRUE
    /\ pc' = IF HasReferer THEN "page" ELSE "sendId"
    /\ UNCHANGED <<at, connected, disconnected, callerOff, brokerVars, chanVars, pumpVars,
                   wire, clientVars>>

\* Mutant: the pages after the first are recorded in the background.
SetPageInBackground ==
    /\ pc \in {"page", "loop"} /\ HasReferer
    /\ page' = [page EXCEPT ![BrokerOf[at]] = "referer"]
    /\ at' = IF at < N THEN at + 1 ELSE at
    /\ pc' = IF pc = "page" THEN "sendId" ELSE pc
    /\ UNCHANGED <<hookVars, conn, published, chanVars, pumpVars, wire, clientVars>>

\* The Referer's page, on the broker of every stream in turn.
SetPage ==
    /\ pc = "page"
    /\ page' = [page EXCEPT ![BrokerOf[at]] = "referer"]
    /\ at' = IF at < N THEN at + 1 ELSE 1
    /\ pc' = IF at < N THEN "page" ELSE "sendId"
    /\ UNCHANGED <<hookVars, conn, published, chanVars, pumpVars, wire, clientVars>>

\* PublishToConnection of the id on the broker of the first stream.
SendId ==
    /\ pc = "sendId"
    /\ Offer(BrokerOf[1], ConnectionId)
    /\ pc' = "loop"
    /\ UNCHANGED <<at, hookVars, brokerVars, closed, pumpVars, wire, clientVars>>

-----------------------------------------------------------------------------
(* The writer loop and the return *)

\* case e := <-merged: a pump hands its event over and the write begins.
Merge(s) ==
    /\ pc = "loop"
    /\ pump[s] = "holding"
    /\ wire' = [wire EXCEPT ![s] = Append(@, held[s][1])]
    /\ held' = [held EXCEPT ![s] = <<>>]
    /\ pump' = [pump EXCEPT ![s] = "receiving"]
    /\ pc' = "writing"
    /\ UNCHANGED <<at, hookVars, brokerVars, chanVars, clientVars>>

\* case <-heartbeat: the write of a ping begins.
Ping ==
    /\ pc = "loop"
    /\ Heartbeat
    /\ pc' = "pinging"
    /\ UNCHANGED <<at, hookVars, brokerVars, chanVars, pumpVars, wire, clientVars>>

\* The write and the flush return.  writeEvent ignores errors, also that of a
\* write deadline, so the loop goes on.
Written ==
    /\ pc \in {"writing", "pinging"}
    /\ pc' = "loop"
    /\ UNCHANGED <<at, hookVars, brokerVars, chanVars, pumpVars, wire, clientVars>>

\* case <-r.Context().Done(), or a ping that could not be written.
Leave ==
    /\ (pc = "loop" /\ cancelled) \/ pc = "pinging"
    /\ pc' = "callerDisconnect"
    /\ UNCHANGED <<at, hookVars, brokerVars, chanVars, pumpVars, wire, clientVars>>

-----------------------------------------------------------------------------
(* What has been deferred, last first *)

\* The caller's OnDisconnect, while every broker still has the connection.
CallerDisconnect ==
    /\ pc = "callerDisconnect"
    /\ callerOff' = TRUE
    /\ pc' = "returning"
    /\ at' = N
    /\ UNCHANGED <<connected, disconnected, callerOn, brokerVars, chanVars, pumpVars, wire,
                   clientVars>>

\* Mutant: only the first stream's broker is told, as all share one id.
UnwindFirst ==
    /\ pc = "returning"
    /\ conn' = [conn EXCEPT ![BrokerOf[1]] = 0]
    /\ closed' = IF conn[BrokerOf[1]] = 0 THEN closed ELSE closed \cup {conn[BrokerOf[1]]}
    /\ disconnected' = connected
    /\ at' = 1
    /\ pc' = "gone"
    /\ UNCHANGED <<connected, callerOn, callerOff, page, published, buf, accepted, pumpVars,
                   wire, clientVars>>

\* The deferred cleanups, last stream first: removeConnection closes the channel
\* registered under the id, which another stream of the broker may have closed.
Unwind ==
    /\ pc = "returning"
    /\ LET b == BrokerOf[at] IN
       /\ conn' = [conn EXCEPT ![b] = 0]
       /\ closed' = IF conn[b] = 0 THEN closed ELSE closed \cup {conn[b]}
    /\ disconnected' = disconnected \cup {at}
    /\ at' = IF at > 1 THEN at - 1 ELSE 1
    /\ pc' = IF at > 1 THEN "returning" ELSE "gone"
    /\ UNCHANGED <<connected, callerOn, callerOff, page, published, buf, accepted, pumpVars,
                   wire, clientVars>>

-----------------------------------------------------------------------------
(* The pump goroutines *)

\* Mutant: an event nobody is ready to write is not waited for.
TakeOrDrop(s) ==
    /\ pump[s] = "receiving"
    /\ buf[s] # <<>>
    /\ held' = [held EXCEPT ![s] = IF pc = "loop" THEN <<Head(buf[s])>> ELSE <<>>]
    /\ buf' = [buf EXCEPT ![s] = Tail(@)]
    /\ pump' = [pump EXCEPT ![s] = IF pc = "loop" THEN "holding" ELSE "receiving"]
    /\ UNCHANGED <<handlerVars, brokerVars, closed, accepted, wire, clientVars>>

\* case e, ok := <-events, with an event.
Take(s) ==
    /\ pump[s] = "receiving"
    /\ buf[s] # <<>>
    /\ held' = [held EXCEPT ![s] = <<Head(buf[s])>>]
    /\ buf' = [buf EXCEPT ![s] = Tail(@)]
    /\ pump' = [pump EXCEPT ![s] = "holding"]
    /\ UNCHANGED <<handlerVars, brokerVars, closed, accepted, wire, clientVars>>

\* Mutant: a pump that waits for the writer does not watch the context.
StopReceiving(s) ==
    /\ pump[s] = "receiving"
    /\ cancelled \/ (buf[s] = <<>> /\ s \in closed)
    /\ pump' = [pump EXCEPT ![s] = "exited"]
    /\ UNCHANGED <<handlerVars, brokerVars, chanVars, held, wire, clientVars>>

\* r.Context().Done() in either select, or the channel closed and drained.  An
\* event in hand is lost.
Stop(s) ==
    /\ \/ cancelled /\ pump[s] \in {"receiving", "holding"}
       \/ pump[s] = "receiving" /\ buf[s] = <<>> /\ s \in closed
    /\ pump' = [pump EXCEPT ![s] = "exited"]
    /\ held' = [held EXCEPT ![s] = <<>>]
    /\ UNCHANGED <<handlerVars, brokerVars, chanVars, wire, clientVars>>

-----------------------------------------------------------------------------
(* Around the handler *)

\* An application publishes to the user of the connection.
Publish(b) ==
    /\ published[b] < MaxEvents[b]
    /\ conn[b] # 0
    /\ published' = [published EXCEPT ![b] = @ + 1]
    /\ Offer(b, published[b] + 1)
    /\ UNCHANGED <<handlerVars, conn, page, closed, pumpVars, wire, clientVars>>

Told == \E s \in Streams : \E k \in 1..Len(wire[s]) : wire[s][k] = ConnectionId

\* The client navigates and names the connection by the id it was told.
Navigate ==
    /\ Told
    /\ conn[DomBroker] # 0
    /\ page' = [page EXCEPT ![DomBroker] = "client"]
    /\ UNCHANGED <<handlerVars, conn, published, chanVars, pumpVars, wire, clientVars>>

\* The client goes away, or net/http cancels the context of a handler that
\* has returned.
Cancel ==
    /\ ~cancelled
    /\ cancelled' = TRUE
    /\ UNCHANGED <<handlerVars, brokerVars, chanVars, pumpVars, wire, stalled>>

\* The client keeps its connection open and no longer reads: the write blocks.
Stall ==
    /\ pc \in {"writing", "pinging"}
    /\ ~cancelled /\ ~stalled
    /\ stalled' = TRUE
    /\ UNCHANGED <<handlerVars, brokerVars, chanVars, pumpVars, wire, cancelled>>

HandlerStep ==
    \/ Subscribe \/ Connect \/ CallerConnect \/ SetPage \/ SendId
    \/ CallerDisconnect \/ Unwind

Next ==
    \/ HandlerStep
    \/ Panic
    \/ Ping
    \/ Written
    \/ Leave
    \/ \E s \in Streams : Merge(s) \/ Take(s) \/ Stop(s)
    \/ \E b \in Brokers : Publish(b)
    \/ Navigate
    \/ Cancel
    \/ Stall

Spec == Init /\ [][Next]_vars

\* The handler, its hooks and its goroutines keep running; a write returns if the
\* client reads or its connection is gone; a select that comes round again and
\* again serves each case that is ready sometime (Go draws one at random); and
\* net/http cancels the context of a finished request.
FairSpec ==
    /\ Spec
    /\ WF_vars(HandlerStep)
    /\ WF_vars((~stalled \/ cancelled) /\ Written)
    /\ SF_vars(cancelled /\ Leave)
    /\ WF_vars(pc = "gone" /\ Cancel)
    /\ \A s \in Streams : SF_vars(Merge(s)) /\ WF_vars(Take(s)) /\ WF_vars(Stop(s))

-----------------------------------------------------------------------------
(* Correctness *)

\* Every variable keeps the type of what it stands for (handler.go:48-200).
TypeOK ==
    /\ pc \in {"subscribe", "onConnect", "callerConnect", "page", "sendId", "loop",
              "writing", "pinging", "callerDisconnect", "returning", "gone"}
    /\ at \in Streams
    /\ conn \in [Brokers -> {0} \cup Streams]
    /\ page \in [Brokers -> {"none", "referer", "client"}]
    /\ published \in [Brokers -> Nat]
    /\ buf \in [Streams -> Seq(Event)]
    /\ closed \subseteq Streams
    /\ accepted \in [Streams -> Seq(Event)]
    /\ pump \in [Streams -> {"none", "receiving", "holding", "exited"}]
    /\ held \in [Streams -> Seq(Event)]
    /\ \A s \in Streams : pump[s] = "holding" => Len(held[s]) = 1
    /\ wire \in [Streams -> Seq(Event)]
    /\ {cancelled, stalled, callerOn, callerOff} \subseteq BOOLEAN
    /\ connected \subseteq Streams
    /\ disconnected \subseteq Streams

\* Between the broker and the wire nothing is lost, repeated or reordered within
\* a stream, whichever pump the writer serves first (handler.go:117-135,
\* 192-196): what is written or being written, in the pump's hand and in the
\* channel, in this order, is what the broker accepted.
InOrder ==
    \A s \in Streams :
        pump[s] # "exited" => accepted[s] = wire[s] \o held[s] \o buf[s]

\* When the handler is gone no broker holds the connection, unless OnConnect
\* panicked between the subscription and its deferred cleanup
\* (handler.go:94-109): streams that share a broker or an id do not hide each
\* other's cleanup, nor does a panic of a later stream.
NothingLeft ==
    pc = "gone" => \A b \in Brokers : conn[b] = 0 \/ conn[b] \notin connected

\* Whatever panics, a stream that was connected is disconnected, once it is out
\* of its broker; and the caller's hooks are called as a pair around all that: at
\* any time between them every broker has the connection (handler.go:102-142).
HooksPaired ==
    /\ pc = "gone" => disconnected = connected /\ callerOff = callerOn
    /\ \A s \in disconnected : conn[BrokerOf[s]] # s
    /\ callerOn /\ ~callerOff =>
          connected = Streams /\ \A s \in Streams : conn[BrokerOf[s]] # 0

\* The page from the Referer never overwrites the page the client has navigated
\* to since (handler.go:146-172, app/publish.go:85-98): the client cannot name
\* the connection before the initial page is recorded.
PageNotRegressed ==
    [][\A b \in Brokers : page[b] = "client" => page'[b] = "client"]_vars

\* After the context is done the handler returns and every pump ends, also one
\* that waits for a writer that has left or was blocked by a client that does not
\* read (handler.go:119-133, 182-184).
TornDown ==
    cancelled ~> /\ pc = "gone"
                 /\ \A s \in Streams : pump[s] \in {"none", "exited"}

\* What a channel has accepted is written unless the request ends or the client
\* stops reading: no event is lost on the way, no stream starves behind the others
\* or behind the pings (handler.go:181-198).
EventuallyWritten ==
    \A s \in Streams :
        accepted[s] # wire[s] ~> \/ accepted[s] = wire[s] /\ pc # "writing"
                                 \/ stalled \/ cancelled \/ pc = "gone"
=============================================================================
