-------------------------- MODULE SseHandlerProofs --------------------------
(***************************************************************************)
(* Theorems about SseHandler for any number of streams and brokers, any    *)
(* sharing of brokers between streams, any capacity and any traffic.       *)
(***************************************************************************)
EXTENDS SseHandler, SequenceTheorems, TLAPS

Setup == {"subscribe", "onConnect", "callerConnect", "page", "sendId"}

\* A connection is registered at the broker of its stream.
Placed == \A b \in Brokers : conn[b] # 0 => BrokerOf[conn[b]] = b

\* While the handler serves, and until the first cleanup, all streams are connected.
Serving == {"page", "sendId", "loop", "writing", "pinging", "callerDisconnect"}

\* Which streams are connected and disconnected follows from where the handler is.
Progress ==
    /\ pc \in {"subscribe", "onConnect"} => connected = 1..(at - 1)
    /\ pc \in {"callerConnect"} \cup Serving => connected = Streams
    /\ pc \notin {"returning", "gone"} => disconnected = {}
    /\ pc = "returning" =>
          /\ 1..at \subseteq connected
          /\ disconnected = connected \ (1..at)
          /\ \A b \in Brokers : conn[b] \in connected => conn[b] <= at
    /\ pc = "gone" =>
          /\ disconnected = connected
          /\ \A b \in Brokers : conn[b] \notin connected

\* The streams subscribed so far have their brokers, and the caller's hooks have
\* been called as far as the handler has come.
CallerInvariant ==
    /\ pc = "subscribe" => \A s \in 1..(at - 1) : conn[BrokerOf[s]] # 0
    /\ pc = "onConnect" => \A s \in 1..at : conn[BrokerOf[s]] # 0
    /\ pc \in {"callerConnect"} \cup Serving => \A s \in Streams : conn[BrokerOf[s]] # 0
    /\ pc \in {"subscribe", "onConnect", "callerConnect"} => ~callerOn /\ ~callerOff
    /\ pc \in Serving => callerOn /\ ~callerOff
    /\ pc \in {"returning", "gone"} => callerOff = callerOn

\* Nothing is written, and so no client has a say, while the handler sets up.
SilentSetup ==
    pc \in Setup => (\A s \in Streams : wire[s] = <<>>) /\ \A b \in Brokers : page[b] # "client"

HandlerInvariant == TypeOK /\ Placed /\ Progress /\ CallerInvariant /\ SilentSetup

-----------------------------------------------------------------------------
(* Type correctness *)

LEMMA OfferType ==
    ASSUME TypeOK, NEW b \in Brokers, NEW e \in Event, Offer(b, e)
    PROVE  /\ buf' \in [Streams -> Seq(Event)]
           /\ accepted' \in [Streams -> Seq(Event)]
<1>1. /\ buf \in [Streams -> Seq(Event)]
      /\ accepted \in [Streams -> Seq(Event)]
      /\ conn[b] \in {0} \cup Streams
  BY DEF TypeOK
<1>2. CASE conn[b] # 0 /\ Len(buf[conn[b]]) < BufSize
  <2> DEFINE s == conn[b]
  <2>1. /\ buf' = [buf EXCEPT ![s] = Append(@, e)]
        /\ accepted' = [accepted EXCEPT ![s] = Append(@, e)]
    BY <1>2 DEF Offer
  <2>2. s \in Streams
    BY <1>1, <1>2
  <2>3. Append(buf[s], e) \in Seq(Event) /\ Append(accepted[s], e) \in Seq(Event)
    BY <1>1, <2>2
  <2> QED BY <1>1, <2>1, <2>2, <2>3
<1>3. CASE ~(conn[b] # 0 /\ Len(buf[conn[b]]) < BufSize)
  BY <1>1, <1>3 DEF Offer
<1> QED BY <1>2, <1>3

LEMMA InitType == Init => TypeOK
<1> SUFFICES ASSUME Init
             PROVE  TypeOK
  OBVIOUS
<1>1. <<>> \in Seq(Event)
  OBVIOUS
<1>2. /\ buf \in [Streams -> Seq(Event)]
      /\ accepted \in [Streams -> Seq(Event)]
      /\ held \in [Streams -> Seq(Event)]
      /\ wire \in [Streams -> Seq(Event)]
  BY <1>1 DEF Init
<1>3. \A s \in Streams : pump[s] # "holding"
  BY DEF Init
<1>4. at \in Streams
  BY StreamsAssumption DEF Init, Streams
<1>5. /\ conn \in [Brokers -> {0} \cup Streams]
      /\ page \in [Brokers -> {"none", "referer", "client"}]
      /\ published \in [Brokers -> Nat]
      /\ pump \in [Streams -> {"none", "receiving", "holding", "exited"}]
  BY StreamsAssumption DEF Init
<1> QED BY <1>2, <1>3, <1>4, <1>5 DEF Init, TypeOK

LEMMA StepType == TypeOK /\ [Next]_vars => TypeOK'
<1> SUFFICES ASSUME TypeOK, [Next]_vars
             PROVE  TypeOK'
  OBVIOUS
<1> USE DEF handlerVars, hookVars, clientVars, brokerVars, chanVars, pumpVars
<1>1. ASSUME Subscribe PROVE TypeOK'
  BY <1>1, StreamsAssumption DEF Subscribe, TypeOK, Streams
<1>2. ASSUME Connect PROVE TypeOK'
  <2>1. at' \in Streams
    BY <1>2, StreamsAssumption DEF Connect, TypeOK, Streams
  <2>2. pc' \in {"subscribe", "callerConnect"}
    BY <1>2 DEF Connect
  <2>3. /\ pump' \in [Streams -> {"none", "receiving", "holding", "exited"}]
        /\ \A s \in Streams : pump'[s] = "holding" => pump[s] = "holding"
        /\ connected' \subseteq Streams
    BY <1>2 DEF Connect, TypeOK
  <2> QED BY <1>2, <2>1, <2>2, <2>3 DEF Connect, TypeOK
<1>3. ASSUME Panic PROVE TypeOK'
  <2>1. at' \in Streams
    <3>1. N \in Nat \ {0} /\ at \in 1..N
      BY StreamsAssumption DEF TypeOK, Streams
    <3>2. \/ at' = N \/ at' = at \/ at' = 1
          \/ at # 1 /\ at' = at - 1
      BY <1>3 DEF Panic
    <3> QED BY <3>1, <3>2 DEF Streams
  <2>2. pc' \in {"returning", "gone", "callerDisconnect"}
    BY <1>3 DEF Panic
  <2> QED BY <1>3, <2>1, <2>2 DEF Panic, TypeOK
<1>4. ASSUME SetPage PROVE TypeOK'
  <2>1. at' \in Streams
    BY <1>4, StreamsAssumption DEF SetPage, TypeOK, Streams
  <2> QED BY <1>4, <2>1, StreamsAssumption DEF SetPage, TypeOK
<1>5. ASSUME SendId PROVE TypeOK'
  <2>1. BrokerOf[1] \in Brokers /\ ConnectionId \in Event
    BY StreamsAssumption DEF Streams, Event, ConnectionId
  <2>2. Offer(BrokerOf[1], ConnectionId)
    BY <1>5 DEF SendId
  <2>3. /\ buf' \in [Streams -> Seq(Event)]
        /\ accepted' \in [Streams -> Seq(Event)]
    BY <2>1, <2>2, OfferType
  <2> QED BY <1>5, <2>3 DEF SendId, TypeOK
<1>6. ASSUME NEW s \in Streams, Merge(s) PROVE TypeOK'
  <2>1. held[s][1] \in Event
    BY <1>6 DEF Merge, TypeOK
  <2>2. wire' \in [Streams -> Seq(Event)]
    <3>1. Append(wire[s], held[s][1]) \in Seq(Event)
      BY <2>1 DEF TypeOK
    <3> QED BY <1>6, <3>1 DEF Merge, TypeOK
  <2>3. <<>> \in Seq(Event)
    OBVIOUS
  <2>4. held' \in [Streams -> Seq(Event)]
    BY <1>6, <2>3 DEF Merge, TypeOK
  <2>5. \A r \in Streams : pump'[r] = "holding" => Len(held'[r]) = 1
    BY <1>6 DEF Merge, TypeOK
  <2> QED BY <1>6, <2>2, <2>4, <2>5 DEF Merge, TypeOK
<1>7. ASSUME Leave \/ Ping \/ Written PROVE TypeOK'
  BY <1>7 DEF Leave, Ping, Written, TypeOK
<1>8. ASSUME Unwind PROVE TypeOK'
  <2>1. at' \in Streams /\ BrokerOf[at] \in Brokers
    BY SMTT(40), <1>8, StreamsAssumption DEF Unwind, TypeOK, Streams
  <2>2. conn' \in [Brokers -> {0} \cup Streams] /\ closed' \subseteq Streams
    BY <1>8, <2>1 DEF Unwind, TypeOK
  <2> QED BY <1>8, <2>1, <2>2 DEF Unwind, TypeOK
<1>9. ASSUME NEW s \in Streams, Take(s) PROVE TypeOK'
  <2>1. Head(buf[s]) \in Event /\ Tail(buf[s]) \in Seq(Event)
    BY <1>9 DEF Take, TypeOK
  <2>2. <<Head(buf[s])>> \in Seq(Event) /\ Len(<<Head(buf[s])>>) = 1
    BY <2>1
  <2>3. /\ held' \in [Streams -> Seq(Event)]
        /\ buf' \in [Streams -> Seq(Event)]
        /\ pump' \in [Streams -> {"none", "receiving", "holding", "exited"}]
    BY <1>9, <2>1, <2>2 DEF Take, TypeOK
  <2>4. \A r \in Streams : pump'[r] = "holding" => Len(held'[r]) = 1
    BY <1>9, <2>2 DEF Take, TypeOK
  <2> QED BY <1>9, <2>3, <2>4 DEF Take, TypeOK
<1>10. ASSUME NEW s \in Streams, Stop(s) PROVE TypeOK'
  <2>1. <<>> \in Seq(Event)
    OBVIOUS
  <2>2. /\ held' \in [Streams -> Seq(Event)]
        /\ pump' \in [Streams -> {"none", "receiving", "holding", "exited"}]
    BY <1>10, <2>1 DEF Stop, TypeOK
  <2>3. \A r \in Streams : pump'[r] = "holding" => Len(held'[r]) = 1
    BY <1>10 DEF Stop, TypeOK
  <2> QED BY <1>10, <2>2, <2>3 DEF Stop, TypeOK
<1>11. ASSUME NEW b \in Brokers, Publish(b) PROVE TypeOK'
  <2>1. published[b] + 1 \in Event /\ published' \in [Brokers -> Nat]
    BY <1>11 DEF Publish, TypeOK, Event
  <2>2. Offer(b, published[b] + 1)
    BY <1>11 DEF Publish
  <2>3. /\ buf' \in [Streams -> Seq(Event)]
        /\ accepted' \in [Streams -> Seq(Event)]
    BY <2>1, <2>2, OfferType
  <2> QED BY <1>11, <2>1, <2>3 DEF Publish, TypeOK
<1>12. ASSUME Navigate PROVE TypeOK'
  BY <1>12 DEF Navigate, TypeOK
<1>13. ASSUME Cancel \/ Stall PROVE TypeOK'
  BY <1>13 DEF Cancel, Stall, TypeOK
<1>14. ASSUME CallerConnect PROVE TypeOK'
  BY <1>14 DEF CallerConnect, TypeOK
<1>15. ASSUME CallerDisconnect PROVE TypeOK'
  <2>1. at' \in Streams
    BY <1>15, StreamsAssumption DEF CallerDisconnect, Streams
  <2> QED BY <1>15, <2>1 DEF CallerDisconnect, TypeOK
<1>16. ASSUME UNCHANGED vars PROVE TypeOK'
  BY <1>16 DEF vars, TypeOK
<1> QED
  BY <1>1, <1>2, <1>3, <1>4, <1>5, <1>6, <1>7, <1>8, <1>9, <1>10, <1>11, <1>12, <1>13,
     <1>14, <1>15, <1>16 DEF Next, HandlerStep

\* Every variable keeps its type (handler.go:48-200).
THEOREM TypeCorrect == Spec => []TypeOK
BY InitType, StepType, PTL DEF Spec

-----------------------------------------------------------------------------
(* What the handler leaves behind *)

LEMMA StepPlaced == TypeOK /\ Placed /\ [Next]_vars => Placed'
<1> SUFFICES ASSUME TypeOK, Placed, [Next]_vars
             PROVE  Placed'
  OBVIOUS
<1>1. ASSUME Subscribe PROVE Placed'
  BY <1>1 DEF Subscribe, Placed, TypeOK
<1>2. ASSUME Unwind PROVE Placed'
  BY <1>2 DEF Unwind, Placed, TypeOK
<1>3. ASSUME UNCHANGED conn PROVE Placed'
  BY <1>3 DEF Placed
<1> QED
  BY <1>1, <1>2, <1>3
     DEF Next, HandlerStep, Connect, CallerConnect, Panic, SetPage, SendId, Merge, Ping,
         Written, Leave, CallerDisconnect, Take, Stop, Publish, Navigate, Cancel, Stall,
         vars, brokerVars

\* Everything the invariant speaks of but the page and the wire.
frame == <<pc, at, connected, disconnected, conn>>

LEMMA StepProgress == TypeOK /\ Placed /\ Progress /\ [Next]_vars => Progress'
<1> SUFFICES ASSUME TypeOK, Placed, Progress, [Next]_vars
             PROVE  Progress'
  OBVIOUS
<1>a. /\ N \in Nat \ {0} /\ at \in 1..N /\ Streams = 1..N
      /\ connected \subseteq 1..N /\ disconnected \subseteq 1..N
      /\ conn \in [Brokers -> {0} \cup 1..N]
  BY StreamsAssumption DEF TypeOK, Streams
<1>1. ASSUME Subscribe PROVE Progress'
  BY <1>1 DEF Subscribe, Progress, Serving, hookVars
<1>2. ASSUME Connect PROVE Progress'
  <2>1. /\ pc = "onConnect" /\ disconnected' = {} /\ connected = 1..(at - 1)
        /\ connected' = connected \cup {at}
    BY <1>2 DEF Connect, Progress
  <2>2. connected' = 1..at
    BY <1>a, <2>1
  <2>3. CASE at < N
    <3>1. pc' = "subscribe" /\ at' = at + 1
      BY <1>a, <1>2, <2>3 DEF Connect
    <3>2. connected' = 1..(at' - 1)
      BY <1>a, <2>2, <3>1
    <3> QED BY <2>1, <3>1, <3>2 DEF Progress, Serving
  <2>4. CASE at = N
    <3>1. pc' = "callerConnect"
      BY <1>2, <1>a, <2>4 DEF Connect
    <3> QED BY <1>a, <2>1, <2>2, <2>4, <3>1 DEF Progress, Serving
  <2> QED BY <1>a, <2>3, <2>4
<1>3. ASSUME Panic PROVE Progress'
  <2>1. /\ connected' = connected /\ disconnected' = disconnected /\ conn' = conn
    BY <1>3 DEF Panic, hookVars, brokerVars
  <2>2. CASE pc = "onConnect" /\ at = 1
    <3>1. pc' = "gone" /\ connected = {} /\ disconnected = {}
      BY <1>3, <2>2 DEF Panic, Progress
    <3> QED BY <2>1, <3>1 DEF Progress, Serving
  <2>3. CASE pc = "onConnect" /\ at # 1
    <3>1. pc' = "returning" /\ at' = at - 1 /\ disconnected = {} /\ connected = 1..(at - 1)
      BY <1>3, <2>3 DEF Panic, Progress
    <3>2. \A b \in Brokers : conn[b] \in connected => conn[b] <= at - 1
      BY <1>a, <3>1
    <3>3. connected = 1..at' /\ disconnected' = connected \ (1..at')
      BY <1>a, <2>1, <3>1
    <3> QED BY <2>1, <3>1, <3>2, <3>3 DEF Progress, Serving
  <2>4. CASE pc = "callerConnect"
    <3>1. pc' = "returning" /\ at' = N /\ disconnected = {} /\ connected = 1..N
      BY <1>3, <1>a, <2>4 DEF Panic, Progress
    <3>2. \A b \in Brokers : conn[b] \in connected => conn[b] <= N
      BY <1>a, <3>1
    <3> QED BY <1>a, <2>1, <3>1, <3>2 DEF Progress, Serving
  <2>5. CASE pc = "page"
    <3>1. pc' = "callerDisconnect"
      BY <1>3, <2>5 DEF Panic
    <3> QED BY <2>1, <2>5, <3>1 DEF Progress, Serving
  <2> QED BY <1>3, <2>2, <2>3, <2>4, <2>5 DEF Panic
<1>4. ASSUME UNCHANGED <<connected, disconnected>>, pc \in {"callerConnect"} \cup Serving,
             pc' \in Serving
      PROVE  Progress'
  BY <1>4 DEF Progress, Serving
<1>5. ASSUME CallerConnect \/ SetPage \/ SendId \/ Ping \/ Written \/ Leave
             \/ (\E s \in Streams : Merge(s))
      PROVE  Progress'
  <2>1. UNCHANGED <<connected, disconnected>>
    BY <1>5 DEF CallerConnect, SetPage, SendId, Merge, Ping, Written, Leave, hookVars
  <2>2. pc \in {"callerConnect"} \cup Serving
    BY <1>5 DEF CallerConnect, SetPage, SendId, Merge, Ping, Written, Leave, Serving
  <2>3. pc' \in Serving
    BY <1>5 DEF CallerConnect, SetPage, SendId, Merge, Ping, Written, Leave, Serving
  <2> QED BY <1>4, <2>1, <2>2, <2>3
<1>6. ASSUME CallerDisconnect PROVE Progress'
  <2>1. /\ pc' = "returning" /\ pc = "callerDisconnect" /\ at' = N /\ conn' = conn
        /\ connected' = connected /\ disconnected' = disconnected
    BY <1>6 DEF CallerDisconnect, brokerVars
  <2>2. connected = 1..N /\ disconnected = {}
    BY <1>a, <2>1 DEF Progress, Serving
  <2>3. \A b \in Brokers : conn[b] \in connected => conn[b] <= N
    BY <1>a, <2>2
  <2> QED BY <2>1, <2>2, <2>3 DEF Progress, Serving
<1>7. ASSUME Unwind PROVE Progress'
  <2>1. /\ pc = "returning" /\ connected' = connected
        /\ disconnected' = disconnected \cup {at}
        /\ conn' = [conn EXCEPT ![BrokerOf[at]] = 0]
        /\ 1..at \subseteq connected
        /\ disconnected = connected \ (1..at)
        /\ \A b \in Brokers : conn[b] \in connected => conn[b] <= at
    BY <1>7 DEF Unwind, Progress
  <2>2. \A b \in Brokers : conn'[b] \in connected => conn'[b] <= at - 1
    <3> SUFFICES ASSUME NEW b \in Brokers, conn'[b] \in connected
                 PROVE  conn'[b] <= at - 1
      OBVIOUS
    <3>1. b # BrokerOf[at]
      <4>1. 0 \notin connected
        BY <1>a
      <4> QED BY <1>a, <2>1, <4>1
    <3>2. conn'[b] = conn[b] /\ conn[b] \in 1..N /\ conn[b] <= at
      BY <1>a, <2>1, <3>1
    <3>3. conn[b] # at
      BY <3>1, <3>2 DEF Placed
    <3> QED BY <1>a, <3>2, <3>3
  <2>3. disconnected' = connected \ (1..(at - 1))
    <3>1. 1..at = (1..(at - 1)) \cup {at} /\ at \notin 1..(at - 1)
      BY <1>a
    <3> QED BY <2>1, <3>1
  <2>4. CASE at > 1
    <3>1. pc' = "returning" /\ at' = at - 1
      BY <1>7, <2>4 DEF Unwind
    <3>2. 1..(at - 1) \subseteq connected
      BY <1>a, <2>1
    <3> QED BY <2>1, <2>2, <2>3, <3>1, <3>2 DEF Progress, Serving
  <2>5. CASE at = 1
    <3>1. pc' = "gone"
      BY <1>7, <2>5 DEF Unwind
    <3>2. disconnected' = connected
      BY <2>3, <2>5
    <3>3. ASSUME NEW b \in Brokers, conn'[b] \in connected
          PROVE  FALSE
      <4>1. conn'[b] <= at - 1
        BY <2>2, <3>3
      <4>2. conn'[b] \in 1..N
        BY <1>a, <3>3
      <4> QED BY <1>a, <2>5, <4>1, <4>2
    <3> QED BY <2>1, <3>1, <3>2, <3>3 DEF Progress, Serving
  <2> QED BY <1>a, <2>4, <2>5
<1>8. ASSUME UNCHANGED frame PROVE Progress'
  BY <1>8 DEF frame, Progress, Serving
<1> QED
  BY <1>1, <1>2, <1>3, <1>4, <1>5, <1>6, <1>7, <1>8
     DEF Next, HandlerStep, Take, Stop, Publish, Navigate, Cancel, Stall, vars,
         handlerVars, hookVars, brokerVars, frame

LEMMA StepCaller == TypeOK /\ CallerInvariant /\ [Next]_vars => CallerInvariant'
<1> SUFFICES ASSUME TypeOK, CallerInvariant, [Next]_vars
             PROVE  CallerInvariant'
  OBVIOUS
<1>a. /\ N \in Nat \ {0} /\ at \in 1..N /\ Streams = 1..N
      /\ conn \in [Brokers -> {0} \cup 1..N] /\ BrokerOf \in [1..N -> Brokers]
      /\ callerOn \in BOOLEAN /\ callerOff \in BOOLEAN
  BY StreamsAssumption DEF TypeOK, Streams
<1>1. ASSUME Subscribe PROVE CallerInvariant'
  <2>1. /\ pc' = "onConnect" /\ at' = at /\ UNCHANGED <<callerOn, callerOff>>
        /\ \A s \in 1..(at - 1) : conn[BrokerOf[s]] # 0
        /\ ~callerOn /\ ~callerOff
    BY <1>1 DEF Subscribe, CallerInvariant, hookVars
  <2>2. ASSUME NEW s \in 1..at PROVE conn'[BrokerOf[s]] # 0
    <3>1. conn' = [conn EXCEPT ![BrokerOf[at]] = at] /\ BrokerOf[s] \in Brokers
      BY <1>1, <1>a, <2>2 DEF Subscribe
    <3>2. s = at \/ s \in 1..(at - 1)
      BY <1>a, <2>2
    <3> QED BY <1>a, <2>1, <3>1, <3>2
  <2> QED BY <2>1, <2>2 DEF CallerInvariant, Serving
<1>2. ASSUME Connect PROVE CallerInvariant'
  <2>1. /\ \A s \in 1..at : conn[BrokerOf[s]] # 0
        /\ ~callerOn /\ ~callerOff
        /\ UNCHANGED <<conn, callerOn, callerOff>>
    BY <1>2 DEF Connect, CallerInvariant, brokerVars
  <2>2. CASE at < N
    <3>1. pc' = "subscribe" /\ at' = at + 1 /\ at' - 1 = at
      BY <1>2, <1>a, <2>2 DEF Connect
    <3> QED BY <2>1, <3>1 DEF CallerInvariant, Serving
  <2>3. CASE at = N
    <3>1. pc' = "callerConnect"
      BY <1>2, <1>a, <2>3 DEF Connect
    <3> QED BY <1>a, <2>1, <2>3, <3>1 DEF CallerInvariant, Serving
  <2> QED BY <1>a, <2>2, <2>3
<1>3. ASSUME Panic PROVE CallerInvariant'
  <2>1. UNCHANGED <<conn, callerOn, callerOff>>
    BY <1>3 DEF Panic, hookVars, brokerVars
  <2>2. \/ pc \in {"onConnect", "callerConnect"} /\ pc' \in {"returning", "gone"}
        \/ pc = "page" /\ pc' = "callerDisconnect"
    BY <1>3 DEF Panic
  <2> QED BY <1>a, <2>1, <2>2 DEF CallerInvariant, Serving
<1>4. ASSUME CallerConnect PROVE CallerInvariant'
  BY <1>4 DEF CallerConnect, CallerInvariant, Serving, brokerVars
<1>5. ASSUME UNCHANGED <<conn, callerOn, callerOff>>, pc \in Serving, pc' \in Serving
      PROVE  CallerInvariant'
  BY <1>5 DEF CallerInvariant, Serving
<1>6. ASSUME SetPage \/ SendId \/ Ping \/ Written \/ Leave \/ (\E s \in Streams : Merge(s))
      PROVE  CallerInvariant'
  <2>1. UNCHANGED <<conn, callerOn, callerOff>>
    BY <1>6 DEF SetPage, SendId, Merge, Ping, Written, Leave, hookVars, brokerVars
  <2>2. pc \in Serving
    BY <1>6 DEF SetPage, SendId, Merge, Ping, Written, Leave, Serving
  <2>3. pc' \in Serving
    BY <1>6 DEF SetPage, SendId, Merge, Ping, Written, Leave, Serving
  <2> QED BY <1>5, <2>1, <2>2, <2>3
<1>7. ASSUME CallerDisconnect PROVE CallerInvariant'
  BY <1>7 DEF CallerDisconnect, CallerInvariant, Serving
<1>8. ASSUME Unwind PROVE CallerInvariant'
  <2>1. pc' \in {"returning", "gone"} /\ pc = "returning" /\ UNCHANGED <<callerOn, callerOff>>
    BY <1>8 DEF Unwind
  <2> QED BY <2>1 DEF CallerInvariant, Serving
<1>9. ASSUME UNCHANGED <<pc, at, conn, callerOn, callerOff>> PROVE CallerInvariant'
  BY <1>9 DEF CallerInvariant, Serving
<1> QED
  BY <1>1, <1>2, <1>3, <1>4, <1>6, <1>7, <1>8, <1>9
     DEF Next, HandlerStep, Take, Stop, Publish, Navigate, Cancel, Stall, vars,
         handlerVars, hookVars, brokerVars

LEMMA StepSilent == TypeOK /\ SilentSetup /\ [Next]_vars => SilentSetup'
<1> SUFFICES ASSUME TypeOK, SilentSetup, [Next]_vars
             PROVE  SilentSetup'
  OBVIOUS
<1>1. ASSUME Subscribe PROVE SilentSetup'
  BY <1>1 DEF Subscribe, SilentSetup, Setup, TypeOK
<1>2. ASSUME SetPage PROVE SilentSetup'
  BY <1>2 DEF SetPage, SilentSetup, Setup, TypeOK
<1>3. ASSUME NEW s \in Streams, Merge(s) PROVE SilentSetup'
  BY <1>3 DEF Merge, SilentSetup, Setup, handlerVars
<1>4. ASSUME Navigate PROVE SilentSetup'
  <2>1. \E s \in Streams : wire[s] # <<>>
    BY <1>4 DEF Navigate, Told
  <2> QED BY <1>4, <2>1 DEF Navigate, SilentSetup, handlerVars
<1>5. ASSUME UNCHANGED <<page, wire>>, pc' \in Setup => pc \in Setup PROVE SilentSetup'
  BY <1>5 DEF SilentSetup
<1> QED
  BY <1>1, <1>2, <1>3, <1>4, <1>5
     DEF Next, HandlerStep, Connect, CallerConnect, Panic, SendId, Ping, Written, Leave,
         CallerDisconnect, Unwind, Take, Stop, Publish, Cancel, Stall, Setup, vars,
         handlerVars, hookVars, brokerVars

THEOREM HandlerIsConsistent == Spec => []HandlerInvariant
<1>1. Init => HandlerInvariant
  <2>1. Init => Placed /\ Progress /\ CallerInvariant /\ SilentSetup
    BY StreamsAssumption DEF Init, Placed, Progress, Serving, CallerInvariant, SilentSetup
  <2> QED BY <2>1, InitType DEF HandlerInvariant
<1>2. HandlerInvariant /\ [Next]_vars => HandlerInvariant'
  BY StepType, StepPlaced, StepProgress, StepCaller, StepSilent DEF HandlerInvariant
<1> QED BY <1>1, <1>2, PTL DEF Spec

\* Whatever brokers the streams share and whichever OnConnect panics, a handler
\* that is gone has left no connected stream in a broker (handler.go:104-109).
THEOREM NothingIsLeft == Spec => []NothingLeft
<1>1. HandlerInvariant => NothingLeft
  BY DEF HandlerInvariant, Progress, NothingLeft
<1> QED BY <1>1, HandlerIsConsistent, PTL

\* Whichever hook panics, OnDisconnect runs for exactly the streams whose OnConnect
\* returned, when the broker no longer knows the connection, and the caller's hooks
\* are called as a pair around it, while every broker knows it (handler.go:102-142).
THEOREM HooksArePaired == Spec => []HooksPaired
<1>1. HandlerInvariant => HooksPaired
  <2> SUFFICES ASSUME HandlerInvariant
               PROVE  HooksPaired
    OBVIOUS
  <2>1. pc = "gone" => disconnected = connected /\ callerOff = callerOn
    BY DEF HandlerInvariant, Progress, CallerInvariant
  <2>2. ASSUME NEW s \in disconnected, conn[BrokerOf[s]] = s
        PROVE  FALSE
    <3>1. s \in Streams /\ BrokerOf[s] \in Brokers /\ at \in Streams
      BY StreamsAssumption DEF HandlerInvariant, TypeOK
    <3>2. CASE pc = "returning"
      <4>1. s \in connected /\ s \notin 1..at
        BY <2>2, <3>2 DEF HandlerInvariant, Progress
      <4>2. s <= at
        BY <2>2, <3>1, <3>2, <4>1 DEF HandlerInvariant, Progress
      <4>3. s \in 1..N /\ at \in 1..N /\ N \in Nat
        BY <3>1, StreamsAssumption DEF Streams
      <4> QED BY <4>1, <4>2, <4>3
    <3>3. CASE pc = "gone"
      BY <2>2, <3>1, <3>3 DEF HandlerInvariant, Progress
    <3> QED BY <2>2, <3>2, <3>3 DEF HandlerInvariant, Progress
  <2>3. ASSUME callerOn, ~callerOff
        PROVE  connected = Streams /\ \A s \in Streams : conn[BrokerOf[s]] # 0
    <3>1. pc \in Serving
      BY <2>3 DEF HandlerInvariant, TypeOK, CallerInvariant, Serving
    <3> QED BY <3>1 DEF HandlerInvariant, Progress, CallerInvariant
  <2> QED BY <2>1, <2>2, <2>3 DEF HooksPaired
<1> QED BY <1>1, HandlerIsConsistent, PTL

\* The initial page never replaces one the client has navigated to
\* (handler.go:146-172).
THEOREM PageIsNotRegressed == Spec => PageNotRegressed
<1>1. HandlerInvariant /\ [Next]_vars =>
        [\A b \in Brokers : page[b] = "client" => page'[b] = "client"]_vars
  <2> SUFFICES ASSUME HandlerInvariant, Next, NEW b \in Brokers, page[b] = "client"
               PROVE  page'[b] = "client"
    OBVIOUS
  <2>1. pc \notin Setup
    BY DEF HandlerInvariant, SilentSetup
  <2>2. ~Subscribe /\ ~SetPage
    BY <2>1 DEF Subscribe, SetPage, Setup
  <2>3. CASE Navigate
    BY <2>3 DEF HandlerInvariant, TypeOK, Navigate
  <2>4. CASE UNCHANGED page
    BY <2>4
  <2> QED
    BY <2>2, <2>3, <2>4
       DEF Next, HandlerStep, Connect, CallerConnect, Panic, SendId, Merge, Ping, Written,
           Leave, CallerDisconnect, Unwind, Take, Stop, Publish, Cancel, Stall, brokerVars
<1> QED BY <1>1, HandlerIsConsistent, PTL DEF Spec, PageNotRegressed

-----------------------------------------------------------------------------
(* Order *)

\* A pump that has not been started, or waits for its channel, has no event.
InHand ==
    /\ \A s \in Streams : pump[s] # "holding" => held[s] = <<>>
    /\ pc \in {"subscribe", "onConnect"} => \A s \in Streams : s >= at => pump[s] = "none"

LEMMA StepInHand == TypeOK /\ InHand /\ [Next]_vars => InHand'
<1> SUFFICES ASSUME TypeOK, InHand, [Next]_vars
             PROVE  InHand'
  OBVIOUS
<1> USE DEF handlerVars, hookVars, pumpVars
<1>1. ASSUME Connect PROVE InHand'
  <2>0. at \in Streams /\ at \in 1..N /\ N \in Nat /\ at \in Nat /\ pc = "onConnect"
    BY <1>1, StreamsAssumption DEF Connect, TypeOK, Streams
  <2>1. /\ pump[at] = "none" /\ held[at] = <<>> /\ held' = held
        /\ \A s \in Streams \ {at} : pump'[s] = pump[s]
    <3>1. pump[at] = "none"
      BY <2>0 DEF InHand
    <3> QED BY <1>1, <2>0, <3>1 DEF Connect, TypeOK, InHand
  <2>2. \A s \in Streams : pump'[s] # "holding" => held'[s] = <<>>
    BY <2>1 DEF InHand
  <2>3. CASE at < N
    <3>1. at' = at + 1
      BY <1>1, <2>3 DEF Connect
    <3>2. ASSUME NEW s \in Streams, s >= at + 1 PROVE pump'[s] = "none"
      <4>1. s \in Nat /\ s >= at /\ s # at
        BY <2>0, <3>2 DEF Streams
      <4> QED BY <2>0, <2>1, <4>1 DEF InHand
    <3> QED BY <2>2, <3>1, <3>2 DEF InHand
  <2>4. CASE at = N
    <3>1. pc' = "callerConnect"
      BY <1>1, <2>0, <2>4 DEF Connect
    <3> QED BY <2>2, <3>1 DEF InHand
  <2> QED BY <2>0, <2>3, <2>4
<1>2. ASSUME NEW s \in Streams, Merge(s) \/ Take(s) \/ Stop(s) PROVE InHand'
  <2>1. /\ \A r \in Streams \ {s} : pump'[r] = pump[r] /\ held'[r] = held[r]
        /\ pump'[s] # "holding" => held'[s] = <<>>
    BY <1>2 DEF Merge, Take, Stop, TypeOK
  <2>2. pump[s] # "none" /\ at' = at /\ (pc' = pc \/ pc' = "writing")
    BY <1>2 DEF Merge, Take, Stop
  <2> QED BY <2>1, <2>2 DEF InHand
<1>3. ASSUME Subscribe PROVE InHand'
  BY <1>3 DEF Subscribe, InHand
<1>4. ASSUME UNCHANGED pumpVars, pc' \notin {"subscribe", "onConnect"} PROVE InHand'
  BY <1>4 DEF InHand
<1>5. ASSUME UNCHANGED <<pumpVars, pc, at>> PROVE InHand'
  BY <1>5 DEF InHand
<1>6. ASSUME CallerConnect \/ Panic \/ SetPage \/ SendId \/ Ping \/ Written \/ Leave
             \/ CallerDisconnect \/ Unwind
      PROVE  InHand'
  BY <1>4, <1>6 DEF CallerConnect, Panic, SetPage, SendId, Ping, Written, Leave,
                    CallerDisconnect, Unwind
<1>7. ASSUME UNCHANGED vars \/ Navigate \/ Cancel \/ Stall \/ (\E b \in Brokers : Publish(b))
      PROVE  InHand'
  BY <1>5, <1>7 DEF Navigate, Cancel, Stall, Publish, vars
<1> QED
  BY <1>1, <1>2, <1>3, <1>6, <1>7 DEF Next, HandlerStep

\* Sequences: an element appended on the right, handed over, taken from a queue.
LEMMA AppendMoves ==
    ASSUME NEW S, NEW w \in Seq(S), NEW b \in Seq(S), NEW e \in S
    PROVE  w \o Append(b, e) = Append(w \o b, e)
<1>1. Append(b, e) = b \o <<e>> /\ Append(w \o b, e) = (w \o b) \o <<e>>
  BY AppendIsConcat, ConcatProperties
<1>2. <<e>> \in Seq(S)
  OBVIOUS
<1> QED BY <1>1, <1>2, ConcatAssociative

LEMMA OneIsAppended ==
    ASSUME NEW S, NEW w \in Seq(S), NEW h \in Seq(S), Len(h) = 1
    PROVE  Append(w, h[1]) = w \o h
<1>1. h[1] \in S
  BY ElementOfSeq
<1> DEFINE one == <<h[1]>>
<1>2. one \in Seq(S) /\ Len(one) = 1 /\ one[1] = h[1]
  BY <1>1
<1> HIDE DEF one
<1>3. h = one
  BY <1>2, SeqEqual
<1>4. Append(w, h[1]) = w \o <<h[1]>>
  BY <1>1, AppendIsConcat
<1> QED BY <1>3, <1>4 DEF one

LEMMA HeadMoves ==
    ASSUME NEW S, NEW w \in Seq(S), NEW b \in Seq(S), b # <<>>
    PROVE  (w \o <<Head(b)>>) \o Tail(b) = w \o b
<1>1. <<Head(b)>> \in Seq(S) /\ Tail(b) \in Seq(S)
  BY HeadTailProperties
<1>2. <<Head(b)>> \o Tail(b) = b
  BY <1>1
<1> QED BY <1>1, <1>2, ConcatAssociative

\* What a channel accepts goes to the end of it and of the history.
LEMMA OfferOrder ==
    ASSUME TypeOK, InOrder, NEW b \in Brokers, NEW e \in Event, Offer(b, e),
           UNCHANGED <<pumpVars, wire>>
    PROVE  InOrder'
<1> SUFFICES ASSUME NEW s \in Streams, pump[s] # "exited"
             PROVE  accepted'[s] = wire[s] \o held[s] \o buf'[s]
  BY DEF InOrder, pumpVars
<1>1. /\ accepted[s] = (wire[s] \o held[s]) \o buf[s]
      /\ wire[s] \in Seq(Event) /\ held[s] \in Seq(Event) /\ buf[s] \in Seq(Event)
  BY DEF InOrder, TypeOK
<1>2. \/ accepted'[s] = accepted[s] /\ buf'[s] = buf[s]
      \/ accepted'[s] = Append(accepted[s], e) /\ buf'[s] = Append(buf[s], e)
  <2>1. CASE UNCHANGED <<buf, accepted>>
    BY <2>1
  <2>2. CASE /\ buf' = [buf EXCEPT ![conn[b]] = Append(@, e)]
             /\ accepted' = [accepted EXCEPT ![conn[b]] = Append(@, e)]
    <3>1. s \in DOMAIN buf /\ s \in DOMAIN accepted
      BY DEF TypeOK
    <3>2. CASE s = conn[b]
      BY <2>2, <3>1, <3>2
    <3>3. CASE s # conn[b]
      BY <2>2, <3>1, <3>3
    <3> QED BY <3>2, <3>3
  <2> QED BY <2>1, <2>2 DEF Offer
<1>3. wire[s] \o held[s] \in Seq(Event)
  BY <1>1, ConcatProperties
<1> DEFINE before == wire[s] \o held[s]
<1>4. before \o Append(buf[s], e) = Append(before \o buf[s], e)
  <2>1. before \in Seq(Event)
    BY <1>3
  <2> HIDE DEF before
  <2> QED BY <1>1, <2>1, AppendMoves
<1> QED BY <1>1, <1>2, <1>4

LEMMA StepOrder == TypeOK /\ InHand /\ InOrder /\ [Next]_vars => InOrder'
<1> SUFFICES ASSUME TypeOK, InHand, InOrder, [Next]_vars
             PROVE  InOrder'
  OBVIOUS
<1> USE DEF handlerVars, brokerVars, chanVars, pumpVars
<1>1. ASSUME Connect PROVE InOrder'
  <2>1. /\ pc = "onConnect" /\ at \in Streams /\ at \in Nat
        /\ UNCHANGED <<accepted, buf, held, wire>>
    BY <1>1, StreamsAssumption DEF Connect, TypeOK, Streams
  <2>2. pump[at] = "none"
    BY <2>1 DEF InHand
  <2>3. \A s \in Streams : pump'[s] # "exited" => pump[s] # "exited"
    BY <1>1, <2>2 DEF Connect, TypeOK
  <2> QED BY <2>1, <2>3 DEF InOrder
<1>2. ASSUME SendId PROVE InOrder'
  <2>1. BrokerOf[1] \in Brokers /\ ConnectionId \in Event
    BY StreamsAssumption DEF Streams, Event, ConnectionId
  <2> QED BY <1>2, <2>1, OfferOrder DEF SendId
<1>3. ASSUME NEW b \in Brokers, Publish(b) PROVE InOrder'
  <2>1. published[b] + 1 \in Event
    BY <1>3 DEF Publish, TypeOK, Event
  <2> QED BY <1>3, <2>1, OfferOrder DEF Publish
<1>4. ASSUME NEW s \in Streams, Merge(s) PROVE InOrder'
  <2>1. /\ wire[s] \in Seq(Event) /\ held[s] \in Seq(Event) /\ Len(held[s]) = 1
        /\ accepted[s] = (wire[s] \o held[s]) \o buf[s] /\ buf[s] \in Seq(Event)
    BY <1>4 DEF Merge, TypeOK, InOrder
  <2>2. wire'[s] = Append(wire[s], held[s][1]) /\ held'[s] = <<>>
    BY <1>4 DEF Merge, TypeOK
  <2>3. wire'[s] = wire[s] \o held[s] /\ held'[s] = <<>>
    BY <2>1, <2>2, OneIsAppended
  <2>4. accepted'[s] = wire'[s] \o held'[s] \o buf'[s]
    <3>1. wire[s] \o held[s] \in Seq(Event)
      BY <2>1, ConcatProperties
    <3>2. (wire[s] \o held[s]) \o <<>> = wire[s] \o held[s]
      BY <3>1, ConcatEmptySeq
    <3> QED BY <1>4, <2>1, <2>3, <3>2 DEF Merge
  <2>5. \A r \in Streams \ {s} :
            wire'[r] = wire[r] /\ held'[r] = held[r] /\ pump'[r] = pump[r]
    BY <1>4 DEF Merge, TypeOK
  <2> QED BY <1>4, <2>4, <2>5 DEF Merge, InOrder
<1>5. ASSUME NEW s \in Streams, Take(s) PROVE InOrder'
  <2>1. /\ wire[s] \in Seq(Event) /\ buf[s] \in Seq(Event) /\ buf[s] # <<>>
        /\ held[s] = <<>> /\ accepted[s] = (wire[s] \o held[s]) \o buf[s]
    BY <1>5 DEF Take, TypeOK, InOrder, InHand
  <2>2. held'[s] = <<Head(buf[s])>> /\ buf'[s] = Tail(buf[s])
    BY <1>5 DEF Take, TypeOK
  <2>3. (wire[s] \o <<Head(buf[s])>>) \o Tail(buf[s]) = wire[s] \o buf[s]
    BY <2>1, HeadMoves
  <2>4. accepted[s] = wire[s] \o buf[s]
    BY <2>1, ConcatEmptySeq
  <2>5. accepted'[s] = wire'[s] \o held'[s] \o buf'[s]
    BY <1>5, <2>2, <2>3, <2>4 DEF Take
  <2>6. \A r \in Streams \ {s} :
            buf'[r] = buf[r] /\ held'[r] = held[r] /\ pump'[r] = pump[r]
    BY <1>5 DEF Take, TypeOK
  <2> QED BY <1>5, <2>5, <2>6 DEF Take, InOrder
<1>6. ASSUME NEW s \in Streams, Stop(s) PROVE InOrder'
  BY <1>6 DEF Stop, InOrder, TypeOK
<1>7. ASSUME UNCHANGED <<accepted, buf, held, wire, pump>> PROVE InOrder'
  BY <1>7 DEF InOrder
<1> QED
  BY <1>1, <1>2, <1>3, <1>4, <1>5, <1>6, <1>7
     DEF Next, HandlerStep, Subscribe, CallerConnect, Panic, SetPage, Ping, Written, Leave,
         CallerDisconnect, Unwind, Navigate, Cancel, Stall, vars

\* Between channel and wire no event is lost, repeated or overtaken, for any
\* number of streams and whichever pump the writer serves (handler.go:117-198).
THEOREM EventsStayInOrder == Spec => []InOrder
<1>1. Init => TypeOK /\ InHand /\ InOrder
  <2> SUFFICES ASSUME Init PROVE InHand /\ InOrder
    BY InitType
  <2>1. InHand
    BY DEF Init, InHand
  <2>2. \A s \in Streams : accepted[s] = <<>> /\ wire[s] \o held[s] \o buf[s] = <<>>
    BY DEF Init
  <2> QED BY <2>1, <2>2 DEF InOrder
<1>2. TypeOK /\ InHand /\ InOrder /\ [Next]_vars => (TypeOK /\ InHand /\ InOrder)'
  BY StepType, StepInHand, StepOrder
<1> QED BY <1>1, <1>2, PTL DEF Spec
-----------------------------------------------------------------------------
(* How long the handler may go on *)

\* The steps the handler has left at most, besides the events and pings it writes.
StepsLeft ==
    CASE pc = "subscribe"     -> 2 * (N - at) + 2 * N + 6
      [] pc = "onConnect"     -> 2 * (N - at) + 2 * N + 5
      [] pc = "callerConnect" -> 2 * N + 4
      [] pc = "page"          -> (N - at) + N + 4
      [] pc = "sendId"        -> N + 3
      [] pc = "loop" \/ pc = "writing" \/ pc = "pinging" -> N + 2
      [] pc = "callerDisconnect" -> N + 1
      [] pc = "returning"     -> at
      [] OTHER                -> 0

\* Every step of the handler but the writing of events and pings brings it nearer to its
\* end, and nothing that brokers, pumps or clients do takes it away from it:
\* 4 * N + 4 steps set a connection of N streams up and tear it down.  This is
\* what makes the fair steps of TornDown come to an end (handler.go:91-200).
THEOREM HandlerIsFinite ==
    Spec => [][/\ StepsLeft \in 0..(4 * N + 4)
               /\ StepsLeft' <= StepsLeft
               /\ HandlerStep \/ Panic \/ Leave => StepsLeft' < StepsLeft]_vars
<1>1. ASSUME TypeOK, Next
      PROVE  /\ StepsLeft \in 0..(4 * N + 4)
             /\ StepsLeft' <= StepsLeft
             /\ HandlerStep \/ Panic \/ Leave => StepsLeft' < StepsLeft
  <2>1. N \in Nat /\ N > 0 /\ at \in 1..N
    BY <1>1, StreamsAssumption DEF TypeOK, Streams
  <2>2. pc \in {"subscribe", "onConnect", "callerConnect", "page", "sendId", "loop",
                "writing", "pinging", "callerDisconnect", "returning", "gone"}
    BY <1>1 DEF TypeOK
  <2>3. StepsLeft \in 0..(4 * N + 4) /\ StepsLeft \in Int
    <3>1. CASE pc = "subscribe"
      BY <2>1, <3>1 DEF StepsLeft
    <3>2. CASE pc = "onConnect"
      BY <2>1, <3>2 DEF StepsLeft
    <3>3. CASE pc = "callerConnect"
      BY <2>1, <3>3 DEF StepsLeft
    <3>4. CASE pc = "page"
      BY <2>1, <3>4 DEF StepsLeft
    <3>5. CASE pc = "sendId"
      BY <2>1, <3>5 DEF StepsLeft
    <3>6. CASE pc = "loop"
      BY <2>1, <3>6 DEF StepsLeft
    <3>7. CASE pc = "writing"
      BY <2>1, <3>7 DEF StepsLeft
    <3>8. CASE pc = "pinging"
      BY <2>1, <3>8 DEF StepsLeft
    <3>9. CASE pc = "callerDisconnect"
      BY <2>1, <3>9 DEF StepsLeft
    <3>10. CASE pc = "returning"
      BY <2>1, <3>10 DEF StepsLeft
    <3>11. CASE pc = "gone"
      BY <2>1, <3>11 DEF StepsLeft
    <3> QED
      BY <2>2, <3>1, <3>2, <3>3, <3>4, <3>5, <3>6, <3>7, <3>8, <3>9, <3>10, <3>11
  <2>4. ASSUME HandlerStep \/ Panic \/ Leave
        PROVE  StepsLeft' < StepsLeft /\ StepsLeft' <= StepsLeft
    <3>1. CASE Subscribe
      BY <2>1, <3>1 DEF Subscribe, StepsLeft
    <3>2. CASE Connect
      BY <2>1, <3>2 DEF Connect, StepsLeft
    <3>3. CASE SetPage
      BY <2>1, <3>3 DEF SetPage, StepsLeft
    <3>4. CASE SendId
      BY <2>1, <3>4 DEF SendId, StepsLeft
    <3>5. CASE Unwind
      BY <2>1, <3>5 DEF Unwind, StepsLeft
    <3>6. CASE Panic
      BY <2>1, <3>6 DEF Panic, StepsLeft
    <3>7. CASE Leave
      BY <2>1, <3>7 DEF Leave, StepsLeft
    <3>8. CASE CallerConnect
      BY <2>1, <3>8 DEF CallerConnect, StepsLeft
    <3>9. CASE CallerDisconnect
      BY <2>1, <3>9 DEF CallerDisconnect, StepsLeft
    <3> QED
      BY <2>4, <3>1, <3>2, <3>3, <3>4, <3>5, <3>6, <3>7, <3>8, <3>9 DEF HandlerStep
  <2>5. ASSUME ~(HandlerStep \/ Panic \/ Leave) PROVE StepsLeft' = StepsLeft
    <3>1. at' = at /\ (pc' = pc \/ {pc, pc'} \subseteq {"loop", "writing", "pinging"})
      BY <1>1, <2>5
         DEF Next, Merge, Ping, Written, Take, Stop, Publish, Navigate, Cancel, Stall, handlerVars
    <3> QED BY <3>1 DEF StepsLeft
  <2>6. StepsLeft' <= StepsLeft
    BY <2>3, <2>4, <2>5
  <2> QED BY <2>3, <2>4, <2>6
<1>2. TypeOK /\ [Next]_vars =>
        [/\ StepsLeft \in 0..(4 * N + 4)
         /\ StepsLeft' <= StepsLeft
         /\ HandlerStep \/ Panic \/ Leave => StepsLeft' < StepsLeft]_vars
  BY <1>1
<1> QED BY <1>2, TypeCorrect, PTL DEF Spec
=============================================================================
