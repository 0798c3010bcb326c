------------------------ MODULE NotificationsProofs ------------------------
(***************************************************************************)
(* What TLAPS proves about Notifications for any number of requests, users *)
(* and rows: each row is announced as read once, the true count is among   *)
(* those published, and a list read page by page is complete.              *)
(***************************************************************************)
EXTENDS Notifications, FiniteSetTheorems, WellFoundedInduction, TLAPS

Pending(r) == pc[r] \in {"count", "publish"}

Typed ==
    /\ owner \in Seq(Users) /\ Len(owner) \in 0..MaxRows
    /\ unread \subseteq 1..Len(owner)
    /\ pc \in [Requests -> {"new", "count", "publish", "done"}]
    /\ input \in [Requests -> Inputs \cup {Nil}]
    /\ changed \in [Requests -> SUBSET (1..Len(owner))]
    /\ count \in [Requests -> Nat]
    /\ announced \in [Rows -> Nat]
    /\ reported \in [Users -> SUBSET Nat]
    /\ failed \subseteq Users
    /\ \A r \in Requests : Pending(r) => User(r) \in Users

\* A request that has changed nothing yet announces nothing.
NothingChanged == \A r \in Requests : pc[r] = "new" => changed[r] = {}

\* What a request is about to announce is its user's, is read, and has been
\* announced by nobody.
Unannounced ==
    \A r \in Requests : Pending(r) => \A i \in changed[r] :
        Announces(r) /\ owner[i] = User(r) /\ i \notin unread /\ announced[i] = 0

Disjoint ==
    \A r, s \in Requests : r # s /\ Pending(r) /\ Pending(s) => changed[r] \cap changed[s] = {}

UnreadSilent ==
    \A i \in Rows : /\ announced[i] <= 1
                    /\ i \in unread \/ i > Len(owner) => announced[i] = 0

\* A read row has been announced, or will be, or its event was lost.
ReadAccounted ==
    \A i \in (1..Len(owner)) \ unread :
        \/ owner[i] \in failed
        \/ announced[i] = 1
        \/ \E r \in Requests : Pending(r) /\ i \in changed[r]

\* The request will publish the count that is true now.
WillReport(r, u) ==
    /\ Pending(r) /\ Announces(r) /\ User(r) = u
    /\ pc[r] = "publish" => count[r] = UnreadCount(u)

CountAccounted ==
    \A u \in Users \ failed :
        (\E i \in 1..Len(owner) : owner[i] = u)
            => UnreadCount(u) \in reported[u] \/ \E r \in Requests : WillReport(r, u)

ReadInvariant == NothingChanged /\ Unannounced /\ Disjoint /\ UnreadSilent /\ ReadAccounted

ServiceInvariant == Typed /\ ReadInvariant /\ CountAccounted

-----------------------------------------------------------------------------
(* Facts the steps share *)

LEMMA InputFacts ==
    ASSUME NEW q \in Inputs
    PROVE  /\ q.op = "create" => ~Marks(q) /\ q.user \in Users
           /\ Status(q) = 0 => q.user \in Users
           /\ Status(q) = 0 /\ Marks(q) => q.op # "summary" /\ q.op # "create"
BY NotificationsAssumption DEF Input, Status, Unauthorized, Marks

LEMMA CountType ==
    ASSUME Typed, NEW u
    PROVE  UnreadCount(u) \in Nat
<1>0. 1 \in Int /\ Len(owner) \in Int
  BY NotificationsAssumption DEF Typed
<1>1. IsFiniteSet(1..Len(owner))
  BY <1>0, FS_Interval
<1>2. IsFiniteSet(UnreadRows(u))
  BY <1>1, FS_Subset DEF Typed, UnreadRows
<1> QED BY <1>2, FS_CardinalityType DEF UnreadCount

\* A row is added at the end; no other row changes.
LEMMA AppendFacts ==
    ASSUME Typed, NEW v \in Users, Len(owner) < MaxRows, owner' = Append(owner, v)
    PROVE  /\ owner' \in Seq(Users)
           /\ Len(owner') = Len(owner) + 1 /\ Len(owner') \in 0..MaxRows
           /\ \A i \in 1..Len(owner) : owner'[i] = owner[i]
           /\ owner'[Len(owner) + 1] = v
           /\ Len(owner) \in Nat
<1>1. MaxRows \in Nat /\ owner \in Seq(Users) /\ Len(owner) \in Nat
  BY NotificationsAssumption DEF Typed
<1> QED BY <1>1

\* The unread rows of the users a step does not touch.
LEMMA OthersUnread ==
    ASSUME Typed, NEW u, NEW v,
           \/ UNCHANGED storeVars
           \/ unread' = unread \ UnreadRows(v) /\ owner' = owner /\ u # v
    PROVE  UnreadRows(u)' = UnreadRows(u)
BY DEF UnreadRows, storeVars

LEMMA InitInvariant == Init => ServiceInvariant
<1> SUFFICES ASSUME Init PROVE ServiceInvariant
  OBVIOUS
<1>1. MaxRows \in Nat
  BY NotificationsAssumption
<1>2. Typed
  BY <1>1 DEF Init, Typed, Pending, Rows
<1>3. ReadInvariant
  BY <1>1 DEF Init, ReadInvariant, NothingChanged, Unannounced, Disjoint, UnreadSilent,
              ReadAccounted, Pending, Rows
<1>4. CountAccounted
  BY DEF Init, CountAccounted
<1> QED BY <1>2, <1>3, <1>4 DEF ServiceInvariant

-----------------------------------------------------------------------------
(* The steps that begin a request *)

\* Requests other than the one that steps.
LEMMA OthersKeep ==
    ASSUME NEW r \in Requests, NEW s \in Requests, s # r, Typed,
           NEW p, NEW q, pc' = [pc EXCEPT ![r] = p], input' = [input EXCEPT ![r] = q]
    PROVE  /\ Pending(s)' <=> Pending(s)
           /\ pc'[s] = pc[s]
           /\ User(s)' = User(s)
           /\ Announces(s)' <=> Announces(s)
BY DEF Typed, Pending, User, Announces

LEMMA RefuseStep ==
    ASSUME ServiceInvariant, NEW r \in Requests, Refuse(r)
    PROVE  ServiceInvariant'
<1>1. PICK q \in Inputs : Status(q) # 0 /\ Start(r, q) /\ Reply(r, Status(q))
                          /\ UNCHANGED <<storeVars, eventVars, changed, count>>
  BY DEF Refuse
<1>2. /\ pc[r] = "new" /\ pc' = [pc EXCEPT ![r] = "done"] /\ input' = [input EXCEPT ![r] = q]
      /\ UNCHANGED <<owner, unread, announced, reported, failed, changed, count>>
  BY <1>1 DEF Start, Reply, storeVars, eventVars
<1>3. \A s \in Requests \ {r} : /\ (Pending(s)' <=> Pending(s)) /\ pc'[s] = pc[s]
                                /\ User(s)' = User(s) /\ (Announces(s)' <=> Announces(s))
  BY <1>2, OthersKeep DEF ServiceInvariant
<1>4. ~Pending(r)' /\ ~Pending(r) /\ pc'[r] = "done"
  BY <1>2 DEF ServiceInvariant, Typed, Pending
<1>5. Typed'
  BY <1>2, <1>3, <1>4 DEF ServiceInvariant, Typed
<1>6. ReadInvariant'
  <2>1. (NothingChanged /\ Unannounced /\ Disjoint)'
    BY <1>2, <1>3, <1>4 DEF ServiceInvariant, ReadInvariant, NothingChanged, Unannounced, Disjoint
  <2>2. UnreadSilent'
    BY <1>2 DEF ServiceInvariant, ReadInvariant, UnreadSilent
  <2>3. ReadAccounted'
    <3>1. \A s \in Requests : Pending(s)' <=> Pending(s)
      BY <1>3, <1>4
    <3> QED BY <1>2, <3>1 DEF ServiceInvariant, ReadInvariant, ReadAccounted
  <2> QED BY <2>1, <2>2, <2>3 DEF ReadInvariant
<1>7. \A u : UnreadCount(u)' = UnreadCount(u)
  BY <1>2 DEF UnreadCount, UnreadRows
<1>8. CountAccounted'
  BY <1>2, <1>3, <1>4, <1>7 DEF ServiceInvariant, CountAccounted, WillReport
<1> QED BY <1>5, <1>6, <1>8 DEF ServiceInvariant

\* The new row is unread, and its request is still to count.
LEMMA CreateStep ==
    ASSUME ServiceInvariant, NEW r \in Requests, Create(r)
    PROVE  ServiceInvariant'
<1> DEFINE n == Len(owner) + 1
<1>1. PICK q \in Inputs : Create(r)!(q)
  BY DEF Create
<1>2. /\ pc[r] = "new" /\ pc' = [pc EXCEPT ![r] = "count"] /\ input' = [input EXCEPT ![r] = q]
      /\ unread' = unread \cup {n} /\ reported' = [reported EXCEPT ![q.user] = {}]
      /\ UNCHANGED <<announced, failed, changed, count>>
  BY <1>1 DEF Start
<1>3. \A s \in Requests \ {r} : /\ (Pending(s)' <=> Pending(s)) /\ pc'[s] = pc[s]
                                /\ User(s)' = User(s) /\ (Announces(s)' <=> Announces(s))
  BY <1>2, OthersKeep DEF ServiceInvariant
<1>4. /\ Pending(r)' /\ ~Pending(r) /\ pc'[r] = "count" /\ changed[r] = {}
      /\ User(r)' = q.user /\ q.user \in Users /\ Announces(r)'
  BY <1>1, <1>2, InputFacts DEF ServiceInvariant, Typed, Pending, ReadInvariant, NothingChanged,
                                User, Announces
<1>5. /\ owner' \in Seq(Users)
      /\ Len(owner') = n /\ Len(owner') \in 0..MaxRows
      /\ \A i \in 1..Len(owner) : owner'[i] = owner[i]
      /\ owner'[n] = q.user
      /\ Len(owner) \in Nat
  BY <1>1, <1>4, AppendFacts DEF ServiceInvariant
<1>6. 1..Len(owner') = (1..Len(owner)) \cup {n} /\ n \notin 1..Len(owner)
  BY <1>5
<1> HIDE DEF n
<1>7. Typed'
  BY <1>2, <1>3, <1>4, <1>5, <1>6 DEF ServiceInvariant, Typed
<1>8. ReadInvariant'
  <2>1. NothingChanged' /\ Disjoint'
    BY <1>2, <1>3, <1>4 DEF ServiceInvariant, Typed, ReadInvariant, NothingChanged, Disjoint
  <2>2. Unannounced'
    <3>1. \A s \in Requests : changed[s] \subseteq 1..Len(owner)
      BY DEF ServiceInvariant, Typed
    <3> QED BY <1>2, <1>3, <1>4, <1>5, <1>6, <3>1 DEF ServiceInvariant, ReadInvariant, Unannounced
  <2>3. UnreadSilent'
    BY <1>2, <1>5 DEF ServiceInvariant, ReadInvariant, UnreadSilent, Rows, n
  <2>4. ReadAccounted'
    <3>1. (1..Len(owner')) \ unread' \subseteq (1..Len(owner)) \ unread
      BY <1>2, <1>6
    <3> QED BY <1>2, <1>3, <1>4, <1>5, <3>1 DEF ServiceInvariant, ReadInvariant, ReadAccounted
  <2> QED BY <2>1, <2>2, <2>3, <2>4 DEF ReadInvariant
<1>9. CountAccounted'
  <2> SUFFICES ASSUME NEW u \in Users \ failed, \E i \in 1..Len(owner') : owner'[i] = u
               PROVE  UnreadCount(u)' \in reported'[u] \/ \E s \in Requests : WillReport(s, u)'
    BY <1>2 DEF CountAccounted
  <2>1. CASE u = q.user
    BY <1>4, <2>1 DEF WillReport
  <2>2. CASE u # q.user
    <3>1. UnreadRows(u)' = UnreadRows(u)
      BY <1>2, <1>5, <1>6, <2>2 DEF UnreadRows, ServiceInvariant, Typed
    <3>2. UnreadCount(u)' = UnreadCount(u)
      BY <3>1 DEF UnreadCount
    <3>3. \E i \in 1..Len(owner) : owner[i] = u
      BY <1>5, <1>6, <2>2
    <3>4. reported'[u] = reported[u]
      BY <1>2, <2>2 DEF ServiceInvariant, Typed
    <3>5. \A s \in Requests : WillReport(s, u) => WillReport(s, u)'
      BY <1>2, <1>3, <1>4, <3>2 DEF WillReport
    <3> QED BY <3>2, <3>3, <3>4, <3>5 DEF ServiceInvariant, CountAccounted
  <2> QED BY <2>1, <2>2
<1> QED BY <1>7, <1>8, <1>9 DEF ServiceInvariant

\* The rows that become read were unread: nobody has announced them.
LEMMA MarkStep ==
    ASSUME ServiceInvariant, NEW r \in Requests, Mark(r)
    PROVE  ServiceInvariant'
<1>1. PICK q \in Inputs : Mark(r)!(q)
  BY DEF Mark
<1> DEFINE C == Changed(q)
<1>2. /\ pc[r] = "new" /\ input' = [input EXCEPT ![r] = q]
      /\ unread' = unread \ C /\ changed' = [changed EXCEPT ![r] = C]
      /\ UNCHANGED <<owner, announced, failed, count>>
  BY <1>1 DEF Start
<1>3. PICK p \in {"count", "done"} :
          /\ pc' = [pc EXCEPT ![r] = p]
          /\ p = "done" => C = {} /\ reported' = reported
          /\ p = "count" => reported' = [reported EXCEPT ![q.user] = {}]
  BY <1>1 DEF Reply
<1>4. \A s \in Requests \ {r} : /\ (Pending(s)' <=> Pending(s)) /\ pc'[s] = pc[s]
                                /\ User(s)' = User(s) /\ (Announces(s)' <=> Announces(s))
  BY <1>2, <1>3, OthersKeep DEF ServiceInvariant
<1>5. /\ ~Pending(r) /\ pc'[r] = p /\ (Pending(r)' <=> p = "count")
      /\ User(r)' = q.user /\ q.user \in Users /\ Announces(r)'
      /\ changed'[r] = C /\ \A s \in Requests \ {r} : changed'[s] = changed[s]
  BY <1>1, <1>2, <1>3, InputFacts DEF ServiceInvariant, Typed, Pending, User, Announces
<1>6. C \subseteq unread /\ \A i \in C : owner[i] = q.user
  BY DEF Changed, UnreadRows
<1>7. unread \subseteq 1..Len(owner) /\ Len(owner) \in 0..MaxRows
  BY DEF ServiceInvariant, Typed
<1> HIDE DEF C
<1>8. Typed'
  <2>1. /\ changed' \in [Requests -> SUBSET (1..Len(owner'))]
        /\ unread' \subseteq 1..Len(owner')
    BY <1>2, <1>6, <1>7 DEF ServiceInvariant, Typed
  <2>2. /\ pc' \in [Requests -> {"new", "count", "publish", "done"}]
        /\ input' \in [Requests -> Inputs \cup {Nil}]
        /\ reported' \in [Users -> SUBSET Nat]
    BY <1>2, <1>3 DEF ServiceInvariant, Typed
  <2>3. \A s \in Requests : Pending(s)' => User(s)' \in Users
    BY <1>4, <1>5 DEF ServiceInvariant, Typed
  <2> QED BY <1>2, <2>1, <2>2, <2>3 DEF ServiceInvariant, Typed
<1>9. ReadInvariant'
  <2>1. NothingChanged'
    BY <1>2, <1>3, <1>4, <1>5 DEF ServiceInvariant, ReadInvariant, NothingChanged
  <2>2. \A i \in C : announced[i] = 0
    BY <1>6, <1>7, NotificationsAssumption DEF ServiceInvariant, ReadInvariant, UnreadSilent, Rows
  <2>3. Unannounced'
    BY <1>2, <1>4, <1>5, <1>6, <2>2 DEF ServiceInvariant, ReadInvariant, Unannounced
  <2>4. \A s \in Requests : Pending(s) => changed[s] \cap C = {}
    BY <1>6 DEF ServiceInvariant, ReadInvariant, Unannounced
  <2>5. Disjoint'
    BY <1>4, <1>5, <2>4 DEF ServiceInvariant, ReadInvariant, Disjoint
  <2>6. UnreadSilent'
    BY <1>2 DEF ServiceInvariant, ReadInvariant, UnreadSilent
  <2>7. ReadAccounted'
    BY <1>2, <1>3, <1>4, <1>5 DEF ServiceInvariant, ReadInvariant, ReadAccounted
  <2> QED BY <2>1, <2>3, <2>5, <2>6, <2>7 DEF ReadInvariant
<1>10. CountAccounted'
  <2> SUFFICES ASSUME NEW u \in Users \ failed, \E i \in 1..Len(owner) : owner[i] = u
               PROVE  UnreadCount(u)' \in reported'[u] \/ \E s \in Requests : WillReport(s, u)'
    BY <1>2 DEF CountAccounted
  <2>1. CASE u = q.user /\ p = "count"
    BY <1>5, <2>1 DEF WillReport
  <2>2. CASE u # q.user \/ p = "done"
    <3>1. UnreadRows(u)' = UnreadRows(u)
      BY <1>2, <1>3, <1>6, <2>2 DEF UnreadRows
    <3>2. UnreadCount(u)' = UnreadCount(u)
      BY <3>1 DEF UnreadCount
    <3>3. reported'[u] = reported[u]
      BY <1>3, <2>2 DEF ServiceInvariant, Typed
    <3>4. ASSUME NEW s \in Requests, WillReport(s, u) PROVE WillReport(s, u)'
      <4>1. s # r
        BY <1>5, <3>4 DEF WillReport
      <4>2. count' = count
        BY <1>2
      <4> QED BY <1>4, <3>2, <3>4, <4>1, <4>2 DEF WillReport
    <3> QED BY <3>2, <3>3, <3>4 DEF ServiceInvariant, CountAccounted
  <2> QED BY <1>3, <2>1, <2>2
<1> QED BY <1>8, <1>9, <1>10 DEF ServiceInvariant

\* A summary counts and announces nothing.
LEMMA SummaryStep ==
    ASSUME ServiceInvariant, NEW r \in Requests, Summary(r)
    PROVE  ServiceInvariant'
<1>1. PICK q \in Inputs : Summary(r)!(q)
  BY DEF Summary
<1>2. /\ pc[r] = "new" /\ pc' = [pc EXCEPT ![r] = "count"] /\ input' = [input EXCEPT ![r] = q]
      /\ UNCHANGED <<owner, unread, announced, reported, failed, changed, count>>
  BY <1>1 DEF Start, storeVars, eventVars
<1>3. \A s \in Requests \ {r} : /\ (Pending(s)' <=> Pending(s)) /\ pc'[s] = pc[s]
                                /\ User(s)' = User(s) /\ (Announces(s)' <=> Announces(s))
  BY <1>2, OthersKeep DEF ServiceInvariant
<1>4. /\ Pending(r)' /\ ~Pending(r) /\ pc'[r] = "count" /\ changed[r] = {}
      /\ User(r)' = q.user /\ q.user \in Users
  BY <1>1, <1>2, InputFacts DEF ServiceInvariant, Typed, Pending, ReadInvariant, NothingChanged,
     User
<1>5. Typed'
  BY <1>2, <1>3, <1>4 DEF ServiceInvariant, Typed
<1>6. ReadInvariant'
  <2>1. NothingChanged' /\ Disjoint' /\ UnreadSilent'
    BY <1>2, <1>3, <1>4 DEF ServiceInvariant, ReadInvariant, NothingChanged, Disjoint,
       UnreadSilent
  <2>2. Unannounced'
    BY <1>2, <1>3, <1>4 DEF ServiceInvariant, ReadInvariant, Unannounced
  <2>3. ReadAccounted'
    BY <1>2, <1>3, <1>4 DEF ServiceInvariant, ReadInvariant, ReadAccounted
  <2> QED BY <2>1, <2>2, <2>3 DEF ReadInvariant
<1>7. \A u : UnreadCount(u)' = UnreadCount(u)
  BY <1>2 DEF UnreadCount, UnreadRows
<1>8. CountAccounted'
  BY <1>2, <1>3, <1>4, <1>7 DEF ServiceInvariant, CountAccounted, WillReport
<1> QED BY <1>5, <1>6, <1>8 DEF ServiceInvariant

\* The user whose store call failed is excused from now on; nobody else's rows
\* change.
LEMMA StoreFailsStep ==
    ASSUME ServiceInvariant, NEW r \in Requests, StoreFails(r)
    PROVE  ServiceInvariant'
<1> DEFINE n == Len(owner) + 1
<1>1. PICK q \in Inputs : StoreFails(r)!(q)
  BY DEF StoreFails
<1>2. /\ pc[r] = "new" /\ pc' = [pc EXCEPT ![r] = "done"] /\ input' = [input EXCEPT ![r] = q]
      /\ failed' = failed \cup {q.user} /\ q.user \in Users
      /\ UNCHANGED <<announced, reported, changed, count>>
  BY <1>1, InputFacts DEF Start, Reply
<1>3. \A s \in Requests \ {r} : /\ (Pending(s)' <=> Pending(s)) /\ pc'[s] = pc[s]
                                /\ User(s)' = User(s) /\ (Announces(s)' <=> Announces(s))
  BY <1>2, OthersKeep DEF ServiceInvariant
<1>4. ~Pending(r)' /\ ~Pending(r) /\ pc'[r] = "done"
  BY <1>2 DEF ServiceInvariant, Typed, Pending
<1>5. /\ owner \in Seq(Users) /\ Len(owner) \in 0..MaxRows /\ MaxRows \in Nat
      /\ unread \subseteq 1..Len(owner)
      /\ \A s \in Requests : changed[s] \subseteq 1..Len(owner)
  BY NotificationsAssumption DEF ServiceInvariant, Typed
\* What the three outcomes have in common.
<1>6. /\ owner' \in Seq(Users) /\ Len(owner') \in 0..MaxRows /\ Len(owner') >= Len(owner)
      /\ \A i \in 1..Len(owner) : owner'[i] = owner[i]
      /\ unread' \subseteq 1..Len(owner')
      /\ \A i \in 1..Len(owner) : i \in unread' => i \in unread
      /\ \A i \in 1..Len(owner) : i \in unread /\ i \notin unread' => owner[i] = q.user
      /\ \A i \in 1..Len(owner') : i > Len(owner) => i \in unread' /\ owner'[i] = q.user
  <2>1. CASE UNCHANGED storeVars
    BY <1>5, <2>1 DEF storeVars
  <2>2. CASE /\ Len(owner) < MaxRows
             /\ owner' = Append(owner, q.user)
             /\ unread' = unread \cup {n}
    <3>1. /\ owner' \in Seq(Users)
          /\ Len(owner') = n /\ Len(owner') \in 0..MaxRows
          /\ \A i \in 1..Len(owner) : owner'[i] = owner[i]
          /\ owner'[n] = q.user
          /\ Len(owner) \in Nat
      BY <1>2, <2>2, AppendFacts DEF ServiceInvariant
    <3>2. \A i \in 1..Len(owner') : i > Len(owner) => i = n
      BY <3>1
    <3>3. n \in 1..Len(owner') /\ n \notin 1..Len(owner) /\ 1..Len(owner) \subseteq 1..Len(owner')
      BY <3>1
    <3>4. Len(owner') >= Len(owner)
      BY <3>1
    <3> HIDE DEF n
    <3> QED BY <1>5, <2>2, <3>1, <3>2, <3>3, <3>4
  <2>3. CASE unread' = unread \ Changed(q) /\ owner' = owner
    <3>1. \A i \in Changed(q) : owner[i] = q.user
      BY DEF Changed, UnreadRows
    <3>2. Len(owner') >= Len(owner) /\ ~\E i \in 1..Len(owner') : i > Len(owner)
      BY <1>5, <2>3
    <3> QED BY <1>5, <2>3, <3>1, <3>2
  <2> QED BY <1>1, <2>1, <2>2, <2>3 DEF Committed
<1> HIDE DEF n
<1>7. Typed'
  <2>1. changed' \in [Requests -> SUBSET (1..Len(owner'))]
    BY <1>2, <1>5, <1>6 DEF ServiceInvariant, Typed
  <2>2. /\ pc' \in [Requests -> {"new", "count", "publish", "done"}]
        /\ input' \in [Requests -> Inputs \cup {Nil}]
        /\ failed' \subseteq Users
    BY <1>2 DEF ServiceInvariant, Typed
  <2>3. \A s \in Requests : Pending(s)' => User(s)' \in Users
    BY <1>3, <1>4 DEF ServiceInvariant, Typed
  <2> QED BY <1>2, <1>6, <2>1, <2>2, <2>3 DEF ServiceInvariant, Typed
<1>8. ReadInvariant'
  <2>1. NothingChanged' /\ Disjoint'
    BY <1>2, <1>3, <1>4 DEF ServiceInvariant, ReadInvariant, NothingChanged, Disjoint
  <2>2. Unannounced'
    BY <1>2, <1>3, <1>4, <1>5, <1>6 DEF ServiceInvariant, ReadInvariant, Unannounced
  <2>3. UnreadSilent'
    <3>1. \A i \in Rows : i \in unread' \/ i > Len(owner') => i \in unread \/ i > Len(owner)
      BY <1>5, <1>6 DEF Rows
    <3> QED BY <1>2, <3>1 DEF ServiceInvariant, ReadInvariant, UnreadSilent
  <2>4. ReadAccounted'
    <3> SUFFICES ASSUME NEW i \in (1..Len(owner')) \ unread'
                 PROVE  owner'[i] \in failed' \/ announced'[i] = 1
                        \/ \E s \in Requests : Pending(s)' /\ i \in changed'[s]
      BY DEF ReadAccounted
    <3>1. i \in 1..Len(owner) /\ owner'[i] = owner[i]
      BY <1>5, <1>6
    <3>2. CASE i \in unread
      BY <1>2, <1>6, <3>1, <3>2
    <3>3. CASE i \notin unread
      BY <1>2, <1>3, <1>4, <3>1, <3>3 DEF ServiceInvariant, ReadInvariant, ReadAccounted
    <3> QED BY <3>2, <3>3
  <2> QED BY <2>1, <2>2, <2>3, <2>4 DEF ReadInvariant
<1>9. CountAccounted'
  <2> SUFFICES ASSUME NEW u \in Users \ failed', \E i \in 1..Len(owner') : owner'[i] = u
               PROVE  UnreadCount(u)' \in reported'[u] \/ \E s \in Requests : WillReport(s, u)'
    BY DEF CountAccounted
  <2>1. u # q.user /\ u \in Users \ failed
    BY <1>2
  <2>2. \E i \in 1..Len(owner) : owner[i] = u
    BY <1>5, <1>6, <2>1
  <2>3. UnreadRows(u)' = UnreadRows(u)
    <3>1. \A i \in 1..Len(owner') : i \in 1..Len(owner) \/ i > Len(owner)
      BY <1>5, <1>6
    <3>2. ASSUME NEW i PROVE i \in unread' /\ owner'[i] = u <=> i \in unread /\ owner[i] = u
      BY <1>5, <1>6, <2>1, <3>1
    <3> QED BY <3>2 DEF UnreadRows
  <2>4. UnreadCount(u)' = UnreadCount(u)
    BY <2>3 DEF UnreadCount
  <2>5. ASSUME NEW s \in Requests, WillReport(s, u) PROVE WillReport(s, u)'
    <3>1. s # r /\ count' = count
      BY <1>2, <1>4, <2>5 DEF WillReport
    <3> QED BY <1>3, <2>4, <2>5, <3>1 DEF WillReport
  <2>6. reported' = reported
    BY <1>2
  <2> QED BY <2>1, <2>2, <2>4, <2>5, <2>6 DEF ServiceInvariant, CountAccounted
<1> QED BY <1>7, <1>8, <1>9 DEF ServiceInvariant

-----------------------------------------------------------------------------
(* The steps that finish a request *)

LEMMA OthersFinish ==
    ASSUME NEW r \in Requests, NEW s \in Requests, s # r, Typed,
           NEW p, pc' = [pc EXCEPT ![r] = p], input' = input
    PROVE  /\ Pending(s)' <=> Pending(s)
           /\ pc'[s] = pc[s]
           /\ User(s)' = User(s)
           /\ Announces(s)' <=> Announces(s)
BY DEF Typed, Pending, User, Announces

\* The count a request reads is the true one.
LEMMA CountStep ==
    ASSUME ServiceInvariant, NEW r \in Requests, Count(r)
    PROVE  ServiceInvariant'
<1>1. /\ pc[r] = "count" /\ pc' = [pc EXCEPT ![r] = "publish"]
      /\ count' = [count EXCEPT ![r] = UnreadCount(User(r))]
      /\ UNCHANGED <<owner, unread, announced, reported, failed, input, changed>>
  BY DEF Count, storeVars, eventVars
<1>2. \A s \in Requests \ {r} : /\ (Pending(s)' <=> Pending(s)) /\ pc'[s] = pc[s]
                                /\ User(s)' = User(s) /\ (Announces(s)' <=> Announces(s))
  BY <1>1, OthersFinish DEF ServiceInvariant
<1>3. /\ Pending(r) /\ Pending(r)' /\ pc'[r] = "publish" /\ count'[r] = UnreadCount(User(r))
      /\ User(r)' = User(r) /\ (Announces(r)' <=> Announces(r))
      /\ \A s \in Requests \ {r} : count'[s] = count[s]
  BY <1>1 DEF ServiceInvariant, Typed, Pending, User, Announces
<1>4. UnreadCount(User(r)) \in Nat
  BY CountType DEF ServiceInvariant
<1>5. Typed'
  BY <1>1, <1>2, <1>3, <1>4 DEF ServiceInvariant, Typed
<1>6. ReadInvariant'
  BY <1>1, <1>2, <1>3 DEF ServiceInvariant, ReadInvariant, NothingChanged, Unannounced, Disjoint,
                          UnreadSilent, ReadAccounted
<1>7. \A u : UnreadCount(u)' = UnreadCount(u)
  BY <1>1 DEF UnreadCount, UnreadRows
<1>8. CountAccounted'
  <2>1. ASSUME NEW u \in Users, NEW s \in Requests, WillReport(s, u) PROVE WillReport(s, u)'
    <3>1. CASE s = r
      BY <1>3, <1>7, <2>1, <3>1 DEF WillReport
    <3>2. CASE s # r
      BY <1>2, <1>3, <1>7, <2>1, <3>2 DEF WillReport
    <3> QED BY <3>1, <3>2
  <2> QED BY <1>1, <1>7, <2>1 DEF ServiceInvariant, CountAccounted
<1> QED BY <1>5, <1>6, <1>8 DEF ServiceInvariant

\* A request that stops without an event, or counts wrongly, excuses its user.
LEMMA CountFailsStep ==
    ASSUME ServiceInvariant, NEW r \in Requests, CountFails(r) \/ PublishFails(r)
    PROVE  ServiceInvariant'
<1>1. PICK p \in {"publish", "done"} :
        /\ Pending(r) /\ pc' = [pc EXCEPT ![r] = p]
        /\ failed' = IF Announces(r) THEN failed \cup {User(r)} ELSE failed
        /\ p = "publish" => Announces(r)
        /\ count' \in [Requests -> Nat] /\ \A s \in Requests \ {r} : count'[s] = count[s]
        /\ UNCHANGED <<owner, unread, announced, reported, input, changed>>
  <2>1. CASE CountFails(r)
    BY <2>1 DEF CountFails, Reply, Pending, Announces, storeVars, ServiceInvariant, Typed
  <2>2. CASE PublishFails(r)
    BY <2>2 DEF PublishFails, Reply, Pending, storeVars, ServiceInvariant, Typed
  <2> QED BY <2>1, <2>2
<1>2. \A s \in Requests \ {r} : /\ (Pending(s)' <=> Pending(s)) /\ pc'[s] = pc[s]
                                /\ User(s)' = User(s) /\ (Announces(s)' <=> Announces(s))
  BY <1>1, OthersFinish DEF ServiceInvariant
<1>3. /\ pc'[r] = p /\ (Pending(r)' <=> p = "publish")
      /\ User(r)' = User(r) /\ (Announces(r)' <=> Announces(r)) /\ User(r) \in Users
  BY <1>1 DEF ServiceInvariant, Typed, Pending, User, Announces
<1>4. Typed'
  <2>1. /\ pc' \in [Requests -> {"new", "count", "publish", "done"}]
        /\ failed' \subseteq Users
        /\ \A s \in Requests : Pending(s)' => User(s)' \in Users
    BY <1>1, <1>2, <1>3 DEF ServiceInvariant, Typed
  <2> QED BY <1>1, <2>1 DEF ServiceInvariant, Typed
<1>5. ReadInvariant'
  <2>1. NothingChanged' /\ Unannounced' /\ Disjoint' /\ UnreadSilent'
    BY <1>1, <1>2, <1>3 DEF ServiceInvariant, ReadInvariant, NothingChanged, Unannounced,
       Disjoint,
                            UnreadSilent
  <2>2. ReadAccounted'
    <3>1. \A i \in changed[r] : owner[i] \in failed'
      BY <1>1 DEF ServiceInvariant, ReadInvariant, Unannounced
    <3> QED BY <1>1, <1>2, <3>1 DEF ServiceInvariant, ReadInvariant, ReadAccounted
  <2> QED BY <2>1, <2>2 DEF ReadInvariant
<1>6. \A u : UnreadCount(u)' = UnreadCount(u)
  BY <1>1 DEF UnreadCount, UnreadRows
<1>7. CountAccounted'
  <2>1. ASSUME NEW u \in Users \ failed', NEW s \in Requests, WillReport(s, u) PROVE WillReport(s, u)'
    <3>1. s # r
      BY <1>1, <2>1 DEF WillReport
    <3> QED BY <1>1, <1>2, <1>6, <2>1, <3>1 DEF WillReport
  <2> QED BY <1>1, <1>6, <2>1 DEF ServiceInvariant, CountAccounted
<1> QED BY <1>4, <1>5, <1>7 DEF ServiceInvariant

\* The event announces the rows of one request, which no other will announce,
\* and its count joins those published.
LEMMA PublishStep ==
    ASSUME ServiceInvariant, NEW r \in Requests, Publish(r)
    PROVE  ServiceInvariant'
<1>1. /\ pc[r] = "publish" /\ pc' = [pc EXCEPT ![r] = "done"]
      /\ reported' = IF Announces(r)
                     THEN [reported EXCEPT ![User(r)] = @ \cup {count[r]}] ELSE reported
      /\ announced' = [i \in Rows |-> announced[i] + IF i \in changed[r] THEN 1 ELSE 0]
      /\ UNCHANGED <<owner, unread, failed, input, changed, count>>
  BY DEF Publish, Reply, storeVars
<1>2. \A s \in Requests \ {r} : /\ (Pending(s)' <=> Pending(s)) /\ pc'[s] = pc[s]
                                /\ User(s)' = User(s) /\ (Announces(s)' <=> Announces(s))
  BY <1>1, OthersFinish DEF ServiceInvariant
<1>3. /\ Pending(r) /\ ~Pending(r)' /\ pc'[r] = "done" /\ User(r) \in Users /\ count[r] \in Nat
  BY <1>1 DEF ServiceInvariant, Typed, Pending
<1>4. \A i \in Rows : announced[i] \in Nat
  BY DEF ServiceInvariant, Typed
<1>5. changed[r] \subseteq 1..Len(owner) /\ Len(owner) \in 0..MaxRows /\ MaxRows \in Nat
  BY NotificationsAssumption DEF ServiceInvariant, Typed
<1>6. /\ \A i \in Rows \ changed[r] : announced'[i] = announced[i]
      /\ \A i \in changed[r] : i \in Rows /\ announced[i] = 0 /\ announced'[i] = 1
  BY <1>1, <1>3, <1>4, <1>5 DEF Rows, ServiceInvariant, ReadInvariant, Unannounced
<1>7. Typed'
  <2>1. reported' \in [Users -> SUBSET Nat]
    BY <1>1, <1>3 DEF ServiceInvariant, Typed
  <2>2. announced' \in [Rows -> Nat]
    BY <1>1, <1>4
  <2>3. pc' \in [Requests -> {"new", "count", "publish", "done"}]
    BY <1>1 DEF ServiceInvariant, Typed
  <2>4. \A s \in Requests : Pending(s)' => User(s)' \in Users
    BY <1>2, <1>3 DEF ServiceInvariant, Typed
  <2> QED BY <1>1, <2>1, <2>2, <2>3, <2>4 DEF ServiceInvariant, Typed
<1>8. ReadInvariant'
  <2>1. NothingChanged' /\ Disjoint'
    BY <1>1, <1>2, <1>3 DEF ServiceInvariant, ReadInvariant, NothingChanged, Disjoint
  <2>2. Unannounced'
    <3> SUFFICES ASSUME NEW s \in Requests, Pending(s)', NEW i \in changed[s]
                 PROVE  Announces(s)' /\ owner[i] = User(s)' /\ i \notin unread /\ announced'[i] = 0
      BY <1>1 DEF Unannounced
    <3>1. s # r /\ Pending(s)
      BY <1>2, <1>3
    <3>2. i \notin changed[r]
      BY <1>3, <3>1 DEF ServiceInvariant, ReadInvariant, Disjoint
    <3>3. i \in Rows
      BY <1>5 DEF Rows, ServiceInvariant, Typed
    <3> QED BY <1>2, <1>6, <3>1, <3>2, <3>3 DEF ServiceInvariant, ReadInvariant, Unannounced
  <2>3. UnreadSilent'
    <3>1. \A i \in changed[r] : i \notin unread /\ ~(i > Len(owner))
      BY <1>3, <1>5 DEF ServiceInvariant, ReadInvariant, Unannounced
    <3> QED BY <1>1, <1>6, <3>1 DEF ServiceInvariant, ReadInvariant, UnreadSilent
  <2>4. ReadAccounted'
    <3> SUFFICES ASSUME NEW i \in (1..Len(owner)) \ unread
                 PROVE  owner[i] \in failed \/ announced'[i] = 1
                        \/ \E s \in Requests : Pending(s)' /\ i \in changed[s]
      BY <1>1 DEF ReadAccounted
    <3>1. i \in Rows
      BY <1>5 DEF Rows
    <3>2. CASE i \in changed[r]
      BY <1>6, <3>2
    <3>3. CASE i \notin changed[r]
      BY <1>2, <1>6, <3>1, <3>3 DEF ServiceInvariant, ReadInvariant, ReadAccounted
    <3> QED BY <3>2, <3>3
  <2> QED BY <2>1, <2>2, <2>3, <2>4 DEF ReadInvariant
<1>9. \A u : UnreadCount(u)' = UnreadCount(u)
  BY <1>1 DEF UnreadCount, UnreadRows
<1>10. CountAccounted'
  <2> SUFFICES ASSUME NEW u \in Users \ failed, \E i \in 1..Len(owner) : owner[i] = u
               PROVE  UnreadCount(u) \in reported'[u] \/ \E s \in Requests : WillReport(s, u)'
    BY <1>1, <1>9 DEF CountAccounted
  <2>1. reported[u] \subseteq reported'[u]
    BY <1>1, <1>3 DEF ServiceInvariant, Typed
  <2>2. CASE UnreadCount(u) \in reported[u]
    BY <2>1, <2>2
  <2>3. ASSUME NEW s \in Requests, WillReport(s, u)
        PROVE  UnreadCount(u) \in reported'[u] \/ WillReport(s, u)'
    <3>1. CASE s = r
      BY <1>1, <1>3, <2>3, <3>1 DEF WillReport, ServiceInvariant, Typed
    <3>2. CASE s # r
      BY <1>1, <1>2, <1>9, <2>3, <3>2 DEF WillReport
    <3> QED BY <3>1, <3>2
  <2> QED BY <2>2, <2>3 DEF ServiceInvariant, CountAccounted
<1> QED BY <1>7, <1>8, <1>10 DEF ServiceInvariant

-----------------------------------------------------------------------------
(* The list *)

\* Between its pages a client has the rows up to its cursor, in order.
SeenToCursor(w) ==
    /\ Increasing(walk[w].seen)
    /\ Range(walk[w].seen)
         = {i \in 1..Len(owner) : owner[i] = walk[w].user /\ i <= walk[w].cursor}

WalkInvariant ==
    /\ walk \in [Walks -> Walk \cup {Nil}]
    /\ \A w \in Walks : walk[w] # Nil =>
          walk[w].cursor <= Len(owner) /\ (walk[w].more => SeenToCursor(w))

\* Increasing sequences, the second wholly after the first, join to one.
LEMMA JoinIncreasing ==
    ASSUME NEW S \in SUBSET Nat, NEW s \in Seq(S), NEW t \in Seq(S), Increasing(s), Increasing(t),
           \A i \in Range(s), j \in Range(t) : i < j
    PROVE  /\ s \o t \in Seq(S)
           /\ Increasing(s \o t)
           /\ Range(s \o t) = Range(s) \cup Range(t)
<1>1. /\ s \o t \in Seq(S)
      /\ DOMAIN (s \o t) = 1..Len(s) + Len(t)
      /\ \A n \in 1..Len(s) : (s \o t)[n] = s[n]
      /\ \A n \in 1..Len(t) : (s \o t)[Len(s) + n] = t[n]
      /\ DOMAIN s = 1..Len(s) /\ DOMAIN t = 1..Len(t)
      /\ Len(s) \in Nat /\ Len(t) \in Nat
  OBVIOUS
<1>2. \A n \in DOMAIN (s \o t) : n \in 1..Len(s) \/ n - Len(s) \in 1..Len(t)
  BY <1>1
<1>3. Increasing(s \o t)
  <2> SUFFICES ASSUME NEW m \in DOMAIN (s \o t), NEW n \in DOMAIN (s \o t), m < n
               PROVE  (s \o t)[m] < (s \o t)[n]
    BY DEF Increasing
  <2>1. CASE n \in 1..Len(s)
    <3>1. m \in 1..Len(s)
      BY <1>1, <2>1
    <3> QED BY <1>1, <2>1, <3>1 DEF Increasing
  <2>2. CASE n - Len(s) \in 1..Len(t) /\ m \in 1..Len(s)
    <3>1. (s \o t)[m] = s[m] /\ (s \o t)[n] = t[n - Len(s)]
      BY <1>1, <2>2
    <3> QED BY <1>1, <2>2, <3>1 DEF Range
  <2>3. CASE n - Len(s) \in 1..Len(t) /\ m - Len(s) \in 1..Len(t)
    <3>1. (s \o t)[m] = t[m - Len(s)] /\ (s \o t)[n] = t[n - Len(s)]
      BY <1>1, <2>3
    <3>2. m - Len(s) < n - Len(s)
      BY <1>1
    <3> QED BY <1>1, <2>3, <3>1, <3>2 DEF Increasing
  <2> QED BY <1>2, <2>1, <2>2, <2>3
<1>4. Range(s \o t) = Range(s) \cup Range(t)
  <2>1. ASSUME NEW n \in DOMAIN (s \o t) PROVE (s \o t)[n] \in Range(s) \cup Range(t)
    BY <1>1, <1>2 DEF Range
  <2>2. ASSUME NEW n \in 1..Len(s) PROVE s[n] \in Range(s \o t)
    BY <1>1 DEF Range
  <2>3. ASSUME NEW n \in 1..Len(t) PROVE t[n] \in Range(s \o t)
    <3>1. Len(s) + n \in DOMAIN (s \o t)
      BY <1>1
    <3> QED BY <1>1, <3>1 DEF Range
  <2> QED BY ZenonT(60), <1>1, <2>1, <2>2, <2>3 DEF Range
<1> QED BY <1>1, <1>3, <1>4

LEMMA PageSizeType == ASSUME NEW limit \in Nat PROVE PageSize(limit) \in Nat \ {0}
BY NotificationsAssumption DEF PageSize

\* A page holds the rows from the cursor to its last item or, when it is not
\* full, to the end of the table.
Page(items, u, cursor, size) ==
    /\ items \in Seq(1..Len(owner)) /\ Increasing(items)
    /\ Range(items) \subseteq RowsAfter(u, cursor)
    /\ Len(items) # size => Range(items) = RowsAfter(u, cursor)
    /\ Len(items) = size =>
          /\ NextCursor(items) \in cursor..Len(owner)
          /\ Range(items) = {i \in RowsAfter(u, cursor) : i <= NextCursor(items)}

LEMMA PageFacts ==
    ASSUME Typed, NEW u, NEW cursor \in Nat, cursor <= Len(owner), NEW size \in Nat \ {0},
           NEW items \in Pages(u, cursor, size)
    PROVE  Page(items, u, cursor, size)
<1> DEFINE rest == RowsAfter(u, cursor)
<1>1. PICK n \in 0..Cardinality(rest) : items \in [1..n -> rest]
  BY DEF Pages
<1>2. /\ Increasing(items)
      /\ \A i \in rest \ Range(items) :
            Len(items) = size /\ \A k \in DOMAIN items : items[k] < i
  BY DEF Pages
<1>3. /\ Len(owner) \in Nat /\ rest \subseteq 1..Len(owner)
      /\ \A i \in rest : i \in Nat /\ i >= cursor /\ i <= Len(owner)
  BY NotificationsAssumption DEF Typed, RowsAfter
<1>4. n \in Nat
  <2>1. IsFiniteSet(rest)
    <3>1. 1 \in Int /\ Len(owner) \in Int
      BY <1>3
    <3>2. IsFiniteSet(1..Len(owner))
      BY <3>1, FS_Interval
    <3> QED BY <1>3, <3>2, FS_Subset
  <2>2. Cardinality(rest) \in Nat
    BY <2>1, FS_CardinalityType
  <2> QED BY <2>2
<1> HIDE DEF rest
<1>5. items \in Seq(rest) /\ Len(items) = n /\ DOMAIN items = 1..n
  BY <1>1, <1>4
<1>6. items \in Seq(1..Len(owner)) /\ Range(items) \subseteq rest
  BY <1>1, <1>3, <1>4, <1>5 DEF Range
<1>7. Len(items) # size => Range(items) = rest
  BY <1>2, <1>6
<1>8. ASSUME Len(items) = size
      PROVE  /\ NextCursor(items) \in cursor..Len(owner)
             /\ Range(items) = {i \in rest : i <= NextCursor(items)}
  <2>1. n \in 1..n /\ NextCursor(items) = items[n] /\ items[n] \in rest
    BY <1>1, <1>4, <1>5, <1>8 DEF NextCursor
  <2>2. items[n] \in cursor..Len(owner)
    <3>1. items[n] \in Nat /\ items[n] >= cursor /\ items[n] <= Len(owner)
      BY <1>3, <2>1
    <3> QED BY <1>3, <3>1
  <2>3. ASSUME NEW k \in 1..n PROVE items[k] <= items[n]
    <3>1. items[k] \in Nat /\ items[n] \in Nat
      BY <1>1, <1>3, <2>1
    <3>2. k = n \/ k < n
      BY <1>4
    <3> QED BY <1>2, <1>5, <2>1, <3>1, <3>2 DEF Increasing
  <2>4. ASSUME NEW i \in rest, i <= items[n] PROVE i \in Range(items)
    <3>1. i \in Nat /\ items[n] \in Nat
      BY <1>3, <2>1
    <3> QED BY <1>2, <1>5, <2>1, <2>4, <3>1
  <2> QED BY <1>5, <1>6, <2>1, <2>2, <2>3, <2>4 DEF Range
<1> QED BY <1>2, <1>6, <1>7, <1>8 DEF rest, Page

LEMMA LeastOf ==
    ASSUME NEW S \in SUBSET Nat, S # {}
    PROVE  \E m \in S : \A n \in S : m <= n
<1>1. PICK m \in S : \A n \in S : <<n, m>> \notin OpToRel(<, Nat)
  BY WFMin, NatLessThanWellFounded, Zenon
<1>2. \A n \in S : ~(n < m)
  BY <1>1, Zenon DEF OpToRel
<1> QED BY <1>2

\* The rows of a set can be put in order.
LEMMA InOrder ==
    ASSUME NEW n \in Nat, NEW S \in SUBSET (1..n)
    PROVE  \E s \in Seq(S) : Increasing(s) /\ Range(s) = S
<1> DEFINE Ordered(m) == \E s \in Seq(S) : Increasing(s) /\ Range(s) = {i \in S : i <= m}
           G == {m \in Nat : ~Ordered(m)}
<1>0. ASSUME NEW i \in S
      PROVE  /\ i \in 1..n /\ ~(i <= 0)
             /\ \A m \in Nat : i <= m + 1 <=> i <= m \/ i = m + 1
             /\ \A m \in Nat : i <= m => i < m + 1
  <2>1. i \in 1..n
    OBVIOUS
  <2> QED BY <2>1
<1>1. Ordered(0)
  <2>1. <<>> \in Seq(S) /\ Increasing(<<>>) /\ Range(<<>>) = {}
    BY DEF Increasing, Range
  <2>2. {i \in S : i <= 0} = {}
    BY <1>0
  <2> QED BY <2>1, <2>2
<1>2. ASSUME NEW m \in Nat, Ordered(m) PROVE Ordered(m + 1)
  <2>1. PICK s \in Seq(S) : Increasing(s) /\ Range(s) = {i \in S : i <= m}
    BY <1>2
  <2>2. CASE m + 1 \in S
    <3> DEFINE t == <<m + 1>>
    <3>1. t \in Seq(S) /\ Increasing(t) /\ Range(t) = {m + 1}
      BY <2>2 DEF Increasing, Range
    <3>2. ASSUME NEW i \in Range(s), NEW j \in Range(t) PROVE i < j
      <4>1. i \in S /\ i <= m /\ j = m + 1
        BY <2>1, <3>1
      <4> QED BY <1>0, <4>1
    <3> HIDE DEF t
    <3>3. /\ s \o t \in Seq(S) /\ Increasing(s \o t)
          /\ Range(s \o t) = Range(s) \cup Range(t)
      <4>1. S \in SUBSET Nat
        OBVIOUS
      <4> QED BY <2>1, <3>1, <3>2, <4>1, JoinIncreasing
    <3>4. {i \in S : i <= m + 1} = {i \in S : i <= m} \cup {m + 1}
      <4>1. \A i : i \in S /\ i <= m + 1 <=> (i \in S /\ i <= m) \/ i = m + 1
        BY <1>0, <2>2
      <4> QED BY <4>1
    <3> QED BY <2>1, <3>1, <3>3, <3>4
  <2>3. CASE m + 1 \notin S
    <3>1. {i \in S : i <= m + 1} = {i \in S : i <= m}
      <4>1. \A i \in S : i <= m + 1 <=> i <= m
        BY <1>0, <2>3
      <4> QED BY <4>1
    <3> QED BY <2>1, <3>1
  <2> QED BY <2>2, <2>3
<1> HIDE DEF Ordered
<1>3. G = {}
  <2> SUFFICES ASSUME G # {} PROVE FALSE
    OBVIOUS
  <2>1. PICK m \in G : \A l \in G : m <= l
    <3>1. G \in SUBSET Nat
      OBVIOUS
    <3> HIDE DEF G
    <3> QED BY <3>1, LeastOf
  <2>2. m - 1 \in Nat /\ (m - 1) + 1 = m /\ ~(m <= m - 1)
    BY <1>1, <2>1
  <2>3. Ordered(m - 1)
    BY <2>1, <2>2
  <2> QED BY <1>2, <2>1, <2>2, <2>3
<1>4. Ordered(n)
  BY <1>3
<1>5. {i \in S : i <= n} = S
  <2>1. \A i \in S : i <= n
    BY <1>0
  <2> QED BY <2>1
<1> QED BY <1>4, <1>5 DEF Ordered

\* Whatever the table, the user and the cursor, there is a page that keeps the
\* contract of Store.List (store.go:13-14): no client is left without one.
THEOREM ListAnswers ==
    ASSUME Typed, NEW u, NEW cursor \in Nat, NEW size \in Nat
    PROVE  Pages(u, cursor, size) # {}
<1> DEFINE rest == RowsAfter(u, cursor)
<1>1. Len(owner) \in Nat /\ rest \in SUBSET (1..Len(owner))
  BY NotificationsAssumption DEF Typed, RowsAfter
<1> HIDE DEF rest
<1>2. PICK s \in Seq(rest) : Increasing(s) /\ Range(s) = rest
  BY <1>1, InOrder
<1> DEFINE n == Len(s)
<1>3. n \in Nat /\ s \in [1..n -> rest] /\ DOMAIN s = 1..n
  OBVIOUS
<1>4. rest \subseteq Nat
  BY <1>1
<1>5. Cardinality(rest) = n
  <2> HIDE DEF n
  <2>1. ASSUME NEW i \in 1..n, NEW j \in 1..n, s[i] = s[j] PROVE i = j
    <3>0. s[i] \in rest /\ s[i] \in Nat
      BY <1>3, <1>4
    <3>1. ~(s[i] < s[j]) /\ ~(s[j] < s[i])
      BY <2>1, <3>0
    <3>2. ~(i < j) /\ ~(j < i)
      BY <1>2, <1>3, <3>1 DEF Increasing
    <3> QED BY <1>3, <3>2
  <2>2. s \in Bijection(1..n, rest)
    BY <1>2, <1>3, <2>1 DEF Bijection, Injection, Surjection, IsInjective, Range
  <2> QED BY <1>3, <2>2, FS_CountingElements DEF ExistsBijection
<1> HIDE DEF n
<1> DEFINE k == IF size < n THEN size ELSE n
           items == [i \in 1..k |-> s[i]]
<1>6. k \in Nat /\ k <= size /\ k <= n /\ (k < n => k = size)
  BY <1>3
<1> HIDE DEF k
<1>7. /\ items \in [1..k -> rest] /\ DOMAIN items = 1..k
      /\ \A i \in 1..k : i \in 1..n /\ items[i] = s[i]
  BY <1>3, <1>6
<1>8. items \in Seq(rest) /\ Len(items) = k
  <2> HIDE DEF items
  <2>1. items \in Seq(rest)
    BY <1>6, <1>7
  <2> QED BY <1>6, <1>7, <2>1
<1>9. k \in 0..Cardinality(rest)
  BY <1>3, <1>5, <1>6
<1> HIDE DEF items
<1>10. Increasing(items)
  BY <1>2, <1>3, <1>7 DEF Increasing
<1>11. ASSUME NEW i \in rest \ Range(items)
       PROVE  Len(items) = size /\ \A m \in DOMAIN items : items[m] < i
  <2>1. PICK j \in 1..n : s[j] = i
    BY <1>2, <1>3 DEF Range
  <2>2. j \notin 1..k
    BY <1>7, <2>1 DEF Range
  <2>3. \A m \in 1..k : m < j
    BY <1>6, <2>2
  <2>4. k < n
    BY <1>3, <1>6, <2>1, <2>2
  <2> QED BY <1>2, <1>3, <1>6, <1>7, <1>8, <2>1, <2>3, <2>4 DEF Increasing
<1>12. items \in Pages(u, cursor, size)
  BY <1>6, <1>7, <1>8, <1>9, <1>10, <1>11 DEF Pages, rest
<1> QED BY <1>12

\* The table only grows, at its end.
OwnerGrows ==
    /\ Len(owner) \in Nat /\ Len(owner') \in Nat /\ Len(owner) <= Len(owner')
    /\ \A i \in 1..Len(owner) : owner'[i] = owner[i]

LEMMA NextGrows == ASSUME Typed, [Next]_vars PROVE OwnerGrows
<1>1. owner \in Seq(Users) /\ Len(owner) \in Nat
  BY NotificationsAssumption DEF Typed
<1>2. ASSUME owner' = owner PROVE OwnerGrows
  BY <1>1, <1>2 DEF OwnerGrows
<1>3. ASSUME NEW v \in Users, Len(owner) < MaxRows, owner' = Append(owner, v) PROVE OwnerGrows
  BY <1>1, <1>3, AppendFacts DEF OwnerGrows
<1>4. ASSUME NEW r \in Requests, Create(r) PROVE OwnerGrows
  BY <1>3, <1>4, InputFacts DEF Create
<1>5. ASSUME NEW r \in Requests, StoreFails(r) PROVE OwnerGrows
  BY <1>2, <1>3, <1>5, InputFacts DEF StoreFails, Committed, storeVars
<1>6. ASSUME NEW r \in Requests, Refuse(r) \/ Mark(r) \/ Summary(r) PROVE OwnerGrows
  BY <1>2, <1>6 DEF Refuse, Mark, Summary, storeVars
<1>7. ASSUME NEW r \in Requests, Finish(r) PROVE OwnerGrows
  BY <1>2, <1>7 DEF Finish, Count, CountFails, Publish, PublishFails, storeVars
<1>8. CASE \/ \E w \in Walks, u \in Users, limit \in Limits : StartWalk(w, u, limit)
           \/ \E w \in Walks : ReadPage(w) \/ ReadFails(w)
  BY <1>2, <1>8 DEF StartWalk, ReadPage, ReadFails, storeVars
<1>9. CASE UNCHANGED vars
  BY <1>2, <1>9 DEF vars, storeVars
<1> QED BY <1>4, <1>5, <1>6, <1>7, <1>8, <1>9 DEF Next, Serve

\* Rows added at the end are after every cursor.
LEMMA RequestsKeepWalks ==
    ASSUME WalkInvariant, OwnerGrows, walk' = walk
    PROVE  WalkInvariant'
<1> SUFFICES ASSUME NEW w \in Walks, walk[w] # Nil
             PROVE  /\ walk[w].cursor <= Len(owner')
                    /\ walk[w].more => SeenToCursor(w)'
  BY DEF WalkInvariant
<1>1. walk[w] \in Walk /\ walk[w].cursor \in Nat /\ walk[w].cursor <= Len(owner)
  BY DEF WalkInvariant, Walk
<1>2. {i \in 1..Len(owner') : owner'[i] = walk[w].user /\ i <= walk[w].cursor}
        = {i \in 1..Len(owner) : owner[i] = walk[w].user /\ i <= walk[w].cursor}
  BY <1>1 DEF OwnerGrows
<1>3. walk[w].more => SeenToCursor(w)'
  BY <1>2 DEF WalkInvariant, SeenToCursor
<1> QED BY <1>1, <1>3 DEF OwnerGrows

\* What one page makes of a walk: it goes on to the page's last row, or has
\* every row.
LEMMA PageStep ==
    ASSUME Typed, WalkInvariant, NEW w \in Walks, ReadPage(w)
    PROVE  /\ WalkInvariant'
           /\ walk[w].more = TRUE /\ walk'[w].more \in BOOLEAN
           /\ ~walk'[w].more => /\ Increasing(walk'[w].seen)
                                /\ Range(walk'[w].seen) = RowsAfter(walk[w].user, 0)'
<1> DEFINE old == walk[w]
           size == PageSize(old.limit)
<1>1. /\ old \in Walk /\ old.more /\ SeenToCursor(w) /\ old.cursor <= Len(owner)
      /\ owner' = owner
  BY DEF ReadPage, WalkInvariant, storeVars
<1>2. PICK items \in Pages(old.user, old.cursor, size) :
        walk' = [walk EXCEPT ![w] =
                   [user |-> @.user, limit |-> @.limit, seen |-> @.seen \o items,
                    cursor |-> IF Len(items) = size THEN NextCursor(items) ELSE 0,
                    more |-> Len(items) = size]]
  BY Zenon DEF ReadPage
<1>3. /\ old.user \in Users /\ old.limit \in Limits /\ old.cursor \in Nat
      /\ old.seen \in Seq(Rows)
  BY <1>1 DEF Walk
<1>4. size \in Nat \ {0}
  BY <1>3, PageSizeType, NotificationsAssumption
<1> DEFINE new == walk'[w]
<1>5. /\ new = [user |-> old.user, limit |-> old.limit, seen |-> old.seen \o items,
                cursor |-> IF Len(items) = size THEN NextCursor(items) ELSE 0,
                more |-> Len(items) = size]
      /\ \A x \in Walks \ {w} : walk'[x] = walk[x]
      /\ walk' \in [Walks -> Walk \cup {Nil} \cup {new}]
  <2> HIDE DEF size
  <2> QED BY <1>2 DEF WalkInvariant
<1> HIDE DEF size, old, new
<1>6. /\ new.user = old.user /\ new.limit = old.limit /\ new.seen = old.seen \o items
      /\ new.cursor = IF Len(items) = size THEN NextCursor(items) ELSE 0
      /\ new.more = (Len(items) = size)
  BY <1>5
<1>7. Page(items, old.user, old.cursor, size)
  BY <1>1, <1>3, <1>4, PageFacts
<1> DEFINE upTo(c) == {i \in 1..Len(owner) : owner[i] = old.user /\ i <= c}
<1>8. Increasing(old.seen) /\ Range(old.seen) = upTo(old.cursor)
  BY <1>1 DEF SeenToCursor, old
<1>9. Len(owner) \in Nat /\ 1..Len(owner) \subseteq Rows /\ Rows \subseteq Nat
  BY NotificationsAssumption DEF Typed, Rows
<1>10. new.seen \in Seq(Rows) /\ Increasing(new.seen)
       /\ Range(new.seen) = upTo(old.cursor) \cup Range(items)
  <2>1. \A i \in Range(old.seen), j \in Range(items) : i < j
    BY <1>3, <1>7, <1>8, <1>9 DEF Page, RowsAfter
  <2>2. items \in Seq(Rows) /\ Increasing(items)
    BY <1>7, <1>9 DEF Page
  <2> HIDE DEF upTo
  <2>3. /\ old.seen \o items \in Seq(Rows) /\ Increasing(old.seen \o items)
        /\ Range(old.seen \o items) = Range(old.seen) \cup Range(items)
    BY <1>3, <1>8, <1>9, <2>1, <2>2, JoinIncreasing
  <2> QED BY <1>6, <1>8, <2>3
<1>11. Len(items) = size =>
          Range(new.seen) = upTo(new.cursor) /\ new.cursor \in Nat /\ new.cursor <= Len(owner)
  BY <1>3, <1>6, <1>7, <1>9, <1>10 DEF Page, RowsAfter
<1>12. Len(items) # size =>
          Range(new.seen) = RowsAfter(old.user, 0) /\ new.cursor = 0
  BY <1>3, <1>6, <1>7, <1>9, <1>10 DEF Page, RowsAfter
<1>13. new.cursor \in Nat /\ new.cursor <= Len(owner)
  BY <1>9, <1>11, <1>12
<1>14. new \in Walk
  BY <1>3, <1>5, <1>6, <1>10, <1>13 DEF Walk
<1>15. WalkInvariant'
  <2>1. walk' \in [Walks -> Walk \cup {Nil}]
    BY <1>5, <1>14
  <2>2. new.more => SeenToCursor(w)'
    <3>1. Len(items) = size =>
            Increasing(new.seen)
              /\ Range(new.seen)
                   = {i \in 1..Len(owner') : owner'[i] = new.user /\ i <= new.cursor}
      BY <1>1, <1>6, <1>10, <1>11
    <3> QED BY <1>6, <3>1 DEF SeenToCursor, new
  <2>3. ASSUME NEW x \in Walks \ {w}, walk'[x] # Nil
        PROVE  walk'[x].cursor <= Len(owner') /\ (walk'[x].more => SeenToCursor(x)')
    BY <1>1, <1>5, <2>3 DEF WalkInvariant, SeenToCursor
  <2> QED BY <1>1, <1>13, <2>1, <2>2, <2>3 DEF WalkInvariant, new
<1>16. RowsAfter(walk[w].user, 0)' = RowsAfter(walk[w].user, 0)
  BY <1>1, <1>6 DEF RowsAfter, old, new
<1>17. ~new.more => Increasing(new.seen) /\ Range(new.seen) = RowsAfter(old.user, 0)
  BY <1>6, <1>10, <1>12
<1>18. old.more = TRUE /\ new.more \in BOOLEAN
  BY <1>1, <1>14 DEF Walk
<1> QED BY <1>15, <1>16, <1>17, <1>18 DEF new, old

\* A walk begins before the first row.
LEMMA StartWalkStep ==
    ASSUME Typed, WalkInvariant,
           NEW w \in Walks, NEW u \in Users, NEW limit \in Limits, StartWalk(w, u, limit)
    PROVE  WalkInvariant'
<1> DEFINE new == [user |-> u, limit |-> limit, cursor |-> 0, seen |-> <<>>, more |-> TRUE]
<1>1. walk' = [walk EXCEPT ![w] = new] /\ owner' = owner
  BY DEF StartWalk, storeVars
<1>2. Len(owner) \in Nat
  BY NotificationsAssumption DEF Typed
<1>3. new \in Walk /\ new.cursor = 0 /\ new.seen = <<>> /\ new.user = u
  BY DEF Walk
<1> HIDE DEF new
<1>4. walk' \in [Walks -> Walk \cup {Nil}] /\ walk'[w] = new
      /\ \A x \in Walks \ {w} : walk'[x] = walk[x]
  BY <1>1, <1>3 DEF WalkInvariant
<1>5. SeenToCursor(w)'
  <2>1. Increasing(new.seen) /\ Range(new.seen) = {}
    BY <1>3 DEF Increasing, Range
  <2>2. {i \in 1..Len(owner) : owner[i] = u /\ i <= 0} = {}
    BY <1>2
  <2> QED BY <1>1, <1>3, <1>4, <2>1, <2>2 DEF SeenToCursor
<1>6. ASSUME NEW x \in Walks \ {w}, walk'[x] # Nil
      PROVE  walk'[x].cursor <= Len(owner') /\ (walk'[x].more => SeenToCursor(x)')
  BY <1>1, <1>4, <1>6 DEF WalkInvariant, SeenToCursor
<1>7. walk'[w].cursor <= Len(owner')
  BY <1>1, <1>2, <1>3, <1>4
<1> QED BY <1>4, <1>5, <1>6, <1>7 DEF WalkInvariant

\* A walk given up leaves the others as they are.
LEMMA ReadFailsStep ==
    ASSUME Typed, WalkInvariant, NEW w \in Walks, ReadFails(w)
    PROVE  WalkInvariant'
<1>1. walk' = [walk EXCEPT ![w] = Nil] /\ owner' = owner
  BY DEF ReadFails, storeVars
<1>2. walk' \in [Walks -> Walk \cup {Nil}] /\ walk'[w] = Nil
      /\ \A x \in Walks \ {w} : walk'[x] = walk[x]
  BY <1>1 DEF WalkInvariant
<1>3. ASSUME NEW x \in Walks \ {w}, walk'[x] # Nil
      PROVE  walk'[x].cursor <= Len(owner') /\ (walk'[x].more => SeenToCursor(x)')
  BY <1>1, <1>2, <1>3 DEF WalkInvariant, SeenToCursor
<1> QED BY <1>2, <1>3 DEF WalkInvariant

LEMMA OthersKeepWalks ==
    ASSUME Typed, [Next]_vars,
           ~\E w \in Walks, u \in Users, limit \in Limits : StartWalk(w, u, limit),
           ~\E w \in Walks : ReadPage(w) \/ ReadFails(w)
    PROVE  walk' = walk
<1>1. ASSUME NEW r \in Requests, Serve(r) PROVE walk' = walk
  BY <1>1 DEF Serve, Refuse, Create, Mark, Summary, StoreFails, Start
<1>2. ASSUME NEW r \in Requests, Finish(r) PROVE walk' = walk
  BY <1>2 DEF Finish, Count, CountFails, Publish, PublishFails
<1> QED BY <1>1, <1>2 DEF Next, vars

LEMMA WalkStep ==
    ASSUME Typed, WalkInvariant, [Next]_vars
    PROVE  /\ WalkInvariant'
           /\ \A w \in Walks : walk[w] # Nil /\ walk'[w] # Nil /\ walk'[w].more # walk[w].more =>
                 /\ Increasing(walk'[w].seen)
                 /\ Range(walk'[w].seen) = RowsAfter(walk[w].user, 0)'
<1>1. CASE \E w \in Walks : ReadPage(w)
  <2>1. PICK v \in Walks : ReadPage(v)
    BY <1>1
  <2>2. \A w \in Walks \ {v} : walk'[w] = walk[w]
    BY <2>1 DEF ReadPage, WalkInvariant
  <2>3. /\ WalkInvariant'
        /\ walk[v].more = TRUE /\ walk'[v].more \in BOOLEAN
        /\ ~walk'[v].more => /\ Increasing(walk'[v].seen)
                             /\ Range(walk'[v].seen) = RowsAfter(walk[v].user, 0)'
    BY <2>1, PageStep
  <2>4. ASSUME NEW w \in Walks, walk[w] # Nil, walk'[w].more # walk[w].more
        PROVE  w = v /\ ~walk'[w].more
    BY <2>2, <2>3, <2>4
  <2> QED BY <2>3, <2>4
<1>2. CASE \E w \in Walks, u \in Users, limit \in Limits : StartWalk(w, u, limit)
  <2>1. PICK v \in Walks, u \in Users, limit \in Limits : StartWalk(v, u, limit)
    BY <1>2
  <2>2. walk[v] = Nil /\ \A w \in Walks \ {v} : walk'[w] = walk[w]
    BY <2>1 DEF StartWalk, WalkInvariant
  <2> QED BY <2>1, <2>2, StartWalkStep
<1>3. CASE walk' = walk
  BY <1>3, NextGrows, RequestsKeepWalks
<1>4. CASE \E w \in Walks : ReadFails(w)
  <2>1. PICK v \in Walks : ReadFails(v)
    BY <1>4
  <2>2. walk'[v] = Nil /\ \A w \in Walks \ {v} : walk'[w] = walk[w]
    BY <2>1 DEF ReadFails, WalkInvariant
  <2> QED BY <2>1, <2>2, ReadFailsStep
<1> QED BY <1>1, <1>2, <1>3, <1>4, OthersKeepWalks

-----------------------------------------------------------------------------
(* The theorems *)

\* Paging changes nothing the service keeps.
LEMMA IdleStep ==
    ASSUME ServiceInvariant, UNCHANGED <<storeVars, requestVars, eventVars>>
    PROVE  ServiceInvariant'
<1>1. UNCHANGED <<owner, unread, pc, input, changed, count, announced, reported, failed>>
  BY DEF storeVars, requestVars, eventVars
<1>2. \A r : /\ Pending(r)' <=> Pending(r)
             /\ User(r)' = User(r)
             /\ Announces(r)' <=> Announces(r)
  BY <1>1 DEF Pending, User, Announces
<1>3. \A u : UnreadCount(u)' = UnreadCount(u)
  BY <1>1 DEF UnreadCount, UnreadRows
<1>4. Typed'
  BY <1>1, <1>2 DEF ServiceInvariant, Typed
<1>5. ReadInvariant'
  BY <1>1, <1>2 DEF ServiceInvariant, ReadInvariant, NothingChanged, Unannounced, Disjoint,
                    UnreadSilent, ReadAccounted
<1>6. CountAccounted'
  BY <1>1, <1>2, <1>3 DEF ServiceInvariant, CountAccounted, WillReport
<1> QED BY <1>4, <1>5, <1>6 DEF ServiceInvariant

LEMMA NextInvariant == ServiceInvariant /\ [Next]_vars => ServiceInvariant'
<1> SUFFICES ASSUME ServiceInvariant, [Next]_vars PROVE ServiceInvariant'
  OBVIOUS
<1>1. ASSUME NEW r \in Requests, Serve(r) PROVE ServiceInvariant'
  BY <1>1, RefuseStep, CreateStep, MarkStep, SummaryStep, StoreFailsStep DEF Serve
<1>2. ASSUME NEW r \in Requests, Finish(r) PROVE ServiceInvariant'
  BY <1>2, CountStep, CountFailsStep, PublishStep DEF Finish
<1>3. ASSUME NEW w \in Walks, NEW u \in Users, NEW limit \in Limits, StartWalk(w, u, limit)
      PROVE  ServiceInvariant'
  BY <1>3, IdleStep DEF StartWalk
<1>4. ASSUME NEW w \in Walks, ReadPage(w) \/ ReadFails(w) PROVE ServiceInvariant'
  BY <1>4, IdleStep DEF ReadPage, ReadFails
<1>5. CASE UNCHANGED vars
  BY <1>5, IdleStep DEF vars
<1> QED BY <1>1, <1>2, <1>3, <1>4, <1>5 DEF Next

\* The strengthening is an invariant of the service.
THEOREM ServiceIsConsistent == Spec => []ServiceInvariant
BY InitInvariant, NextInvariant, PTL DEF Spec

Answers == {0, 200, 201, 204, 400, 401, 403, 500}

LEMMA StatusType == ASSUME NEW q PROVE Status(q) \in Answers
BY DEF Status, Answers

LEMMA AnswerStep ==
    ASSUME Typed, answer \in [Requests -> Answers], [Next]_vars
    PROVE  answer' \in [Requests -> Answers]
<1>1. ASSUME NEW r \in Requests, NEW status \in Answers, Reply(r, status)
      PROVE  answer' \in [Requests -> Answers]
  BY <1>1 DEF Reply
<1>2. ASSUME NEW r \in Requests, Serve(r) PROVE answer' \in [Requests -> Answers]
  <2>1. CASE Refuse(r)
    BY <1>1, <2>1, StatusType DEF Refuse
  <2>2. CASE Create(r) \/ Summary(r)
    BY <2>2 DEF Create, Summary
  <2>3. CASE Mark(r)
    BY <1>1, <2>3 DEF Mark, Answers
  <2>4. CASE StoreFails(r)
    BY <1>1, <2>4 DEF StoreFails, Answers
  <2> QED BY <1>2, <2>1, <2>2, <2>3, <2>4 DEF Serve
<1>3. ASSUME NEW r \in Requests, Finish(r) PROVE answer' \in [Requests -> Answers]
  <2>1. Succeeded(r) \in Answers
    BY DEF Succeeded, Answers
  <2>2. CASE Count(r)
    BY <2>2 DEF Count
  <2>3. CASE CountFails(r)
    BY <1>1, <2>3 DEF CountFails, Answers
  <2>4. CASE Publish(r) \/ PublishFails(r)
    BY <1>1, <2>1, <2>4 DEF Publish, PublishFails
  <2> QED BY <1>3, <2>2, <2>3, <2>4 DEF Finish
<1>4. CASE \/ \E w \in Walks, u \in Users, limit \in Limits : StartWalk(w, u, limit)
           \/ \E w \in Walks : ReadPage(w) \/ ReadFails(w)
  BY <1>4 DEF StartWalk, ReadPage, ReadFails, requestVars
<1>5. CASE UNCHANGED vars
  BY <1>5 DEF vars, requestVars
<1> QED BY <1>2, <1>3, <1>4, <1>5 DEF Next

\* With the walks and the answers, every variable is accounted for.
Invariant == ServiceInvariant /\ WalkInvariant /\ answer \in [Requests -> Answers]

THEOREM NotificationsInvariant == Spec => []Invariant
<1>1. Init => Invariant
  <2> SUFFICES ASSUME Init PROVE Invariant
    OBVIOUS
  <2>1. WalkInvariant
    BY DEF Init, WalkInvariant
  <2>2. answer \in [Requests -> Answers]
    BY DEF Init, Answers
  <2> QED BY <2>1, <2>2, InitInvariant DEF Invariant
<1>2. Invariant /\ [Next]_vars => Invariant'
  BY NextInvariant, WalkStep, AnswerStep DEF Invariant, ServiceInvariant
<1> QED BY <1>1, <1>2, PTL DEF Spec

\* Every variable keeps its type, rows and walks within the table.
THEOREM TypeCorrect == Spec => []TypeOK
<1>1. Invariant => TypeOK
  BY NotificationsAssumption
     DEF Invariant, ServiceInvariant, Typed, WalkInvariant, TypeOK, Answers
<1> QED BY <1>1, NotificationsInvariant, PTL

\* A client that follows the cursors while rows are created has, at the page
\* that promises no more, every row of its user once and in order, whatever
\* the limit it asks for (service.go:68-85, http.go:57-88).
THEOREM WalksAreComplete == Spec => WalkComplete
<1>1. Invariant /\ [Next]_vars => [\A w \in Walks : walk[w] # Nil /\ walk'[w] # Nil /\ walk'[w].more # walk[w].more =>
          /\ Increasing(walk'[w].seen)
          /\ Range(walk'[w].seen) = RowsAfter(walk[w].user, 0)']_vars
  BY WalkStep DEF Invariant, ServiceInvariant
<1> QED BY <1>1, NotificationsInvariant, PTL DEF Spec, WalkComplete

\* However requests that mark the same rows interleave, each row is announced
\* at most once and, unless a call of its user failed, once (service.go:96-150).
THEOREM RowsAreReadOnce == Spec => []ReadOnce
<1>1. ServiceInvariant => ReadOnce
  <2> SUFFICES ASSUME ServiceInvariant PROVE ReadOnce
    OBVIOUS
  <2>1. \A i \in Rows : announced[i] <= 1
    BY DEF ServiceInvariant, ReadInvariant, UnreadSilent
  <2>2. ASSUME NEW i \in Rows, NEW u \in Users \ failed, Read(i, u), Publishing(u) = {}
        PROVE  announced[i] = 1
    <3>1. ~\E r \in Requests : Pending(r) /\ i \in changed[r]
      BY <2>2 DEF Read, Publishing, Pending, ServiceInvariant, ReadInvariant, Unannounced
    <3> QED BY <2>2, <3>1 DEF Read, ServiceInvariant, ReadInvariant, ReadAccounted
  <2> QED BY <2>1, <2>2 DEF ReadOnce
<1> QED BY <1>1, ServiceIsConsistent, PTL

\* Once the requests of a user are done and none failed, the true unread count
\* is among those published since the last change (service.go:38-62, 129-149).
THEOREM TrueCountIsReported == Spec => []TrueCountReported
<1>1. ServiceInvariant => TrueCountReported
  BY DEF ServiceInvariant, CountAccounted, TrueCountReported, WillReport, Publishing, Pending
<1> QED BY <1>1, ServiceIsConsistent, PTL
=============================================================================
