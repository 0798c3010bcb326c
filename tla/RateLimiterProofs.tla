------------------------- MODULE RateLimiterProofs -------------------------
(***************************************************************************)
(* What TLAPS proves about RateLimiter for every limit, window and key.    *)
(***************************************************************************)
EXTENDS RateLimiter, TLAPS

\* Where the requests let through stand when their key's counter has counted c
\* since s: the last c are of its window and the first of these started it, all
\* others came before, those a whole counter further back more than a window.
Counts(c, s, log) ==
    /\ c <= Len(log)
    /\ log[Len(log) - c + 1] = s
    /\ \A i \in 1..Len(log) :
          /\ log[i] <= s + Window
          /\ i + c <= Len(log) => log[i] < s
          /\ i + c + Cap <= Len(log) + 1 => log[i] + Window < s

\* The same at time t when their counter is over or gone.
Past(t, log) ==
    \A i \in 1..Len(log) :
        /\ log[i] < t
        /\ i + Cap <= Len(log) + 1 => log[i] + Window < t

Logged ==
    \A k \in Keys :
        IF entries[k] = Nil
        THEN Past(now, granted[k])
        ELSE Counts(entries[k].count, entries[k].windowStart, granted[k])

Inv ==
    /\ TypeOK
    /\ CountBounded
    /\ Logged
    /\ SlidingBound

USE LimiterAssumption DEF Counter

LEMMA CapType == Cap \in Nat \ {0}
BY DEF Cap

LEMMA InvInit == Init => Inv
<1> SUFFICES ASSUME Init PROVE Inv
  OBVIOUS
<1>1. \A k \in Keys : granted[k] = <<>> /\ entries[k] = Nil
  BY DEF Init
<1>2. TypeOK
  BY DEF Init, TypeOK
<1> QED BY <1>1, <1>2 DEF Inv, CountBounded, Logged, Past, SlidingBound

\* A counter whose window is over counts for nothing: what it let through lies
\* as far back as if it had been dropped.
LEMMA OverIsPast ==
    ASSUME NEW c \in 1..Cap, NEW s \in Nat, NEW log \in Seq(Nat), Counts(c, s, log),
           NEW t \in Nat, s + Window < t
    PROVE  Past(t, log)
<1> USE CapType
<1>1. Len(log) \in Nat /\ \A i \in 1..Len(log) : log[i] \in Nat
  OBVIOUS
<1> SUFFICES ASSUME NEW i \in 1..Len(log)
             PROVE  log[i] < t /\ (i + Cap <= Len(log) + 1 => log[i] + Window < t)
  BY DEF Past
<1>2. /\ log[i] \in Nat /\ log[i] <= s + Window
      /\ i + c <= Len(log) => log[i] < s
  BY <1>1 DEF Counts
<1>3. CASE i = Len(log) - c + 1
  BY SMTT(40), <1>1, <1>2, <1>3 DEF Counts
<1>4. CASE i # Len(log) - c + 1
  <2>1. c \in Nat /\ c <= Cap /\ Cap \in Nat /\ Window \in Nat /\ i \in Nat
    BY <1>1
  <2>2. CASE i + c <= Len(log)
    BY SMTT(40), <1>1, <1>2, <2>1, <2>2
  <2>3. CASE ~(i + c <= Len(log))
    BY SMTT(40), <1>1, <1>2, <1>4, <2>1, <2>3
  <2> QED BY <2>2, <2>3
<1> QED BY <1>3, <1>4

\* A request that starts a window.
LEMMA FirstOfWindow ==
    ASSUME NEW log \in Seq(Nat), NEW t \in Nat, Past(t, log)
    PROVE  /\ Counts(1, t, Append(log, t))
           /\ \A i \in 1..Len(log) : i + 2 * Cap <= Len(log) + 2 => log[i] + Window < t
<1> USE CapType
<1> DEFINE new == Append(log, t)
<1>1. /\ Len(log) \in Nat /\ Len(new) = Len(log) + 1 /\ new[Len(log) + 1] = t
      /\ \A i \in 1..Len(log) : log[i] \in Nat /\ new[i] = log[i]
  OBVIOUS
<1> HIDE DEF new
<1>2. \A i \in 1..Len(log) : log[i] < t /\ (i + Cap <= Len(log) + 1 => log[i] + Window < t)
  BY DEF Past
<1>3. ASSUME NEW i \in 1..Len(log) PROVE i + 2 * Cap <= Len(log) + 2 => log[i] + Window < t
  BY <1>1, <1>2
<1>4. ASSUME NEW i \in 1..Len(new)
      PROVE  /\ new[i] <= t + Window
             /\ i + 1 <= Len(new) => new[i] < t
             /\ i + 1 + Cap <= Len(new) + 1 => new[i] + Window < t
  <2>1. CASE i \in 1..Len(log)
    BY <1>1, <1>2, <2>1
  <2>2. CASE i = Len(log) + 1
    BY <1>1, <2>2
  <2> QED BY <1>1, <2>1, <2>2
<1>5. Counts(1, t, new)
  BY <1>1, <1>4 DEF Counts
<1> QED BY <1>3, <1>5 DEF new

\* A request that a running window still counts.
LEMMA NextOfWindow ==
    ASSUME NEW c \in 1..Cap, c < Cap, NEW s \in Nat, NEW log \in Seq(Nat), Counts(c, s, log),
           NEW t \in Nat, s <= t, t <= s + Window
    PROVE  /\ Counts(c + 1, s, Append(log, t))
           /\ \A i \in 1..Len(log) : i + 2 * Cap <= Len(log) + 2 => log[i] + Window < t
<1> USE CapType
<1> DEFINE new == Append(log, t)
<1>1. /\ Len(log) \in Nat /\ Len(new) = Len(log) + 1 /\ new[Len(log) + 1] = t
      /\ \A i \in 1..Len(log) : log[i] \in Nat /\ new[i] = log[i]
  OBVIOUS
<1> HIDE DEF new
<1>2. /\ c <= Len(log) /\ log[Len(log) - c + 1] = s
      /\ \A i \in 1..Len(log) :
            /\ log[i] <= s + Window
            /\ i + c <= Len(log) => log[i] < s
            /\ i + c + Cap <= Len(log) + 1 => log[i] + Window < s
  BY DEF Counts
<1>3. ASSUME NEW i \in 1..Len(log), i + 2 * Cap <= Len(log) + 2 PROVE log[i] + Window < t
  <2>1. c \in Nat /\ c + 1 <= Cap /\ Cap \in Nat /\ Window \in Nat /\ i \in Nat
    BY <1>1
  <2>2. i + c + Cap <= Len(log) + 1
    BY <1>1, <1>3, <2>1
  <2> QED BY SMTT(40), <1>1, <1>2, <2>1, <2>2
<1>4. new[Len(new) - (c + 1) + 1] = s
  <2>1. Len(new) - (c + 1) + 1 = Len(log) - c + 1 /\ Len(log) - c + 1 \in 1..Len(log)
    BY <1>1, <1>2
  <2> QED BY <1>1, <1>2, <2>1
<1>5. ASSUME NEW i \in 1..Len(new)
      PROVE  /\ new[i] <= s + Window
             /\ i + (c + 1) <= Len(new) => new[i] < s
             /\ i + (c + 1) + Cap <= Len(new) + 1 => new[i] + Window < s
  <2>1. CASE i \in 1..Len(log)
    BY SMTT(40), <1>1, <1>2, <2>1
  <2>2. CASE i = Len(log) + 1
    BY <1>1, <2>2
  <2> QED BY <1>1, <2>1, <2>2
<1>6. Counts(c + 1, s, new)
  BY <1>1, <1>2, <1>4, <1>5 DEF Counts
<1> QED BY <1>3, <1>6 DEF new

\* The request that Allow lets through keeps its key's counter, log and bound.
LEMMA AllowedRequest ==
    ASSUME Inv, NEW k \in Keys, Allows(k, now)
    PROVE  /\ Counted(k) \in Counter
           /\ Counted(k).windowStart <= now /\ Counted(k).count \in 1..Cap
           /\ Counts(Counted(k).count, Counted(k).windowStart, Append(granted[k], now))
           /\ \A i \in 1..Len(granted[k]) :
                 i + 2 * Cap <= Len(granted[k]) + 2 => granted[k][i] + Window < now
<1> USE CapType
<1> DEFINE e == entries[k]
           log == granted[k]
<1>1. now \in Nat /\ log \in Seq(Nat) /\ e \in Counter \cup {Nil}
  BY DEF Inv, TypeOK
<1>2. CASE Over(e, now)
  <2>1. Counted(k) = [count |-> 1, windowStart |-> now]
    BY <1>2 DEF Counted
  <2>4. Counted(k) \in Counter /\ Counted(k).count = 1 /\ Counted(k).windowStart = now
    BY <1>1, <2>1
  <2>2. CASE e = Nil
    <3>1. Past(now, log)
      BY <2>2 DEF Inv, Logged
    <3> QED BY <1>1, <2>4, <3>1, FirstOfWindow
  <2>3. CASE e # Nil
    <3>1. /\ e \in Counter /\ e.count \in 1..Cap
          /\ Counts(e.count, e.windowStart, log) /\ e.windowStart + Window < now
      BY <1>1, <1>2, <2>3 DEF Inv, Logged, CountBounded, Over
    <3>2. Past(now, log)
      BY <1>1, <3>1, OverIsPast
    <3> QED BY <1>1, <2>4, <3>2, FirstOfWindow
  <2> QED BY <2>2, <2>3
<1>3. CASE ~Over(e, now)
  <2>1. /\ e \in Counter /\ e.count \in 1..Cap /\ Counts(e.count, e.windowStart, log)
        /\ e.windowStart <= now /\ now <= e.windowStart + Window
    BY <1>1, <1>3 DEF Inv, Logged, CountBounded, Over
  <2>2. e.count < Cap
    BY <1>3, <2>1 DEF Allows, Cap
  <2>3. Counted(k) = [e EXCEPT !.count = @ + 1]
    BY <1>3 DEF Counted
  <2>4. /\ Counted(k) \in Counter
        /\ Counted(k).windowStart = e.windowStart /\ Counted(k).count = e.count + 1
    BY <2>1, <2>3
  <2>5. e.count \in Nat /\ e.windowStart \in Nat
    BY <2>1
  <2>6. Counts(e.count + 1, e.windowStart, Append(log, now))
    BY <1>1, <2>1, <2>2, <2>5, NextOfWindow
  <2>7. \A i \in 1..Len(log) : i + 2 * Cap <= Len(log) + 2 => log[i] + Window < now
    BY <1>1, <2>1, <2>2, <2>5, NextOfWindow
  <2>8. e.count + 1 \in 1..Cap
    BY <2>2, <2>5
  <2> QED BY <2>1, <2>4, <2>6, <2>7, <2>8
<1> QED BY <1>2, <1>3

LEMMA AllowStep ==
    ASSUME Inv, NEW k \in Keys, Allow(k)
    PROVE  Inv'
<1> USE CapType
<1> DEFINE log == granted[k]
<1>1. CASE Allows(k, now)
  <2>1. /\ entries' = [entries EXCEPT ![k] = Counted(k)]
        /\ granted' = [granted EXCEPT ![k] = Append(log, now)]
        /\ now' = now /\ running' = running
    BY <1>1 DEF Allow
  <2>2. /\ Counted(k) \in Counter
        /\ Counted(k).windowStart <= now /\ Counted(k).count \in 1..Cap
        /\ Counts(Counted(k).count, Counted(k).windowStart, Append(log, now))
        /\ \A i \in 1..Len(log) : i + 2 * Cap <= Len(log) + 2 => log[i] + Window < now
    BY <1>1, AllowedRequest
  <2>3. now \in 0..MaxTime /\ log \in Seq(0..MaxTime) /\ Append(log, now) \in Seq(0..MaxTime)
    BY DEF Inv, TypeOK
  <2>4. TypeOK' /\ CountBounded'
    BY <2>1, <2>2, <2>3 DEF Inv, TypeOK, CountBounded
  <2>5. Logged'
    BY <2>1, <2>2 DEF Inv, TypeOK, Logged
  <2>6. SlidingBound'
    <3> SUFFICES ASSUME NEW m \in Keys, NEW i \in DOMAIN granted'[m], NEW j \in DOMAIN granted'[m],
                        i + 2 * Cap <= j + 1
                 PROVE  granted'[m][i] + Window < granted'[m][j]
      BY DEF SlidingBound
    <3>1. CASE m # k
      BY <2>1, <3>1 DEF Inv, SlidingBound
    <3>2. CASE m = k
      <4>1. /\ Len(log) \in Nat /\ DOMAIN log = 1..Len(log) /\ i \in 1..(Len(log) + 1)
            /\ j \in 1..(Len(log) + 1) /\ granted'[m] = Append(log, now)
        BY <2>1, <2>3, <3>2 DEF Inv, TypeOK
      <4>2. i \in 1..Len(log)
        BY <4>1
      <4>3. granted'[m][i] = log[i]
        BY <4>1, <4>2, <2>3
      <4>4. CASE j \in 1..Len(log)
        <5>1. granted'[m][j] = log[j]
          BY <4>1, <4>4, <2>3
        <5> QED BY <4>1, <4>2, <4>3, <4>4, <5>1 DEF Inv, SlidingBound
      <4>5. CASE j = Len(log) + 1
        <5>1. granted'[m][j] = now
          BY <4>1, <4>5, <2>3
        <5> QED BY <2>2, <4>1, <4>2, <4>3, <4>5, <5>1
      <4> QED BY <4>1, <4>4, <4>5
    <3> QED BY <3>1, <3>2
  <2> QED BY <2>4, <2>5, <2>6 DEF Inv
<1>2. CASE ~Allows(k, now)
  BY <1>2 DEF Allow, Inv, TypeOK, CountBounded, Logged, SlidingBound
<1> QED BY <1>1, <1>2

\* What the cleanup drops is past.
LEMMA CleanupStep ==
    ASSUME Inv, Cleanup
    PROVE  Inv'
<1>1. /\ entries' = [k \in Keys |-> IF Droppable(entries[k]) THEN Nil ELSE entries[k]]
      /\ UNCHANGED <<now, running, granted>>
  BY DEF Cleanup
<1>2. TypeOK' /\ CountBounded' /\ SlidingBound'
  BY <1>1 DEF Inv, TypeOK, CountBounded, SlidingBound
<1>3. ASSUME NEW k \in Keys
      PROVE  IF entries'[k] = Nil
             THEN Past(now, granted[k])
             ELSE Counts(entries'[k].count, entries'[k].windowStart, granted[k])
  <2>1. CASE Droppable(entries[k])
    <3>1. /\ entries[k] \in Counter /\ entries[k].count \in 1..Cap
          /\ Counts(entries[k].count, entries[k].windowStart, granted[k])
          /\ entries[k].windowStart + Window < now
          /\ now \in Nat /\ granted[k] \in Seq(Nat)
      BY <2>1 DEF Inv, TypeOK, CountBounded, Logged, Droppable
    <3> QED BY <1>1, <2>1, <3>1, OverIsPast
  <2>2. CASE ~Droppable(entries[k])
    BY <1>1, <2>2 DEF Inv, Logged
  <2> QED BY <2>1, <2>2
<1>4. Logged'
  BY <1>1, <1>3 DEF Logged
<1> QED BY <1>2, <1>4 DEF Inv

LEMMA TickStep ==
    ASSUME Inv, Tick
    PROVE  Inv'
<1> USE CapType
<1>1. now' = now + 1 /\ now < MaxTime /\ UNCHANGED <<entries, running, granted>>
  BY DEF Tick
<1>2. TypeOK' /\ CountBounded' /\ SlidingBound'
  BY <1>1 DEF Inv, TypeOK, CountBounded, SlidingBound
<1>3. ASSUME NEW k \in Keys, Past(now, granted[k]) PROVE Past(now + 1, granted[k])
  BY <1>3 DEF Inv, TypeOK, Past
<1>4. Logged'
  BY <1>1, <1>3 DEF Inv, Logged
<1> QED BY <1>2, <1>4 DEF Inv

LEMMA InvNext == Inv /\ [Next]_vars => Inv'
<1> SUFFICES ASSUME Inv, [Next]_vars PROVE Inv'
  OBVIOUS
<1>1. CASE Stop
  BY <1>1 DEF Stop, Inv, TypeOK, CountBounded, Logged, SlidingBound
<1>2. CASE UNCHANGED vars
  BY <1>2 DEF vars, Inv, TypeOK, CountBounded, Logged, SlidingBound
<1> QED BY <1>1, <1>2, AllowStep, CleanupStep, TickStep DEF Next

THEOREM Invariant == Spec => []Inv
BY InvInit, InvNext, PTL DEF Spec

\* A counter stays within the limit, or at one when the limit is zero, and
\* never starts in the future.
THEOREM CountIsBounded == Spec => []CountBounded
<1>1. Inv => CountBounded
  BY DEF Inv
<1> QED BY <1>1, Invariant, PTL

\* For every limit and window, and whenever the goroutine drops counters, no
\* interval of a window's length holds twice the limit of requests let through.
THEOREM BurstsAreBounded == Spec => []SlidingBound
<1>1. Inv => SlidingBound
  BY DEF Inv
<1> QED BY <1>1, Invariant, PTL

\* The goroutine that drops counters is invisible to every caller of Allow:
\* what it drops would have started a new window anyway.
THEOREM CleanupIsUnseen == Spec => CleanupUnseen
<1> DEFINE Unseen == Cleanup => \A k \in Keys : \A t \in now..MaxTime :
                        (Allows(k, t) <=> Allows(k, t)')
<1>1. Inv /\ [Next]_vars => [Unseen]_vars
  <2> SUFFICES ASSUME Inv, Cleanup, NEW k \in Keys, NEW t \in now..MaxTime
               PROVE  Allows(k, t) <=> Allows(k, t)'
    BY DEF Unseen
  <2>1. t \in Nat /\ now \in Nat /\ t >= now
    BY DEF Inv, TypeOK
  <2>2. entries'[k] = IF Droppable(entries[k]) THEN Nil ELSE entries[k]
    BY DEF Cleanup
  <2>3. CASE Droppable(entries[k])
    <3>1. entries[k] \in Counter /\ entries[k].windowStart + Window < now
      BY <2>3 DEF Inv, TypeOK, Droppable
    <3>2. Over(entries[k], t)
      BY <2>1, <3>1 DEF Over
    <3>3. Over(entries'[k], t)
      BY <2>2, <2>3 DEF Over
    <3> QED BY <3>2, <3>3 DEF Allows
  <2>4. CASE ~Droppable(entries[k])
    BY <2>2, <2>4 DEF Allows, Over
  <2> QED BY <2>3, <2>4
<1> QED BY <1>1, InvInit, InvNext, PTL DEF Spec, CleanupUnseen
=============================================================================
