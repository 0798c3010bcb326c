---------------------------- MODULE RateLimiter ----------------------------
(***************************************************************************)
(* serverutil.RateLimiter: a counter per client key and fixed window, and  *)
(* a background goroutine that drops old counters.  Both take the one      *)
(* mutex for their whole body, so each is one step.                        *)
(***************************************************************************)
EXTENDS Naturals, Sequences

CONSTANTS Keys, Limit, Window, MaxTime, Nil

ASSUME LimiterAssumption ==
    /\ Limit \in Nat
    /\ Window \in Nat \ {0}
    /\ MaxTime \in Nat
    /\ Nil \notin [count : Nat, windowStart : Nat]

VARIABLES
    now,      \* time.Now()
    entries,  \* [Keys -> counter or Nil]
    running,  \* the cleanup goroutine has not seen stopCh closed
    granted   \* history: when requests of each key were let through

vars == <<now, entries, running, granted>>

Counter == [count : Nat, windowStart : Nat]

Init ==
    /\ now = 0
    /\ entries = [k \in Keys |-> Nil]
    /\ running = TRUE
    /\ granted = [k \in Keys |-> <<>>]

\* The window of an entry is over strictly after windowStart + Window.
Over(e, t) == e = Nil \/ t - e.windowStart > Window

\* What Allow would answer at time t.
Allows(k, t) == Over(entries[k], t) \/ entries[k].count < Limit

Counted(k) ==
    IF Over(entries[k], now)
    THEN [count |-> 1, windowStart |-> now]
    ELSE [entries[k] EXCEPT !.count = @ + 1]

Allow(k) ==
    /\ IF Allows(k, now)
       THEN /\ entries' = [entries EXCEPT ![k] = Counted(k)]
            /\ granted' = [granted EXCEPT ![k] = Append(@, now)]
       ELSE UNCHANGED <<entries, granted>>
    /\ UNCHANGED <<now, running>>

\* Mutant: the cutoff itself counts as old.
DroppableEarly(e) == e # Nil /\ now - e.windowStart >= Window

\* windowStart.Before(now - Window)
Droppable(e) == e # Nil /\ e.windowStart + Window < now

Cleanup ==
    /\ running
    /\ entries' = [k \in Keys |-> IF Droppable(entries[k]) THEN Nil ELSE entries[k]]
    /\ UNCHANGED <<now, running, granted>>

Stop ==
    /\ running
    /\ running' = FALSE
    /\ UNCHANGED <<now, entries, granted>>

Tick ==
    /\ now < MaxTime
    /\ now' = now + 1
    /\ UNCHANGED <<entries, running, granted>>

Next ==
    \/ \E k \in Keys : Allow(k)
    \/ Cleanup
    \/ Stop
    \/ Tick

Spec == Init /\ [][Next]_vars

-----------------------------------------------------------------------------
(* Correctness *)

TypeOK ==
    /\ now \in 0..MaxTime
    /\ entries \in [Keys -> Counter \cup {Nil}]
    /\ running \in BOOLEAN
    /\ granted \in [Keys -> Seq(0..MaxTime)]

\* What one counter lets through: a limit of 0 still lets the request through
\* that starts a window.
Cap == IF Limit = 0 THEN 1 ELSE Limit

\* Of twice the limit of requests let through, the first and the last are more
\* than a window apart: no interval of a window's length holds as many, although
\* each counter is fixed to its own window and may be dropped at any time
\* (rate_limiter.go:37-55, 63-70).
SlidingBound ==
    \A k \in Keys : \A i, j \in DOMAIN granted[k] :
        i + 2 * Cap <= j + 1 => granted[k][i] + Window < granted[k][j]

\* Within one counter the limit is never exceeded.
CountBounded ==
    \A k \in Keys : entries[k] # Nil =>
        /\ entries[k].windowStart <= now
        /\ entries[k].count \in 1..Cap

\* Dropping a counter changes no answer, now or later: the goroutine's cutoff
\* and Allow's comparison agree at the boundary (rate_limiter.go:44, 64-68).
CleanupUnseen ==
    [][Cleanup => \A k \in Keys : \A t \in now..MaxTime :
          (Allows(k, t) <=> Allows(k, t)')]_vars
=============================================================================
