------------------------- MODULE InternalApiClient -------------------------
(***************************************************************************)
(* internalapi.HTTPClient.DoJSON and the calls applicationusers.Client and *)
(* authapp.Client make through it: an attempt is sent, may be handled at   *)
(* any later moment or never, and its answer may be lost; failed attempts  *)
(* of some methods are repeated after a growing pause.  The network and    *)
(* the server, which remembers idempotency keys, are external.             *)
(***************************************************************************)
EXTENDS Integers, Sequences, FiniteSets

CONSTANTS
    Calls,                  \* calls of a client's operations
    Timed,                  \* those whose http.Client has a timeout
    Ops,                    \* the operations each may be
    Keys, Nil,              \* valid idempotency keys; Nil is a missing or malformed one
    MaxRetries, BaseDelay, MaxDelay,   \* RetryPolicy
    Width                   \* bits of a time.Duration

Attempts == 1..(MaxRetries + 1)

(***************************************************************************)
(* GetRolesForUser, ListApplicationUsers, GetUser... are GET;              *)
(* UpdateApplicationUserRoles is PUT; the toggles, CreateOrAttach and      *)
(* ValidateSession are POST; CreateUser, UpdateUser and the invitations    *)
(* are POST and PATCH with a key.                                          *)
(***************************************************************************)
Op == [method : {"GET", "PUT", "DELETE", "POST", "PATCH"}, keyed : BOOLEAN, key : Keys \cup {Nil}]

ASSUME ClientAssumption ==
    /\ Nil \notin Keys \cup Op
    /\ Timed \subseteq Calls
    /\ Ops \in [Calls -> SUBSET Op]
    \* only POST and PATCH go through idempotentRequest, and nothing else has a key
    /\ \A c \in Calls : \A o \in Ops[c] :
          IF o.keyed THEN o.method \in {"POST", "PATCH"} ELSE o.key = Nil

\* A policy without retries, as RetryPolicy{MaxRetries: 0}, may have any delays:
\* none is computed.  With one of 0 or 1 ns the jitter's rand.Int63n would panic.
ASSUME PolicyAssumption ==
    /\ MaxRetries \in Nat
    /\ Width \in Nat \ {0}
    /\ MaxRetries > 0 =>
          /\ BaseDelay \in Nat \ {0, 1} /\ MaxDelay \in Nat \ {0, 1}
          /\ BaseDelay < 2 ^ (Width - 1) /\ 3 * MaxDelay < 2 ^ Width
    \* Where the doubling leaves a Duration it has reached the cap.  The default
    \* policy does so with n = 37, and 2^37 ns are more than its two seconds.
    /\ \A n \in 0..(MaxRetries - 1) : 2 ^ (Width - 1) <= BaseDelay * 2 ^ n => MaxDelay <= 2 ^ n

\* What a server answers: a 2xx, a 3xx that http.Client does not follow, a refusal
\* (4xx), 503 or 504, another 5xx.  "error" is also a 2xx or 3xx with a body that
\* cannot be decoded.
Answers == {"ok", "moved", "rejected", "busy", "error"}

Results == {"ok", "rejected", "error", "unavailable", "badkey"}

ASSUME NilAssumption == Nil \notin Answers \cup Results

VARIABLES
    pc, op,     \* where each call is, and which operation it is
    attempts,   \* DoJSON's counter
    context,    \* the caller's context: live or cancelled
    response,   \* the answer to the attempt the call waits for, or Nil
    result,     \* what the call returned, Nil before
    slept,      \* history: its pauses
    wire,       \* attempts of each call the server has still to handle; one
                \* that is lost stays for ever
    applied,    \* how often the server has applied each call
    keys        \* the idempotency keys it has applied

clientVars == <<pc, op, attempts, context, response, result, slept>>
serverVars == <<applied, keys>>
vars == <<clientVars, wire, serverVars>>

Init ==
    /\ pc = [c \in Calls |-> "new"]
    /\ op = [c \in Calls |-> Nil]
    /\ attempts = [c \in Calls |-> 0]
    /\ context = [c \in Calls |-> "live"]
    /\ response = [c \in Calls |-> Nil]
    /\ result = [c \in Calls |-> Nil]
    /\ slept = [c \in Calls |-> <<>>]
    /\ wire = [c \in Calls |-> {}]
    /\ applied = [c \in Calls |-> 0]
    /\ keys = {}

-----------------------------------------------------------------------------
(* The pause before a retry *)

\* A product of Durations keeps its lowest Width bits, as a signed number.
Wrapped(x) == LET low == x % 2 ^ Width
              IN IF low >= 2 ^ (Width - 1) THEN low - 2 ^ Width ELSE low

\* Mutant: no upper bound.
DelayUncapped(n) == LET d == Wrapped(BaseDelay * 2 ^ n) IN IF d <= 0 THEN MaxDelay ELSE d

\* Mutant: the overflow is not caught.
DelayUnchecked(n) == LET d == Wrapped(BaseDelay * 2 ^ n) IN IF d > MaxDelay THEN MaxDelay ELSE d

Delay(n) == LET d == Wrapped(BaseDelay * 2 ^ n) IN IF d > MaxDelay \/ d <= 0 THEN MaxDelay ELSE d

\* The delay and a jitter of less than its half; none for a panic.
Pauses(n) == LET half == Delay(n) \div 2 IN {Delay(n) + j : j \in (1 - half)..(half - 1)}

-----------------------------------------------------------------------------
(* DoJSON *)

\* Mutant: every method is repeated.
RetryAll(method, failure) == failure = "unavailable"

\* Every error of http.Client.Do is a *url.Error, hence a net.Error, hence
\* unavailable, and so are 503, 504 and a deadline that passes in the body.
ShouldRetry(method, failure) ==
    method \in {"GET", "PUT", "DELETE"} /\ failure = "unavailable"

\* Mutant: one attempt too many.
FailLate(c, n, failure) ==
    IF n > MaxRetries + 1 \/ ~ShouldRetry(op[c].method, failure)
    THEN /\ pc' = [pc EXCEPT ![c] = "done"]
         /\ result' = [result EXCEPT ![c] = failure]
         /\ UNCHANGED slept
    ELSE /\ pc' = [pc EXCEPT ![c] = "backoff"]
         /\ \E d \in Pauses(n - 1) : slept' = [slept EXCEPT ![c] = Append(@, d)]
         /\ UNCHANGED result

\* The n-th attempt failed.
Fail(c, n, failure) ==
    IF n > MaxRetries \/ ~ShouldRetry(op[c].method, failure)
    THEN /\ pc' = [pc EXCEPT ![c] = "done"]
         /\ result' = [result EXCEPT ![c] = failure]
         /\ UNCHANGED slept
    ELSE /\ pc' = [pc EXCEPT ![c] = "backoff"]
         /\ \E d \in Pauses(n - 1) : slept' = [slept EXCEPT ![c] = Append(@, d)]
         /\ UNCHANGED result

\* A keyed operation without a valid key fails before anything is sent.
Begin(c, o) ==
    /\ pc[c] = "new"
    /\ op' = [op EXCEPT ![c] = o]
    /\ IF o.keyed /\ o.key = Nil
       THEN /\ pc' = [pc EXCEPT ![c] = "done"]
            /\ result' = [result EXCEPT ![c] = "badkey"]
       ELSE /\ pc' = [pc EXCEPT ![c] = "ready"]
            /\ UNCHANGED result
    /\ UNCHANGED <<attempts, context, response, slept, wire, serverVars>>

Send(c) ==
    /\ pc[c] = "ready"
    /\ context[c] = "live"
    /\ attempts' = [attempts EXCEPT ![c] = @ + 1]
    /\ wire' = [wire EXCEPT ![c] = @ \cup {attempts[c] + 1}]
    /\ response' = [response EXCEPT ![c] = Nil]
    /\ pc' = [pc EXCEPT ![c] = "waiting"]
    /\ UNCHANGED <<op, context, result, slept, serverVars>>

\* Do fails before it sends anything: the connection is refused, the context
\* is over, or a repeated request's body has been read by the attempt before
\* (Clone shares it) and no connection is at hand to rewind it on.
SendFails(c) ==
    /\ pc[c] = "ready"
    /\ attempts' = [attempts EXCEPT ![c] = @ + 1]
    /\ Fail(c, attempts[c] + 1, "unavailable")
    /\ UNCHANGED <<op, context, response, wire, serverVars>>

\* Mutant: only a 5xx is an error.
IsErrorFrom500(answer) == answer \in {"busy", "error"}

\* The code takes a status below 400 for a success.
IsError(answer) == answer \notin {"ok", "moved"}

\* doOnce: the status and, for a success, the decoded body.
Receive(c) ==
    /\ pc[c] = "waiting"
    /\ response[c] # Nil
    /\ IF IsError(response[c])
       THEN Fail(c, attempts[c], IF response[c] = "busy" THEN "unavailable" ELSE response[c])
       ELSE /\ pc' = [pc EXCEPT ![c] = "done"]
            /\ result' = [result EXCEPT ![c] = "ok"]
            /\ UNCHANGED slept
    /\ UNCHANGED <<op, attempts, context, response, wire, serverVars>>

\* The timeout, a broken connection or the end of the context: the attempt is
\* abandoned and may still be handled.
Abandon(c) ==
    /\ pc[c] = "waiting"
    /\ Fail(c, attempts[c], "unavailable")
    /\ UNCHANGED <<op, attempts, context, response, wire, serverVars>>

\* time.Sleep, which does not look at the context.
Wake(c) ==
    /\ pc[c] = "backoff"
    /\ pc' = [pc EXCEPT ![c] = "ready"]
    /\ UNCHANGED <<op, attempts, context, response, result, slept, wire, serverVars>>

Cancel(c) ==
    /\ pc[c] \in {"ready", "waiting", "backoff"}
    /\ context[c] = "live"
    /\ context' = [context EXCEPT ![c] = "cancelled"]
    /\ UNCHANGED <<pc, op, attempts, response, result, slept, wire, serverVars>>

-----------------------------------------------------------------------------
(* The network and the server *)

\* Mutant: the Idempotency-Key header is not sent.
KeySentNever(o) == Nil

KeySent(o) == IF o.keyed THEN o.key ELSE Nil

\* The request changes something: it is not a GET, and its key, if it carries
\* one, is new to the server.
Effective(o) == o.method # "GET" /\ (KeySent(o) = Nil \/ KeySent(o) \notin keys)

Handle(c, n) ==
    /\ n \in wire[c]
    /\ wire' = [wire EXCEPT ![c] = @ \ {n}]
    /\ \E answer \in Answers :
          /\ response' = IF pc[c] = "waiting" /\ n = attempts[c]
                         THEN [response EXCEPT ![c] = answer] ELSE response
          \* 2xx: it has been applied; 3xx and 4xx: it has not; otherwise either
          /\ \/ /\ answer \notin {"moved", "rejected"} /\ Effective(op[c])
                /\ applied' = [applied EXCEPT ![c] = @ + 1]
                /\ keys' = keys \cup ({KeySent(op[c])} \ {Nil})
             \/ /\ answer = "ok" => ~Effective(op[c])
                /\ UNCHANGED serverVars
    /\ UNCHANGED <<pc, op, attempts, context, result, slept>>

\* What a call does by itself.
Proceed(c) == Send(c) \/ SendFails(c) \/ Receive(c) \/ Wake(c)

Step(c) == Proceed(c) \/ Abandon(c)

\* A call does not wait for ever for a silent server.
Limited(c) == c \in Timed \/ context[c] = "cancelled"

Next ==
    \/ \E c \in Calls : \/ \E o \in Ops[c] : Begin(c, o)
                        \/ Step(c)
                        \/ Cancel(c)
    \/ \E c \in Calls : \E n \in wire[c] : Handle(c, n)

Spec == Init /\ [][Next]_vars

\* The client's goroutines run and a sleep ends; a wait ends with the timeout of
\* the http.Client, if it has one (client.go:95; none after WithTimeout(0) or with
\* a client passed to WithHTTPClient that has none), or with the context.
FairSpec ==
    /\ Spec
    /\ \A c \in Calls : WF_vars(Proceed(c)) /\ WF_vars(Limited(c) /\ Abandon(c))

-----------------------------------------------------------------------------
(* Correctness *)

TypeOK ==
    /\ pc \in [Calls -> {"new", "ready", "waiting", "backoff", "done"}]
    /\ op \in [Calls -> Op \cup {Nil}]
    /\ attempts \in [Calls -> 0..(MaxRetries + 1)]
    /\ context \in [Calls -> {"live", "cancelled"}]
    /\ response \in [Calls -> Answers \cup {Nil}]
    /\ result \in [Calls -> Results \cup {Nil}]
    /\ slept \in [Calls -> Seq(Nat)]
    /\ wire \in [Calls -> SUBSET Attempts]
    /\ applied \in [Calls -> Nat]
    /\ keys \subseteq Keys

Unsafe(c) == op[c] # Nil /\ op[c].method \in {"POST", "PATCH"}

\* Whatever is lost, late or repeated, an operation that is not idempotent
\* has its effect at most once, and of the calls that carry one key together
\* at most one has (client.go:170-171, 185, authapp/client.go:177-190).
AppliedOnce ==
    /\ \A c \in Calls : Unsafe(c) => applied[c] <= 1
    /\ \A k \in Keys :
          Cardinality({c \in Calls : op[c] # Nil /\ op[c].key = k /\ applied[c] > 0}) <= 1

\* A call that returned success has had its effect, itself or by its key, unless
\* the answer was a 3xx, which the code passes off as one (client.go:203); a
\* refused operation that is not idempotent has no effect and can have none later
\* (client.go:196-227).
AnswerIsTrue ==
    \A c \in Calls :
        /\ result[c] = "ok" /\ response[c] # "moved" /\ op[c].method # "GET"
           => applied[c] > 0 \/ op[c].key \in keys
        /\ result[c] = "rejected" /\ Unsafe(c) => applied[c] = 0 /\ wire[c] = {}

\* The doubling delay of each pause in unbounded arithmetic.
ReferenceDelay(n) == IF BaseDelay * 2 ^ n < MaxDelay THEN BaseDelay * 2 ^ n ELSE MaxDelay

\* A call pauses before each attempt but the first.
PausesDue(c) ==
    IF pc[c] \in {"backoff", "ready"} \/ attempts[c] = 0 THEN attempts[c] ELSE attempts[c] - 1

\* However often a call pauses, and although the product overflows, it sleeps
\* once between any two attempts, and each time for more than a half and less
\* than three halves of the capped doubling delay, so never longer than half as
\* much again as the cap (client.go:188, 247-260).
SleepsDouble ==
    \A c \in Calls :
        /\ Len(slept[c]) = PausesDue(c)
        /\ \A n \in DOMAIN slept[c] :
              /\ ReferenceDelay(n - 1) < 2 * slept[c][n]
              /\ 2 * slept[c][n] < 3 * ReferenceDelay(n - 1)

\* Every call of a client with a timeout returns, however silent the server and
\* however many retries; without one it returns once its context is cancelled,
\* although the pauses do not look at the context (client.go:177-190).
EveryCallReturns ==
    \A c \in Calls : pc[c] # "new" /\ Limited(c) ~> pc[c] = "done"

\* A call whose caller has gone is not repeated.
NoRetryAfterCancel ==
    [][\A c \in Calls : context[c] = "cancelled" /\ response[c] = Nil
                           => ~(pc[c] = "waiting" /\ pc'[c] = "backoff")]_vars
=============================================================================
