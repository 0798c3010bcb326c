----------------------- MODULE InternalApiClientProofs -----------------------
(***************************************************************************)
(* For any number of calls, operations, keys and retries, and any network: *)
(* an operation that is not idempotent is applied at most once, a key too, *)
(* the answer a call returns is true, its pauses double up to the cap      *)
(* whatever overflows, and it has a bounded number of steps.               *)
(***************************************************************************)
EXTENDS InternalApiClient, FiniteSetTheorems, TLAPS

\* How far a call has come, and what it holds then.
Stage(c) ==
    /\ pc[c] = "new" => op[c] = Nil
    /\ pc[c] # "new" => op[c] \in Ops[c]
    /\ pc[c] # "done" => result[c] = Nil
    /\ pc[c] \in {"ready", "backoff"} => attempts[c] <= MaxRetries
    /\ pc[c] = "waiting" => attempts[c] > 0
    /\ attempts[c] = 0 => wire[c] = {} /\ applied[c] = 0 /\ response[c] = Nil
    /\ pc[c] = "new" => attempts[c] = 0
    /\ result[c] = "ok" => response[c] \in {"ok", "moved"}
    /\ result[c] = "rejected" => response[c] = "rejected"

\* An operation that is not idempotent is sent once: its attempt is on the way
\* or has been handled, and only then has it had an effect or an answer.
SentOnce(c) ==
    Unsafe(c) =>
        /\ pc[c] = "ready" => attempts[c] = 0
        /\ pc[c] # "backoff"
        /\ wire[c] # {} => wire[c] = {1} /\ applied[c] = 0 /\ response[c] = Nil
        /\ applied[c] <= 1
        /\ response[c] = "rejected" => applied[c] = 0

\* What has been applied with a key has left it with the server.
KeysKept ==
    /\ \A c \in Calls : op[c] # Nil /\ op[c].key # Nil /\ applied[c] > 0 => op[c].key \in keys
    /\ \A c, d \in Calls :
          /\ op[c] # Nil /\ op[d] # Nil /\ op[c].key # Nil /\ op[c].key = op[d].key
          /\ applied[c] > 0 /\ applied[d] > 0
          => c = d

\* A success on the way back is one.
TrueSuccess(c) ==
    response[c] = "ok" /\ op[c].method # "GET" => applied[c] > 0 \/ op[c].key \in keys

IInv ==
    /\ TypeOK
    /\ \A c \in Calls : Stage(c) /\ SentOnce(c) /\ TrueSuccess(c)
    /\ KeysKept

-----------------------------------------------------------------------------
(* The pauses *)

\* A set of numbers that holds 0 and every successor holds all.
LEMMA SetInduction ==
    ASSUME NEW S \in SUBSET Nat, 0 \in S, \A n \in S : n + 1 \in S
    PROVE  S = Nat
<1> SUFFICES ASSUME Nat \ S # {} PROVE FALSE
  OBVIOUS
<1> DEFINE R == OpToRel(<, Nat)
<1>1. IsWellFoundedOn(R, Nat)
  BY NatLessThanWellFounded
<1> HIDE DEF R
<1>2. PICK least \in Nat \ S : \A n \in Nat \ S : ~(<<n, least>> \in R)
  BY <1>1, WFMin, Zenon
<1>3. \A n \in Nat : n < least => <<n, least>> \in R
  BY <1>2 DEF R, OpToRel
<1>4. least - 1 \in Nat /\ least - 1 < least /\ (least - 1) + 1 = least
  BY <1>2
<1>5. least - 1 \in S
  BY <1>2, <1>3, <1>4
<1> QED BY <1>2, <1>4, <1>5

\* A power of two counts the subsets of an interval; so it is positive, and
\* doubles with each element.
LEMMA PowerType == ASSUME NEW n \in Nat PROVE 2 ^ n \in Nat \ {0}
<1>1. IsFiniteSet(1..n) /\ Cardinality(1..n) = n
  BY FS_Interval
<1>2. IsFiniteSet(SUBSET (1..n)) /\ Cardinality(SUBSET (1..n)) = 2 ^ n
  BY <1>1, FS_SUBSET
<1>3. 2 ^ n \in Nat
  BY <1>2, FS_CardinalityType
<1>4. {} \in SUBSET (1..n)
  OBVIOUS
<1>5. Cardinality(SUBSET (1..n)) # 0
  BY <1>2, <1>4, FS_EmptySet
<1> QED BY <1>2, <1>3, <1>5

LEMMA PowerNext == ASSUME NEW n \in Nat PROVE 2 ^ (n + 1) = 2 * 2 ^ n
<1> DEFINE A == SUBSET (1..n)
           B == SUBSET (1..(n + 1))
           f == [p \in A \X {0, 1} |-> IF p[2] = 1 THEN p[1] \cup {n + 1} ELSE p[1]]
<1>1. /\ IsFiniteSet(A) /\ Cardinality(A) = 2 ^ n
      /\ Cardinality(B) = 2 ^ (n + 1)
  <2>1. /\ IsFiniteSet(1..n) /\ Cardinality(1..n) = n
        /\ IsFiniteSet(1..(n + 1)) /\ Cardinality(1..(n + 1)) = n + 1
    BY FS_Interval
  <2> QED BY <2>1, FS_SUBSET
<1>2. IsFiniteSet({0, 1}) /\ Cardinality({0, 1}) = 2
  <2>1. {0, 1} = 0..1
    OBVIOUS
  <2>2. IsFiniteSet(0..1) /\ Cardinality(0..1) = 2
    <3>1. 0 \in Int /\ 1 \in Int /\ ~(0 > 1) /\ 1 - 0 + 1 = 2
      OBVIOUS
    <3> QED BY <3>1, FS_Interval
  <2> QED BY <2>1, <2>2
<1>3. IsFiniteSet(A \X {0, 1}) /\ Cardinality(A \X {0, 1}) = 2 ^ n * 2
  BY <1>1, <1>2, FS_Product
<1>4. f \in Bijection(A \X {0, 1}, B)
  <2>1. f \in [A \X {0, 1} -> B]
    OBVIOUS
  <2>2. ASSUME NEW p \in A \X {0, 1}, NEW q \in A \X {0, 1}, f[p] = f[q] PROVE p = q
    <3>1. (n + 1 \in f[p] <=> p[2] = 1) /\ (n + 1 \in f[q] <=> q[2] = 1)
      OBVIOUS
    <3>2. p[1] = f[p] \ {n + 1} /\ q[1] = f[q] \ {n + 1}
      OBVIOUS
    <3>3. p[1] = q[1] /\ p[2] = q[2]
      BY <2>2, <3>1, <3>2
    <3> QED BY <3>3
  <2>3. ASSUME NEW X \in B PROVE \E p \in A \X {0, 1} : f[p] = X
    <3>1. X \ {n + 1} \in A
      OBVIOUS
    <3>2. CASE n + 1 \in X
      <4> DEFINE p == <<X \ {n + 1}, 1>>
      <4>1. p \in A \X {0, 1} /\ p[1] = X \ {n + 1} /\ p[2] = 1
        BY <3>1
      <4>2. f[p] = X
        BY <4>1, <3>2
      <4> QED BY <4>1, <4>2
    <3>3. CASE n + 1 \notin X
      <4> DEFINE p == <<X \ {n + 1}, 0>>
      <4>1. p \in A \X {0, 1} /\ p[1] = X \ {n + 1} /\ p[2] = 0
        BY <3>1
      <4>2. f[p] = X
        BY <4>1, <3>3
      <4> QED BY <4>1, <4>2
    <3> QED BY <3>2, <3>3
  <2> HIDE DEF f, A, B
  <2>4. f \in Injection(A \X {0, 1}, B)
    BY <2>1, <2>2 DEF Injection, IsInjective
  <2>5. f \in Surjection(A \X {0, 1}, B)
    BY <2>1, <2>3 DEF Surjection
  <2> QED BY <2>4, <2>5 DEF Bijection
<1>5. ExistsBijection(A \X {0, 1}, B)
  BY <1>4 DEF ExistsBijection
<1>6. Cardinality(B) = Cardinality(A \X {0, 1})
  BY <1>3, <1>5, FS_Bijection
<1>7. 2 ^ n \in Nat
  BY PowerType
<1> QED BY <1>1, <1>3, <1>6, <1>7

LEMMA PowerSum == ASSUME NEW m \in Nat, NEW n \in Nat PROVE 2 ^ (m + n) = 2 ^ m * 2 ^ n
<1> DEFINE S == {k \in Nat : 2 ^ (m + k) = 2 ^ m * 2 ^ k}
<1>1. 0 \in S
  <2>1. 2 ^ 0 = 1 /\ m + 0 = m /\ 2 ^ m \in Nat
    BY PowerType
  <2> QED BY <2>1
<1>2. ASSUME NEW k \in S PROVE k + 1 \in S
  <2>1. k \in Nat /\ 2 ^ (m + k) = 2 ^ m * 2 ^ k
    OBVIOUS
  <2>2. 2 ^ (k + 1) = 2 * 2 ^ k /\ 2 ^ ((m + k) + 1) = 2 * 2 ^ (m + k)
    BY <2>1, PowerNext
  <2>3. m + (k + 1) = (m + k) + 1
    BY <2>1
  <2>4. 2 ^ m \in Nat /\ 2 ^ k \in Nat
    BY <2>1, PowerType
  <2>5. \A x, y \in Nat : 2 * (x * y) = x * (2 * y)
    OBVIOUS
  <2>6. 2 ^ (m + (k + 1)) = 2 ^ m * 2 ^ (k + 1)
    BY <2>1, <2>2, <2>3, <2>4, <2>5
  <2> QED BY <2>1, <2>6
<1> HIDE DEF S
<1>3. S = Nat
  <2>1. S \subseteq Nat
    BY DEF S
  <2> QED BY <1>1, <1>2, <2>1, SetInduction
<1> QED BY <1>3 DEF S

LEMMA WrappedType == ASSUME NEW x \in Int PROVE Wrapped(x) \in Int
<1>1. 2 ^ Width \in Nat \ {0}
  BY PowerType, PolicyAssumption
<1> QED BY <1>1 DEF Wrapped

\* A product that fits a Duration is itself.
LEMMA WrappedSmall ==
    ASSUME NEW x \in Nat, x < 2 ^ (Width - 1)
    PROVE  Wrapped(x) = x
<1>1. Width - 1 \in Nat /\ (Width - 1) + 1 = Width
  BY PolicyAssumption
<1>2. 2 ^ Width = 2 * 2 ^ (Width - 1) /\ 2 ^ (Width - 1) \in Nat \ {0}
  BY <1>1, PowerNext, PowerType
<1>3. x % 2 ^ Width = x
  BY <1>2
<1> QED BY <1>2, <1>3 DEF Wrapped

\* A positive multiple is no smaller.
LEMMA Product ==
    ASSUME NEW m \in Nat \ {0}, NEW z \in Int
    PROVE  /\ m * z > 0 => m * z >= m
           /\ z > 0 => z * m >= m /\ z * m > 0
<1>1. z <= 0 => m * z <= 0
  OBVIOUS
<1>2. z >= 1 => m * z >= m /\ m * z = z * m
  OBVIOUS
<1> QED BY <1>1, <1>2

LEMMA CommonFactor ==
    ASSUME NEW m \in Int, NEW x \in Int, NEW y \in Int, NEW z \in Int
    PROVE  /\ x * m - (m * y) * z = m * (x - y * z)
           /\ x * (m * y) - m * z = m * (x * y - z)
OBVIOUS

LEMMA Division ==
    ASSUME NEW x \in Nat, NEW m \in Nat \ {0}
    PROVE  /\ x % m \in 0..(m - 1)
           /\ \E k \in Nat : x = m * k + (x % m)
<1>1. x % m \in 0..(m - 1)
  OBVIOUS
<1>2. x \div m \in Nat
  OBVIOUS
<1>3. x = m * (x \div m) + (x % m)
  OBVIOUS
<1> QED BY <1>1, <1>2, <1>3, Zenon

\* Wrapping around keeps the zeros that a power of two puts at the end: the
\* result, if positive, is no less than that power.
LEMMA WrappedMultiple ==
    ASSUME NEW n \in Nat, NEW b \in Nat, Wrapped(b * 2 ^ n) > 0
    PROVE  2 ^ n <= Wrapped(b * 2 ^ n)
<1> DEFINE p == 2 ^ n
           w == 2 ^ Width
           low == (b * p) % w
<1>1. p \in Nat \ {0} /\ w \in Nat \ {0} /\ Width \in Nat
  BY PowerType, PolicyAssumption
<1>2. Wrapped(b * p) = IF low >= 2 ^ (Width - 1) THEN low - w ELSE low
  BY DEF Wrapped
<1>7. Wrapped(b * p) > 0
  OBVIOUS
<1> HIDE DEF p, w
<1>8. b * p \in Nat
  BY <1>1
<1>3. low \in 0..(w - 1) /\ \E k \in Nat : b * p = w * k + low
  BY <1>1, <1>8, Division
<1> HIDE DEF low
<1>4. low > 0 /\ low = Wrapped(b * p)
  BY <1>1, <1>2, <1>3, <1>7
<1>5. CASE n <= Width
  <2> DEFINE q == 2 ^ (Width - n)
  <2>1. q \in Nat /\ w = p * q
    <3>1. Width - n \in Nat /\ n + (Width - n) = Width
      BY <1>1, <1>5
    <3>2. 2 ^ (n + (Width - n)) = 2 ^ n * 2 ^ (Width - n) /\ q \in Nat
      BY <3>1, PowerSum, PowerType
    <3> QED BY <3>1, <3>2 DEF p, w
  <2> HIDE DEF q
  <2>2. PICK k \in Nat : b * p = w * k + low
    BY <1>3
  <2>3. low = p * (b - q * k)
    <3>1. low = b * p - (p * q) * k /\ p \in Int /\ low \in Int
      BY <1>1, <1>3, <2>1, <2>2
    <3> QED BY <2>1, <3>1, CommonFactor
  <2>4. b - q * k \in Int
    BY <2>1
  <2> QED BY <1>1, <1>4, <2>3, <2>4, Product DEF p
<1>6. CASE ~(n <= Width)
  <2> DEFINE q == 2 ^ (n - Width)
  <2>1. q \in Nat /\ p = w * q
    <3>1. n - Width \in Nat /\ Width + (n - Width) = n
      BY <1>1, <1>6
    <3>2. 2 ^ (Width + (n - Width)) = 2 ^ Width * 2 ^ (n - Width) /\ q \in Nat
      BY <1>1, <3>1, PowerSum, PowerType
    <3> QED BY <3>1, <3>2 DEF p, w
  <2> HIDE DEF q
  <2>2. PICK k \in Nat : b * p = w * k + low
    BY <1>3
  <2>3. low = w * (b * q - k)
    <3>1. low = b * (w * q) - w * k /\ w \in Int /\ low \in Int
      BY <1>1, <1>3, <2>1, <2>2
    <3> QED BY <2>1, <3>1, CommonFactor
  <2>4. low \in 0..(w - 1)
    BY <1>3
  <2>5. b * q - k \in Int
    BY <2>1
  <2>6. low >= w
    BY <1>1, <1>4, <2>3, <2>5, Product
  <2> QED BY <1>1, <2>4, <2>6
<1> QED BY <1>1, <1>5, <1>6
\* No attempt number overflows the delay out of its bounds.
LEMMA DelayType == ASSUME NEW n \in Nat, MaxRetries > 0 PROVE Delay(n) \in 1..MaxDelay
<1> DEFINE d == Wrapped(BaseDelay * 2 ^ n)
<1>1. BaseDelay * 2 ^ n \in Int
  <2>1. BaseDelay \in Nat /\ 2 ^ n \in Nat
    BY PowerType, PolicyAssumption
  <2> QED BY <2>1
<1>2. d \in Int
  BY <1>1, WrappedType
<1>3. Delay(n) = IF d > MaxDelay \/ d <= 0 THEN MaxDelay ELSE d
  BY DEF Delay
<1> HIDE DEF d
<1>4. MaxDelay \in Nat \ {0}
  BY PolicyAssumption
<1> QED BY <1>2, <1>3, <1>4

\* The delay before each retry is the capped doubling delay, whatever overflows
\* on the way.
THEOREM DelayIsCapped ==
    ASSUME NEW n \in 0..(MaxRetries - 1)
    PROVE  Delay(n) = ReferenceDelay(n)
<1> DEFINE x == BaseDelay * 2 ^ n
           d == Wrapped(x)
<1>1. /\ n \in Nat /\ 2 ^ n \in Nat \ {0} /\ x \in Nat /\ BaseDelay \in Nat \ {0}
      /\ MaxDelay \in Nat \ {0} /\ d \in Int /\ 2 ^ (Width - 1) \in Nat
  <2>4. MaxRetries > 0
    BY PolicyAssumption
  <2>1. n \in Nat /\ Width - 1 \in Nat /\ BaseDelay \in Nat \ {0} /\ MaxDelay \in Nat \ {0}
    BY <2>4, PolicyAssumption
  <2>2. 2 ^ n \in Nat \ {0} /\ 2 ^ (Width - 1) \in Nat
    BY <2>1, PowerType
  <2>3. x \in Nat
    BY <2>1, <2>2
  <2> QED BY <2>1, <2>2, <2>3, WrappedType
<1>2. /\ Delay(n) = IF d > MaxDelay \/ d <= 0 THEN MaxDelay ELSE d
      /\ ReferenceDelay(n) = IF x < MaxDelay THEN x ELSE MaxDelay
  BY DEF Delay, ReferenceDelay
<1>3. CASE x < 2 ^ (Width - 1)
  <2>1. d = x
    BY <1>1, <1>3, WrappedSmall
  <2>2. x > 0
    BY <1>1, Product
  <2> HIDE DEF x, d
  <2> QED BY <1>1, <1>2, <2>1, <2>2
<1>4. CASE ~(x < 2 ^ (Width - 1))
  <2>1. MaxDelay <= 2 ^ n
    BY <1>1, <1>4, PolicyAssumption
  <2>2. x >= 2 ^ n
    BY <1>1, Product
  <2>3. d > 0 => d >= 2 ^ n
    BY <1>1, WrappedMultiple
  <2> HIDE DEF x, d
  <2> QED BY <1>1, <1>2, <2>1, <2>2, <2>3
<1> QED BY <1>3, <1>4

\* A pause is a natural number between a half and three halves of its delay.
LEMMA PausesBounds ==
    ASSUME NEW n \in Nat, MaxRetries > 0, NEW d \in Pauses(n)
    PROVE  d \in Nat /\ Delay(n) < 2 * d /\ 2 * d < 3 * Delay(n)
<1> DEFINE x == Delay(n)
<1>1. x \in Nat \ {0}
  <2>1. MaxDelay \in Nat
    BY PolicyAssumption
  <2> QED BY <2>1, DelayType
<1>2. PICK j \in (1 - (x \div 2))..((x \div 2) - 1) : d = x + j
  BY DEF Pauses
<1> HIDE DEF x
<1>3. d \in Nat /\ x < 2 * d /\ 2 * d < 3 * x
  BY <1>1, <1>2
<1> QED BY <1>3 DEF x

-----------------------------------------------------------------------------
(* The steps *)

LEMMA RetriesType == MaxRetries \in Nat
BY PolicyAssumption

USE ClientAssumption, RetriesType

LEMMA OpTypes ==
    ASSUME NEW c \in Calls, NEW o \in Ops[c]
    PROVE  /\ o \in Op /\ o # Nil /\ o.key \in Keys \cup {Nil}
           /\ o.keyed => o.method \in {"POST", "PATCH"}
           /\ ~o.keyed => o.key = Nil
           /\ KeySent(o) = o.key
BY DEF Op, KeySent

\* What a failed attempt leaves behind.
LEMMA FailEffect ==
    ASSUME TypeOK, NEW c \in Calls, NEW n \in Nat, n > 0, NEW failure \in Results,
           op[c] \in Ops[c], Fail(c, n, failure)
    PROVE  /\ \A d \in Calls \ {c} : pc'[d] = pc[d] /\ result'[d] = result[d]
           /\ \/ pc'[c] = "done" /\ result'[c] = failure
              \/ /\ pc'[c] = "backoff" /\ result'[c] = result[c]
                 /\ n <= MaxRetries /\ ~Unsafe(c)
           /\ pc' \in [Calls -> {"new", "ready", "waiting", "backoff", "done"}]
           /\ result' \in [Calls -> Results \cup {Nil}]
           /\ slept' \in [Calls -> Seq(Nat)]
<1>1. CASE n > MaxRetries \/ ~ShouldRetry(op[c].method, failure)
  <2>1. /\ pc' = [pc EXCEPT ![c] = "done"] /\ result' = [result EXCEPT ![c] = failure]
        /\ UNCHANGED slept
    BY <1>1 DEF Fail
  <2>2. slept' \in [Calls -> Seq(Nat)]
    BY <2>1 DEF TypeOK
  <2> QED BY <2>1, <2>2 DEF TypeOK
<1>2. CASE ~(n > MaxRetries \/ ~ShouldRetry(op[c].method, failure))
  <2>1. /\ pc' = [pc EXCEPT ![c] = "backoff"]
        /\ \E d \in Pauses(n - 1) : slept' = [slept EXCEPT ![c] = Append(@, d)]
        /\ UNCHANGED result
    BY <1>2 DEF Fail
  <2>2. n - 1 \in Nat /\ MaxRetries > 0
    BY <1>2
  <2>3. slept' \in [Calls -> Seq(Nat)]
    BY <2>1, <2>2, PausesBounds DEF TypeOK
  <2>4. ~Unsafe(c) /\ n <= MaxRetries
    BY <1>2 DEF ShouldRetry, Unsafe
  <2> QED BY <2>1, <2>3, <2>4 DEF TypeOK
<1> QED BY <1>1, <1>2

\* A call the step does not touch keeps what it has.
LEMMA Untouched ==
    ASSUME NEW c \in Calls, Stage(c), SentOnce(c), TrueSuccess(c), keys \subseteq keys',
           pc'[c] = pc[c], op'[c] = op[c], attempts'[c] = attempts[c],
           response'[c] = response[c], result'[c] = result[c], wire'[c] = wire[c],
           applied'[c] = applied[c]
    PROVE  Stage(c)' /\ SentOnce(c)' /\ TrueSuccess(c)'
BY DEF Stage, SentOnce, TrueSuccess, Unsafe

LEMMA InvInit == Init => IInv
<1> SUFFICES ASSUME Init PROVE IInv
  OBVIOUS
<1>1. TypeOK
  BY DEF Init, TypeOK
<1>2. ASSUME NEW c \in Calls PROVE Stage(c) /\ SentOnce(c) /\ TrueSuccess(c)
  BY NilAssumption DEF Init, Stage, SentOnce, TrueSuccess, Unsafe, Answers, Results
<1>3. KeysKept
  BY DEF Init, KeysKept
<1> QED BY <1>1, <1>2, <1>3 DEF IInv

\* The steps of the caller's side leave the server alone.
LEMMA CallerSide ==
    ASSUME IInv, TypeOK', NEW c \in Calls, UNCHANGED serverVars,
           \A d \in Calls \ {c} :
              /\ pc'[d] = pc[d] /\ op'[d] = op[d] /\ attempts'[d] = attempts[d]
              /\ response'[d] = response[d] /\ result'[d] = result[d] /\ wire'[d] = wire[d],
           op'[c] = op[c] \/ applied[c] = 0,
           Stage(c)', SentOnce(c)', TrueSuccess(c)'
    PROVE  IInv'
<1> USE DEF serverVars
<1>1. \A d \in Calls : Stage(d)' /\ SentOnce(d)' /\ TrueSuccess(d)'
  BY Untouched DEF IInv
<1>2. \A d \in Calls : applied'[d] = applied[d] /\ (applied[d] > 0 => op'[d] = op[d])
  <2>1. applied[c] \in Nat
    BY DEF IInv, TypeOK
  <2> QED BY <2>1
<1>3. KeysKept'
  BY <1>2 DEF IInv, KeysKept
<1> QED BY <1>1, <1>3 DEF IInv

LEMMA BeginStep ==
    ASSUME IInv, NEW c \in Calls, NEW o \in Ops[c], Begin(c, o)
    PROVE  IInv'
<1>1. TypeOK /\ Stage(c) /\ pc[c] = "new"
  BY DEF IInv, Begin
<1>2. o \in Op /\ o # Nil
  BY OpTypes
<1>3. TypeOK'
  <2>1. "badkey" \in Results
    BY DEF Results
  <2>2. UNCHANGED <<attempts, context, response, slept, wire, applied, keys>>
    BY DEF Begin, serverVars
  <2>3. slept' \in [Calls -> Seq(Nat)]
    BY <1>1, <2>2 DEF TypeOK
  <2>4. /\ pc' \in [Calls -> {"new", "ready", "waiting", "backoff", "done"}]
        /\ op' \in [Calls -> Op \cup {Nil}]
    BY <1>1, <1>2 DEF Begin, TypeOK
  <2>5. result' \in [Calls -> Results \cup {Nil}]
    BY ZenonT(60), <1>1, <2>1 DEF Begin, TypeOK
  <2> QED BY <1>1, <2>2, <2>3, <2>4, <2>5 DEF TypeOK
<1>4. /\ op'[c] = o /\ attempts'[c] = 0 /\ wire'[c] = {} /\ response'[c] = Nil
      /\ applied'[c] = 0
      /\ \/ pc'[c] = "done" /\ result'[c] = "badkey"
         \/ pc'[c] = "ready" /\ result'[c] = Nil
  BY <1>1 DEF Begin, TypeOK, Stage, serverVars
<1>5. Stage(c)'
  BY <1>1, <1>4, NilAssumption DEF Stage, Results, Answers
<1>6. SentOnce(c)' /\ TrueSuccess(c)'
  BY <1>1, <1>4, NilAssumption DEF SentOnce, TrueSuccess, Unsafe, Answers
<1>7. \A d \in Calls \ {c} :
         /\ pc'[d] = pc[d] /\ op'[d] = op[d] /\ attempts'[d] = attempts[d]
         /\ response'[d] = response[d] /\ result'[d] = result[d] /\ wire'[d] = wire[d]
  BY <1>1 DEF Begin, TypeOK
<1>8. applied[c] = 0 /\ UNCHANGED serverVars
  BY <1>1 DEF Stage, Begin
<1> QED BY <1>3, <1>5, <1>6, <1>7, <1>8, CallerSide

LEMMA SendStep ==
    ASSUME IInv, NEW c \in Calls, Send(c)
    PROVE  IInv'
<1>1. TypeOK /\ Stage(c) /\ SentOnce(c) /\ pc[c] = "ready"
  BY DEF IInv, Send
<1>2. attempts[c] + 1 \in Attempts
  BY <1>1 DEF Stage, TypeOK, Attempts
<1>3. TypeOK'
  BY <1>1, <1>2 DEF Send, TypeOK, serverVars, Attempts
<1>4. /\ pc'[c] = "waiting" /\ attempts'[c] = attempts[c] + 1 /\ attempts[c] \in Nat
      /\ wire'[c] = wire[c] \cup {attempts[c] + 1} /\ response'[c] = Nil
      /\ op'[c] = op[c] /\ result'[c] = Nil /\ applied'[c] = applied[c] /\ applied[c] \in Nat
  BY <1>1 DEF Send, TypeOK, Stage, serverVars
<1>5. Stage(c)'
  BY <1>1, <1>4, NilAssumption DEF Stage, Results, Answers
<1>6. SentOnce(c)'
  BY <1>1, <1>4, NilAssumption DEF SentOnce, Stage, Unsafe, Answers
<1>7. TrueSuccess(c)'
  BY <1>4, NilAssumption DEF TrueSuccess, Answers
<1>8. \A d \in Calls \ {c} :
         /\ pc'[d] = pc[d] /\ op'[d] = op[d] /\ attempts'[d] = attempts[d]
         /\ response'[d] = response[d] /\ result'[d] = result[d] /\ wire'[d] = wire[d]
  BY <1>1 DEF Send, TypeOK
<1>9. UNCHANGED serverVars
  BY DEF Send
<1> QED BY <1>3, <1>4, <1>5, <1>6, <1>7, <1>8, <1>9, CallerSide

\* An attempt ends without an effect the caller can see.
LEMMA FailedAttempt ==
    ASSUME IInv, NEW c \in Calls, NEW n \in Nat, n > 0, NEW failure \in Results,
           pc[c] \in {"ready", "waiting"}, Fail(c, n, failure),
           attempts' = [attempts EXCEPT ![c] = n],
           n = attempts[c] \/ (pc[c] = "ready" /\ n = attempts[c] + 1),
           failure # "ok", failure = "rejected" => response[c] = "rejected",
           UNCHANGED <<op, context, response, wire, serverVars>>
    PROVE  IInv'
<1>1. /\ TypeOK /\ Stage(c) /\ SentOnce(c) /\ TrueSuccess(c)
      /\ op[c] \in Ops[c] /\ result[c] = Nil
  BY DEF IInv, Stage
<1>2. /\ \A d \in Calls \ {c} : pc'[d] = pc[d] /\ result'[d] = result[d]
      /\ \/ pc'[c] = "done" /\ result'[c] = failure
         \/ pc'[c] = "backoff" /\ result'[c] = Nil /\ n <= MaxRetries /\ ~Unsafe(c)
      /\ pc' \in [Calls -> {"new", "ready", "waiting", "backoff", "done"}]
      /\ result' \in [Calls -> Results \cup {Nil}]
      /\ slept' \in [Calls -> Seq(Nat)]
  BY <1>1, FailEffect
<1>3. n \in 0..(MaxRetries + 1)
  BY <1>1 DEF Stage, TypeOK
<1>4. TypeOK'
  BY <1>1, <1>2, <1>3 DEF TypeOK, serverVars
<1>5. /\ attempts'[c] = n /\ attempts[c] \in Nat
      /\ \A d \in Calls \ {c} : attempts'[d] = attempts[d]
  BY <1>1 DEF TypeOK
<1>6. Stage(c)'
  BY <1>1, <1>2, <1>5, NilAssumption DEF Stage, serverVars, Results, Answers
<1>7. SentOnce(c)'
  BY <1>1, <1>2, <1>5 DEF SentOnce, Unsafe, serverVars
<1>8. TrueSuccess(c)'
  BY <1>1 DEF TrueSuccess, serverVars
<1> QED BY <1>2, <1>4, <1>5, <1>6, <1>7, <1>8, CallerSide

LEMMA ReceiveStep ==
    ASSUME IInv, NEW c \in Calls, Receive(c)
    PROVE  IInv'
<1>1. TypeOK /\ Stage(c) /\ SentOnce(c) /\ TrueSuccess(c) /\ pc[c] = "waiting" /\ response[c] # Nil
  BY DEF IInv, Receive
<1>2. attempts[c] \in Nat /\ attempts[c] > 0 /\ response[c] \in Answers
  BY <1>1 DEF TypeOK, Stage
<1>3. CASE IsError(response[c])
  <2> DEFINE failure == IF response[c] = "busy" THEN "unavailable" ELSE response[c]
  <2>1. Fail(c, attempts[c], failure) /\ UNCHANGED <<op, attempts, context, response, wire, serverVars>>
    BY <1>3 DEF Receive
  <2>2. failure \in Results /\ failure # "ok" /\ (failure = "rejected" => response[c] = "rejected")
    BY <1>2, <1>3 DEF IsError, Results, Answers
  <2>3. attempts' = [attempts EXCEPT ![c] = attempts[c]]
    BY <1>1, <2>1 DEF TypeOK
  <2> HIDE DEF failure
  <2> QED BY <1>1, <1>2, <2>1, <2>2, <2>3, FailedAttempt
<1>4. CASE ~IsError(response[c])
  <2>1. /\ pc' = [pc EXCEPT ![c] = "done"] /\ result' = [result EXCEPT ![c] = "ok"]
        /\ UNCHANGED <<op, attempts, context, response, slept, wire, serverVars>>
        /\ response[c] \in {"ok", "moved"}
    BY <1>4 DEF Receive, IsError
  <2>2. TypeOK'
    <3>1. "ok" \in Results
      BY DEF Results, Answers
    <3> QED BY <1>1, <2>1, <3>1 DEF TypeOK, serverVars
  <2>3. pc'[c] = "done" /\ result'[c] = "ok"
    BY <1>1, <2>1 DEF TypeOK
  <2>4. Stage(c)' /\ SentOnce(c)' /\ TrueSuccess(c)'
    BY <1>1, <2>1, <2>3 DEF Stage, SentOnce, TrueSuccess, Unsafe, serverVars
  <2>5. \A d \in Calls \ {c} : pc'[d] = pc[d] /\ result'[d] = result[d]
    BY <1>1, <2>1 DEF TypeOK
  <2> QED BY <2>1, <2>2, <2>4, <2>5, CallerSide
<1> QED BY <1>3, <1>4

LEMMA CallStep ==
    ASSUME IInv, NEW c \in Calls, Step(c) \/ Cancel(c)
    PROVE  IInv'
<1>1. TypeOK /\ Stage(c) /\ SentOnce(c) /\ TrueSuccess(c)
  BY DEF IInv
<1>2. attempts[c] \in Nat /\ "unavailable" \in Results
  BY <1>1 DEF TypeOK, Results
<1>3. CASE SendFails(c)
  <2>1. attempts[c] + 1 \in Nat /\ attempts[c] + 1 > 0
    BY <1>2
  <2> QED BY <1>2, <1>3, <2>1, FailedAttempt DEF SendFails
<1>4. CASE Abandon(c)
  <2>1. attempts[c] > 0 /\ attempts' = [attempts EXCEPT ![c] = attempts[c]]
    BY <1>1, <1>4 DEF Abandon, Stage, TypeOK
  <2> QED BY <1>2, <1>4, <2>1, FailedAttempt DEF Abandon
<1>5. CASE Wake(c)
  <2>1. /\ pc[c] = "backoff" /\ pc' = [pc EXCEPT ![c] = "ready"]
        /\ UNCHANGED <<op, attempts, context, response, result, slept, wire, serverVars>>
    BY <1>5 DEF Wake
  <2>2. TypeOK' /\ pc'[c] = "ready" /\ \A d \in Calls \ {c} : pc'[d] = pc[d]
    BY <1>1, <2>1 DEF TypeOK, serverVars
  <2>3. Stage(c)' /\ SentOnce(c)' /\ TrueSuccess(c)'
    BY <1>1, <2>1, <2>2 DEF Stage, SentOnce, TrueSuccess, Unsafe, serverVars
  <2> QED BY <2>1, <2>2, <2>3, CallerSide
<1>6. CASE Cancel(c)
  <2>1. UNCHANGED <<pc, op, attempts, response, result, slept, wire, serverVars>>
    BY <1>6 DEF Cancel
  <2>2. TypeOK'
    BY <1>1, <1>6 DEF TypeOK, serverVars, Cancel
  <2>3. Stage(c)' /\ SentOnce(c)' /\ TrueSuccess(c)'
    BY <1>1, <2>1 DEF Stage, SentOnce, TrueSuccess, Unsafe, serverVars
  <2> QED BY <2>1, <2>2, <2>3, CallerSide
<1> QED BY <1>3, <1>4, <1>5, <1>6, SendStep, ReceiveStep DEF Step, Proceed

LEMMA HandleStep ==
    ASSUME IInv, NEW c \in Calls, NEW n \in wire[c], Handle(c, n)
    PROVE  IInv'
<1>1. /\ TypeOK /\ Stage(c) /\ SentOnce(c) /\ TrueSuccess(c) /\ KeysKept
      /\ wire[c] # {} /\ pc[c] # "new" /\ op[c] \in Ops[c]
      /\ n \in Attempts /\ applied[c] \in Nat
  BY DEF IInv, Handle, Stage, TypeOK
<1>2. /\ op[c] \in Op /\ op[c] # Nil /\ op[c].key \in Keys \cup {Nil}
      /\ op[c].keyed => op[c].method \in {"POST", "PATCH"}
      /\ ~op[c].keyed => op[c].key = Nil
      /\ KeySent(op[c]) = op[c].key
  BY <1>1, OpTypes
<1>3. PICK answer \in Answers :
        /\ response' = IF pc[c] = "waiting" /\ n = attempts[c]
                       THEN [response EXCEPT ![c] = answer] ELSE response
        /\ \/ /\ answer \notin {"moved", "rejected"} /\ Effective(op[c])
              /\ applied' = [applied EXCEPT ![c] = @ + 1]
              /\ keys' = keys \cup ({KeySent(op[c])} \ {Nil})
           \/ /\ answer = "ok" => ~Effective(op[c])
              /\ UNCHANGED serverVars
  BY DEF Handle
<1>4. /\ wire' = [wire EXCEPT ![c] = wire[c] \ {n}]
      /\ UNCHANGED <<pc, op, attempts, context, result, slept>>
  BY DEF Handle
<1>5. TypeOK'
  <2>1. applied' \in [Calls -> Nat] /\ keys' \subseteq Keys
    BY <1>1, <1>2, <1>3 DEF TypeOK, serverVars
  <2>2. response' \in [Calls -> Answers \cup {Nil}]
    BY <1>1, <1>3 DEF TypeOK
  <2>3. wire' \in [Calls -> SUBSET Attempts]
    BY <1>1, <1>4 DEF TypeOK
  <2> QED BY <1>1, <1>4, <2>1, <2>2, <2>3 DEF TypeOK
<1>6. /\ keys \subseteq keys'
      /\ \A d \in Calls \ {c} : response'[d] = response[d] /\ wire'[d] = wire[d] /\ applied'[d] = applied[d]
  BY <1>1, <1>3, <1>4 DEF TypeOK, serverVars
<1>7. \A d \in Calls \ {c} : Stage(d)' /\ SentOnce(d)' /\ TrueSuccess(d)'
  BY <1>4, <1>6, Untouched DEF IInv
<1>8. /\ wire'[c] = wire[c] \ {n}
      /\ (response'[c] = answer /\ pc[c] = "waiting") \/ response'[c] = response[c]
      /\ \/ /\ answer \notin {"moved", "rejected"} /\ Effective(op[c]) /\ applied'[c] = applied[c] + 1
            /\ keys' = keys \cup ({op[c].key} \ {Nil})
         \/ /\ answer = "ok" => ~Effective(op[c])
            /\ applied'[c] = applied[c] /\ keys' = keys
  BY <1>1, <1>2, <1>3, <1>4 DEF TypeOK, serverVars
<1>9. Stage(c)'
  BY <1>1, <1>4, <1>8, NilAssumption DEF Stage, TypeOK, Results, Answers
<1>10. SentOnce(c)'
  <2> SUFFICES ASSUME Unsafe(c)' PROVE SentOnce(c)'
    BY DEF SentOnce
  <2>1. Unsafe(c) /\ pc'[c] = pc[c] /\ attempts'[c] = attempts[c]
    BY <1>4 DEF Unsafe
  <2>2. /\ wire[c] = {1} /\ applied[c] = 0 /\ response[c] = Nil
        /\ pc[c] = "ready" => attempts[c] = 0
        /\ pc[c] # "backoff"
    BY <1>1, <2>1 DEF SentOnce
  <2>3. wire'[c] = {}
    BY <1>1, <1>8, <2>2
  <2>4. applied'[c] <= 1
    BY <1>8, <2>2
  <2>5. response'[c] = "rejected" => applied'[c] = 0
    BY <1>8, <2>2, NilAssumption DEF Answers
  <2> QED BY <2>1, <2>2, <2>3, <2>4, <2>5 DEF SentOnce
<1>11. TrueSuccess(c)'
  BY <1>1, <1>2, <1>4, <1>8 DEF TrueSuccess, Effective
<1>12. KeysKept'
  <2>1. applied'[c] = applied[c] \/ op[c].key = Nil \/ (op[c].key \notin keys /\ op[c].key \in keys')
    BY <1>2, <1>8 DEF Effective
  <2>2. \A d \in Calls : op'[d] = op[d]
    BY <1>4
  <2>3. \A d \in Calls : op[d] # Nil /\ op[d].key # Nil /\ applied'[d] > 0 => op[d].key \in keys'
    BY <1>1, <1>6, <2>1 DEF KeysKept
  <2>4. \A d \in Calls \ {c} : op[d] # Nil /\ op[d].key # Nil /\ op[d].key = op[c].key
                               /\ applied[d] > 0 /\ applied'[c] > 0 => FALSE
    BY <1>1, <1>2, <2>1 DEF KeysKept
  <2>5. \A d, e \in Calls :
          /\ op[d] # Nil /\ op[e] # Nil /\ op[d].key # Nil /\ op[d].key = op[e].key
          /\ applied'[d] > 0 /\ applied'[e] > 0
          => d = e
    BY <1>1, <1>2, <1>6, <2>4 DEF KeysKept
  <2> QED BY <2>2, <2>3, <2>5 DEF KeysKept
<1> QED BY <1>5, <1>7, <1>9, <1>10, <1>11, <1>12 DEF IInv

LEMMA InvStep == ASSUME IInv, [Next]_vars PROVE IInv'
<1>1. CASE UNCHANGED vars
  <2>1. TypeOK' /\ KeysKept'
    BY <1>1 DEF vars, clientVars, serverVars, IInv, TypeOK, KeysKept
  <2>2. \A c \in Calls : Stage(c)' /\ SentOnce(c)' /\ TrueSuccess(c)'
    BY <1>1 DEF vars, clientVars, serverVars, IInv, Stage, SentOnce, TrueSuccess, Unsafe
  <2> QED BY <2>1, <2>2 DEF IInv
<1> QED BY <1>1, BeginStep, CallStep, HandleStep DEF Next

-----------------------------------------------------------------------------
(* The theorems *)

\* The invariant of the client against its network and server.
THEOREM Invariant == Spec => []IInv
BY InvInit, InvStep, PTL DEF Spec

\* Every call's variables keep their types, its attempts their bound, and its
\* pauses stay within it whatever overflows (client.go:166-194, 247-260).
THEOREM TypeCorrect == Spec => []TypeOK
<1>1. IInv => TypeOK
  BY DEF IInv
<1> QED BY <1>1, Invariant, PTL

\* Operations that are not idempotent, and keys, take effect at most once
\* (client.go:170-171, 185, authapp/client.go:177-190).
THEOREM EffectsAreSingle == Spec => []AppliedOnce
<1>1. IInv => AppliedOnce
  <2> SUFFICES ASSUME IInv PROVE AppliedOnce
    OBVIOUS
  <2>1. \A c \in Calls : Unsafe(c) => applied[c] <= 1
    BY DEF IInv, SentOnce
  <2>2. ASSUME NEW k \in Keys
        PROVE  Cardinality({c \in Calls : op[c] # Nil /\ op[c].key = k /\ applied[c] > 0}) <= 1
    <3> DEFINE S == {c \in Calls : op[c] # Nil /\ op[c].key = k /\ applied[c] > 0}
    <3>1. \A c, d \in S : c = d
      BY DEF IInv, KeysKept
    <3>2. S = {} \/ \E c \in S : S = {c}
      BY <3>1
    <3>3. Cardinality({}) = 0 /\ \A c \in S : Cardinality({c}) = 1
      BY FS_EmptySet, FS_Singleton
    <3> HIDE DEF S
    <3>4. Cardinality(S) = 0 \/ Cardinality(S) = 1
      BY <3>2, <3>3, Zenon
    <3>5. Cardinality(S) <= 1
      BY <3>4
    <3> QED BY <3>5 DEF S
  <2> QED BY <2>1, <2>2 DEF AppliedOnce
<1> QED BY <1>1, Invariant, PTL

\* Success means the effect is there, unless the server answered with a 3xx; a
\* refusal that it never will be (client.go:196-227).
THEOREM AnswersAreTrue == Spec => []AnswerIsTrue
<1>1. IInv => AnswerIsTrue
  <2> SUFFICES ASSUME IInv, NEW c \in Calls
               PROVE  /\ result[c] = "ok" /\ response[c] # "moved" /\ op[c].method # "GET"
                         => applied[c] > 0 \/ op[c].key \in keys
                      /\ result[c] = "rejected" /\ Unsafe(c) => applied[c] = 0 /\ wire[c] = {}
    BY DEF AnswerIsTrue
  <2>1. result[c] = "ok" /\ response[c] # "moved" /\ op[c].method # "GET"
        => applied[c] > 0 \/ op[c].key \in keys
    BY DEF IInv, Stage, TrueSuccess
  <2>2. result[c] = "rejected" /\ Unsafe(c) => applied[c] = 0 /\ wire[c] = {}
    BY NilAssumption DEF IInv, Stage, SentOnce, Answers
  <2> QED BY <2>1, <2>2
<1> QED BY <1>1, Invariant, PTL

-----------------------------------------------------------------------------
(* The pauses of a call *)

\* What SleepsDouble says of one call.
Rested(c) ==
    /\ Len(slept[c]) = PausesDue(c)
    /\ \A n \in DOMAIN slept[c] :
          /\ ReferenceDelay(n - 1) < 2 * slept[c][n]
          /\ 2 * slept[c][n] < 3 * ReferenceDelay(n - 1)

LEMMA StaysRested ==
    ASSUME NEW c \in Calls, Rested(c), slept'[c] = slept[c], PausesDue(c)' = PausesDue(c)
    PROVE  Rested(c)'
BY DEF Rested

\* A failed attempt is the one after the pauses made so far; if it is to be
\* repeated, the next pause is its own.
LEMMA FailureRests ==
    ASSUME TypeOK, NEW c \in Calls, Rested(c), NEW n \in Nat, n > 0, NEW failure,
           Fail(c, n, failure), Len(slept[c]) = n - 1, attempts'[c] = n
    PROVE  /\ Rested(c)'
           /\ \A d \in Calls \ {c} : slept'[d] = slept[d] /\ pc'[d] = pc[d]
<1>1. slept[c] \in Seq(Nat) /\ Len(slept[c]) \in Nat /\ DOMAIN slept[c] = 1..Len(slept[c])
  BY DEF TypeOK
<1>2. CASE n > MaxRetries \/ ~ShouldRetry(op[c].method, failure)
  <2>1. pc' = [pc EXCEPT ![c] = "done"] /\ slept' = slept
    BY <1>2 DEF Fail
  <2>2. PausesDue(c)' = n - 1
    BY <2>1 DEF TypeOK, PausesDue
  <2> QED BY <2>1, <2>2 DEF Rested, TypeOK
<1>3. CASE ~(n > MaxRetries \/ ~ShouldRetry(op[c].method, failure))
  <2>1. PICK d \in Pauses(n - 1) :
          slept' = [slept EXCEPT ![c] = Append(@, d)] /\ pc' = [pc EXCEPT ![c] = "backoff"]
    BY <1>3 DEF Fail
  <2>2. n - 1 \in Nat /\ n - 1 \in 0..(MaxRetries - 1) /\ MaxRetries > 0
    BY <1>3
  <2>3. d \in Nat /\ ReferenceDelay(n - 1) < 2 * d /\ 2 * d < 3 * ReferenceDelay(n - 1)
    BY <2>2, PausesBounds, DelayIsCapped
  <2>4. slept'[c] = Append(slept[c], d) /\ pc'[c] = "backoff"
    BY <2>1 DEF TypeOK
  <2>5. /\ Len(slept'[c]) = n /\ DOMAIN slept'[c] = 1..n /\ slept'[c][n] = d
        /\ \A k \in 1..(n - 1) : slept'[c][k] = slept[c][k]
    BY SMTT(40), <1>1, <2>3, <2>4
  <2>6. PausesDue(c)' = n
    BY <2>4 DEF PausesDue
  <2>7. ASSUME NEW k \in DOMAIN slept'[c]
        PROVE  /\ ReferenceDelay(k - 1) < 2 * slept'[c][k]
               /\ 2 * slept'[c][k] < 3 * ReferenceDelay(k - 1)
    <3>1. CASE k = n
      BY <2>3, <2>5, <3>1
    <3>2. CASE k # n
      <4>1. k \in 1..(n - 1) /\ k \in DOMAIN slept[c] /\ slept'[c][k] = slept[c][k]
        BY <1>1, <2>5, <3>2
      <4> QED BY <4>1 DEF Rested
    <3> QED BY <3>1, <3>2
  <2>8. Rested(c)'
    BY <2>5, <2>6, <2>7 DEF Rested
  <2> QED BY <2>1, <2>8 DEF TypeOK
<1> QED BY <1>2, <1>3

LEMMA RestStep ==
    ASSUME IInv, \A c \in Calls : Rested(c), [Next]_vars
    PROVE  \A c \in Calls : Rested(c)'
<1> SUFFICES ASSUME NEW c \in Calls PROVE Rested(c)'
  OBVIOUS
<1>1. TypeOK /\ Stage(c) /\ Rested(c) /\ attempts[c] \in Nat
  BY DEF IInv, TypeOK
<1>2. ASSUME NEW d \in Calls, SendFails(d) \/ Receive(d) \/ Abandon(d) PROVE Rested(c)'
  <2>1. TypeOK /\ Stage(d) /\ Rested(d) /\ attempts[d] \in Nat
    BY DEF IInv, TypeOK
  <2> DEFINE n == IF pc[d] = "ready" THEN attempts[d] + 1 ELSE attempts[d]
  <2>2. CASE \E failure : Fail(d, n, failure)
    <3>1. PICK failure : Fail(d, n, failure)
      BY <2>2
    <3>2. n \in Nat /\ n > 0 /\ Len(slept[d]) = n - 1
      BY <1>2, <2>1 DEF SendFails, Receive, Abandon, Stage, Rested, PausesDue
    <3>3. attempts'[d] = n /\ \A e \in Calls \ {d} : attempts'[e] = attempts[e]
      BY <1>2, <2>1 DEF SendFails, Receive, Abandon, TypeOK
    <3> HIDE DEF n
    <3>4. /\ Rested(d)'
          /\ \A e \in Calls \ {d} : slept'[e] = slept[e] /\ pc'[e] = pc[e]
      BY <2>1, <3>1, <3>2, <3>3, FailureRests
    <3>5. CASE c # d
      BY <1>1, <3>3, <3>4, <3>5, StaysRested DEF PausesDue
    <3> QED BY <3>4, <3>5
  <2>3. CASE ~\E failure : Fail(d, n, failure)
    <3>1. /\ pc[d] = "waiting" /\ pc' = [pc EXCEPT ![d] = "done"]
          /\ UNCHANGED <<slept, attempts>>
      BY <1>2, <2>3 DEF SendFails, Receive, Abandon
    <3> QED BY <1>1, <3>1, StaysRested DEF PausesDue, TypeOK
  <2> QED BY <2>2, <2>3
<1>3. ASSUME NEW d \in Calls, NEW o \in Ops[d], Begin(d, o) PROVE Rested(c)'
  <2>1. UNCHANGED <<slept, attempts>> /\ (c # d => pc'[c] = pc[c]) /\ (c = d => attempts[c] = 0)
    BY <1>1, <1>3 DEF Begin, TypeOK, Stage
  <2> QED BY <1>1, <2>1, StaysRested DEF PausesDue
<1>4. ASSUME NEW d \in Calls, Send(d) PROVE Rested(c)'
  <2>1. /\ UNCHANGED slept /\ pc[d] = "ready"
        /\ pc' = [pc EXCEPT ![d] = "waiting"] /\ attempts' = [attempts EXCEPT ![d] = @ + 1]
    BY <1>4 DEF Send
  <2>2. CASE c = d
    <3>1. pc[c] = "ready" /\ pc'[c] = "waiting" /\ attempts'[c] = attempts[c] + 1
      BY <1>1, <2>1, <2>2 DEF TypeOK
    <3>2. PausesDue(c) = attempts[c] /\ PausesDue(c)' = attempts[c]
      BY <1>1, <3>1 DEF PausesDue
    <3> QED BY <1>1, <2>1, <3>2, StaysRested
  <2>3. CASE c # d
    <3>1. pc'[c] = pc[c] /\ attempts'[c] = attempts[c]
      BY <1>1, <2>1, <2>3 DEF TypeOK
    <3> QED BY <1>1, <2>1, <3>1, StaysRested DEF PausesDue
  <2> QED BY <2>2, <2>3
<1>5. ASSUME NEW d \in Calls, Wake(d) PROVE Rested(c)'
  <2>1. /\ UNCHANGED <<slept, attempts>> /\ pc[d] = "backoff"
        /\ pc' = [pc EXCEPT ![d] = "ready"]
    BY <1>5 DEF Wake
  <2> QED BY <1>1, <2>1, StaysRested DEF PausesDue, TypeOK
<1>6. CASE UNCHANGED <<pc, attempts, slept>>
  BY <1>1, <1>6, StaysRested DEF PausesDue
<1>7. CASE UNCHANGED vars
  BY <1>6, <1>7 DEF vars, clientVars
<1>8. ASSUME NEW d \in Calls, Cancel(d) PROVE Rested(c)'
  BY <1>6, <1>8 DEF Cancel
<1>9. ASSUME NEW d \in Calls, NEW n \in wire[d], Handle(d, n) PROVE Rested(c)'
  BY <1>6, <1>9 DEF Handle
<1> QED BY <1>2, <1>3, <1>4, <1>5, <1>7, <1>8, <1>9 DEF Next, Step, Proceed

\* For every policy that reaches its cap before it overflows, a call pauses once
\* between any two attempts, for the doubling delay up to the cap, give or take
\* less than a half (client.go:188, 247-260).
THEOREM PausesDouble == Spec => []SleepsDouble
<1> DEFINE Q == \A c \in Calls : Rested(c)
<1>1. Init => Q
  BY DEF Init, Rested, PausesDue
<1>2. IInv /\ Q /\ [Next]_vars => Q'
  BY RestStep
<1>3. Q => SleepsDouble
  BY DEF Rested, SleepsDouble
<1> HIDE DEF Q
<1> QED BY <1>1, <1>2, <1>3, Invariant, PTL DEF Spec
-----------------------------------------------------------------------------
(* How long a call may go on *)

\* The steps a call that has begun has left at most: three for each attempt.
StepsLeft(c) ==
    3 * (MaxRetries + 1 - attempts[c])
        + (IF pc[c] = "waiting" THEN 2 ELSE IF pc[c] = "backoff" THEN 1 ELSE 0)

\* Whatever the network and the server do, each step of a call brings it nearer
\* to its end and no other step takes it away from it: a call has at most
\* 3 * (MaxRetries + 1) steps.  This is what makes the fair steps of
\* EveryCallReturns come to an end (client.go:177-190).
THEOREM CallsAreFinite ==
    Spec => [][\A c \in Calls :
                  /\ StepsLeft(c) \in Nat
                  /\ StepsLeft(c)' <= StepsLeft(c)
                  /\ Step(c) => StepsLeft(c)' < StepsLeft(c)]_vars
<1>1. ASSUME TypeOK, IInv, IInv', Next, NEW c \in Calls
      PROVE  /\ StepsLeft(c) \in Nat
             /\ StepsLeft(c)' <= StepsLeft(c)
             /\ Step(c) => StepsLeft(c)' < StepsLeft(c)
  <2>1. /\ MaxRetries \in Nat /\ attempts[c] \in Nat /\ attempts[c] <= MaxRetries + 1
        /\ pc[c] \in {"new", "ready", "waiting", "backoff", "done"}
    BY <1>1, RetriesType DEF TypeOK
  <2>2. StepsLeft(c) \in Nat
    BY <2>1 DEF StepsLeft
  <2>3. ASSUME pc'[c] = pc[c], attempts'[c] = attempts[c]
        PROVE  StepsLeft(c)' = StepsLeft(c)
    BY <2>3 DEF StepsLeft
  <2>4. ASSUME NEW d \in Calls, NEW failure, NEW n, Fail(d, n, failure)
        PROVE  /\ pc'[d] \in {"done", "backoff"}
               /\ d # c => pc'[c] = pc[c]
    BY <1>1, <2>4 DEF Fail, TypeOK
  <2>5. ASSUME Step(c) PROVE StepsLeft(c)' < StepsLeft(c)
    <3>1. CASE Send(c)
      <4>1. /\ pc[c] = "ready" /\ pc'[c] = "waiting" /\ attempts'[c] = attempts[c] + 1
        BY <1>1, <3>1 DEF Send, TypeOK
      <4> QED BY <2>1, <4>1 DEF StepsLeft
    <3>2. CASE SendFails(c)
      <4>1. /\ pc[c] = "ready" /\ pc'[c] \in {"done", "backoff"}
            /\ attempts'[c] = attempts[c] + 1
        BY <1>1, <2>4, <3>2 DEF SendFails, TypeOK
      <4> QED BY <2>1, <4>1 DEF StepsLeft
    <3>3. CASE Receive(c) \/ Abandon(c)
      <4>1. /\ pc[c] = "waiting" /\ pc'[c] \in {"done", "backoff"}
            /\ attempts'[c] = attempts[c]
        BY <1>1, <2>4, <3>3 DEF Receive, Abandon, TypeOK
      <4> QED BY <2>1, <4>1 DEF StepsLeft
    <3>4. CASE Wake(c)
      <4>1. /\ pc[c] = "backoff" /\ pc'[c] = "ready" /\ attempts'[c] = attempts[c]
        BY <1>1, <3>4 DEF Wake, TypeOK
      <4> QED BY <2>1, <4>1 DEF StepsLeft
    <3> QED BY <2>5, <3>1, <3>2, <3>3, <3>4 DEF Step, Proceed
  <2>6. ASSUME NEW d \in Calls, d # c, Step(d) PROVE StepsLeft(c)' = StepsLeft(c)
    <3>1. pc'[c] = pc[c]
      BY <1>1, <2>4, <2>6 DEF Step, Proceed, Send, SendFails, Receive, Abandon, Wake, TypeOK
    <3>2. attempts'[c] = attempts[c]
      BY <1>1, <2>6 DEF Step, Proceed, Send, SendFails, Receive, Abandon, Wake, TypeOK
    <3> QED BY <2>3, <3>1, <3>2
  <2>7. ASSUME NEW d \in Calls, NEW o \in Ops[d], Begin(d, o)
        PROVE  StepsLeft(c)' = StepsLeft(c)
    <3>1. CASE d # c
      BY <1>1, <2>3, <2>7, <3>1 DEF Begin, TypeOK
    <3>2. CASE d = c
      <4>1. pc[c] = "new" /\ pc'[c] \in {"ready", "done"} /\ attempts' = attempts
        BY <1>1, <2>7, <3>2 DEF Begin, TypeOK
      <4> QED BY <4>1 DEF StepsLeft
    <3> QED BY <3>1, <3>2
  <2>8. ASSUME NEW d \in Calls, Cancel(d) \/ \E n \in wire[d] : Handle(d, n)
        PROVE  StepsLeft(c)' = StepsLeft(c)
    BY <2>3, <2>8 DEF Cancel, Handle
  <2>9. ASSUME StepsLeft(c)' = StepsLeft(c) PROVE StepsLeft(c)' <= StepsLeft(c)
    <3> DEFINE m == StepsLeft(c)
    <3>1. m \in Nat /\ m' = m
      BY <2>2, <2>9
    <3> HIDE DEF m
    <3> QED BY <3>1 DEF m
  <2>10. ASSUME Step(c) PROVE StepsLeft(c)' <= StepsLeft(c)
    <3>1. StepsLeft(c)' < StepsLeft(c) /\ StepsLeft(c)' \in Nat
      <4>1. /\ attempts'[c] \in Nat /\ attempts'[c] <= MaxRetries + 1
        BY <1>1, RetriesType DEF IInv, TypeOK
      <4>2. StepsLeft(c)' \in Nat
        BY <2>1, <4>1 DEF StepsLeft
      <4> QED BY <2>5, <2>10, <4>2
    <3> QED BY <2>2, <3>1
  <2> QED BY <1>1, <2>2, <2>5, <2>6, <2>7, <2>8, <2>9, <2>10 DEF Next
<1>2. IInv /\ IInv' /\ [Next]_vars =>
        [\A c \in Calls :
            /\ StepsLeft(c) \in Nat
            /\ StepsLeft(c)' <= StepsLeft(c)
            /\ Step(c) => StepsLeft(c)' < StepsLeft(c)]_vars
  BY <1>1 DEF IInv
<1> QED BY <1>2, Invariant, PTL DEF Spec
=============================================================================
