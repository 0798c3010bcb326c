------------------------- MODULE InteractionProofs -------------------------
(***************************************************************************)
(* What TLAPS proves about Interaction for any routes, fragments, tabs and *)
(* requests: a plan covers what is scheduled, a refresh is offered to the  *)
(* tabs it must reach, and only what is allowed is run or rendered.        *)
(***************************************************************************)
EXTENDS Interaction, FiniteSetTheorems, WellFoundedInduction, TLAPS

-----------------------------------------------------------------------------
(* The planner *)

LEMMA LeastOf ==
    ASSUME NEW S \in SUBSET Nat, S # {}
    PROVE  \E m \in S : \A n \in S : m <= n
<1>1. PICK m \in S : \A n \in S : <<n, m>> \notin OpToRel(<, Nat)
  BY WFMin, NatLessThanWellFounded, Zenon
<1>2. \A n \in S : ~(n < m)
  BY <1>1, Zenon DEF OpToRel
<1> QED BY <1>2

LEMMA GreatestIndex ==
    ASSUME NEW n \in Nat, NEW J \in SUBSET (1..n), J # {}
    PROVE  \E j \in J : \A i \in J : i <= j
<1> DEFINE Gaps == {n - j : j \in J}
<1>1. Gaps \in SUBSET Nat /\ Gaps # {}
  <2>1. \A j \in J : n - j \in Nat
    OBVIOUS
  <2> QED BY <2>1
<1>2. PICK g \in Gaps : \A h \in Gaps : g <= h
  <2> HIDE DEF Gaps
  <2> QED BY <1>1, LeastOf
<1>3. PICK j \in J : g = n - j
  BY <1>2
<1>4. ASSUME NEW i \in J PROVE i <= j
  <2>1. n - j <= n - i
    BY <1>2, <1>3
  <2> QED BY <2>1
<1> QED BY <1>4

LEMMA RegistryType == FragmentsOf \in [Routes -> SUBSET Fragments]
BY PlannerAssumption DEF FragmentsOf

LEMMA FirstIsFirst ==
    ASSUME NEW S \in SUBSET Fragments, S # {}
    PROVE  First(S) \in S
<1> DEFINE Ranks == {Rank[f] : f \in S}
<1>1. Ranks \in SUBSET Nat /\ Ranks # {}
  BY PlannerAssumption
<1>2. PICK r \in Ranks : \A s \in Ranks : r <= s
  <2> HIDE DEF Ranks
  <2> QED BY <1>1, LeastOf
<1>3. \E f \in S : \A g \in S : Rank[f] <= Rank[g]
  BY <1>2
<1> QED BY <1>3 DEF First

LEMMA WalkType ==
    ASSUME NEW k \in Routes, NEW S \in SUBSET Fragments, NEW walk \in Walks(k, S)
    PROVE  /\ Len(walk) \in Nat
           /\ walk \in [1..Len(walk) -> S]
<1>1. IsFiniteSet(S)
  BY PlannerAssumption, FS_Subset
<1>2. Cardinality(S) \in Nat
  BY <1>1, FS_CardinalityType
<1>3. PICK n \in 0..Cardinality(S) : walk \in [1..n -> S]
  BY DEF Walks
<1>4. n \in Nat /\ walk \in Seq(S)
  BY <1>2, <1>3
<1>5. Len(walk) = n
  BY <1>3, <1>4
<1> QED BY <1>3, <1>4, <1>5

\* Plan covers all that its roots invalidate, and no part of it lies directly
\* inside another, whatever the order of the map (fragments.go:171).
THEOREM EveryPlanCovers ==
    ASSUME NEW k \in Routes, NEW roots, NEW p \in Plans(k, roots)
    PROVE  /\ p \subseteq FragmentsOf[k]
           /\ Covers(k, p, Scheduled(k, roots))
           /\ Irredundant(k, p)
<1> DEFINE S == Scheduled(k, roots)
<1>1. S \subseteq FragmentsOf[k] /\ S \subseteq Fragments
  BY RegistryType DEF Scheduled
<1>2. PICK walk \in Walks(k, S) : p = S \ Deleted(k, walk, Len(walk))
  BY DEF Plans
<1> DEFINE n == Len(walk)
<1> HIDE DEF S
<1>3. n \in Nat /\ walk \in [1..n -> S]
  BY <1>1, <1>2, WalkType
<1>4. \A f \in S \ p : \E i \in 1..n : f \in Dominates[k][walk[i]]
  BY <1>2 DEF Deleted
<1>5. Covers(k, p, S)
  <2> SUFFICES ASSUME NEW T \in SUBSET Fragments, p \subseteq T,
                      \A f \in T : Dominates[k][f] \subseteq T,
                      NEW f \in S, f \notin T
               PROVE  FALSE
    BY DEF Covers
  <2> DEFINE J == {j \in 1..n : walk[j] \notin T}
  <2>1. \A g \in S : g \notin T => \E i \in J : g \in Dominates[k][walk[i]]
    BY <1>3, <1>4
  <2>2. J # {}
    BY <2>1
  <2>3. PICK j \in J : \A i \in J : i <= j
    BY <1>3, <2>2, GreatestIndex
  <2>4. PICK i \in J : walk[j] \in Dominates[k][walk[i]]
    BY <1>3, <2>1
  <2>5. walk[j] \notin Deleted(k, walk, j - 1)
    BY <1>2, <1>3 DEF Walks
  <2>6. ~(i \in 1..(j - 1))
    BY <2>4, <2>5 DEF Deleted
  <2>7. i = j
    BY <1>3, <2>3, <2>6
  <2>8. walk[j] \in Fragments
    BY <1>1, <1>3
  <2> QED BY <2>4, <2>7, <2>8, DominanceAssumption
<1>6. Irredundant(k, p)
  <2> SUFFICES ASSUME NEW f \in p, NEW g \in p, g \in Dominates[k][f]
               PROVE  FALSE
    BY DEF Irredundant
  <2>1. PICK i \in 1..n : walk[i] = f
    BY <1>2 DEF Walks
  <2>2. g \in Deleted(k, walk, n)
    BY <2>1 DEF Deleted
  <2> QED BY <1>2, <2>2
<1> QED BY <1>1, <1>2, <1>5, <1>6 DEF S

\* The pruning loop comes to an end, so that Plan returns: a walk that is not
\* complete can go on, and no walk is longer than the map (fragments.go:171).
PartialWalk(k, S, n, walk) ==
    /\ walk \in [1..n -> S]
    /\ \A i, j \in 1..n : walk[i] = walk[j] => i = j
    /\ \A i \in 1..n : walk[i] \notin Deleted(k, walk, i - 1)

LEMMA WalkIsShort ==
    ASSUME NEW k \in Routes, NEW S \in SUBSET Fragments, NEW n \in Nat, NEW walk,
           PartialWalk(k, S, n, walk)
    PROVE  n \in 0..Cardinality(S)
<1>1. IsFiniteSet(S)
  BY PlannerAssumption, FS_Subset
<1>2. Cardinality(S) \in Nat
  BY <1>1, FS_CardinalityType
<1>3. walk \in Injection(1..n, S)
  BY DEF PartialWalk, Injection, IsInjective
<1>4. 1 \in Int /\ n \in Int
  OBVIOUS
<1>5. Cardinality(1..n) = n
  BY <1>4, FS_Interval
<1> QED BY <1>1, <1>2, <1>3, <1>5, FS_Injection

LEMMA WalkGoesOn ==
    ASSUME NEW k \in Routes, NEW S \in SUBSET Fragments, NEW n \in Nat, NEW walk,
           PartialWalk(k, S, n, walk),
           NEW f \in S, f \notin Deleted(k, walk, n), \A i \in 1..n : walk[i] # f
    PROVE  \E w : PartialWalk(k, S, n + 1, w)
<1> DEFINE w == [i \in 1..(n + 1) |-> IF i = n + 1 THEN f ELSE walk[i]]
<1>1. walk \in [1..n -> S]
  BY DEF PartialWalk
<1>2. \A i \in 1..(n + 1) : i = n + 1 \/ i \in 1..n
  OBVIOUS
<1>3. /\ w \in [1..(n + 1) -> S] /\ w[n + 1] = f
      /\ \A i \in 1..n : i \in 1..(n + 1) /\ i # n + 1 /\ w[i] = walk[i]
  BY <1>1, <1>2
<1> HIDE DEF w
<1>4. ASSUME NEW i \in 1..(n + 1) PROVE Deleted(k, w, i - 1) = Deleted(k, walk, i - 1)
  <2>1. \A j \in 1..(i - 1) : j \in 1..n
    OBVIOUS
  <2>2. \A j \in 1..(i - 1) : w[j] = walk[j]
    BY <1>3, <2>1
  <2> QED BY <2>2 DEF Deleted
<1>5. \A i, j \in 1..(n + 1) : w[i] = w[j] => i = j
  BY <1>2, <1>3 DEF PartialWalk
<1>6. ASSUME NEW i \in 1..(n + 1) PROVE w[i] \notin Deleted(k, w, i - 1)
  <2>1. CASE i = n + 1
    BY <1>3, <1>4, <2>1
  <2>2. CASE i \in 1..n
    BY <1>3, <1>4, <2>2 DEF PartialWalk
  <2> QED BY <1>2, <2>1, <2>2
<1>7. PartialWalk(k, S, n + 1, w)
  BY <1>3, <1>5, <1>6 DEF PartialWalk
<1> QED BY <1>7

THEOREM PlanReturns ==
    ASSUME NEW k \in Routes, NEW roots
    PROVE  Plans(k, roots) # {}
<1> DEFINE S == Scheduled(k, roots)
           c == Cardinality(S)
<1>1. S \in SUBSET Fragments
  BY RegistryType DEF Scheduled
<1>2. c \in Nat
  BY <1>1, PlannerAssumption, FS_Subset, FS_CardinalityType
<1> HIDE DEF S, c
<1> DEFINE Left == {m \in 0..c : \E walk : PartialWalk(k, S, c - m, walk)}
<1>3. Left \in SUBSET Nat /\ Left # {}
  <2>1. PartialWalk(k, S, 0, <<>>)
    BY DEF PartialWalk
  <2>2. c \in 0..c /\ c - c = 0
    BY <1>2
  <2>3. c \in Left
    BY <2>1, <2>2
  <2>4. Left \in SUBSET Nat
    BY <1>2
  <2> QED BY <2>3, <2>4
<1>4. PICK m \in Left : \A l \in Left : m <= l
  <2> HIDE DEF Left
  <2> QED BY <1>3, LeastOf
<1>5. PICK walk : PartialWalk(k, S, c - m, walk)
  BY <1>4
<1> DEFINE n == c - m
<1>6. n \in Nat /\ n \in 0..c /\ m \in Nat /\ m = c - n
  BY <1>2, <1>4
<1>7. ASSUME NEW f \in S \ Deleted(k, walk, n) PROVE \E i \in 1..n : walk[i] = f
  <2> SUFFICES ASSUME \A i \in 1..n : walk[i] # f PROVE FALSE
    OBVIOUS
  <2>1. \E w : PartialWalk(k, S, n + 1, w)
    <3> HIDE DEF n
    <3> QED BY <1>1, <1>5, <1>6, <1>7, WalkGoesOn DEF n
  <2>2. n + 1 \in 0..c
    <3> HIDE DEF n
    <3> QED BY <1>1, <1>6, <2>1, WalkIsShort DEF c
  <2>3. m - 1 \in 0..c /\ c - (m - 1) = n + 1 /\ ~(m <= m - 1)
    BY <1>2, <1>6, <2>2
  <2>4. m - 1 \in Left
    BY <2>1, <2>3
  <2> QED BY <1>4, <2>3, <2>4
<1> HIDE DEF n
<1>8. walk \in [1..n -> S] /\ Len(walk) = n
  <2>1. walk \in [1..n -> S]
    BY <1>5 DEF PartialWalk, n
  <2>2. walk \in Seq(S)
    BY <1>6, <2>1
  <2> QED BY <1>6, <2>1, <2>2
<1>9. walk \in Walks(k, S)
  BY <1>5, <1>6, <1>7, <1>8 DEF Walks, PartialWalk, n, c
<1> QED BY <1>9 DEF Plans, S

\* Where what a fragment contains includes what its parts contain, and so where
\* no dominance is chained at all, a plan does not depend on the order of the
\* map: it is what no scheduled fragment contains (fragments.go:171).
THEOREM PlanIsDetermined ==
    ASSUME NEW k \in Routes, NEW roots, NEW p \in Plans(k, roots),
           \A f, g \in Scheduled(k, roots) :
              g \in Dominates[k][f] => Dominates[k][g] \subseteq Dominates[k][f]
    PROVE  p = {f \in Scheduled(k, roots) :
                  \A g \in Scheduled(k, roots) : f \notin Dominates[k][g]}
<1> DEFINE S == Scheduled(k, roots)
<1>1. S \in SUBSET Fragments
  BY RegistryType DEF Scheduled
<1>2. PICK walk \in Walks(k, S) : p = S \ Deleted(k, walk, Len(walk))
  BY DEF Plans
<1> DEFINE n == Len(walk)
<1>3. \A f, g \in S : g \in Dominates[k][f] => Dominates[k][g] \subseteq Dominates[k][f]
  OBVIOUS
<1> HIDE DEF S
<1>4. n \in Nat /\ walk \in [1..n -> S]
  BY <1>1, <1>2, WalkType
<1>5. \A f \in S : f \notin p <=> \E i \in 1..n : f \in Dominates[k][walk[i]]
  BY <1>2 DEF Deleted
<1>6. \A f \in p : \E i \in 1..n : walk[i] = f
  BY <1>2 DEF Walks
<1>7. ASSUME NEW f \in S, NEW g \in S, f \in Dominates[k][g] PROVE f \notin p
  <2>1. CASE g \in p
    BY <1>5, <1>6, <1>7, <2>1
  <2>2. CASE g \notin p
    <3>1. PICK i \in 1..n : g \in Dominates[k][walk[i]]
      BY <1>5, <2>2
    <3>2. f \in Dominates[k][walk[i]]
      BY <1>3, <1>4, <1>7, <3>1
    <3> QED BY <1>5, <3>2
  <2> QED BY <2>1, <2>2
<1>8. \A f \in S : f \notin p => \E g \in S : f \in Dominates[k][g]
  BY <1>4, <1>5
<1> QED BY <1>2, <1>7, <1>8 DEF S

-----------------------------------------------------------------------------
(* Types *)

LEMMA PageType ==
    ASSUME NEW path, NEW page \in FragmentsForPage(path)
    PROVE  page \subseteq Fragments
BY PlannerAssumption, RegistryType DEF FragmentsForPage, MatchRoute

LEMMA InputType ==
    ASSUME TypeOK, NEW q \in Requests, stage[q] # "idle"
    PROVE  /\ input[q] \in Input
           /\ Roots(q) \subseteq Fragments
<1>1. input[q] \in Input
  BY InteractionAssumption DEF TypeOK
<1>2. Navigates(q) \/ Rerenders(q) \/ Acts(q)
  BY <1>1 DEF Input, Navigates, Rerenders, Acts
<1>3. Navigates(q) => Roots(q) = {PageContent, Navbar}
  BY DEF Roots, Navigates, Rerenders, Acts, RootsForPolicy
<1>4. Rerenders(q) => Roots(q) = {PageContent}
  BY DEF Roots, Navigates, Rerenders, Acts, RootsForPolicy
<1>5. Acts(q) => Roots(q) \subseteq {input[q].target}
  BY DEF Roots, Navigates, Rerenders, Acts, FindBySelector
<1> QED BY <1>1, <1>2, <1>3, <1>4, <1>5, PlannerAssumption DEF Input

LEMMA RouteOfThePath ==
    ASSUME NEW q \in Requests, NEW k \in RouteOf(q)
    PROVE  k \in Routes /\ k \in MatchRoute(input[q].path)
BY DEF RouteOf, MatchRoute

\* What PlanRefresh makes of the plan of a request.
LEMMA RefreshIsPlanned ==
    ASSUME TypeOK, NEW q \in Requests, PlanRefresh(q)
    PROVE  \E k \in RouteOf(q) : \E p \in PlansOf(q, k) :
              /\ p \subseteq FragmentsOf[k] /\ p \subseteq Fragments
              /\ todo' = [todo EXCEPT ![q] = p]
              /\ plan' = [plan EXCEPT ![q] =
                            [route |-> k, roots |-> Roots(q), fragments |-> p]]
              /\ [route |-> k, roots |-> Roots(q), fragments |-> p] \in Plan
<1>1. PICK k \in RouteOf(q) : \E p \in PlansOf(q, k) :
          /\ todo' = [todo EXCEPT ![q] = p]
          /\ plan' = [plan EXCEPT ![q] =
                        [route |-> k, roots |-> Roots(q), fragments |-> p]]
  BY DEF PlanRefresh
<1>2. k \in Routes
  BY RouteOfThePath
<1>3. PICK p \in PlansOf(q, k) :
          /\ todo' = [todo EXCEPT ![q] = p]
          /\ plan' = [plan EXCEPT ![q] =
                        [route |-> k, roots |-> Roots(q), fragments |-> p]]
  BY <1>1
<1>4. p \subseteq FragmentsOf[k]
  <2>1. CASE ~Plain(q)
    BY <1>2, <1>3, <2>1, EveryPlanCovers DEF PlansOf
  <2>2. CASE Plain(q)
    <3>1. p = PlainPlan(q, k)
      BY <1>3, <2>2 DEF PlansOf
    <3>2. FragmentsOf[k] = {PageContent} \cup Components[k] /\ Layout[k] \subseteq Components[k]
      BY <1>2, InteractionAssumption DEF FragmentsOf
    <3> QED BY <3>1, <3>2 DEF PlainPlan, FindBySelector
  <2> QED BY <2>1, <2>2
<1>5. p \subseteq Fragments
  BY <1>2, <1>4, RegistryType
<1>6. Roots(q) \subseteq Fragments
  BY InputType DEF PlanRefresh, Go
<1> QED BY <1>2, <1>3, <1>4, <1>5, <1>6 DEF Plan

\* What ComponentFails makes of the plan of a request.
Dropped(q, f) ==
    /\ todo' = [todo EXCEPT ![q] = todo[q] \ {f}]
    /\ plan' \in [Requests -> Plan \cup {NoPlan}]
    /\ \A r \in Requests : r # q => plan'[r] = plan[r]
    /\ plan[q] = NoPlan => plan'[q] = NoPlan
    /\ plan'[q].route = plan[q].route
    /\ plan'[q].fragments = plan[q].fragments \ {f}

LEMMA ComponentIsDropped ==
    ASSUME TypeOK, NEW q \in Requests, ComponentFails(q)
    PROVE  \E f \in todo[q] : Dropped(q, f)
<1>1. PICK f \in todo[q] :
          /\ todo' = [todo EXCEPT ![q] = @ \ {f}]
          /\ plan' = [plan EXCEPT ![q].fragments = @ \ {f}]
  BY DEF ComponentFails
<1>2. plan \in [Requests -> Plan \cup {NoPlan}]
  BY DEF TypeOK
<1>3. plan[q] = NoPlan \/ plan[q] \in Plan
  BY <1>2
<1> DEFINE p == [plan[q] EXCEPT !.fragments = @ \ {f}]
<1>4. /\ p \in Plan \cup {NoPlan}
      /\ plan[q] = NoPlan => p = NoPlan
      /\ p.route = plan[q].route /\ p.fragments = plan[q].fragments \ {f}
  <2>1. CASE plan[q] = NoPlan
    <3>1. NoPlan.fragments = {} /\ NoPlan.fragments \ {f} = NoPlan.fragments
      BY DEF NoPlan
    <3>2. p = [NoPlan EXCEPT !.fragments = NoPlan.fragments \ {f}]
      BY <2>1
    <3>3. [NoPlan EXCEPT !.fragments = NoPlan.fragments] = NoPlan
      BY DEF NoPlan
    <3> HIDE DEF p
    <3>4. p = NoPlan
      BY <3>1, <3>2, <3>3
    <3> QED BY <2>1, <3>1, <3>4
  <2>2. CASE plan[q] \in Plan /\ plan[q] # NoPlan
    BY <2>2 DEF Plan
  <2> QED BY <1>3, <2>1, <2>2
<1>5. plan' = [plan EXCEPT ![q] = p]
  BY <1>1
<1> HIDE DEF p
<1>6. plan'[q] = p /\ \A r \in Requests : r # q => plan'[r] = plan[r]
  BY <1>2, <1>5
<1>7. plan' \in [Requests -> Plan \cup {NoPlan}]
  BY <1>2, <1>4, <1>5
<1> QED BY <1>1, <1>4, <1>6, <1>7 DEF Dropped

LEMMA RenderableIsPlanned ==
    ASSUME TypeOK, NEW q \in Requests, todo[q] # {}, NEW f \in Renderable(q)
    PROVE  f \in todo[q] /\ f \in Fragments
<1>1. todo[q] \subseteq Fragments
  BY DEF TypeOK
<1> QED BY <1>1, FirstIsFirst DEF Renderable

LEMMA ServedType ==
    ASSUME TypeOK
    PROVE  Served \subseteq Roles
BY DEF Served, TypeOK

\* Every variable keeps its type, and only fragments of its route are in a plan.
THEOREM TypeCorrect == Spec => []TypeOK
<1>1. Init => TypeOK
  BY InteractionAssumption DEF Init, TypeOK, Sessions, Stages, NoPlan, Event
<1>2. TypeOK /\ [Next]_vars => TypeOK'
  <2> SUFFICES ASSUME TypeOK, [Next]_vars PROVE TypeOK'
    OBVIOUS
  <2> USE DEF TypeOK, Sessions, Stages, brokerVars, sessionVars, requestVars, historyVars
  <2>1. ASSUME (\E role \in Roles : Revoke(role)) \/ ExpireRoles PROVE TypeOK'
    BY <2>1 DEF Revoke, ExpireRoles
  <2>2. ASSUME NEW q \in Requests, NEW i \in Inputs, Send(q, i) PROVE TypeOK'
    BY <2>2, ServedType DEF Send, Go
  <2>3. ASSUME NEW q \in Requests, AskRoles(q) PROVE TypeOK'
    BY <2>3 DEF AskRoles, Go
  <2>4. ASSUME NEW q \in Requests, NEW users \in SUBSET Requests,
               Authenticate(users, q) \/ Rotate(users, q)
        PROVE  TypeOK'
    <3>1. Found(q) \in SUBSET Roles
      BY DEF Found
    <3>2. /\ stage' \in [Requests -> Stages] /\ signedIn' \subseteq Requests
          /\ held' \in [Requests -> SUBSET Roles] /\ cached' \subseteq Roles
          /\ \A r \in Requests : stage'[r] # "idle" => stage[r] # "idle" \/ r \in users
          /\ UNCHANGED <<brokerVars, jar, roles, input, todo, accepted, dropped, ran, begun, plan>>
      BY <2>4, <3>1 DEF Authenticate, Rotate, Validated
    <3>3. \A r \in users \cup {q} : stage[r] # "idle"
      BY <2>4 DEF Authenticate, Rotate, Validated
    <3>4. /\ token' \in 0..MaxSession /\ cookie' \in [Requests -> 0..MaxSession]
          /\ due' \in [Requests -> SUBSET Tabs]
      BY <2>4, InteractionAssumption DEF Authenticate, Rotate
    <3> QED BY <3>2, <3>3, <3>4
  <2>5. ASSUME NEW q \in Requests, MoveConnection(q) PROVE TypeOK'
    BY <2>5 DEF MoveConnection, Go
  <2>6. ASSUME NEW q \in Requests, Unauthenticated(q) PROVE TypeOK'
    BY <2>6 DEF Unauthenticated, Go, Return
  <2>7. ASSUME NEW q \in Requests, RefuseNavigation(q) \/ FailValidation(q) PROVE TypeOK'
    BY <2>7 DEF RefuseNavigation, FailValidation, Return
  <2>8. ASSUME NEW q \in Requests, OpenPage(q) PROVE TypeOK'
    BY <2>8, PageType DEF OpenPage, UpdateConnectionPageFromRequest, Go
  <2>9. ASSUME NEW q \in Requests, RefuseInteraction(q) PROVE TypeOK'
    BY <2>9 DEF RefuseInteraction, Return
  <2>10. ASSUME NEW q \in Requests, Rerender(q) \/ RunAction(q) PROVE TypeOK'
    BY <2>10 DEF Rerender, RunAction, Go
  <2>11. ASSUME NEW q \in Requests, PlanRefresh(q) PROVE TypeOK'
    <3>1. PICK k, p :
              /\ p \subseteq FragmentsOf[k] /\ p \subseteq Fragments
              /\ todo' = [todo EXCEPT ![q] = p]
              /\ plan' = [plan EXCEPT ![q] =
                            [route |-> k, roots |-> Roots(q), fragments |-> p]]
              /\ [route |-> k, roots |-> Roots(q), fragments |-> p] \in Plan
      <4> HIDE DEF TypeOK
      <4> QED BY <2>11, RefreshIsPlanned
    <3>2. todo' \in [Requests -> SUBSET Fragments] /\ plan' \in [Requests -> Plan \cup {NoPlan}]
      BY <3>1
    <3>3. ASSUME NEW r \in Requests, plan'[r] # NoPlan
          PROVE  /\ todo'[r] \subseteq plan'[r].fragments
                 /\ plan'[r].fragments \subseteq FragmentsOf[plan'[r].route]
      BY <3>1, <3>3
    <3> QED BY <2>11, <3>2, <3>3 DEF PlanRefresh, Go
  <2>12. ASSUME NEW q \in Requests, UnknownPath(q) \/ RenderFails(q) PROVE TypeOK'
    BY <2>12 DEF UnknownPath, RenderFails, Return
  <2>13. ASSUME NEW q \in Requests, PublishDomUpdate(q) PROVE TypeOK'
    <3>1. PICK f \in Renderable(q) :
              /\ todo' = [todo EXCEPT ![q] = @ \ {f}]
              /\ \E full \in SUBSET Audience(q, f) :
                    /\ accepted' = accepted \cup
                                     [by : {q}, tab : Audience(q, f) \ full, fragment : {f}]
                    /\ dropped' = dropped \cup [by : {q}, tab : full, fragment : {f}]
      BY <2>13 DEF PublishDomUpdate
    <3>2. f \in Fragments /\ Audience(q, f) \subseteq Tabs
      BY <2>13, <3>1, RenderableIsPlanned DEF PublishDomUpdate, Audience
    <3>3. accepted' \subseteq Event /\ dropped' \subseteq Event
      BY <3>1, <3>2 DEF Event
    <3>4. todo' \in [Requests -> SUBSET Fragments]
            /\ \A r \in Requests : todo'[r] \subseteq todo[r]
      BY <3>1
    <3> QED BY <2>13, <3>3, <3>4 DEF PublishDomUpdate
  <2>14. ASSUME NEW q \in Requests, ComponentFails(q) PROVE TypeOK'
    <3>1. PICK f \in todo[q] : Dropped(q, f)
      <4> HIDE DEF TypeOK
      <4> QED BY <2>14, ComponentIsDropped
    <3>2. todo' \in [Requests -> SUBSET Fragments]
      BY <3>1 DEF Dropped
    <3>3. ASSUME NEW r \in Requests, plan'[r] # NoPlan
          PROVE  /\ todo'[r] \subseteq plan'[r].fragments
                 /\ plan'[r].fragments \subseteq FragmentsOf[plan'[r].route]
      <4>1. CASE r # q
        BY <3>1, <3>3, <4>1 DEF Dropped
      <4>2. CASE r = q
        BY <3>1, <3>3, <4>2 DEF Dropped
      <4> QED BY <4>1, <4>2
    <3> QED BY <2>14, <3>1, <3>2, <3>3 DEF ComponentFails, Dropped
  <2>15. ASSUME NEW q \in Requests, Reply(q) PROVE TypeOK'
    BY <2>15 DEF Reply, Go
  <2>16. CASE UNCHANGED vars
    BY <2>16 DEF vars
  <2> QED BY <2>1, <2>2, <2>3, <2>4, <2>5, <2>6, <2>7, <2>8, <2>9, <2>10, <2>11,
             <2>12, <2>13, <2>14, <2>15, <2>16 DEF Next
<1> QED BY <1>1, <1>2, PTL DEF Spec

-----------------------------------------------------------------------------
(* Access *)

\* The roles a request has, and those it may still be served with, could be found
\* when it was sent, and its refresh is of a path it may see.
AccessInvariant ==
    \A q \in Requests :
        /\ stage[q] = "idle" => q \notin ran /\ plan[q] = NoPlan /\ held[q] = {}
        /\ stage[q] # "idle" => Served \subseteq begun[q]
        /\ held[q] \subseteq begun[q]
        /\ stage[q] = "plan" => (Plain(q) /\ Acts(q)) \/ Allowed(held[q], input[q].path)

\* Nothing is served that was not served before.
LEMMA ServedShrinks ==
    ASSUME roles' \subseteq roles, cached' \subseteq Served,
           \A r \in Requests : stage'[r] = "roles" => held'[r] \subseteq Served
    PROVE  Served' \subseteq Served
BY DEF Served

LEMMA ServedHas ==
    /\ roles \subseteq Served /\ cached \subseteq Served
    /\ \A r \in Requests : stage[r] = "roles" => held[r] \subseteq Served
BY DEF Served

\* A step that changes no role, plan or input, and starts no request, lookup or
\* plan.
LEMMA AccessUntouched ==
    ASSUME TypeOK, AccessInvariant, OnlyAllowed,
           UNCHANGED <<roles, cached, input, held, ran, begun>>,
           \A q \in Requests : /\ stage'[q] = "idle" <=> stage[q] = "idle"
                               /\ stage'[q] \in {"roles", "plan"} => stage[q] = stage'[q]
                               /\ plan'[q] = plan[q] \/ (stage[q] # "idle" /\ plan[q] # NoPlan)
    PROVE  (AccessInvariant /\ OnlyAllowed)'
<1>1. Served' \subseteq Served
  BY ServedShrinks, ServedHas
<1> QED BY <1>1 DEF AccessInvariant, OnlyAllowed, Allowed, ActionForRole, Plain, Acts

\* No action runs and nothing is rendered for want of a role that neither the
\* user nor the role cache had when the request was sent (interaction.go:302-351,
\* manager.go:313-337).
THEOREM OnlyWhatIsAllowed == Spec => []OnlyAllowed
<1> DEFINE Inv == AccessInvariant /\ OnlyAllowed
<1>1. Init => Inv
  BY DEF Init, AccessInvariant, OnlyAllowed
<1>2. TypeOK /\ Inv /\ [Next]_vars => Inv'
  <2> SUFFICES ASSUME TypeOK, Inv, [Next]_vars PROVE Inv'
    OBVIOUS
  <2> USE DEF TypeOK, brokerVars, sessionVars, requestVars, historyVars
  <2>1. ASSUME Served' \subseteq Served, UNCHANGED <<requestVars, historyVars>> PROVE Inv'
    BY <2>1 DEF AccessInvariant, OnlyAllowed, Allowed, ActionForRole, Plain, Acts
  <2>2. ASSUME (\E role \in Roles : Revoke(role)) \/ ExpireRoles PROVE Inv'
    <3>1. Served' \subseteq Served
      BY <2>2, ServedShrinks, ServedHas DEF Revoke, ExpireRoles
    <3> QED BY <2>1, <2>2, <3>1 DEF Revoke, ExpireRoles
  <2>3. ASSUME NEW q \in Requests, NEW i \in Inputs, Send(q, i) PROVE Inv'
    <3>1. Served' \subseteq Served
      BY <2>3, ServedShrinks, ServedHas DEF Send, Go
    <3> QED BY <2>3, <3>1
            DEF Send, Go, AccessInvariant, OnlyAllowed, Allowed, ActionForRole, Plain, Acts
  <2>17. ASSUME NEW q \in Requests, AskRoles(q) PROVE Inv'
    <3>1. held'[q] \subseteq Served
      BY <2>17, ServedHas DEF AskRoles
    <3>2. Served' \subseteq Served
      BY <2>17, <3>1, ServedShrinks, ServedHas DEF AskRoles, Go
    <3>3. stage[q] = "sent" /\ stage' = [stage EXCEPT ![q] = "roles"]
      BY <2>17 DEF AskRoles, Go
    <3>4. UNCHANGED <<input, ran, begun, plan>> /\ \A r \in Requests : r # q => held'[r] = held[r]
      BY <2>17 DEF AskRoles
    <3> QED BY <3>1, <3>2, <3>3, <3>4
            DEF AccessInvariant, OnlyAllowed, Allowed, ActionForRole, Plain, Acts
  <2>18. ASSUME NEW q \in Requests, NEW users \in SUBSET Requests,
                Authenticate(users, q) \/ Rotate(users, q)
         PROVE  Inv'
    <3>1. Found(q) \subseteq Served
      BY <2>18, ServedHas DEF Found
    <3>2. PICK there \in {"known", "rotated"} : Validated(users, q, there)
      BY <2>18 DEF Authenticate, Rotate
    <3>3. /\ \A r \in Requests : /\ stage'[r] = IF r \in users THEN there ELSE stage[r]
                                /\ held'[r] = IF r \in users THEN Found(q) ELSE held[r]
          /\ cached' = Found(q)
          /\ UNCHANGED <<roles, input, ran, begun, plan>>
      BY <3>2 DEF Validated
    <3>4. \A r \in users : stage[r] # "idle"
      BY <3>2 DEF Validated
    <3>5. Served' \subseteq Served
      BY <3>1, <3>3, ServedShrinks, ServedHas
    <3> HIDE DEF TypeOK
    <3> QED BY <3>1, <3>3, <3>4, <3>5
            DEF AccessInvariant, OnlyAllowed, Allowed, ActionForRole, Plain, Acts
  <2>4. ASSUME NEW q \in Requests, MoveConnection(q) PROVE Inv'
    BY <2>4, AccessUntouched DEF MoveConnection, Go
  <2>5. ASSUME NEW q \in Requests, Unauthenticated(q) PROVE Inv'
    BY <2>5, AccessUntouched DEF Unauthenticated, Return, Go
  <2>6. ASSUME NEW q \in Requests, RefuseNavigation(q) \/ FailValidation(q) PROVE Inv'
    BY <2>6, AccessUntouched DEF RefuseNavigation, FailValidation, Return
  <2>7. ASSUME NEW q \in Requests, OpenPage(q) PROVE Inv'
    <3>1. Served' \subseteq Served
      BY <2>7, ServedShrinks, ServedHas DEF OpenPage, Go
    <3> QED BY <2>7, <3>1
            DEF OpenPage, MayNavigate, Navigates, Go, AccessInvariant, OnlyAllowed, Allowed,
                ActionForRole, Plain, Acts
  <2>8. ASSUME NEW q \in Requests, RefuseInteraction(q) PROVE Inv'
    BY <2>8, AccessUntouched DEF RefuseInteraction, Return
  <2>9. ASSUME NEW q \in Requests, Rerender(q) PROVE Inv'
    <3>1. Served' \subseteq Served
      BY <2>9, ServedShrinks, ServedHas DEF Rerender, Go
    <3> QED BY <2>9, <3>1
            DEF Rerender, MayRerender, Go, AccessInvariant, OnlyAllowed, Allowed,
                ActionForRole, Plain, Acts
  <2>10. ASSUME NEW q \in Requests, RunAction(q) PROVE Inv'
    <3>1. Served' \subseteq Served
      BY <2>10, ServedShrinks, ServedHas DEF RunAction, Go
    <3> QED BY <2>10, <3>1
            DEF RunAction, MayAct, Go, AccessInvariant, OnlyAllowed, Allowed,
                ActionForRole, Plain, Acts
  <2>11. ASSUME NEW q \in Requests, PlanRefresh(q) PROVE Inv'
    <3>1. \A r \in Requests : r # q => plan'[r] = plan[r]
      BY <2>11 DEF PlanRefresh
    <3>2. (Plain(q) /\ Acts(q)) \/ Allowed(begun[q], input[q].path)
      BY <2>11 DEF PlanRefresh, Go, AccessInvariant, Allowed
    <3>3. Served' \subseteq Served
      BY <2>11, ServedShrinks, ServedHas DEF PlanRefresh, Go
    <3> QED BY <2>11, <3>1, <3>2, <3>3
            DEF PlanRefresh, Go, AccessInvariant, OnlyAllowed, ActionForRole, Plain, Acts
  <2>12. ASSUME NEW q \in Requests, UnknownPath(q) \/ RenderFails(q) PROVE Inv'
    BY <2>12, AccessUntouched DEF UnknownPath, RenderFails, Return
  <2>13. ASSUME NEW q \in Requests, PublishDomUpdate(q) PROVE Inv'
    BY <2>13, AccessUntouched DEF PublishDomUpdate
  <2>14. ASSUME NEW q \in Requests, ComponentFails(q) PROVE Inv'
    <3>1. PICK f \in todo[q] : Dropped(q, f)
      <4> HIDE DEF TypeOK
      <4> QED BY <2>14, ComponentIsDropped
    <3> HIDE DEF TypeOK
    <3> QED BY <2>14, <3>1, AccessUntouched DEF ComponentFails, Dropped
  <2>15. ASSUME NEW q \in Requests, Reply(q) PROVE Inv'
    BY <2>15, AccessUntouched DEF Reply, Go
  <2>16. CASE UNCHANGED vars
    BY <2>16, AccessUntouched DEF vars
  <2> QED BY <2>1, <2>2, <2>3, <2>4, <2>5, <2>6, <2>7, <2>8, <2>9, <2>10, <2>11,
             <2>12, <2>13, <2>14, <2>15, <2>16, <2>17, <2>18 DEF Next
<1> QED BY <1>1, <1>2, TypeCorrect, PTL DEF Spec

-----------------------------------------------------------------------------
(* Refreshes *)

\* What a request refreshes covers all that its roots invalidate, and no part of
\* it lies directly inside another, in whatever order Plan walks its maps
\* (fragments.go:171).
THEOREM RefreshesCover == Spec => []PlanCovers
<1>1. Init => PlanCovers
  BY DEF Init, PlanCovers
<1>2. TypeOK /\ PlanCovers /\ [Next]_vars => PlanCovers'
  <2> SUFFICES ASSUME TypeOK, PlanCovers, [Next]_vars PROVE PlanCovers'
    OBVIOUS
  <2>1. ASSUME NEW q \in Requests, PlanRefresh(q) PROVE PlanCovers'
    <3>1. PICK k \in RouteOf(q) : \E p \in PlansOf(q, k) :
              plan' = [plan EXCEPT ![q] =
                         [route |-> k, roots |-> Roots(q), fragments |-> p]]
      BY <2>1, RefreshIsPlanned
    <3>2. PICK p \in PlansOf(q, k) :
              plan' = [plan EXCEPT ![q] =
                         [route |-> k, roots |-> Roots(q), fragments |-> p]]
      BY <3>1
    <3>3. ~Plain(q) => Covers(k, p, Scheduled(k, Roots(q))) /\ Irredundant(k, p)
      BY RouteOfThePath, EveryPlanCovers DEF PlansOf
    <3>4. /\ plan'[q].route = k
          /\ plan'[q].roots = Roots(q)
          /\ plan'[q].fragments = p
      BY <3>2 DEF TypeOK
    <3>5. \A r \in Requests : r # q => stage'[r] = stage[r] /\ plan'[r] = plan[r]
      BY <2>1, <3>2 DEF PlanRefresh, Go, TypeOK
    <3>6. input' = input
      BY <2>1 DEF PlanRefresh
    <3> QED BY <3>3, <3>4, <3>5, <3>6 DEF PlanCovers, Plain
  <2>2. ASSUME \A r \in Requests : stage'[r] = "publish" =>
                  /\ stage[r] = "publish" /\ input'[r] = input[r]
                  /\ plan'[r] = plan[r] \/ Plain(r)
        PROVE  PlanCovers'
    BY <2>2 DEF PlanCovers, Plain
  <2>3. (\E role \in Roles : Revoke(role)) \/ ExpireRoles \/ UNCHANGED vars => PlanCovers'
    BY <2>2 DEF Revoke, ExpireRoles, vars, requestVars, historyVars
  <2>4. ASSUME NEW q \in Requests,
               \/ \E i \in Inputs : Send(q, i)
               \/ AskRoles(q) \/ MoveConnection(q) \/ Unauthenticated(q)
               \/ \E users \in SUBSET Requests : Authenticate(users, q) \/ Rotate(users, q)
        PROVE  PlanCovers'
    BY <2>2, <2>4 DEF Send, AskRoles, Authenticate, Rotate, Validated, MoveConnection,
                      Unauthenticated, Go, Return, requestVars, historyVars, TypeOK
  <2>5. ASSUME NEW q \in Requests,
               \/ RefuseNavigation(q) \/ FailValidation(q) \/ OpenPage(q)
               \/ RefuseInteraction(q) \/ Rerender(q) \/ RunAction(q) \/ UnknownPath(q)
        PROVE  PlanCovers'
    BY <2>2, <2>5 DEF RefuseNavigation, FailValidation, OpenPage, RefuseInteraction, Rerender,
                      RunAction, UnknownPath, Go, Return, requestVars, historyVars, TypeOK
  <2>6. ASSUME NEW q \in Requests, PublishDomUpdate(q) \/ RenderFails(q) \/ Reply(q)
        PROVE  PlanCovers'
    BY <2>2, <2>6 DEF PublishDomUpdate, RenderFails, Reply, Go, Return, requestVars,
       historyVars, TypeOK
  <2>7. ASSUME NEW q \in Requests, ComponentFails(q) PROVE PlanCovers'
    <3>1. PICK f \in todo[q] : Dropped(q, f)
      BY <2>7, ComponentIsDropped
    <3> QED BY <2>2, <2>7, <3>1 DEF ComponentFails, Dropped
  <2> QED BY <2>1, <2>3, <2>4, <2>5, <2>6, <2>7 DEF Next
<1> QED BY <1>1, <1>2, TypeCorrect, PTL DEF Spec

-----------------------------------------------------------------------------
(* Events *)

\* A tab a request must refresh is of its session, and shows what it refreshes.
DueInvariant ==
    \A q \in Requests :
        /\ stage[q] = "idle" => due[q] = {}
        /\ due[q] # {} => q \in signedIn
        /\ \A t \in due[q] : session[t] = token \/ (stage[q] = "rotated" /\ t = input[q].tab)
        /\ stage[q] \in {"gate", "plan", "publish"} /\ input[q].tab \in due[q]
           => \A k \in MatchRoute(input[q].path) : FragmentsOf[k] \subseteq shows[input[q].tab]

PlanInvariant ==
    \A q \in Requests :
        /\ stage[q] \in {"idle", "sent", "roles", "rotated", "known", "gate", "plan"}
           => plan[q] = NoPlan
        /\ plan[q] # NoPlan => plan[q].route \in MatchRoute(input[q].path)

OfferInvariant ==
    \A q \in Requests : \A t \in due[q], f \in plan[q].fragments \ todo[q] :
        t = input[q].tab \/ f \in shows[t]
        => [by |-> q, tab |-> t, fragment |-> f] \in accepted \cup dropped

LEMMA PlansAreOfThePath == Spec => []PlanInvariant
<1>1. Init => PlanInvariant
  BY DEF Init, PlanInvariant
<1>2. TypeOK /\ PlanInvariant /\ [Next]_vars => PlanInvariant'
  <2> SUFFICES ASSUME TypeOK, PlanInvariant, [Next]_vars PROVE PlanInvariant'
    OBVIOUS
  <2> USE DEF PlanInvariant, TypeOK, requestVars, historyVars
  <2>1. ASSUME UNCHANGED <<input, plan>>,
               \A q \in Requests :
                  \/ stage'[q] = stage[q]
                  \/ stage'[q] \in {"publish", "reply", "done"}
                  \/ stage[q] \in {"sent", "roles", "rotated", "known", "gate"}
        PROVE  PlanInvariant'
    BY <2>1
  <2>2. (\E role \in Roles : Revoke(role)) \/ ExpireRoles \/ UNCHANGED vars => PlanInvariant'
    BY DEF Revoke, ExpireRoles, vars
  <2>3. ASSUME NEW q \in Requests, NEW i \in Inputs, Send(q, i) PROVE PlanInvariant'
    BY <2>3 DEF Send, Go
  <2>4. ASSUME NEW q \in Requests,
               \/ AskRoles(q) \/ MoveConnection(q) \/ Unauthenticated(q)
               \/ \E users \in SUBSET Requests : Authenticate(users, q) \/ Rotate(users, q)
        PROVE  PlanInvariant'
    BY <2>1, <2>4 DEF AskRoles, Authenticate, Rotate, Validated, MoveConnection,
                      Unauthenticated, Go, Return
  <2>5. ASSUME NEW q \in Requests,
               \/ RefuseNavigation(q) \/ FailValidation(q) \/ OpenPage(q)
               \/ RefuseInteraction(q) \/ Rerender(q) \/ RunAction(q)
        PROVE  PlanInvariant'
    BY <2>1, <2>5 DEF RefuseNavigation, FailValidation, OpenPage, RefuseInteraction, Rerender,
                      RunAction, Go, Return
  <2>6. ASSUME NEW q \in Requests, PlanRefresh(q) PROVE PlanInvariant'
    <3>1. PICK k \in RouteOf(q) :
              \E p : plan' = [plan EXCEPT ![q] =
                                [route |-> k, roots |-> Roots(q), fragments |-> p]]
      BY <2>6 DEF PlanRefresh
    <3>2. k \in MatchRoute(input[q].path)
      BY RouteOfThePath
    <3>3. plan'[q].route = k /\ \A r \in Requests : r # q => plan'[r] = plan[r]
      BY <3>1
    <3> QED BY <2>6, <3>2, <3>3 DEF PlanRefresh, Go
  <2>7. ASSUME NEW q \in Requests,
               UnknownPath(q) \/ PublishDomUpdate(q) \/ RenderFails(q) \/ Reply(q)
        PROVE  PlanInvariant'
    BY <2>1, <2>7 DEF UnknownPath, PublishDomUpdate, RenderFails, Reply, Go, Return
  <2>8. ASSUME NEW q \in Requests, ComponentFails(q) PROVE PlanInvariant'
    <3>1. PICK f \in todo[q] : Dropped(q, f)
      <4> HIDE DEF TypeOK
      <4> QED BY <2>8, ComponentIsDropped
    <3> QED BY <2>8, <3>1 DEF ComponentFails, Dropped
  <2> QED BY <2>2, <2>3, <2>4, <2>5, <2>6, <2>7, <2>8 DEF Next
<1> QED BY <1>1, <1>2, TypeCorrect, PTL DEF Spec

\* The page a connection gets has every fragment of the route of its path:
\* the patterns of the routes do not overlap.
LEMMA PageHasRoute ==
    ASSUME TypeOK, NEW q \in Requests, stage[q] # "idle",
           NEW page \in FragmentsForPage(input[q].path),
           NEW k \in MatchRoute(input[q].path)
    PROVE  FragmentsOf[k] \subseteq page
<1>1. input[q].path \in Paths
  BY InputType DEF Input
<1> QED BY <1>1, InteractionAssumption DEF FragmentsForPage

LEMMA DueTabsShowTheRoute == Spec => []DueInvariant
<1>1. Init => DueInvariant
  BY DEF Init, DueInvariant
<1>2. TypeOK /\ DueInvariant /\ [Next]_vars => DueInvariant'
  <2> SUFFICES ASSUME TypeOK, DueInvariant, [Next]_vars PROVE DueInvariant'
    OBVIOUS
  <2> USE DEF DueInvariant, TypeOK, brokerVars, sessionVars, requestVars, historyVars
  <2>1. ASSUME UNCHANGED <<token, session, shows, input, signedIn, due>>,
               \A q \in Requests :
                  \/ stage'[q] = stage[q]
                  \/ stage[q] = "gate" /\ stage'[q] = "plan"
                  \/ stage[q] = "plan" /\ stage'[q] = "publish"
                  \/ stage[q] # "rotated" /\ stage'[q] \in {"roles", "known", "reply", "done"}
        PROVE  DueInvariant'
    BY <2>1
  <2>2. (\E role \in Roles : Revoke(role)) \/ ExpireRoles \/ UNCHANGED vars => DueInvariant'
    BY DEF Revoke, ExpireRoles, vars
  <2>3. ASSUME NEW q \in Requests, NEW i \in Inputs, Send(q, i) PROVE DueInvariant'
    BY <2>3 DEF Send, Go
  <2>4. ASSUME NEW q \in Requests, NEW users \in SUBSET Requests, Authenticate(users, q)
        PROVE  DueInvariant'
    BY <2>4 DEF Authenticate, Validated
  <2>5. ASSUME NEW q \in Requests, NEW users \in SUBSET Requests, Rotate(users, q)
        PROVE  DueInvariant'
    BY <2>5 DEF Rotate, Validated
  <2>6. ASSUME NEW q \in Requests, MoveConnection(q) PROVE DueInvariant'
    <3>1. CASE cookie[q] = token
      BY <2>6, <3>1 DEF MoveConnection, Go
    <3>2. CASE cookie[q] # token
      BY <2>6, <3>2 DEF MoveConnection, Go
    <3> QED BY <3>1, <3>2
  <2>13. ASSUME NEW q \in Requests, AskRoles(q) PROVE DueInvariant'
    BY <2>1, <2>13 DEF AskRoles, Go
  <2>7. ASSUME NEW q \in Requests, Unauthenticated(q) PROVE DueInvariant'
    BY <2>1, <2>7 DEF Unauthenticated, Go, Return
  <2>8. ASSUME NEW q \in Requests,
               RefuseNavigation(q) \/ FailValidation(q) \/ RefuseInteraction(q)
        PROVE  DueInvariant'
    BY <2>1, <2>8 DEF RefuseNavigation, FailValidation, RefuseInteraction, Return
  <2>9. ASSUME NEW q \in Requests, OpenPage(q) PROVE DueInvariant'
    <3>1. PICK page \in FragmentsForPage(input[q].path) :
              shows' = [t \in Tabs |-> IF t = input[q].tab THEN page ELSE shows[t]]
      BY <2>9 DEF OpenPage, UpdateConnectionPageFromRequest
    <3>2. \A k \in MatchRoute(input[q].path) : FragmentsOf[k] \subseteq page
      BY <2>9, PageHasRoute DEF OpenPage, Go
    <3>3. due' = [r \in Requests |-> IF r = q THEN due[r] ELSE due[r] \ {input[q].tab}]
      BY <2>9 DEF OpenPage
    <3>4. \A r \in Requests : r # q =>
              /\ stage'[r] = stage[r]
              /\ \A t \in due'[r] : t \in due[r] /\ shows'[t] = shows[t]
      BY <2>9, <3>1, <3>3 DEF OpenPage, Go
    <3>5. stage[q] = "known" /\ stage'[q] # "idle" /\ due'[q] = due[q]
      BY <2>9, <3>3 DEF OpenPage, Go
    <3>6. input[q].tab \in Tabs => shows'[input[q].tab] = page
      BY <3>1
    <3> QED BY <2>9, <3>2, <3>4, <3>5, <3>6 DEF OpenPage
  <2>10. ASSUME NEW q \in Requests, Rerender(q) \/ RunAction(q) PROVE DueInvariant'
    BY <2>1, <2>10 DEF Rerender, RunAction, Go
  <2>11. ASSUME NEW q \in Requests, PlanRefresh(q) \/ UnknownPath(q) PROVE DueInvariant'
    BY <2>1, <2>11 DEF PlanRefresh, UnknownPath, Go, Return
  <2>12. ASSUME NEW q \in Requests,
                PublishDomUpdate(q) \/ RenderFails(q) \/ ComponentFails(q) \/ Reply(q)
         PROVE  DueInvariant'
    BY <2>1, <2>12 DEF PublishDomUpdate, RenderFails, ComponentFails, Reply, Go, Return
  <2> QED BY <2>2, <2>3, <2>4, <2>5, <2>6, <2>7, <2>8, <2>9, <2>10, <2>11, <2>12, <2>13 DEF Next
<1> QED BY <1>1, <1>2, TypeCorrect, PTL DEF Spec

\* A request whose refresh was published to the end has offered it to the tab
\* that sent it and to each other tab that shows a fragment of its plan, unless
\* another request disturbed that tab (publish.go:323, http.go:148).
THEOREM RefreshesReachTheTabs == Spec => []EveryTabRefreshed
<1>1. Init => OfferInvariant
  BY DEF Init, OfferInvariant, NoPlan
<1>2. TypeOK /\ PlanInvariant /\ DueInvariant /\ OfferInvariant /\ [Next]_vars => OfferInvariant'
  <2> SUFFICES ASSUME TypeOK, PlanInvariant, DueInvariant, OfferInvariant, [Next]_vars
               PROVE  OfferInvariant'
    OBVIOUS
  <2> USE DEF OfferInvariant, TypeOK, brokerVars, sessionVars, requestVars, historyVars
  <2>1. ASSUME UNCHANGED <<shows, input, todo, accepted, dropped, plan>>,
               \A r \in Requests : due'[r] \subseteq due[r]
        PROVE  OfferInvariant'
    BY <2>1
  <2>2. (\E role \in Roles : Revoke(role)) \/ ExpireRoles \/ UNCHANGED vars => OfferInvariant'
    BY <2>1 DEF Revoke, ExpireRoles, vars
  <2>3. ASSUME NEW q \in Requests, NEW i \in Inputs, Send(q, i) PROVE OfferInvariant'
    <3>1. due[q] = {}
      BY <2>3 DEF Send, Go, DueInvariant
    <3> QED BY <2>3, <3>1 DEF Send
  <2>4. ASSUME NEW q \in Requests, NEW users \in SUBSET Requests,
               Authenticate(users, q) \/ Rotate(users, q)
        PROVE  OfferInvariant'
    <3>1. \A r \in users : r = q \/ stage[r] = "sent"
      BY <2>4 DEF Authenticate, Rotate, Validated
    <3>2. stage[q] \in {"sent", "roles"}
      BY <2>4 DEF Authenticate, Rotate, Validated
    <3>3. \A r \in users : plan[r].fragments = {}
      BY <3>1, <3>2 DEF PlanInvariant, NoPlan
    <3>4. \A r \in Requests : r \notin users => due'[r] \subseteq due[r]
      BY <2>4 DEF Authenticate, Rotate
    <3>5. UNCHANGED <<shows, input, todo, accepted, dropped, plan>>
      BY <2>4 DEF Authenticate, Rotate, Validated
    <3> QED BY <3>3, <3>4, <3>5
  <2>5. ASSUME NEW q \in Requests, AskRoles(q) \/ MoveConnection(q) \/ Unauthenticated(q)
        PROVE  OfferInvariant'
    BY <2>1, <2>5 DEF AskRoles, MoveConnection, Unauthenticated, Return
  <2>6. ASSUME NEW q \in Requests,
               RefuseNavigation(q) \/ FailValidation(q) \/ RefuseInteraction(q)
        PROVE  OfferInvariant'
    BY <2>1, <2>6 DEF RefuseNavigation, FailValidation, RefuseInteraction, Return
  <2>7. ASSUME NEW q \in Requests, OpenPage(q) PROVE OfferInvariant'
    <3>1. plan[q].fragments = {}
      BY <2>7 DEF OpenPage, Go, PlanInvariant, NoPlan
    <3>2. \A r \in Requests : r # q =>
              \A t \in due'[r] : t \in due[r] /\ shows'[t] = shows[t]
      BY <2>7 DEF OpenPage, UpdateConnectionPageFromRequest
    <3> QED BY <2>7, <3>1, <3>2 DEF OpenPage
  <2>8. ASSUME NEW q \in Requests, Rerender(q) \/ RunAction(q) \/ UnknownPath(q)
        PROVE  OfferInvariant'
    BY <2>1, <2>8 DEF Rerender, RunAction, UnknownPath, Return
  <2>9. ASSUME NEW q \in Requests, PlanRefresh(q) PROVE OfferInvariant'
    <3>1. PICK k, p :
              /\ todo' = [todo EXCEPT ![q] = p]
              /\ plan' = [plan EXCEPT ![q] =
                            [route |-> k, roots |-> Roots(q), fragments |-> p]]
      BY <2>9 DEF PlanRefresh
    <3>2. plan'[q].fragments \ todo'[q] = {}
      BY <3>1
    <3>3. \A r \in Requests : r # q => plan'[r] = plan[r] /\ todo'[r] = todo[r]
      BY <3>1
    <3> QED BY <2>9, <3>2, <3>3 DEF PlanRefresh
  <2>10. ASSUME NEW q \in Requests, PublishDomUpdate(q) PROVE OfferInvariant'
    <3>1. PICK f \in Renderable(q) :
             /\ stage[q] = "publish"
             /\ todo' = [todo EXCEPT ![q] = todo[q] \ {f}]
             /\ \E full \in SUBSET Audience(q, f) :
                   /\ accepted' = accepted \cup
                                    [by : {q}, tab : Audience(q, f) \ full, fragment : {f}]
                   /\ dropped' = dropped \cup [by : {q}, tab : full, fragment : {f}]
             /\ UNCHANGED <<shows, input, plan, due>>
      BY <2>10 DEF PublishDomUpdate
    <3>2. ASSUME NEW t \in due[q], f \in plan[q].fragments, t = input[q].tab \/ f \in shows[t]
          PROVE  t \in Audience(q, f)
      <4>1. t \in Tabs /\ q \in signedIn /\ session[t] = token
        BY <3>1 DEF DueInvariant
      <4>2. plan[q].fragments \subseteq FragmentsOf[plan[q].route]
              /\ plan[q].route \in MatchRoute(input[q].path)
        BY <3>2 DEF PlanInvariant, NoPlan
      <4>3. f \in shows[t]
        BY <3>1, <3>2, <4>2 DEF DueInvariant
      <4> QED BY <4>1, <4>3 DEF Audience
    <3>3. ASSUME NEW t \in due[q], f \in plan[q].fragments, t = input[q].tab \/ f \in shows[t]
          PROVE  [by |-> q, tab |-> t, fragment |-> f] \in (accepted \cup dropped)'
      BY <3>1, <3>2, <3>3
    <3>4. accepted \cup dropped \subseteq (accepted \cup dropped)' /\ UNCHANGED <<plan, due, shows, input>>
      BY <3>1
    <3>5. \A r \in Requests : todo'[r] = IF r = q THEN todo[q] \ {f} ELSE todo[r]
      BY <3>1
    <3> QED BY <3>3, <3>4, <3>5
  <2>11. ASSUME NEW q \in Requests, RenderFails(q) \/ Reply(q) PROVE OfferInvariant'
    BY <2>1, <2>11 DEF RenderFails, Reply, Return
  <2>12. ASSUME NEW q \in Requests, ComponentFails(q) PROVE OfferInvariant'
    <3>1. PICK f \in todo[q] : Dropped(q, f)
      <4> HIDE DEF TypeOK
      <4> QED BY <2>12, ComponentIsDropped
    <3>2. /\ \A r \in Requests : r # q => plan'[r] = plan[r] /\ todo'[r] = todo[r]
          /\ plan'[q].fragments \ todo'[q] \subseteq plan[q].fragments \ todo[q]
      BY <3>1 DEF Dropped
    <3> QED BY <2>12, <3>2 DEF ComponentFails
  <2> QED BY <2>2, <2>3, <2>4, <2>5, <2>6, <2>7, <2>8, <2>9, <2>10, <2>11, <2>12 DEF Next
<1>3. OfferInvariant => EveryTabRefreshed
  BY DEF OfferInvariant, EveryTabRefreshed
<1> QED BY <1>1, <1>2, <1>3, TypeCorrect, PlansAreOfThePath, DueTabsShowTheRoute, PTL DEF Spec

=============================================================================
