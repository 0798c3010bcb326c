-------------------------- MODULE FragmentPlanner --------------------------
(***************************************************************************)
(* What a refresh of a page consists of: app.MatchRoute and                *)
(* app.FragmentPlanner.  Both walk Go maps, whose order is arbitrary, so   *)
(* an operator gives the set of the results a call may have.               *)
(***************************************************************************)
EXTENDS Naturals, Sequences, FiniteSets

CONSTANTS
    Routes,          \* route keys, each a sequence of segments
    Param,           \* the {param} segment of a route key
    Numbers,         \* the segments ParseInt accepts
    Fragments,       \* fragment ids; an id stands for its selector too
    PageContent, Navbar,
    Rank,            \* the order of a fragment, ties broken by selector
    Components,      \* the page components of each route, and the custom fragments
                     \* the application configures
    Invalidates,     \* for each fragment of a route those it invalidates
    Dominates,       \* and those it contains
    GlobalFragments  \* the fragments that are on every page

ASSUME PlannerAssumption ==
    /\ IsFiniteSet(Fragments)
    /\ {PageContent, Navbar} \subseteq Fragments
    /\ Rank \in [Fragments -> Nat]
    /\ \A f, g \in Fragments : Rank[f] = Rank[g] => f = g
    /\ Components \in [Routes -> SUBSET Fragments]
    /\ Invalidates \in [Routes -> [Fragments -> SUBSET Fragments]]
    /\ Dominates \in [Routes -> [Fragments -> SUBSET Fragments]]
    /\ GlobalFragments \subseteq Fragments

\* The registry: the content of the route and its components.
FragmentsOf == [k \in Routes |-> {PageContent} \cup Components[k]]

\* A fragment that dominated itself would never be refreshed.
ASSUME DominanceAssumption ==
    \A k \in Routes : \A f \in Fragments : f \notin Dominates[k][f]

Fits(key, path) ==
    /\ Len(key) = Len(path)
    /\ \A i \in 1..Len(path) :
          key[i] = path[i] \/ (key[i] = Param /\ path[i] \in Numbers)

\* The keys MatchRoute may return; none when it reports no match.
MatchRoute(path) ==
    IF path \in Routes THEN {path} ELSE {k \in Routes : Fits(k, path)}

\* The sets FragmentsForPage may put on the page of a connection.
FragmentsForPage(path) ==
    IF MatchRoute(path) = {}
    THEN {{PageContent} \cup GlobalFragments}
    ELSE {FragmentsOf[k] \cup GlobalFragments : k \in MatchRoute(path)}

\* What a refresh starts from: the content of the page, and on navigation the
\* navbar with it; or the fragment that has the selector, if the route has one.
RootsForPolicy(policy) ==
    IF policy = "page and navbar" THEN {PageContent, Navbar} ELSE {PageContent}

FindBySelector(k, selector) == {f \in FragmentsOf[k] : f = selector}

\* visit: what the roots reach over Invalidates inside the route.
Reaches(k, roots, S) ==
    /\ roots \cap FragmentsOf[k] \subseteq S
    /\ \A f \in S : Invalidates[k][f] \cap FragmentsOf[k] \subseteq S

\* Mutant: ids that the route has not registered are scheduled too.
ScheduledUnregistered(k, roots) ==
    {f \in Fragments :
        \A S \in SUBSET Fragments :
            roots \subseteq S /\ (\A g \in S : Invalidates[k][g] \subseteq S) => f \in S}

Scheduled(k, roots) ==
    {f \in FragmentsOf[k] :
        \A S \in SUBSET FragmentsOf[k] : Reaches(k, roots, S) => f \in S}

(***************************************************************************)
(* The loop that prunes ranges over the map it deletes from.  A walk is    *)
(* the sequence of ids it comes to: an id that one before it has deleted   *)
(* is not come to, and every other one is.                                 *)
(***************************************************************************)
Deleted(k, walk, n) == UNION {Dominates[k][walk[i]] : i \in 1..n}

Walks(k, S) ==
    {walk \in UNION {[1..n -> S] : n \in 0..Cardinality(S)} :
        /\ \A i, j \in 1..Len(walk) : walk[i] = walk[j] => i = j
        /\ \A i \in 1..Len(walk) : walk[i] \notin Deleted(k, walk, i - 1)
        /\ \A f \in S \ Deleted(k, walk, Len(walk)) :
              \E i \in 1..Len(walk) : walk[i] = f}

\* Mutant: visit does not go on to what the visited fragments invalidate.
PlansOneDeep(k, roots) ==
    LET S == (roots \cup UNION {Invalidates[k][f] : f \in roots}) \cap FragmentsOf[k]
    IN  {S \ Deleted(k, walk, Len(walk)) : walk \in Walks(k, S)}

\* The fragments Plan may return.
Plans(k, roots) ==
    LET S == Scheduled(k, roots)
    IN  {S \ Deleted(k, walk, Len(walk)) : walk \in Walks(k, S)}

\* The order Plan sorts them into.
First(S) == CHOOSE f \in S : \A g \in S : Rank[f] <= Rank[g]

(***************************************************************************)
(* What a plan must be.  It covers what is scheduled: a fragment that is   *)
(* left out is inside one that is refreshed, at any depth (it belongs to   *)
(* every set that holds the plan and, with a fragment, those it            *)
(* dominates).  And no part of it lies directly inside another; one that   *)
(* lies deeper inside may be left, when the walk deleted what is between.  *)
(***************************************************************************)
Covers(k, plan, S) ==
    \A T \in SUBSET Fragments :
        plan \subseteq T /\ (\A f \in T : Dominates[k][f] \subseteq T) => S \subseteq T

Irredundant(k, plan) == \A f, g \in plan : g \notin Dominates[k][f]
=============================================================================
