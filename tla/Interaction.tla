---------------------------- MODULE Interaction ----------------------------
(***************************************************************************)
(* The requests of one browser with several tabs: the session middleware   *)
(* of authsession/http.go, the navigation and the interaction handler,     *)
(* each with the planner and plain, and the publishing of the fragments    *)
(* they refresh, in an application with a planner.                         *)
(* The broker is the table of connections RoutingTable promises: a publish *)
(* call is one step, and a full channel discards what it is given.  The    *)
(* session manager is what AuthSession promises: a cookie is the browser's *)
(* session or it is refused, a rotation ends the old one, requests with    *)
(* one cookie may share a validation, and roles are served from a cache.   *)
(***************************************************************************)
EXTENDS FragmentPlanner

CONSTANTS
    Tabs,          \* open tabs, each with one SSE connection
    NoTab,         \* of a request without X-SSE-Connection-ID
    Requests,      \* handler goroutines, one request each
    Inputs,        \* what they are sent with
    Paths, Actions,
    NoAction, Search, NoInput,
    Roles,         \* the roles the user has at first
    Requires,      \* for each path and action the roles one of which it needs, if any
    Known,         \* the actions actionRoles knows
    Registry,      \* the actions actionRegistry has a handler for
    Layout,        \* the components of each route that are of its layout
    Custom,        \* the custom fragments: no PageComponent has them
    MaxSession,    \* bound of the rotations
    MaxDropped     \* bound of the discarded events

Sessions == 0..MaxSession
Things == Paths \cup Actions

\* plain: the handler is the one without WithPlanner in its name; inner: the
\* action inside a search; target: the selector that is to be refreshed
Input == [handler : {"navigate", "interact"}, plain : BOOLEAN, tab : Tabs \cup {NoTab},
          path : Paths, action : Actions \cup {NoAction}, inner : Actions \cup {NoAction},
          target : Fragments]

ASSUME InteractionAssumption ==
    /\ NoTab \notin Tabs /\ NoAction \notin Actions
    /\ Inputs \subseteq Input /\ NoInput \notin Inputs
    /\ \A p \in Paths : \A k, l \in MatchRoute(p) : k = l   \* patterns do not overlap
    /\ Requires \in [Things -> SUBSET Roles]
    /\ Known \subseteq Actions /\ Registry \subseteq Actions
    /\ Layout \in [Routes -> SUBSET Fragments]
    /\ \A k \in Routes : Layout[k] \subseteq Components[k] \ Custom
    /\ MaxSession \in Nat /\ MaxDropped \in Nat

VARIABLES
    token,       \* the browser's session, the only active one
    jar,         \* the session cookie the browser sends
    roles,       \* the roles the user has
    cached,      \* and those the session manager has cached, {} without an entry
    session,     \* the broker's connections: the session of each tab
    shows,       \* and the fragments it accepts: those of its page
    stage, input, \* where each request is, and what it was sent with
    cookie,      \* its session cookie
    signedIn,    \* the requests with a user
    held,        \* and the roles their user was found to have
    todo,        \* the fragments still to publish
    accepted,    \* history: events in the channel of a tab
    dropped,     \* history: events a full channel discarded
    ran,         \* history: requests whose action handler ran
    begun,       \* history: the roles that could be found when the request was sent
    plan,        \* history: [route, roots, fragments] of its refresh
    due          \* history: tabs undisturbed since the request was authenticated

brokerVars == <<session, shows>>
sessionVars == <<token, jar, roles, cached>>
requestVars == <<stage, input, cookie, signedIn, held, todo>>
historyVars == <<accepted, dropped, ran, begun, plan, due>>
vars == <<brokerVars, sessionVars, requestVars, historyVars>>

NoPlan == [route |-> <<>>, roots |-> {}, fragments |-> {}]

Init ==
    /\ token = 0 /\ jar = 0
    /\ roles = Roles /\ cached = {}
    /\ session = [t \in Tabs |-> 0]
    /\ shows = [t \in Tabs |-> Fragments]
    /\ stage = [q \in Requests |-> "idle"]
    /\ input = [q \in Requests |-> NoInput]
    /\ cookie = [q \in Requests |-> 0]
    /\ signedIn = {}
    /\ held = [q \in Requests |-> {}]
    /\ todo = [q \in Requests |-> {}]
    /\ accepted = {} /\ dropped = {}
    /\ ran = {}
    /\ begun = [q \in Requests |-> {}]
    /\ plan = [q \in Requests |-> NoPlan]
    /\ due = [q \in Requests |-> {}]

Go(q, here, there) == stage[q] = here /\ stage' = [stage EXCEPT ![q] = there]

\* An early return: the response is an error, or a 202 that looks at nothing.
Return(q) ==
    /\ stage' = [stage EXCEPT ![q] = "reply"]
    /\ UNCHANGED <<brokerVars, sessionVars, input, cookie, signedIn, held, todo, historyVars>>

Allowed(by, thing) == Requires[thing] = {} \/ Requires[thing] \cap by # {}

\* The roles a request may be served with by now: the user's own, those in the
\* cache, and those a lookup has just been given.
Served == roles \cup cached \cup UNION {held[r] : r \in {r \in Requests : stage[r] = "roles"}}

\* The browser sends a request of a tab or of a script, with its cookie.
Send(q, i) ==
    /\ Go(q, "idle", "sent")
    /\ input' = [input EXCEPT ![q] = i]
    /\ cookie' = [cookie EXCEPT ![q] = jar]
    /\ begun' = [begun EXCEPT ![q] = Served]
    /\ UNCHANGED <<brokerVars, sessionVars, signedIn, held, todo, accepted, dropped, ran, plan, due>>

\* A role is taken from the user; an entry of the role cache ends.
Revoke(role) ==
    /\ role \in roles
    /\ roles' = roles \ {role}
    /\ UNCHANGED <<brokerVars, token, jar, cached, requestVars, historyVars>>

ExpireRoles ==
    /\ cached # {}
    /\ cached' = {}
    /\ UNCHANGED <<brokerVars, token, jar, roles, requestVars, historyVars>>

(***************************************************************************)
(* RequireAuth, SetUserFromSession: the session manager finds the user of  *)
(* the cookie, with the roles it has cached or else is given, and auth_app *)
(* may rotate the session.  Requests that wait with the same cookie may    *)
(* share the call and its result, also that it has rotated the session.    *)
(* A role provider that fails may leave the user without roles.            *)
(***************************************************************************)
AskRoles(q) ==
    /\ Go(q, "sent", "roles")
    /\ cookie[q] = token /\ cached = {}
    /\ \E answer \in {roles, {}} : held' = [held EXCEPT ![q] = answer]
    /\ UNCHANGED <<brokerVars, sessionVars, input, cookie, signedIn, todo, historyVars>>

Found(q) == IF stage[q] = "roles" THEN held[q] ELSE cached

Validated(users, q, there) ==
    /\ stage[q] = "roles" \/ (stage[q] = "sent" /\ cookie[q] = token /\ cached # {})
    /\ q \in users
    /\ \A r \in users \ {q} : stage[r] = "sent" /\ cookie[r] = cookie[q]
    /\ stage' = [r \in Requests |-> IF r \in users THEN there ELSE stage[r]]
    /\ signedIn' = signedIn \cup users
    /\ held' = [r \in Requests |-> IF r \in users THEN Found(q) ELSE held[r]]
    /\ cached' = Found(q)
    /\ UNCHANGED <<brokerVars, jar, roles, input, todo, accepted, dropped, ran, begun, plan>>

Authenticate(users, q) ==
    /\ Validated(users, q, "known")
    /\ due' = [r \in Requests |-> IF r \in users THEN {t \in Tabs : session[t] = token} ELSE due[r]]
    /\ UNCHANGED <<token, cookie>>

Rotate(users, q) ==
    /\ Validated(users, q, "rotated")
    /\ cookie[q] = token
    /\ token < MaxSession
    /\ token' = token + 1
    /\ cookie' = [r \in Requests |-> IF r \in users THEN token + 1 ELSE cookie[r]]
    /\ due' = [r \in Requests |->
                 {t \in Tabs : r \in users /\ t = input[r].tab /\ session[t] = token}]

\* Mutant: the connection keeps the session it was opened with.
MoveNoConnection(q) ==
    /\ Go(q, "rotated", "known")
    /\ UNCHANGED <<brokerVars, sessionVars, input, cookie, signedIn, held, todo, historyVars>>

\* SetRotatedSessionCookies moves the connection the request names, also to a
\* session that another rotation has ended since.
MoveConnection(q) ==
    /\ Go(q, "rotated", "known")
    /\ session' = [t \in Tabs |-> IF t = input[q].tab THEN cookie[q] ELSE session[t]]
    /\ due' = IF cookie[q] = token THEN due ELSE [r \in Requests |-> due[r] \ {input[q].tab}]
    /\ UNCHANGED <<shows, sessionVars, input, cookie, signedIn, held, todo,
                   accepted, dropped, ran, begun, plan>>

\* The cookie is of a session that has ended, or auth_app or the role provider
\* fails: RequireAuth answers, and SetUserFromSession goes on without a user.
Unauthenticated(q) ==
    /\ stage[q] = "sent"
    /\ \/ Return(q)
       \/ /\ Go(q, "sent", "known")
          /\ UNCHANGED <<brokerVars, sessionVars, input, cookie, signedIn, held, todo, historyVars>>

Navigates(q) == input[q].handler = "navigate"
Acts(q) == input[q].handler = "interact" /\ input[q].action # NoAction
Rerenders(q) == input[q].handler = "interact" /\ input[q].action = NoAction

Plain(q) == input[q].plain

\* The plain handlers look their path up in the table and know no patterns.
RouteOf(q) == IF Plain(q) THEN Routes \cap {input[q].path} ELSE MatchRoute(input[q].path)

(***************************************************************************)
(* The navigation handlers look for the route and ask authChecker before   *)
(* they touch the connection's page; the interaction handlers only         *)
(* validate the session again, which may fail for any request.             *)
(***************************************************************************)
MayNavigate(q) == RouteOf(q) # {} /\ Allowed(held[q], input[q].path)

RefuseNavigation(q) == stage[q] = "known" /\ Navigates(q) /\ ~MayNavigate(q) /\ Return(q)

FailValidation(q) == stage[q] = "known" /\ ~Navigates(q) /\ Return(q)

UpdateConnectionPageFromRequest(q) ==
    \E page \in FragmentsForPage(input[q].path) :
        shows' = [t \in Tabs |-> IF t = input[q].tab THEN page ELSE shows[t]]

OpenPage(q) ==
    /\ Go(q, "known", IF Navigates(q) THEN "plan" ELSE "gate")
    /\ Navigates(q) => MayNavigate(q)
    /\ UpdateConnectionPageFromRequest(q)
    /\ due' = [r \in Requests |-> IF r = q THEN due[r] ELSE due[r] \ {input[q].tab}]
    /\ UNCHANGED <<session, sessionVars, input, cookie, signedIn, held, todo,
                   accepted, dropped, ran, begun, plan>>

(***************************************************************************)
(* The other checks of the interaction handlers, all of them after the     *)
(* page update.  MFA, CSRF and the preActionHook are asked of the          *)
(* application: they may refuse.  A search is checked by the action inside *)
(* and dispatched by its own name.  The plain handler has no MFA, leaves   *)
(* the roles of an action to the action's handler, and renders the path    *)
(* when the action has none.                                               *)
(***************************************************************************)
ActionForRole(q) ==
    IF input[q].action = Search /\ input[q].inner # NoAction
    THEN input[q].inner ELSE input[q].action

\* Mutant: an action needs its role and not the path it refreshes.
MayActAnywhere(q) ==
    /\ input[q].action \in Registry
    /\ Plain(q) \/ (ActionForRole(q) \in Known /\ Allowed(held[q], ActionForRole(q)))

MayAct(q) ==
    /\ input[q].action \in Registry
    /\ \/ Plain(q)
       \/ /\ ActionForRole(q) \in Known
          /\ Allowed(held[q], ActionForRole(q))
          /\ Allowed(held[q], input[q].path)

MayRerender(q) ==
    \/ /\ Rerenders(q)
       /\ Allowed(held[q], input[q].path)
       /\ Plain(q) => RouteOf(q) # {}
    \/ Plain(q) /\ Acts(q) /\ input[q].action \notin Registry

RefuseInteraction(q) ==
    /\ stage[q] = "gate"
    /\ \/ q \in signedIn /\ ~Plain(q)
       \/ Acts(q)
       \/ Rerenders(q) /\ ~MayRerender(q)
    /\ Return(q)

Rerender(q) ==
    /\ Go(q, "gate", "plan")
    /\ MayRerender(q)
    /\ UNCHANGED <<brokerVars, sessionVars, input, cookie, signedIn, held, todo, historyVars>>

\* The application's handler changes its data and refreshes the target.
RunAction(q) ==
    /\ Go(q, "gate", "plan")
    /\ Acts(q) /\ MayAct(q)
    /\ ran' = ran \cup {q}
    /\ UNCHANGED <<brokerVars, sessionVars, input, cookie, signedIn, held, todo,
                   accepted, dropped, begun, plan, due>>

\* RootsForPolicy, PublishFragmentForPathWithPlanner
Roots(q) ==
    CASE Navigates(q) -> RootsForPolicy("page and navbar")
      [] Rerenders(q) -> RootsForPolicy("page only")
      [] Acts(q) -> UNION {FindBySelector(k, input[q].target) : k \in MatchRoute(input[q].path)}

\* PublishFragmentForPath, with the layout; PublishFragment, a component alone
PlainPlan(q, k) ==
    IF Navigates(q) \/ input[q].target = PageContent
    THEN {PageContent} \cup Layout[k]
    ELSE FindBySelector(k, input[q].target) \ Custom

PlansOf(q, k) == IF Plain(q) THEN {PlainPlan(q, k)} ELSE Plans(k, Roots(q))

(***************************************************************************)
(* PublishFragmentScope plans the refresh, and renders and publishes one   *)
(* fragment after the other until one fails.  PublishFragmentForPath needs *)
(* the content and goes on without a component.  Nobody looks at what they *)
(* return.                                                                 *)
(***************************************************************************)
PlanRefresh(q) ==
    /\ Go(q, "plan", "publish")
    /\ \E k \in RouteOf(q) : \E p \in PlansOf(q, k) :
          /\ todo' = [todo EXCEPT ![q] = p]
          /\ plan' = [plan EXCEPT ![q] = [route |-> k, roots |-> Roots(q), fragments |-> p]]
    /\ UNCHANGED <<brokerVars, sessionVars, input, cookie, signedIn, held,
                   accepted, dropped, ran, begun, due>>

UnknownPath(q) ==
    /\ stage[q] = "plan" /\ RouteOf(q) = {}
    /\ Return(q)

\* An anonymous request is routed by its cookie, which names no user here.
Audience(q, f) ==
    {t \in Tabs : /\ q \in signedIn
                  /\ session[t] = token
                  /\ f \in shows[t]}

\* What may be rendered now: components come in the order of a map.
Renderable(q) ==
    CASE ~Plain(q) -> {First(todo[q])}
      [] Plain(q) /\ PageContent \in todo[q] -> {PageContent}
      [] Plain(q) /\ PageContent \notin todo[q] -> todo[q]

PublishDomUpdate(q) ==
    /\ stage[q] = "publish" /\ todo[q] # {}
    /\ \E f \in Renderable(q) :
          /\ todo' = [todo EXCEPT ![q] = @ \ {f}]
          /\ \E full \in SUBSET Audience(q, f) :
                /\ accepted' = accepted \cup [by : {q}, tab : Audience(q, f) \ full, fragment : {f}]
                /\ dropped' = dropped \cup [by : {q}, tab : full, fragment : {f}]
                /\ full # {} => Cardinality(dropped') <= MaxDropped
    /\ UNCHANGED <<brokerVars, sessionVars, stage, input, cookie, signedIn, held,
                   ran, begun, plan, due>>

RenderFails(q) ==
    /\ stage[q] = "publish" /\ todo[q] # {}
    /\ Plain(q) => PageContent \in todo[q]
    /\ Return(q)

\* PublishFragment returns nothing: the refresh goes on without the component.
ComponentFails(q) ==
    /\ stage[q] = "publish" /\ Plain(q) /\ PageContent \notin todo[q]
    /\ \E f \in todo[q] :
          /\ todo' = [todo EXCEPT ![q] = @ \ {f}]
          /\ plan' = [plan EXCEPT ![q].fragments = @ \ {f}]
    /\ UNCHANGED <<brokerVars, sessionVars, stage, input, cookie, signedIn, held,
                   accepted, dropped, ran, begun, due>>

\* The response: only the cookie of a rotation is newer than the browser's.
Reply(q) ==
    /\ \/ Go(q, "reply", "done")
       \/ todo[q] = {} /\ Go(q, "publish", "done")
    /\ jar' = IF cookie[q] > jar THEN cookie[q] ELSE jar
    /\ UNCHANGED <<brokerVars, token, roles, cached, input, cookie, signedIn, held, todo, historyVars>>

Next ==
    \/ \E role \in Roles : Revoke(role)
    \/ ExpireRoles
    \/ \E q \in Requests, i \in Inputs : Send(q, i)
    \/ \E q \in Requests :
          \/ AskRoles(q)
          \/ \E users \in SUBSET Requests : Authenticate(users, q) \/ Rotate(users, q)
          \/ MoveConnection(q) \/ Unauthenticated(q)
          \/ RefuseNavigation(q) \/ FailValidation(q) \/ OpenPage(q)
          \/ RefuseInteraction(q) \/ Rerender(q) \/ RunAction(q)
          \/ PlanRefresh(q) \/ UnknownPath(q)
          \/ PublishDomUpdate(q) \/ RenderFails(q) \/ ComponentFails(q)
          \/ Reply(q)

Spec == Init /\ [][Next]_vars

-----------------------------------------------------------------------------
Stages == {"idle", "sent", "roles", "rotated", "known", "gate", "plan", "publish", "reply", "done"}
Plan == [route : Routes, roots : SUBSET Fragments, fragments : SUBSET Fragments]
Event == [by : Requests, tab : Tabs, fragment : Fragments]

\* Every variable keeps its type, and only fragments of its route are in a plan.
TypeOK ==
    /\ token \in Sessions /\ jar \in Sessions
    /\ roles \subseteq Roles /\ cached \subseteq Roles
    /\ session \in [Tabs -> Sessions]
    /\ shows \in [Tabs -> SUBSET Fragments]
    /\ stage \in [Requests -> Stages]
    /\ input \in [Requests -> Inputs \cup {NoInput}]
    /\ \A q \in Requests : stage[q] # "idle" => input[q] \in Inputs
    /\ cookie \in [Requests -> Sessions]
    /\ signedIn \subseteq Requests
    /\ held \in [Requests -> SUBSET Roles]
    /\ todo \in [Requests -> SUBSET Fragments]
    /\ accepted \subseteq Event /\ dropped \subseteq Event
    /\ ran \subseteq Requests
    /\ begun \in [Requests -> SUBSET Roles]
    /\ plan \in [Requests -> Plan \cup {NoPlan}]
    /\ \A q \in Requests : plan[q] # NoPlan =>
          todo[q] \subseteq plan[q].fragments /\ plan[q].fragments \subseteq FragmentsOf[plan[q].route]
    /\ due \in [Requests -> SUBSET Tabs]

\* What a planned request refreshes covers all that its roots invalidate, and
\* nothing in it lies directly inside another part of it, in whatever order Plan
\* walks its maps (fragments.go:171).
PlanCovers ==
    \A q \in Requests : stage[q] = "publish" /\ ~Plain(q) =>
        /\ Covers(plan[q].route, plan[q].fragments, Scheduled(plan[q].route, plan[q].roots))
        /\ Irredundant(plan[q].route, plan[q].fragments)

\* A request whose refresh was published to the end has offered every fragment
\* of its plan that could be rendered to the channel of the tab that sent it and
\* of each other tab that shows the fragment: the channel has the event or was
\* full.  Not so for a tab that another request has since then moved to a page or
\* to an ended session, or whose session it rotated (publish.go:323,
\* broker.go:240, interaction.go:244, navigation.go:83, http.go:148).
EveryTabRefreshed ==
    \A q \in Requests : stage[q] = "done" /\ todo[q] = {} =>
        \A t \in due[q], f \in plan[q].fragments :
            t = input[q].tab \/ f \in shows[t]
            => [by |-> q, tab |-> t, fragment |-> f] \in accepted \cup dropped

\* No action runs and nothing is rendered for want of a role the user had lost
\* before the request was sent, unless the session manager then still had the
\* role in its cache or in a lookup on its way there; the role for a search is
\* that of the action inside (interaction.go:302-351, manager.go:313-337).  The
\* plain handler asks for the roles of a path only where there is no action.
OnlyAllowed ==
    \A q \in Requests :
        /\ q \in ran => Plain(q) \/ Allowed(begun[q], ActionForRole(q))
        /\ plan[q] # NoPlan => (Plain(q) /\ Acts(q)) \/ Allowed(begun[q], input[q].path)

=============================================================================
