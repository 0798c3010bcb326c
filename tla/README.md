# TLA+ models of common-golang

This directory holds TLA+ modules that model the stateful parts of the
`common-golang` library, the TLC configurations that model-check them, and
proofs of the properties that matter most, checked by TLAPS. `PROJECT.json` ties
every definition to the lines it models, every property to the runs that check
it and to a mutated definition that breaks it.

Contents: 1 the system, 2 the modules, 3 the runs, 4 bounds, 5 fairness,
6 proofs, 7 what the models found, 8 what is left out, 9 plan.

## 1. The system

`common-golang` is the code that several web applications share. A browser tab
keeps one server-sent-event (SSE) connection open; requests of the same browser
change pages, sessions and data; the application answers by publishing events
and HTML fragments to the tabs that must see them. Sessions live in another
service, `auth_app`, and are cached.

| Component | State | Operations | Interacts with |
| --- | --- | --- | --- |
| SSE broker `src/sse/broker.go` | `connections`, `sessions`, `users` maps under one RWMutex, id counter, one bounded channel per connection | Subscribe (own or foreign id) and its cleanup, UpdateConnectionSessionID, UpdateConnectionPage, UpdateSessionPage, UpdateUserID, the Publish family | called by stream handlers, by the HTTP session helpers and by every publisher |
| SSE stream handler `src/sse/handler.go` | one goroutine per connection, one pump goroutine per stream, a shared unbuffered channel, deferred cleanups | subscribe, hooks, page, id, merge and write, tear down | brokers, hooks of the application, the request context |
| Session manager `src/authsession/manager.go` | identity cache, sessions of a user, role cache, single-flight group | Validate, ValidateFresh, EnsureKnown, CreateAnonymous, Destroy, SetCsrfToken, RefreshRoles, InvalidateRoles, SetRoleProvider, eviction | `auth_app` over the internal API, a role provider |
| Session HTTP helpers `src/authsession/http.go` | cookies | EnsureSessionCookie, EnsureSessionKnown, SetUserFromSession, RequireAuth, SetRotatedSessionCookies | manager and broker; handlers such as HandleGetCsrf behind them |
| Rate limiter `src/serverutil/rate_limiter.go` | one counter per key | Allow, background cleanup, Stop | a middleware |
| Internal API client `src/serverutil/internalapi` and its users `src/applicationusers`, `src/authapp` | the attempt counter of a call | DoJSON with retries and backoff; one call per operation | other services |
| Notification service `src/notifications` | rows in the application's store | Create, MarkRead, MarkReadMany, MarkAllRead, UnreadCount, List | store, publisher (through the broker) |
| Interaction dispatcher, fragment planner, publishing helpers `src/app` | routes and fragment registry, fixed at start | interactions, navigation, planned refreshes, fragment publication, CSRF hand-out | manager, broker, session HTTP helpers |
| Rest: event registry, middlewares, service authentication, locale, email, hashing, validator, UI, logger | none that changes after start | | |

The hard behaviours, and the properties that answer them:

* **Broker.** Three maps state the same fact three ways and six operations
  update them; publishers walk them while connections come, go, rotate and are
  renamed. Correct means: the indexes agree (`SessionIndexExact`,
  `UserIndexCovers`), no id is issued again once it was issued or reserved
  (`NoIDReuse`), no send on a closed channel
  (`NoSendOnClosed`), events reach only those addressed, in order and at most
  once (`UserScopedDelivery`, `PerPublisherOrder`), a publisher never blocks
  (`EveryPublishReturns`), and all of it together is one plain table
  (`ImplementsTable`).
* **Stream handler.** Several goroutines, two pairs of hooks that may panic, and a
  client that may leave, or stop reading, at any moment. Correct means: nothing is
  lost or reordered between channel and wire (`InOrder`, `EventuallyWritten`),
  everything ends (`TornDown`), the hooks of each stream and those of the caller are
  called in pairs, the caller's around a connection every broker has (`HooksPaired`),
  no connected stream stays behind (`NothingLeft`), and the page of the Referer does
  not overwrite a newer one (`PageNotRegressed`).
* **Session manager.** Each operation takes the lock several times and calls other
  services in between. Correct means: the session list of a user is exact
  (`UserSessionsExact`), concurrent misses share a call (`OneValidation`), nobody
  waits for a call that no one makes (`FollowersAreLed`), and what is stale is so
  for a bounded time (`EndedSessionsExpire`, `FreshSeesTheEnd`, `StaleRolesExpire`).
* **Cookies.** Several tabs send one cookie, which sign-ins, rotations and the
  middlewares replace, in responses that may be lost or overtake one another; the
  manager's memory is lost at a restart and auth_app's is not. Correct means: a
  handler finds its session (`KnownWhenHandled`), the cookie a request came with is
  given up for an anonymous session only if auth_app has denied that token
  (`OnlyDeniedGivenUp`; what the browser holds in the end depends on the order in which
  responses arrive, see 7), and a CSRF token lives as long as its session but for the
  ways listed (`CsrfSurvives`).
* **Rate limiter.** A fixed window, and a goroutine that deletes counters
  (`SlidingBound`, `CleanupUnseen`).
* **Notifications.** Change, count and event are three calls that requests
  interleave (`ReadOnce`, `TrueCountReported`), and a list is read page by page
  while it grows (`WalkComplete`).
* **Interactions and navigation.** Requests of several tabs share a session that one
  of them may rotate, change pages, and lose roles, while each plans and publishes a
  refresh over maps in arbitrary order. Correct means: a plan leaves nothing stale
  (`PlanCovers`), a refresh is offered to every tab that must see it
  (`EveryTabRefreshed`), and nothing is done without a role that the user, or the role
  cache, had when the request was sent (`OnlyAllowed`).
* **API client.** Late, lost and repeated attempts, cancellation, a backoff that
  overflows (`AppliedOnce`, `AnswerIsTrue`, `SleepsDouble`, `EveryCallReturns`).

## 2. The modules

| Module | Models | Proofs |
| --- | --- | --- |
| `SseBroker` | `sse.Broker` | `SseBrokerProofs` |
| `RoutingTable` | what the broker promises: a table of connections, scanned | `SseBrokerProofs` |
| `SseHandler` | `sse.Handler`, one connection | `SseHandlerProofs` |
| `AuthSession` | `authsession.Manager` against an environment of `auth_app` and a role store | `AuthSessionProofs` |
| `SessionCookies` | one browser's tabs, its cookie, the four session middlewares, the manager below them, and `HandleGetCsrf` | `SessionCookiesProofs` |
| `RateLimiter` | `serverutil.RateLimiter` | `RateLimiterProofs` |
| `Notifications` | `notifications.Service` and its HTTP handlers | `NotificationsProofs` |
| `InternalApiClient` | `internalapi.HTTPClient.DoJSON` and the operations built on it | `InternalApiClientProofs` |
| `FragmentPlanner` | `app.FragmentPlanner.Plan`, `app.MatchRoute` and the fragments of a page, as operators | `InteractionProofs` |
| `Interaction` | a browser with several tabs against the navigation and interaction handlers, the session middleware, and the publishing of fragments | `InteractionProofs` |
| `MC...` | instances for TLC: the values of the constants, nothing else | |

### SseBroker and RoutingTable

A *client* is one call of Subscribe with the cleanup closure it returned; a
*publisher* is one goroutine that publishes. `connections`, `sessions`, `users`
and `nextID` are the broker's fields; `buf` and `closed` are the channels; `got`
is what a client has received. One write-locked operation is one action
(`UpdateConnectionSessionID`, `UpdateConnectionPage`, `UpdateSessionPage`,
`UpdateUserID`, `Register`, `Cleanup`); the allocation of an id and the
registration are two, because the code takes the lock twice. A publish call is
`BeginPublish` (take the read lock, resolve the loops to routes), one `Send` per
route in any order, and `EndPublish`; the enabling condition of every writer is
that no publisher is `Reading`, which is the RWMutex. The `select` with a
`default` is the choice in `Send`. A route remembers the user and session it was
found through, so that `UserScopedDelivery` can compare.

A broker can be the first stream of an endpoint, whose ids it allocates
(`Primary`), or a later one that is given the first one's id (`ExternalId`);
both Subscribe functions are in the model, and one broker may be both. Such a broker
can give one id to two connections (7); what the indexes then hold is left open:
`SessionIndexExact` and `UserIndexCovers` are claimed while `IdsDistinct` holds,
and that it can cease to hold in no other way is `NoIDReuse` and a lemma.
`unindexed` is a history: the connections that the code leaves out of the user index,
by rotating one that has no user id (`broker.go:189`) or renaming a user to the id he
has (392). `UserIndexCovers` is about all others.

`RoutingTable` has no index: publishing selects by user, session and page from
the table. `SseBroker` implements it under the refinement mapping at the end of
`SseBroker` (routes become the ids still owed the event).

### SseHandler

`pc` and `at` are the handler's position and stream index; per stream a pump is
`receiving`, `holding` an event it tries to hand to the merged channel, or
`exited`. `Subscribe` and `Connect` are the loop of lines 91-136, `CallerConnect` the
caller's `OnConnect` with its deferred `OnDisconnect` (137-142), `SetPage` and `SendId`
the lines that follow. `Panic` is a panic in a stream's `OnConnect`, in the caller's, or
in the `PageResolver`: what has been deferred so far runs. In the write loop `Merge` and
`Ping` begin a write, which returns in `Written`, and `Leave` is its end (the context is
done, or a ping could not be written; errors of other writes are ignored by the code).
`Stall` is a client that keeps the connection and reads no more, so that the write
does not return: no server setting of the repository need limit it. `CallerDisconnect`,
while every broker has the connection, and one `Unwind` per stream are the deferred
calls, last first. `Take` and `Stop` are the pump's two selects.
Of the broker the module keeps what this connection can see of it. Streams may
share a broker (`BrokerOf`). The caller's `OnConnect` is given the connection's id before
the Referer's page is set; the model assumes that it does not tell the client or set
a page itself (else `PageNotRegressed` would not hold of it).

### AuthSession

A request is a goroutine inside one operation; `req` holds its locals, and its
`pc` names the next critical section or remote call. Each critical section and
each remote call is an action, in the order of the code: `Lookup`, `Join`,
`SecondLookup`, `Answer`, `CachedRoles`, `AskProvider`, `KeepRoles`, `Touch`,
`ReadCsrf`, `Store`, `StoreNew`, `DropOld`, `Finish`, and so on. The group of the
single flight is `validations`, the leader of each token. `Login`, `Revoke` and
`ChangeRoles` are the environment; `owner` and `endedAt` say what `auth_app` holds
as true and since when. Time is a counter, and `ZeroTime` is the time that makes
an entry unusable at once. `roleProvider` counts the calls of `SetRoleProvider`; the
numbers in `NilProviders` stand for none, without which a user has no roles and nothing
is cached (`manager.go:322-325`), and all others answer from one role store.

`MCAuthSession` starts TLC in one of two ways (`MCInit`): the clock stands and roles
are fixed, or one token is left to issue and the clock runs.

### SessionCookies

A tab has at most one request under way; `stage` is where it is, `req` its locals,
`jar` the browser's cookie, `valid` what `auth_app` knows. The middle of the chain is:

| Stages | Code |
| --- | --- |
| create | `EnsureSessionCookie` gives a browser without a cookie an anonymous session; one with an empty cookie, or whose session cannot be created, is answered with 500 |
| known | `EnsureKnown`: a session the manager has passes |
| lookup, join, wait, relookup, roles, call, drop, copy, store, storeNew, dropOld | `validate` and `validateAndCache`, each critical section and each remote call a step |
| anonymous | `EnsureKnown` replaces a token nobody knows |
| handler | `Dispatch` to HandleGetCsrf (`form`), a page with `SetUserFromSession`, or a mutation with `RequireAuth` (`post`) |
| get, reread, set | `HandleGetCsrf`; `reread` is the read of `entry.csrf` after the lock is gone |
| check | `CheckCsrf` of a form |
| reply | the response, with the last Set-Cookie of its chain; it may be lost |

The manager is that of `AuthSession` without clock and roles: whether an entry is
young enough, or a CSRF token expired, is a choice. The unlocked read returns what it
raced with: nothing, or what was written to that entry meanwhile (`readers` of the
entry). `Forget` is eviction or `Destroy`, `Restart` the end of the process with its
memory and its requests; browser and `auth_app` go on. `gone` is a history: the
requests whose session was removed under them.

### RateLimiter

One action per critical section (`Allow`, `Cleanup`, `Stop`), a clock, and the
history `granted`: the times at which requests of each key were let through.

### Notifications

A request is a handler's goroutine: refused by one of its checks (`Refuse`), or
it changes the store (`Create`, `Mark`), counts (`Count`) and publishes
(`Publish`), with an action for the failure of each call. A failed store call may
have taken effect. Rows are numbered in the order of their creation, which is
the order `List` returns them in, and a cursor is the number of the row it
names. The store is an interface in this repository. What it promises of changes is
taken from `store.go:16-26`. Of lists `store.go:13-14` says "oldest first within the
page, with cursor-based pagination"; the model assumes more, `Pages`: rows after the
cursor in order, of which only a full page leaves some out, and those are later.
`Service.List` relies on it (`service.go:78-82`: a short page is the last one, the last
row of a full one is the cursor), so `WalkComplete` is a claim about the service given
such a store. `ReadFails` is a page answered with 401 or 500, after which the client
gives up (one that asks again changes nothing). `announced`, `reported` and `failed`
are histories.

### InternalApiClient

A call repeats `Send` / `Receive`, `Abandon` or `SendFails`, and `Wake`, up to
`MaxRetries` times; `Fail` decides whether a failed attempt is the last. `wire`
holds the attempts the server has still to handle: one that is late is handled
after its call has given up, one that is lost stays for ever. The server answers
as it likes but a 2xx means that the operation has taken effect, a 3xx (`moved`) or 4xx
that it has not, a 5xx either, and it remembers the idempotency keys it has applied. A
`moved` is one that reaches `DoJSON`: redirects that `http.Client` follows are not
modelled. The code returns it as a success. `Timed` are the calls of a client with a
timeout. `Delay` multiplies in `Width` bits; `slept` is the history of each call's
pauses. Of the operations built on DoJSON the module has the method and the key: their
own translation of errors (`mapError`, a 404 of GetRolesForUser read as no roles) is left out.

### FragmentPlanner and Interaction

`FragmentPlanner` has no state. `FragmentsOf` is the registry `NewFragmentPlanner` builds. What the code computes while it ranges over a Go
map is the set of its possible results: `Plans` is every set the pruning loop may
leave, one for each order (`Walks`) in which the loop can come to ids that earlier
ones have not deleted. `Scheduled` is the depth-first `visit` stated as the least
set closed under `Invalidates` inside the route.

`Interaction` composes the handlers with what the other modules promise of their
parts. The broker is the table of `RoutingTable`: `session` and `shows` are the
session and the page of each tab's connection, and a publish call is one step, which
discards the event for the tabs whose channel is `full`.
`token` is the one active session of the browser, `jar` what the browser sends;
a cookie other than `token` is refused, unless its request shares a validation that
began before. `roles` are the user's, `cached` those in the manager's role cache, which
may be older, and a request is served with what it has found (`held`). A request passes
through its `stage`:

| Stage | Action | Code |
| --- | --- | --- |
| sent | `AskRoles`, `Authenticate`, `Rotate`, `Unauthenticated` | `RequireAuth`, `SetUserFromSession`: a set of requests with one cookie may share the validation and, if auth_app rotates the session, the new cookie |
| roles | `Authenticate`, `Rotate` | the role provider has answered, and the roles are cached |
| rotated | `MoveConnection` | `SetRotatedSessionCookies` moves the connection the request names, and no other; each request that shared the rotation does |
| known | `RefuseNavigation`, `FailValidation`, `OpenPage` | route, role of the path, second validation; then the page of the connection |
| gate | `RefuseInteraction`, `Rerender`, `RunAction` | MFA, CSRF, roles, hook; an empty action re-renders |
| plan | `PlanRefresh`, `UnknownPath` | `PublishFragmentScope`, `PublishFragmentForPath` |
| publish | `PublishDomUpdate`, `RenderFails`, `ComponentFails` | one fragment after the other, in their order |
| reply | `Reply` | the response brings the rotated cookie |

An input that is `plain` goes to the handler without `WithPlanner` in its name. It knows
no patterns (`RouteOf`), has no MFA, leaves the roles of an action to the action's
handler, and re-renders when the action has none (`MayRerender`). Its refresh is the
content and the layout of the path, or one component (`PlainPlan`): it needs the content
and goes on without a component that fails, where a planned one stops.

`begun`, `plan`, `due`, `accepted`, `dropped` and `ran` are histories. Abstractions: a
connection without a page accepts every fragment; rendering and publishing one
fragment is one step; MFA, CSRF and the application's hook are a choice to
refuse; status codes and toasts are left out; that an ended session may be served from
the identity cache is left to `AuthSession`; a planner is configured. `Custom` are the
fragments no PageComponent has, which `PublishFragment` does not find. Assumptions: the
patterns of two routes do not fit one path (otherwise `MatchRoute` depends on the order
of a map) and no fragment dominates itself.

## 3. The runs

| Run | Shows |
| --- | --- |
| `broker_index` | one broker used with its own ids and with a foreign one, sessions shared by tabs, by users and by anonymous clients: no id is issued again once issued or reserved, and while ids are distinct both indexes are right after every order of subscription, rotation, rename (from the empty user and to the same one too) and cleanup |
| `broker_table` | publishers against clients: sends are safe, scoped, ordered; calls return; the broker implements `RoutingTable` |
| `broker_stale_index` (violation) | the user index keeps sessions that a user has left |
| `handler` | three streams over two brokers, heartbeats, a client that may stop reading: order, hooks in pairs, cleanup after a panic in any of three hooks, termination, eventual writing |
| `sessions` | every kind of request on the session manager while entries expire and the role provider is replaced, by none too: exact user index, one call per flight, followers are led, and the bounds on stale identities and roles |
| `session_revoked` (violation) | a session found revoked is cached again |
| `session_cookies` | two tabs through sign-in, logout, rotation, eviction, lost responses and restarts: the session is there when the handler runs, only a denied cookie is given up, CSRF tokens survive |
| `rate_limiter` | the sliding bound, and that the cleanup is unobservable |
| `notifications` | rows announced once, the true count among those published, complete paging of a store that lists as assumed |
| `api_client` | effects at most once, truthful answers (but for a 3xx), bounded pauses, and the end of every call that has a timeout or whose context is cancelled |
| `api_client_cancel` (violation) | a cancelled call sleeps and is sent again |
| `interaction` | two tabs and two requests, planned or plain, that navigate, act, re-render, share a validation or a rotation, are refused, or fail, while a role is revoked and its cached copy expires and a channel is full: plans cover, every tab that must see a refresh is offered it, only what the user's or the cached roles allow happens |

Every property of a passing run has a mutant in `PROJECT.json`: a definition of
the model changed the way a plausible bug would change the code (a lock
not taken, a cursor taken from the wrong end, a count before the change), under
which TLC finds the property violated. The mutants stand beside the definitions
they mutate, marked `Mutant:`.

## 4. Bounds, and why they are enough

* `broker_index`: three clients, so that two can share a session while the third
  rotates or is renamed, and a session can be left by its last connection while
  another user still has it; two are given ids by the broker's counter and the third
  brings the id 2, which the counter may have issued, issue meanwhile, or skip
  (`MaxID` is 4, so that it can go on behind it). `broker_table`: two clients and one publisher
  with two events, which is what order and repetition need, and a channel of one
  place, so that it is full at once; writers exclude one another, so a third
  client adds no new interleaving to the lock.
* `handler`: three streams, two on one broker, are the least with both a shared
  and a separate broker and an unwinding in the middle; two events at the shared broker,
  which also sends the id, one at the other, and channels of two tell order, loss and
  fullness apart.
* `sessions`: two requests race over one token while the second token serves
  rotation, for one user. The clock stands at its end for the interleavings that need
  no time, or runs through three instants, with one token to issue and roles that
  change. Cached answers and roles last one tick, an identity two (`MaxAge`,
  `IdleTimeout`), so that each limit is met before, at and after, and the eviction
  finds expired entries. `MaxProvider` is 2: the first replacement is by no provider, the
  second by one again.
* `session_cookies`: two tabs, because each property speaks of a request and one that
  disturbs it (the proofs cover any number); three tokens, so that a rotation or an
  anonymous session can be on its way while both tabs hold another; two CSRF tokens,
  the one that may be lost and its successor. Random tokens are never reused while in
  use; an unused one may come again, which keeps the run finite without a counter.
  The user signs in only when signed out, and a token rotated away is over at once (its
  overlap is in `AuthSession`).
* `rate_limiter`: window 2, limit 2 and seven instants hold three windows, so that
  a burst at the end of one meets a burst at the start of the next.
* `notifications`: three requests, because two that race can be judged only after a
  third has changed the rows again; three rows, so that a page of two is full,
  followed by a shorter one, and a row created between them. `Limits` is the
  absent limit (20) and 2; the limits outside 1..100 fall back to 20.
* `api_client`: three retries as in the default policy; two calls, one with a timeout
  and one without, which can share a key; a `Width` of 4 bits and delays of 3 and 4, so that
  the third doubling overflows. `PolicyAssumption` is what keeps an overflow from
  reappearing as a small positive delay: a wrapped product is a multiple of 2^n, which
  has passed the cap where the product leaves a Duration. With the default policy
  (100 ms, 2 s, 64 bits) that is so for any number of retries.
* `interaction`: two tabs, so that a refresh must reach one that did not ask for it;
  two requests, because a tab is disturbed by one other and a validation shared by two;
  inputs of each kind, those that no tab needs to send without one; one rotation, since
  after it the other tab is left behind for good; one discarded event (`MaxDropped`),
  since a second one is no different; one role, needed for one path and one action,
  and an action nothing knows; three paths (one with a parameter, one without a route),
  and four fragments that hold a chain of two invalidations, a chain of two dominances
  and a global one.

Histories (`got`, `accepted`, `granted`, `announced`, `reported`, `slept`) are read by
no guard.

`CHECK_DEADLOCK FALSE` stands in every configuration because all the systems may
stop: clients leave, requests end, bounded counters run out.

## 5. Fairness

* Broker: weak fairness of `Send` and `EndPublish` of each publisher. A goroutine
  inside a publish call holds the read lock and does nothing that blocks.
  Nothing is assumed of clients.
* Handler: weak fairness of the handler's steps and of each pump's (hooks return). A
  write returns only if the client reads or its connection is gone (`~stalled \/
  cancelled`): `net/http` cancels the context when the connection breaks, and a cancelled
  context is taken to mean a closed connection, on which a write fails. Strong fairness
  of `Merge` of each stream and of `Leave` once the context is done, because the loop's
  `select` draws one of its ready cases at random and so takes none of them never. And
  weak fairness of the cancellation of a finished request, which `net/http` does.
  Nothing is assumed of publishers, and of the client only that one that has not
  stopped reading takes what is written.
* API client: weak fairness of each call's own steps. A wait ends by itself only in a
  call of a client with a timeout, or whose context is cancelled (`Limited`): the
  default client has one, `WithTimeout(0)` and a client passed to `WithHTTPClient` or
  `NewClientWithHTTPClient` may have none. Nothing is assumed of the server.

Sessions, cookies, rate limiter, notifications and interactions state no liveness. What
could go wrong for a waiting request, a flight that nobody makes, is the safety
property `FollowersAreLed` (and the last conjunct of `SessionCookies!TypeOK`).

## 6. Proofs

The proofs hold for every value of the constants that satisfies the named
ASSUMEs of the module.

* `SseBrokerProofs`. `TypeCorrect` and `IdsAreNotReused` need no further
  assumption; the latter rests on `Reserved`, by which the counter has passed every id
  that was issued or reserved, also where own and foreign ids are mixed. `BrokerSafety`
  proves `BrokerInvariant` for any mix of subscriptions and any renames, while `IdsDistinct`
  holds, and assumes `ProperSessions` only (no empty session id reaches the broker);
  `SessionIndexIsExact` and `UserIndexIsComplete` are its consequences. `SharedIdsStay`
  says that an id once shared by two subscriptions stays so, so nothing is hidden by a
  condition that comes and goes. `IdsStayDistinct` says when it cannot cease to hold:
  under `UniformStreams` (a broker is always the first stream of its endpoints or never).
  Under `Discipline`, which is `UniformStreams` and `ProperSessions`, `BrokerIsConsistent`
  therefore proves the invariant without condition, and `NeverSendsOnClosed` follows.
  `NoSendOnClosed` is not inductive: that a channel is open while a route leads
  to it needs that routes exist only inside a call (`RoutesUnderLock`), that only a
  connection's own cleanup closes its channel (`ClosedByCleanup`,
  `ConnectionsOwned`) and that no other client has its id (`IdsIssued`);
  `UserIndexCovers` needs `SessionIndexExact`, because a cleanup drops the user
  entry when the *session index* says the connection was the last. The step lemmas
  follow the actions: `RegisterIndexes`, `RemoveIndexes`, `RotateInvariant`,
  `RenameInvariant`, `PublishingInvariant`.
  What concerns delivery needs `OneOwner` too: a session is presented for one user and
  nobody is renamed (nothing in this repository calls `UpdateUserID`). Without it an event
  for two users who share a session is offered twice, and one for a user of a stale
  index entry may reach another. `Granted` (every index entry is one
  a connection was granted, and only anonymous connections are unindexed) and
  `SessionIndexExact` give `DeliveryIsUserScoped`, and that no connection is met twice in the nested loops
  (`OneRoute`); from this follows `OrderIsKept` by `OrderedLog`, an invariant of all that
  a client has received or is still to receive. `BrokerImplementsTable` is the refinement
  of `RoutingTable`: `RoutesAreAudience` shows that the walk through the indexes and a scan
  of the table select the same connections (of users with an id: `ProperCalls`), and
  every step maps to a step of the table or a stutter.
* `SseHandlerProofs`. `TypeCorrect` first. `HandlerInvariant` ties the handler's position to the streams
  that are subscribed, connected and unwound (`Placed`, `Progress`), the caller's two
  hooks to it as well (`CallerInvariant`: until the first cleanup every broker has the
  connection), and says that
  no broker has sent anything that tells the client its id before the page is set
  (`SilentSetup`). From it follow `NothingIsLeft`, `HooksArePaired` and
  `PageIsNotRegressed`, for any number of streams and brokers. `EventsStayInOrder` needs
  of the pumps only `InHand`: one that does not hold an event has none in hand, and none
  runs before its stream is connected. `HandlerIsFinite` gives the measure `StepsLeft`
  that the handler's setup and unwinding, `Panic` and `Leave` decrease and no other step
  raises: what `TornDown`
  relies on besides fairness.
* `AuthSessionProofs`. All seven invariants of `AuthSession`, for any number of requests,
  tokens and users and any timeouts, from one invariant, `IInv`. `Situated` says which
  locals are set at which `pc`, and with `ZeroEntries` (an anonymous entry is never
  usable) that roles are resolved for users only. `IndexIsExact` is inductive by itself:
  `RemoveExact` and `SetExact` are about the two critical sections that move an index.
  `WaitingIsLed` needs `Waiting` and `Flights` together, `AskedOnce` needs `Leads`: who
  asks `auth_app` for a shared validation leads the flight of its token.
  `EndedSessionsAreNotServed` and `FreshIsFresh` follow a time through the code: what
  `Answer` was told (`AskedBefore`), what `Store` writes of it (`EndedEntries`), what a
  `Lookup` makes of it (`Ended`); `AuthAppMoves` is all that `auth_app` does to a token
  meanwhile. `StaleRolesAreNotUsed` does the same for roles. `MovesOrFinishes` tabulates
  what a step does to the locals, once for all of them.
* `SessionCookiesProofs`. `TypesHold`, `HandlersKnowTheirSession`, `OnlyDeniedIsGivenUp` and
  `CsrfTokensSurvive`, for any number of tabs and tokens, from one invariant, `IInv`.
  `KnownWhenHandled` is not inductive: a handler's session may be the one its leader has
  just stored (`Present` for the leader, with `NewTokens`: only one request knows a
  rotated token before it is stored, and the new entry holds the CSRF token copied),
  and what is removed under the leader must be counted against those who share its
  flight (`SharedLoss`). `OnlyDeniedGivenUp` needs `Denied`: the token of a request that
  is about to remove or replace it was denied, and tokens come to `auth_app` only
  fresh. `CsrfSurvives` is an action property; its step uses `Denied` for `Drop`
  and `NewTokens` for `DropOld`. `Readers` says who may hold an entry outside the lock.
* `RateLimiterProofs`. `CleanupIsUnseen`, for every limit and window: the cleanup
  deletes only counters whose window every later `Allow` would restart anyway.
  `BurstsAreBounded` is about the whole history of a key, and the counters hold only its
  last window. The inductive invariant `Inv` joins the two by `Logged`: of a live counter
  (`Counts`), the last requests let through, as many as it has counted, are its own, the
  first of them started its window, all others came before, and those a whole counter
  further back more than a window before; of a counter that is over or gone (`Past`), the
  same seen from now. A request that starts a window and one that a running window counts
  (`FirstOfWindow`, `NextOfWindow`) both find the one `2 * Cap - 1` places before them
  more than a window away. `CountIsBounded` is a consequence.
* `NotificationsProofs`. `TypeCorrect`, and for what is announced `ServiceIsConsistent`,
  which proves `ServiceInvariant`: the rows
  that pending requests have changed are disjoint, read and not yet announced; every
  read row is announced, pending, or its user had a failure; and while the last
  count published is not the true one, some pending request that will publish has
  not counted yet or holds the true count. `RowsAreReadOnce` and
  `TrueCountIsReported` follow. `WalksAreComplete` is an action property; it needs that a
  client has at every moment seen exactly the rows up to its cursor, in order
  (`WalkInvariant`), which rows created meanwhile do not disturb, since they come after
  every cursor. A page the assumption allows joins on without a gap (`PageFacts`), and a
  page it allows exists (`ListAnswers`), so nothing is proved of an impossible store.
* `InternalApiClientProofs`. `EffectsAreSingle` and `AnswersAreTrue`, for any calls, keys,
  policy and width. `AppliedOnce` says nothing of what is still on the way, so it needs
  `SentOnce` (an unsafe operation has one attempt: not yet sent, or in the wire and
  without effect, or handled) and `KeysKept` (what was applied with a key left it with
  the server, for one call only). `AnswerIsTrue` needs `TrueSuccess`, of the answer while
  it is on its way back (a 3xx, which the client returns as a success, excepted: see 7), and `Stage`, by which a result is the last answer.
  `DelayIsCapped` is arithmetic: a product that wraps keeps the factor 2^n (lemmas on
  powers of two, whose defining equations are drawn from the cardinality of power sets,
  because the provers know `^` as a symbol only), so a positive one is above the
  cap. `PausesDouble` follows by counting pauses against attempts (`Rested`).
  `CallsAreFinite` gives a measure, `StepsLeft`, that a call's own steps decrease and
  nothing else raises.
* `InteractionProofs`. `EveryPlanCovers` is about the planner alone: of the ids that
  the loop came to and a closed set would miss, the one that came last was
  deleted by one before it, which contradicts that it was come to. `PlanReturns` builds
  an order in which the loop can walk, one id at a time, so `Plans` is never empty.
  `PlanIsDetermined` says when the order does not matter: where what a
  fragment contains includes what its parts contain. `RefreshesCover`
  lifts `EveryPlanCovers` to the requests, with the statement that nothing planned lies
  *directly* inside another part of the plan. `OnlyWhatIsAllowed` needs `AccessInvariant`:
  the roles a request holds, and all that it may still be served with (`Served`, which
  only shrinks), could be found when it was sent.
  `RefreshesReachTheTabs` needs three invariants: `DueInvariant` (an undisturbed tab is
  of the current session, or is the one about to be moved, and shows the route being
  refreshed), `PlanInvariant` and `OfferInvariant` (what has been published is in the
  channel of the tab or was dropped because that was full).

Every invariant and every safety property a passing run checks is proved. Only
model-checked is the liveness (`EveryPublishReturns`, `TornDown`, `EventuallyWritten`,
`EveryCallReturns`), whose fairness the provers cannot expand; of two of them the
safety half, a measure that only decreases, is proved (`HandlerIsFinite`,
`CallsAreFinite`). Where a lemma needs induction over numbers or finite sets
(`SetInduction`, `WalkIsShort`, `InOrder`), it is stated without an operator
parameter, as a least counterexample of a well-founded order.

## 7. What the models found

Three violation runs, each with a finding in `PROJECT.json`:

1. `src/sse/broker.go:193`: a rotation leaves the old session in the user index,
   although the comment above says the index is kept in sync.
2. `src/authsession/manager.go:275`: an answer of `auth_app` that is older than a
   revocation is stored after it, and the revoked session is accepted from the cache
   until its TTL has passed (`EndedSessionsExpire` bounds how long).
3. `src/serverutil/internalapi/client.go:282`: a cancelled context counts as an
   unavailable dependency, so the call sleeps and is repeated.

Other behaviour worth knowing, which (one comment apart) no line of the repository contradicts or
which the models exclude by a named assumption:

* A CSRF token set while a validation is between its copy of the old token and its
  store (`manager.go:260-275`) is lost, and the form that carries it is refused.
* A rotation moves only the connections named by the requests that share it
  (`http.go:152`): the other tabs of the browser receive nothing more until they
  reconnect. One of those requests that is late may move its tab to a session that
  another rotation has ended meanwhile.
* An interaction that is refused has already changed the page of its tab
  (`interaction.go:244`), and one refused for MFA (`interaction.go:246`) is not seen
  by the audit hooks, whose `defer` comes later.
* Where no planner is configured, `FragmentsForPage` lists the content and the global
  fragments only (`publish.go:111`): a tab that has reported its page does not get the layout
  components that `PublishFragmentForPath` sends with the content (`publish.go:173`).
* The comment on `PublishFragmentScope` (`publish.go:321`) says that without a planner
  the route content only is published; `PublishFragmentForPath` adds the layout.
* If the dominance of a route has chains and is not transitive, which fragments a plan
  keeps can depend on the order of a map (`PlanIsDetermined` says when it does not). The
  plan covers the page either way, but may refresh a fragment twice: of a content that
  contains a table that contains a badge, the walk may delete the table first and then
  finds nothing that names the badge (`fragments.go:171`).
* A navigation refreshes its fragments in every tab of the user that has the same
  selector, whatever page that tab shows.
* Two requests that render one fragment may publish the older rendering last.
* `UpdateUserID(u, u)` deletes the index entry it has just copied
  (`broker.go:392`). A connection that rotates while it has no user id is not indexed
  under its new session (`broker.go:189`), and a later rename of the empty user
  copies the indexed sessions only (385-393), so events for the new user miss it. Both
  are `unindexed`; nothing in this repository calls `UpdateUserID`.
* A broker used both with its own ids and with foreign ones can give one id to two
  connections: the counter may have issued the id before it arrives from the other
  broker, or issue it between its registration (`broker.go:113`) and its reservation
  (123). The second registration overwrites the first, although the comment at 114 means
  the reservation to make mixed use safe (`IdsDistinct`, `UniformStreams`).
  `NoIDReuse` is what the reservation does achieve.
* `PublishToConnections` delivers twice to an id that is given twice.
* The connection id is published like any event, so a connection whose channel is
  full when it is sent never learns it (`handler.go:168`). The same holds of a refresh
  (`broker.go:240`): nobody is told that it was discarded.
* `writeEvent` does not look at the error of a write (`handler.go:193`), and a write to a
  client that keeps its connection and stops reading returns only if the server has a
  `WriteTimeout`, which is 0 unless the application sets one: until then the handler
  and its pumps stay (`Stall`).
* If `OnConnect` panics, the cleanup of that one stream is not yet deferred
  (`handler.go:104-109`): its connection stays in the broker.
* Roles asked of a provider that has been replaced meanwhile are cached for a TTL, also
  those that the new provider would not give (`manager.go:322`).
* A validation that finds a token unknown removes its anonymous session too, CSRF
  token included, so the next request gets another anonymous session
  (`manager.go:251`).
* Two tabs that ask HandleGetCsrf at once each make a token, and the first is dead
  when it arrives (`handlers.go:45-52`). `GetCsrfToken` reads `entry.csrf` of an entry
  without a token after it has given up the lock (`manager.go:436-447`), a data race
  with `SetCsrfToken`.
* The first requests of two tabs each create an anonymous session, and the last
  Set-Cookie wins (`http.go:105-124`).
* A request that still carries the cookie from before a rotation is given an anonymous
  session once the old token is over, and its response may overwrite the rotated
  cookie (`manager.go:367`, `http.go:152`). A rotation whose only response is lost, or
  whose call fails after it, loses the login.
* Eviction may remove a session between EnsureKnown and the handler, since neither
  `HasSession` nor `GetCsrfToken` touches `lastActivity`; `KnownWhenHandled` excludes
  it by name (`gone`).
* Two requests of one user may publish their unread counts in the reverse of the
  order they counted in: the bell can settle on the older number.
  `TrueCountReported` says what remains true.
* An abandoned PUT may be handled after a later one (the client orders nothing
  between calls).
* The sliding bound of the rate limiter is tight: `2 * Limit - 1` requests may pass in
  one window's length, and a limit of 0 lets one request per window through.
* A status from 300 to 399 that reaches `DoJSON` is returned as a success
  (`client.go:203`), although `ResponseError` is documented as any non-2xx answer (30-32);
  `AnswerIsTrue` excepts it (`moved`).
* A call of a client without a timeout, whose context is not cancelled either, waits for
  a silent server for ever.
* Delays of 0 or 1 ns make the jitter panic, and a policy with a large cap and very many
  retries (with the default delay: above 2^37 ns and more than 36) could meet a wrapped
  product below its cap (`client.go:251`); `PolicyAssumption` excludes both.

## 8. What is left out

Headers, JSON, attributes of cookies, templates, logging, email, hashing and validation rules:
one value in, one value out, no state. `AuthSession` has no store of its own to
fail, and roles that only a replaced provider gives are not distinguished from others.
How the API clients translate errors (`mapError`, the 404 of GetRolesForUser), and
redirects that `http.Client` follows itself, are not modelled; nor is a notification store
that lists otherwise than `Pages`, or a caller's `OnConnect` that sets the page or
publishes the id. `net/http`'s own resending of requests that carry an `Idempotency-Key` on a
broken idle connection is not in `InternalApiClient`. Heartbeats in the handler
are writes whose content is not modelled. That a malformed cursor is refused is
not modelled. Components listed as `not_modelled` in `PROJECT.json` give their
reasons there.

## 9. Plan

1. *Models*: an application that has no planner, as a choice of `Interaction`'s initial
   states, where the tab that asked need not get the layout (see 7).
2. *Proofs*: an abstract session cache that `AuthSession` implements, and a measure for
   a publish call like those of the handler and of a call of the API client; liveness
   itself stays with TLC (see 6).
