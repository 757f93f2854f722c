# STAIR-PLATFORM in TLA+

STAIR-PLATFORM is a Go back end for the design of staircases: an HTTP API (`src/cmd/api`), a worker
(`src/cmd/worker`), PostgreSQL, Redis, and the engines that calculate a stair. Several replicas of the API
and of the worker share tables, a Redis list and Redis keys, requests overlap, and every call over the
network may fail, or succeed without saying so; below them the engines take a form through a chain of
checks, searches and roundings in which one stage relies on what another has accepted. The modules here
model both, TLC checks them on small instances, and TLAPS proves their safety properties for
every value of the constants; one stays with TLC (section 4).

## 1. The system and its parts

| Component | State | Operations | Interacts with |
|---|---|---|---|
| Asynchronous calculations: `application/jobs`, `infrastructure/queue`, `calc_job_repo.go`, `cmd/worker` | row of `calc_jobs`, Redis list, job in the worker's hands | submit, pop, run, save, retry with backoff, shut down | API → PostgreSQL, then Redis; worker ← Redis, → PostgreSQL |
| Processes: `cmd/api/main.go`, `cmd/worker/main.go` | environment, choice of the queue, listener, queue and pool open or closed | start, serve, drain, close, exit, be killed | everything |
| Projects: `application/project`, `project_repo.go`, `transport/http/projects.go` and the project routes of payments, integrations and audit | members, configurations with revision numbers, current configuration, reviews, approvals, comments, audit events | calculate and save, restore, review, decide, approve, comment, manage members, list, export | requests of several users over one database |
| Users, sessions, SSO: `application/auth`, `auth_repo.go`, `middleware_auth.go` | users, sessions by token, one-time states, linked accounts | register, log in, authenticate and rotate, log out, disable, begin and finish SSO | every authenticated request; WebSocket upgrade |
| Administration and shop: users, settings, API keys, orders, testimonials, audit log, endpoints, stored objects, analytics | rows of a tenant, keys of the file store | the routes of `users.go`, `admin.go`, `orders.go`, `testimonials.go`, `audit.go`, `integrations.go`, `storage.go`, `analytics.go` | sessions and keys; several tenants over one database |
| Middleware chain and response cache | cached answers with expiry | version, recovery, timeout, compression, body limit, cache, readiness | wraps every request |
| Rate limiters | buckets, a counter in Redis, a log of a sliding window | allow, clean up, expire | wraps limited routes |
| Request deduplication: `transport/http/dedup.go` | map from key to mutex | enter, refuse with 429, leave | wraps heavy requests of a replica |
| Circuit breaker: `infrastructure/circuitbreaker` | state, three counters, time of the last failure | admit, record a result, read the state | wraps calls of the payment provider (`stripe_cb.go`) |
| Payments: `application/payments`, `infrastructure/payments`, `payment_repo.go` | intent, journal of events, marks of handled events in Redis | checkout, webhook | provider → API → Redis and PostgreSQL |
| Integrations: `application/integrations`, `infrastructure/integrations`, `integration_repo.go`, `cmd/worker/registry.go` | endpoint, row per event, job | create, deliver, retry, dead letter, delete the endpoint | API → PostgreSQL, Redis; worker → receiver |
| WebSocket hub: `transport/websocket` | clients, rooms, send channels | register, subscribe, broadcast, answer, unregister, stop | one goroutine for the hub, two for each client |
| Event bus, dead letters, event store: `infrastructure/events` | handlers, dead letters, log | publish, retry, subscribe, append, replay | pipeline, WebSocket bridge |
| Pipeline orchestrator, scheduler, graph, parametric model: `engine/pipeline`, `engine/scheduler`, `engine/graph`, `internal/geometry` | active configurations, result slots, edges twice over, dirty marks | start, fail, execute, add, remove, sort, rebuild | event bus, engines |
| Stair service and engines: `application/stair`, `engine/solver`, `constraint`, `validation`, `geometry`, `manufacturing`, `advisor`, `variation` | none between calls; the form is the client's | validate, calculate, offer variations | called by project, stair and optimize routes |
| Optimizer: `engine/optimization`, `stair/optimize.go` | cursor and best candidate of one search | search a grid under a context | calls the stair service for each candidate |
| Cutting plan and prices: `engine/manufacturing`, `engine/pricing`, `domain/pricing` | shelves of one plan; sums of one price | nest, prepare cost, price | the last stages of a calculation |
| Domain types, CAD and document export, search, assistant, GraphQL, DTOs, tokens, observability, migrations | none that others rely on | conversions and I/O | - |

The hard behaviours, component by component, with what makes each one correct:

* **Calculations.** INSERT and LPUSH are two calls; BRPOP takes the job off the list before anything is
  done with it; the retry travels through the list with a counter; three writers set the status without
  looking at it. Correct means: a row is worked on once at a time and a bounded number of times, its
  columns agree, success is final, nobody's row is left behind.
* **Processes.** The queue is chosen once, at the start, by one PING; at the end listener, queue and pool
  are let go of in an order that must not cut off requests in progress. Correct means: an accepted job
  is somewhere, an orderly stop is seen by no client, and a stop comes to an end.
* **Projects.** A calculation checks the status, runs for seconds, and saves. Saves number their
  revisions by `MAX + 1`. Review and status are two tables. Members come and go between the check of a
  membership and the statement it admits. Correct means: one owner, dense numbering, a status that is what the
  reviews say, four eyes, no rewritten history; answers and journal that tell what was done;
  no row of another project or tenant shown or changed.
* **Sessions.** Every authentication may rotate the session by an INSERT and a DELETE, beside other
  requests with the same token, logouts and administrators who disable the user. Correct means: a disabled
  user keeps no session, a browser keeps the one it needs and no second one is left behind.
* **Administration.** Rights are read once and used later. Correct means: no administrator-less tenant,
  no power out of nothing, nothing of another tenant, a true journal.
* **Middleware.** One cached answer is given to everybody, by a cache that stands before the guard of the internal
  pages; limiters count in windows, with a clean-up or an expiry beside them, and calls Redis does not answer go through
  uncounted.
* **Deduplication.** Two locks, of which the outer one is released before the inner one is tried.
* **Breaker.** The call runs outside the lock; its result is counted in whatever state it finds.
* **Payments.** One event is delivered many times, possibly to two replicas at once; mark, status and
  journal are three writes in two stores, with a compensation that can fail too.
* **Integrations.** Two counters of attempts, a receiver whose answer may be lost, an endpoint deleted
  while its events are on the way.
* **Hub.** Channels are closed by whoever notices first and sent to by others; a connection is written to by its
  pump and by the stop; unbuffered channels, locks held while waiting. Correct means: nobody waits for ever, and it is
  known what can end the process.
* **Bus, orchestrator, scheduler, graph.** Copies worked on outside a lock, two structures that hold the
  same edges, an answer that must not depend on which goroutine ends first.
* **Stair service.** Validation, calculation and variations judge the same form by different code; what one
  offers another may refuse. Correct means: the live validation foretells the calculation, an offer that is
  applied is accepted, what was calculated can be cut.
* **Optimizer, cutting plan, prices.** A search that is cancelled must not pass off what it has; parts
  must not overlap; four roundings must add up to the price.

## 2. Modules

Each component has its module. The proofs about it stand in a module beside it, which components of one kind
share; the `MC` modules
compose components into the instances TLC checks. Mutated variants of some operators stand just before the operator
they vary ("Mutant of ..."); they are not part of any specification and exist so that each property can
be shown to depend on the code.

| Component | Model | Builds on | TLC | Proofs |
|---|---|---|---|---|
| Calculations | `CalcJobs` | abstract: `JobLifecycle` | `MCRequests`, `MCProgress`, `MCCalcJobs` | `CalcJobsProofs` |
| Processes | `Processes` | | `MCProgress` | `ServerProofs` |
| Projects: rows | `ProjectReview` | | `MCAccounts`, `MCProjectReview` | `ProjectProofs` |
| Projects: routes | `ProjectApi` | | `MCPlatform` | `ProjectProofs` |
| Sessions | `Sessions` | | `MCAccounts` | `AccountsProofs` |
| Single sign-on | `SsoLogin` | | `MCRequests` | `ServerProofs` |
| Administration and shop | `AdminApi` | | `MCAccounts` | `AccountsProofs` |
| Middleware chain, cache | `RequestPath` | | `MCRequests`, `MCRequestPath` | `MiddlewareProofs` |
| Rate limiters | `RateLimits` | | `MCRequests` | `MiddlewareProofs` |
| Deduplication | `Dedup` | | `MCProgress`, `MCDedup` | `MiddlewareProofs` |
| Breaker | `CircuitBreaker` | | `MCServices` | `ServicesProofs` |
| Payments | `Payments` | | `MCServices`, `MCPayments` | `ServicesProofs` |
| Integrations | `Delivery` | | `MCServices` | `ServicesProofs` |
| WebSocket hub | `Hub` | | `MCProgress` | `ServerProofs` |
| Event bus, dead letters | `EventBus` | | `MCPlatform` | `RuntimeProofs` |
| Orchestrator, event store | `Pipeline` | | `MCPlatform` | `RuntimeProofs` |
| Scheduler | `Scheduler` | | `MCPlatform` | `RuntimeProofs` |
| Graph, parameters | `Graph`, `ParametricModel` | the second extends the first | `MCRequests`, `MCPlatform` | `EngineProofs` |
| Engines of a flight | `FlightDesign` | pure operators | through the two below | |
| Stair service | `StairService` | `StairAdvice`, `FlightDesign` | `MCPlatform` | `RuntimeProofs` |
| Optimizer | `Optimizer` | `FlightDesign` as its constant `Result` | `MCPlatform` | `EngineProofs` |
| Cutting plan | `Nesting` | | `MCPlatform` | `EngineProofs` |
| Prices | `Pricing` | | `MCPlatform` | `EngineProofs` |

**Calls that may fail.** `CalcJobs`, `Payments` and `Delivery` share one idea. A call of PostgreSQL,
Redis or a receiver is one step; `CallOutcome(kind, cancelled, ok, applied)` (`DeliveryOutcome` in `Delivery`)
relates what its caller sees (`ok`) to whether it took effect (`applied`). A call with a cancelled context
fails without effect; a store may fail without effect; and with the fault `"ack"` it takes effect and the reply is
lost. The constant `Faults` (`DeliveryFaults`) selects which of these may happen, so that a run can say under
which faults a property holds. A process that dies keeps nothing, the stores keep everything. `Sessions`,
`ProjectApi`, `AdminApi` and `Processes` let a step fail, or cut a request short, at any point.

**`CalcJobs`.** `SubmitCreate`, `SubmitEnqueue`, `SubmitMarkFailed` are the three remote calls of
`Service.SubmitCalculate`; `Dequeue`, `Begin`, `Calculate`, `SaveResult`, `SaveError` are `consume` and
the calculate handler; `CountAttempt`, `Requeue`, `AbandonBackoff` are the retry of `processJob`.
`status`, `hasResult`, `hasError` are columns of the row; `queue` is the Redis list with the attempts
each job carries. `Shutdown` cancels the worker's context, and `WorkerCrash` also stands for `main` returning
after its shutdown timeout. The payload of a job never changes and is left out; `GetByID`, a read of
it, is part of `Begin`. `runs` is a history variable.

**`JobLifecycle`** is what the client that polls a job may rely on: the graph of the status, with no way
out of `succeeded`. `CalcJobs` implements it (`Lifecycle == INSTANCE JobLifecycle WITH ... status <- status`).

**`Processes`.** `StartApi` and `StartWorker` are the checks of both `main`s (`ApiMayStart`, `WorkerStarts`) and the API's choice of a queue (`ChosenQueue`);
`Insert`, `EnqueueJob`, `MarkRowFailed` a submission the API serves meanwhile; `StopListening`, `Drained`,
`TimeIsUp`, `CloseQueue`, `ClosePool`, `ProcExit` the shutdown in its order; `Kill` everything that ends a
process without it.

**`ProjectReview`.** One project. A request with the edit permission is several steps, because the code
reads the membership first and goes on in later calls: `Authorize`, then `CalculateCheck`,
`SaveInsert`, `SaveCommit`, or `RestoreConfiguration`, or `RequestReview`; `Fail` ends it anywhere. A
transaction that takes its number in `SaveInsert` shows it to the others only in `SaveCommit`, where the
unique index has its say. `RequestReview` and `DecideReview` lock the project's row first and are one step
each. A request of the owner is one step, because nothing changes the owner's role (`OneOwner`, proved).

**`ProjectApi`.** The routes of a project end to end: a request reads the caller's membership (`Member`), does
one or two calls, writes its audit event (`Record`) and answers. One action per handler (`Handle...`)
chooses what the path names: rows of this project or of another. `wrote` and `doubtful` are history: what
took effect, and which requests a failure cut short. Revisions and the freezing review are in
`ProjectReview`; here configurations are rows with a project.

**`AdminApi`** has the same shape with tenants in place of projects; its callers are users with a session or
API keys, whose rights are read in `Authenticate` and used in later steps (`Begin` is what
the routes have in common). `chiefs` is history: the users and keys that had rights at the start.

**`Sessions`.** A request is `Send`, then `FindSession`, `CheckUser`, `RotateCreate`, `RotateDelete`, then what
its handler does, one statement a step; `Respond` brings the cookie to the browser's `jar`. Tokens are numbers in
the order of their issue; whether a session is past half of its life is a choice at each look. **`SsoLogin`**:
`Prune` and `Insert` begin a flow, `Consume`, `Claims`, `FindLinked`, `FindEmail`, `Provision`, `Link`, `Finish` are the
callback, which may be delivered twice. A row keeps its place in the order of `created_at`: the prune before an
insert keeps the newest rows (`Newest`), and `DeleteExpiredSsoStates`, the cleanup task of the worker, removes any that have
expired.

**`RequestPath`.** A GET goes through the chain from the outside in and its answer from the inside out; the
cache is the only state. `Verdict` is what the handler's side says to a caller, by identity (`requireUser`) and by address
(`InternalOnlyMiddleware`); the cache in front of it asks for the identity only (`Identified`). A probe of the readiness finds the
database in any state. **`RateLimits`** has one strategy per behaviour: buckets, the counter in Redis,
the sliding window. The history `calls` says of each call whether it was let through, and whether without having been counted (`blind`).

**`Dedup`.** One key; `Register` and `Find` are the two ways through the section under the map's mutex,
`Enter` and `Reject` the result of `TryLock`, `Deregister` and `Unlock` the deferred functions in their
order. A mutex is named after the request that made it.

**`CircuitBreaker`.** `AllowClosed`, `AllowFirstProbe`, `AllowProbe` are `allowRequest` in the states
in which it admits (a refusal changes nothing); `RecordFailure` and `RecordSuccess` are `recordResult`; `ReadState` is `State`. Time is
one bit, whether `Timeout` has passed since the last failure. Counters are kept as far as the code compares
them: failures up to the threshold, successes in `closed` up to the value at which they clear the failures.

**`Payments`.** One checkout. `OpenSession` and `CreateIntent` are `CreateCheckout`, in the code's order,
so that a webhook may come before the intent. `Deliver` starts a handler on any event, as often as
anyone likes; `CheckAndMark`, `Lookup`, `UpdateStatus`, `AppendEvent` and `Clear` are the remote calls of
`HandleStripeWebhook` and `applyVerifiedEvent`, each with the handler's own context. An event is paid or
not, and fits the amount of the intent or not. The mark's lifetime does not run out.

**`Delivery`.** The job of an event is in one place, `at[e]`, which `CalcJobs!SingleCarrier` justifies:
both kinds of jobs use the same list and the same `processJob`. `row` and `rowAttempts` are columns; `read`
is the copy of the attempts the worker read and later writes back incremented. `DeleteEndpoint` takes the
rows along by its foreign key and leaves the jobs.

**`Hub`.** `Run`, the two pumps of each connection, broadcasts and the stop. A step is a section under the lock that
does not wait, or one channel operation. `StopGracefully` is three actions under one read lock: `Stop` takes it, `SayBye` writes
a close frame to a client, beside the client's own pump, `StopDone` gives it back and closes `stop`. What ends the process sets
`crashed` and leaves nothing: a send on a closed channel or a second `close`, two writes to one connection at a time, the
change of a map another goroutine ranges over; the last two are possible outcomes, since they are noticed by chance. **`EventBus`** copies the handlers under the lock and calls them outside;
`RetryCopy`, `RetryCalls`, `RetryStore` are `RetryAll`. **`Pipeline`** runs the stages of overlapping
starts over one event store of bounded capacity. **`Scheduler`** is one `Execute`. **`Graph`** keeps
registry and adjacency apart, as the code does, and `ParametricModel` adds values and dirty marks; `misused` is history: an
id was given to a second edge, a pair of nodes one more id, or an edge the id of another pair, which the two copies do not survive.
`stale` are the parameters whose value does not fit their formula, from `Add` on; `manual` those set by hand in spite of one; `taken`
is history: those a rebuild was handed as changed in spite of a formula, which it marks clean without running it.

**`FlightDesign`** computes a flight as the engines do: number and size of steps, norms, footprint, what can be
built, parts and sheets, in whole millimetres and exact fractions. **`StairAdvice`** is the advisor and the
search for variations. **`StairService`** runs `Validate` and `Calculate` in stages under a context, and
lets the client `Apply` what it is offered. **`Optimizer`** walks the grid; what the calculation says of
a candidate is a constant, instantiated with `FlightDesign` by the run and arbitrary in the
proofs. **`Nesting`** lays the parts of one group on shelves and sheets. **`Pricing`** keeps the integers'
width (`MaxInt`) and the roundings; `work` is history, the base of a price in exact integers.

**`doubtful`** in `Payments`, `ProjectApi` and `AdminApi`, `uncertain` in `Delivery` and `disturbed`,
`missed`, `raced` in `Sessions` are history variables: what a fault or an overlap cut off in a way the code has no
answer to. The properties name it where they must, so what they say is exact: this holds for everything
but those.

## 3. The runs

Components that share no state are checked in one run: a variable `part`, chosen initially and never changed,
says which of them the behaviour is of; the others keep one of their initial states.

The properties of a passing run are named for what they are about. Most of them are a conjunction of parts: a part is a definition
of its own, with its comment, next to the property it belongs to, and the first part is the type invariant of the module.
`PROJECT.json` gives a mutant for each part, not only for each property.

| Run | Parts and instance | Property | Its parts: what it shows |
|---|---|---|---|
| `requests` | *jobs*: 2 jobs, 2 workers, 2 attempts, all six faults | `JobsAreSafe` | the row's columns agree (`ResultOrError`), one carrier (`SingleCarrier`), at most `MaxAttempts` calculations (`AttemptBudget`) |
| 1.8 M states | *path*: 2 requests, one entry, lifetime 1, time to 2 | `CacheIsTransparent` | nobody gets another's answer (`StoredIsAnonymous`), nor a page its request would be refused, but an internal one within the lifetime (`SuccessIsEarned`), nothing outdated beyond the lifetime (`OutdatedForTtl`), no packed body for who cannot read it (`PackedIsWanted`) |
| | *rate*: 2 routes, limit 2, a window of 2, time to 3, 5 calls | `LimitsAreKept` | for each limiter the bound on what it counts and lets through (`FloodIsBounded`) and who is never refused (`PatientIsAdmitted`) |
| | *sso*: 3 flows, one repeated callback, 2 addresses | `LoginsAreGenuine` | `OneLoginPerState`, `LinkedLogin`, `StatesCapped`, `AccountsGuarded` |
| | *graph*: 2 nodes and a free id | `GraphIsFaithful` | `AdjacencyFaithful`, `SortIsRight` |
| `services` | *payments*: 2 handlers, 3 events, all five faults, at most 2 of them | `PaymentsAreSafe`, `EventuallyJournalled` | `HandledOnce`, `JournalBacked`, `MarkStands`; a delivery after the faults is journalled |
| 183 k states | *breaker*: 4 callers, thresholds 3 | `BreakerIsSafe`, `OpenHoldsOff`, `Recovers` | `CountersMatchState`, `ProbeLimit`; `open` is not left before the timeout; a healthy provider closes it again |
| | *delivery*: 1 event, 3 attempts, all six faults | `DeliveryIsSafe`, `OutcomeIsFinal`, `EventuallySettled` | `SendBudget`, `RowIsTrue`, `AcceptedOnce`; delivered and dead are final; a row gets there |
| `progress` | *jobs*: 3 attempts, only the queue fails | `EventuallySettled`, `LifecycleSpec` | rows come to rest; the client's life cycle is implemented |
| 120 k states | the hub in four parts, 2 connections, channels of one: *broadcast* (no stop), *goodbye* (the stop without broadcasts), *dropped* (both, one connection), *quiet* (both, readers that ask nothing) | `HubIsConsistent`, `HubGoesOn` | a panic has one of three causes (`PanicsHaveCauses`), `RoomsHoldClients`; `HubServes`, `ReaderAnswers`, `StopEnds` |
| | *dedup*: 4 equal requests | `DedupIsSafe`, `DedupDrains` | `MutexHeldByOne`, `EntryIsLive`; everybody leaves |
| | *processes*: 2 submissions, three environments | `SubmissionsAreKept`, `ShutdownIsOrderly` | `QueuedRowsHaveJobs`; `CutOffInTime`, `ApiStops` |
| `accounts` | *sessions*: 2 administrators and a newcomer, 2 requests, 4 tokens | `AccountsAreGoverned`, `CookiesMatchSessions` | `DisabledIsSwept`, `SomeAdmin`; `InSync`, `OneSessionPerLogin` |
| 1.1 M states | *admin*: 3 users, 2 tenants, a key, 2 requests | `AdminTellsTheTruth`, `TablesAreGuarded`, `AdministratorRemains` | `AdminAnswersAreTrue`, `AdminJournalIsTrue`; `AwayUntouched`, `PowerComesFromPower`, `DeletedStaysDeleted`; a tenant keeps an administrator |
| | *review*: owner and two users, 3 editor requests | `ReviewsAreSafe`, `RevisionsAreKept`, `HistoryKept` | `OneOwner`, `StatusFollowsReviews`, `DecidedByAnother`; `RevisionsDense`, `CurrentIsSaved`; no revision or decision is rewritten |
| `platform` | *project*: 3 users, 2 projects, 2 requests | `ApiTellsTheTruth`, `BordersHold` | `AnswersAreTrue`, `JournalIsTrue`; `ProjectsKeptApart`, `TenantsKeptApart` |
| 750 k states | *bus*: 4 handlers, 1 event, 2 attempts | `NoEventForgotten` | `PriorityOrder`, `NothingUnaccounted` |
| | *pipeline*: 2 starts, 2 stages, a store of 3 | `HistoryIsTrue` | `OnePerConfig`, `HistoryOfRun`, `LateFailureOnly`, `ReplayComplete` |
| | *scheduler*: 3 tasks, 1 or 2 slots | `WorkIsBounded` | `WithinLimit`, `AnswerIsDeterministic` |
| | *model*: 3 parameters, 2 of them calculated | `RebuildRepairs` | `AlwaysRebuildable`, `DirtyExplains` |
| | *stair*: 126 forms of the four types | `AdviceHolds` | `ValidationForetells`, `OffersAreAccepted`, `RoomOffersFit`, `CalculatedCanBeMade` |
| | *optimize*: 15 requests | `OptimumIsFound` | `BestOfSeen`, `AnswerIsOptimal`, `NothingUnlessCancelled` |
| | *nest*: 788 lists of parts | `PlanCanBeCut`, `PlanIsEconomical` | `InsideSheet`, `NoOverlap`; `NoEmptySheet`, `RefusedForAPart`, `AreasAreConsistent` |
| | *price*: 86 forms of rates, words of 15 bits | `PriceIsRight` | `PriceIsExact`, `RefusedForAReason` |
| `calcjobs_orphan` | 2 attempts, disconnects | `NoOrphan` | fails: finding 1 |
| `calcjobs_drain` | 2 attempts, shutdown | `DrainedOnShutdown` | fails: finding 2 |
| `project_frozen` | 2 editor requests | `FrozenInReview` | fails: finding 3 |
| `dedup_overlap` | 3 equal requests | `NoConcurrentDuplicates` | fails: finding 4 |
| `payments_accepted` | 2 handlers, 1 event, one database failure | `AcceptedIsJournalled` | fails: finding 5 |
| `sessions_logout` | the instance of `accounts` | `LogoutRevokes` | fails: finding 6 |
| `cache_internal` | 2 requests, an internal page | `InternalStaysInside` | fails: finding 7 |

`tlc -config X.cfg MCY.tla` in this directory repeats a run.

**Bounds and why they are enough.**
* Calculations: two jobs and two workers give every pair (two carriers of one row, one worker between two
  rows). Rows meet only on the list. The attempts bound every behaviour, so nothing is cut off. Two attempts
  have a first, a last and a retry; the smaller fault set affords three, with one in the middle.
* Processes: two submissions, one before and one during the shutdown; environments with everything,
  without the secrets and without Redis are the three ways a start can go.
* Projects: three requests give two overlapping saves and a review among them, or two review requests
  around a calculation; each request is made once, which bounds revisions and reviews. Two users besides the
  owner let one lose the role the other keeps. For the routes two requests suffice: a violation of what one
  caller is told needs one other request in between; a row of each kind in each of two projects.
* Sessions: two administrators are the least that can change each other, a newcomer registers; two requests
  give every overlap of two statements; a request issues at most one token, so four (the two of the logins there are, and one for each
  request) cut nothing off; of the changes an administrator can make, the two kinds matter here: a role and a status.
* Single sign-on: one callback repeated, one concurrent, one flow given up, one place in the table of states.
* Administration: a row of each kind and tenant; the caller's power comes from a role or a key, hence the
  two kinds of initial states.
* Middleware: two requests that may share the one entry; a change of the page and a time for the entry
  to end. Limiters: a window and half of the next, so that the end of one and the start of the next meet; a stretch of
  the length of the window admits three calls with a limit of two, so that five calls exceed any bound there is. The two routes are
  interchangeable.
* Deduplication: four requests are a leaving, an entering, a newly registered and a refused one. The map
  has one key because keys share nothing but the lock of the map.
* Breaker: one caller more than a half-open period admits; the default thresholds but for the failures
  (3 for 5, which only lengthens the way to `open`). No bound besides the saturation of the counters.
* Payments: paid, expired and foreign are the three ways an event is treated; two handlers, since a third
  would be refused as the second is. `MaxFailures = 2` allows a failure and the failure of its compensation;
  the number of deliveries is not bounded.
* Integrations: events share only the endpoint; three attempts, the default of the code.
* Hub: channels of one message fill at once; two clients let a broadcast meet one that leaves. Four parts limit what begins, not
  what goes on: two clients that ask, a broadcaster and the stop meet pairwise in them, and all three with one client or with
  clients that do not ask.
* Bus: three handlers of a type with two priorities and a wildcard one; a dead letter queue of one overflows.
  Pipeline: a store of three evicts during two runs. Scheduler: one task more than slots. Graph: two nodes
  have every multigraph the ids allow; three parameters have every chain and fork.
* Stairs: each form meets the norms or breaks one check of one stage; one variation is applied, since the form it
  leads to is one a client may also have typed. What is said of an offer that was applied has a condition where the form it
  becomes is not the one that was tried: `formFromConfig` raises a landing below 600 mm to that (`Raised`; the stair may
  then be larger than the room after all) and lowers one above 5000 mm (`Ordinary`; the flight is then wider than its
  landing). Optimizer: grids that are empty, of one candidate, of several
  with ties. Cutting plan: four parts of five outlines fill shelves and sheets in every order, and lists of eight exhaust
  a sheet. Prices: words of 15 bits overflow with small numbers; every combination of four shares of three values.

`CHECK_DEADLOCK FALSE` stands in the passing runs, all of which hold parts that come to rest by design: requests
answered, rows settled, searches ended, processes stopped. Symmetry is used in runs without liveness
properties only; where parts share model values (the jobs are also the requests of *path*) it is one
permutation of all of them, under which each part is invariant.

**Fairness.** Faults, disconnects, crashes, kills and shutdowns are never forced. Weak fairness on the steps of a
live process says that its goroutines keep running: the steps of a submission and of the worker
loops (`CalcJobs`), of a request that has passed the middleware (`Dedup`; handlers are bounded by
the server's timeouts), of a handler that is at work (`Payments`), of `consume` and `processJob`
(`Delivery`), of the pumps, of a broadcast and of a stop under way (`Hub`; writes have deadlines). The hub's `Run` has strong fairness: it competes for a lock that
readers keep taking, and Go's `RWMutex` lets no reader pass a waiting writer. `Processes` assumes that the clock runs,
that `main` goes on unless the drain or the pool blocks it, and that statements the database has begun end; nothing is
assumed of Redis or of handlers between two statements. `CircuitBreaker` assumes that calls return (the provider's client has a
timeout), that time passes, and that payments keep being requested; `Recovers` needs the provider to stay healthy
from some moment on. `Payments` assumes strong fairness of the delivery of each event: a busy handler disables a
delivery again and again, and the provider repeats an event until one is answered with 200. The assumption goes on
after a 200, as if somebody resent the event; `EventuallyJournalled` shows that nothing in the
stores blocks such a delivery. That nobody need resend it would be `AcceptedIsJournalled`, which
fails (finding 5). In the composed runs each conjunct is guarded by its part.

## 4. What is proved

The theorems hold for any number of jobs, workers, users, requests, handlers, connections, submissions, callbacks, calls, stages, tasks, events and
parts, for any thresholds, limits, capacities, lifetimes and catalogues, and for every set of faults unless stated. The assumptions on the constants
are the named ASSUMEs of the modules, which TLC evaluates in the runs: positive attempts, thresholds and
limits; `Faults` a set of the modelled kinds; finite sets where something is counted; an outside value for "none"; finitely many
nodes of a graph, numbered in the order of their ids; integers that hold a rate of 100 % (`MaxInt`, of any size), quantities that are not negative; in
`Sessions`, tokens enough for the logins there are at the start; in `ProjectApi` and `AdminApi`, somebody who
creates the project or administers the tenant; lists of at least one part (a group without parts is not nested) and a catalogue of natural lengths in which of two
sheets of a material one contains the other (as in `StandardSheets`); requests of the
optimizer with integer bounds.

Every safety property of the passing runs is a theorem but for `AdviceHolds` of `platform`, of which two of
the parts are.

| Module | Theorems | Inductive invariant and why it is needed |
|---|---|---|
| `CalcJobsProofs` | `TypeCorrect`, `SingleCarrierHolds`, `AttemptBudgetHolds`, `ResultOrErrorHolds`; without the fault `"ack"`: `ImplementsLifecycle`, `SucceededStays`; with queue failures only: `NoOrphanHolds`; together: `JobsAreSafeHolds` | `IInv` ties `runs` of a row to the attempts of the job that carries it (`QueueBudget`, `WorkerBudget`: the budget is not inductive alone, a job with few attempts and many runs would break it) and says that a row not yet pushed has no carrier (`NotPushed`). The refinement adds `OpenInv`: what the status is at each place of the worker and of the submission. `NoOrphanHolds` adds `FailedIsSaved`: a failed attempt has left its trace in the row before the job can be lost. |
| `ProjectProofs`: rows | `TypeCorrect`, `RevisionsDenseHolds`, `CurrentIsSavedHolds`, `OneOwnerHolds`, `StatusFollowsReviewsHolds`, `DecidedByAnotherHolds`, `HistoryKeptHolds`; together: `ReviewsAreSafeHolds`, `RevisionsAreKeptHolds` | `Consistent` takes owner, status and decided reviews together, since a decision is taken by whoever is owner then, and adds that a request under way has a user (`RequestHasUser`) and that a saved revision belongs to a request that is over (`SavedIsDone`), which is why no commit rewrites one. `Numbering` bounds the number an open save holds by the next one: others may use it up, but no gap opens below it, so the unique index lets it in only while it is the next. |
| `ProjectProofs`: routes | `ApiIsTruthful` (`ApiTellsTheTruth`), `BordersAreKept` (`BordersHold`) | `Inv` adds `Fenced`, what the rows of the other project and tenant are and that every row of a request is this project's, and `Progress`, what a request can have left behind at each place of its handler: nothing before its write, its row after it, its audit event only with its answer. Every step passes, writes or answers (`Passes` and its companions); a lemma for each kind, and each handler is shown to be one of them. |
| `AccountsProofs`: sessions | `SessionsWellFormed`, `AccountsGoverned` (`AccountsAreGoverned`), `CookiesMatch` (`CookiesMatchSessions`) | `Shapely`: every token in a cookie or a request was issued to that user (`OwnTokens`), and what a request holds at each place (`Shape`). `Governed` adds `InCommand`: while no two changes overlapped, whoever is past the check of the role is still an active administrator, or the last administrator could be removed by one who no longer is. `Matched` adds `Alone`, `Holding` and `OneEach`: an undisturbed request leads to a session that is there, and the two sessions of a rotation under way are the only ones of one login. |
| `AccountsProofs`: administration | `AdminTellsIt` (`AdminTellsTheTruth`), `TablesGuarded` (`TablesAreGuarded`), `AdministratorStays` (`AdministratorRemains`) | `Basis` says how far a request is and what it has left (`Progress`). `Contained` is why power comes from power: while no one who had rights at the start has used one (`Untold`), whoever is on the way to a statement needs no right or had it at the start. |
| `MiddlewareProofs`: cache | `CacheTellsTheTruth` (`CacheIsTransparent`) | `PathInv`: what a stored entry is (`EntryFine`) and what a request is made of before it passes the cache (`Fetched`) and when it was answered from it (`FromCache`): a success the handler would refuse is in neither unless the page is internal and came from the cache in time. |
| `MiddlewareProofs`: limiters | `LimitsHold` (`LimitsAreKept`) | A bucket that counts began with an admitted call, none later is outside of it, and the window before it admitted no more than the limit (`Running`); where there is none, the limit was not exceeded lately (`Quiet`): without the latter two windows could meet with three times the limit. `LogFine`: the log of the sliding window holds every admitted call that still counts. `CounterFine`: a Redis counter with an expiry goes in time. `KeyFine`: the counted calls an address gets through with Redis are those of the present key, no more than the limit, and fewer than the limit before it, none of which counts any longer when the key expires. |
| `MiddlewareProofs`: deduplication | `MutexHeldByOneHolds`, `EntryIsLiveHolds`, `RejectedWhenBusyHolds`; together: `DedupIsSafeHolds` | `DedupSafe` adds `MutexIsPublished`: nobody works with the mutex of a request that has not been through the map. Otherwise a registration could lock a mutex somebody else holds. |
| `ServicesProofs`: breaker | `CountersMatchStateHolds`, `ProbeLimitHolds`, `OpenHoldsOffHolds`; together: `BreakerIsSafeHolds` | `Bounded` is the type with its bounds and both properties; the cardinality of the probes needs finiteness of the set. |
| `ServicesProofs`: payments | `HandledOnceHolds`, `JournalBackedHolds`, `MarkStandsHolds`; together: `PaymentsAreSafeHolds` | `Safe` adds `Owned`: a handler that is at work on an event owns the event's mark. Without it two handlers might both be past `CheckAndMark`. |
| `ServicesProofs`: integrations | `SendBudgetHolds`, `RowIsTrueHolds`, `AcceptedOnceHolds`, `OutcomeIsFinalHolds`; together: `DeliveryIsSafeHolds` | `Sound` relates the three counters (requests sent, attempts of the job, attempts of the row or of the copy read) at each place of the job: the dead letter is written from the row's counter, the retries stop by the job's. |
| `ServerProofs`: hub | `HubConsistent` (`HubIsConsistent`) | `HubInv`: whom the hub knows has been registered (`ClientsAreJoined`), and as long as it runs it knows whoever was (`JoinedAreKnown`) and every client a broadcast still has to do (`TodoIsKnown`). A closed channel belongs to a connection whose reader is gone, until a broadcast drops a client or the hub stops (`ClosedHaveLeft`): so nothing is sent to it and it is not closed again. A process that is gone has no state left (`GoneKeeps`), and a close frame can only meet a pump while the clients are told. |
| `ServerProofs`: processes | `SubmissionsKept` (`SubmissionsAreKept`), `CutOffOnlyInTime` | `ProcInv`: queue and pool are open while a request may need them, and at rest are all requests or the time was up when they are not (`OpenWhileNeeded`); in the memory of the API is only what was accepted (`QueuedWasAccepted`). `CutOffOnlyInTime` is `CutOffInTime`, the safety half of `ShutdownIsOrderly`. |
| `ServerProofs`: single sign-on | `LoginsGenuine` (`LoginsAreGenuine`) | `SsoInv`: the state of a callback that was admitted is gone (`ConsumedOnce`); between prune and insert the table is below its limit unless the flow was overtaken (`PrunedIsSmall`), which counts rows; callbacks of one subject agree on its email unless it moved (`ClaimsAgree`); who was barred stays so (`BarredStay`). |
| `RuntimeProofs`: event bus | `NothingForgotten` (`NoEventForgotten`) | `BusInv`: a pair that is owed is in exactly one of three places, ahead of its publication, done or failed for good (`Accounted`), and a publication calls nobody twice, which is why a handler's turn takes one pair out of the first (`Publications`). Without `Copied`, that nothing is in a copy while no retry runs, the retry could forget what it overwrites. `InsertedMeans` and `WithoutMeans` say what insertion and removal do to a list of any length; handlers of one priority stay in order because whoever is on a list has subscribed before who comes (`Subscribed`). |
| `RuntimeProofs`: orchestrator, event store | `HistoryTrue` (`HistoryIsTrue`) | `PipeInv`: the last entry a run has in the store tells how far the run is (`NewestTells`), so that the entry to come joins it without a gap; after an entry of a run that still goes on, another run of its configuration only stores a late failure (`Undisturbed`). `Shifted` is the store after an append, full or not: neighbours before it are neighbours after it (`OldPairsMove`), whatever has been evicted. |
| `RuntimeProofs`: scheduler | `WorkBounded` (`WorkIsBounded`) | `SchedulerInv`: with one slot a task has started only if those before it ended well (`InTurn`), so that the first error is also the least; an error belongs to a task that is done, and a cancelled one to a cancelled context (`ErrorsAreReal`). |
| `RuntimeProofs`: stair service | `AnswersAgree` (`ValidationForetells` and `CalculatedCanBeMade`, parts of `AdviceHolds`) | `ServiceInv`: what the stages behind the present one have found out about the form (`Staged`), whatever the solver, the norms and the sheets say of it; both requests admit and refuse the same forms with the same issues (`VerdictStands`, `AnswerStands`), because a verdict is forgotten when the form changes. |
| `EngineProofs`: optimizer | `SearchHoldsTheBest`, `AnswersAreOptimal`, `EmptyAnswersAreRight`; together: `OptimumIsFoundHolds` | `SearchInv` adds `Ends` to the three properties: what the cursor is when the search has ended. `AdvancePasses` says that one step of the nested loops passes exactly one candidate, `FirstBestStep` that the first of the best of the passed ones is kept by a strict comparison; the value of a candidate is arbitrary. |
| `EngineProofs`: cutting plan | `PartsStayInside`, `PartsNeverOverlap`; together: `PlanCanBeCutHolds` | `OnShelf` ties a placed part to its shelf: below `used`, not higher than the shelf; `Stacked` puts the shelves of the open sheet above each other. Without them nothing keeps a part of a lower shelf from one of the next. `Chosen` says that the chosen sheet takes every part alone, `BegunOnly` that no part lies on a sheet to come. |
| `EngineProofs`: cutting plan, economy | `PlanEconomical` (`PlanIsEconomical`) | `EconInv`: the area that is packed stays below what the shelves cover (`Covered`: sums over the placed parts and over the shelves, which a step changes in one place) and every sheet begun carries a part (`Carrying`). `NoneSmaller`: a sheet that takes every part of the group is no smaller than the chosen one, which needs the sheets of a material to contain each other. |
| `EngineProofs`: dependency graph | `GraphFaithful` (`GraphIsFaithful`) | `GraphInv`: unless ids were misused, registry and adjacency agree and the edges are regular (`Regular`: an id per pair, a pair per id), in the graph and in its snapshot; without the snapshot `Restore` could bring anything back. `ReachedIs`: the search from a node meets the least set closed under successors. `KahnInv` holds after every round of the sort: a degree is the number of predecessors not yet sorted, and what is ready has none. `LeftMeansCycle`: of nodes that all come behind another one of them, the one that the fewest lead to lies on a cycle. |
| `EngineProofs`: parametric model | `ModelRepaired` (`RebuildRepairs`) | `ModelInv`: the model never misuses an id, has no cycle (`Acyclic`: what a dependency adds to reach does not lead back, `AcyclicWithEdge`), and what is stale, or set in spite of its formula, is reached from something dirty or taken (`Caused`). `PlanIs` says what a plan contains and in which order; `EffectsHold` that after the first formulas of it what is stale is still to come or explained: so a formula may fail anywhere. |
| `EngineProofs`: prices | `PricesRight` (`PriceIsRight`) | A request is one step and its answer depends on nothing before it, so the property is its own invariant and the work is in the arithmetic. `MachineInt`: the integer that is kept is the exact one as long as that is in range. `MulRateIs`: a share is the exact product, rounded half up. `BreakdownIs` and `FourRoundings`: of four such roundings, each carried through the factors behind it (`Carried`), no more than the stated bound is left. `StairIsCharged`, `ProjectIsCharged`: the amounts are those of the package or of the items. `LinesAreRight`: a breakdown of valid amounts passes its own check, so that nothing is refused but for a reason. |

Each proof has the same three facts: the initial states satisfy the inductive invariant, a step preserves it (one
lemma or step per action), and it implies the property; the last step combines them with PTL. Each component has its type
invariant as a theorem, or as the first part of its property, but for the stair service.
`ImplementsLifecycle` excludes `"ack"` because it must: when the push takes effect and its reply is
lost, the API marks the row failed while a worker carries it, and that late write may hit a row that has
already succeeded. The theorems named "together" state the properties of the runs as the conjunction of the ones before
them. `SucceededStays` (`SucceededIsFinal`), `RejectedWhenBusyHolds` (`RejectedWhenBusy`) and `NoOrphanHolds` (`NoOrphan` while nothing
but the queue fails) are proved and not repeated by a passing run.

Some properties say more, or say it better, because of their proofs. `PowerComesFromPower` held in the instance of its run and
not for every value of the constants: with a third request a user promoted by an administrator is an administrator who did
not start as one; it now asks who has used a right (`chiefs`, `wrote`). The types in `CacheIsTransparent` and `LimitsAreKept` are
now complete, and say that the lifetime of an entry is counted from its storing. And the proof about `SsoLogin` asked which row a prune removes and who else removes
rows, which the model now has. `HistoryOfRun` allowed a second end after the first, and now asks that a completed run ends
after its last stage.

Three properties name the case the code has no answer to instead of leaving it out: `CacheIsTransparent` of internal
pages, `HubIsConsistent` of what ends the process, `RebuildRepairs` of parameters handed to a rebuild in spite of their formula.
The bound in `LimitsAreKept` for the limiter in Redis is over all routes, which share its key.

Three more were wrong and are corrected, since TLC had not met the case: the bound of `PriceIsExact` for discounts above 100 %;
`AdjacencyFaithful`, where an edge has the id that another pair would get by default; and `RoomOffersFit` and `OffersAreAccepted`
for landings the form raises or lowers (section 3). `Reached`, `Kahn`, `Selected` and `Effects` are recursive functions over the rounds of the loop they stand for, and the
sums of `Nesting` and `Pricing` are folds. What they compute for data of any size is proved by induction over the set of the numbers
up to which it holds: such a set of natural numbers that is not all of them has a least number outside of it (`LeastNatural`, from the
well-founded order of the library), and the lemmas `Induction`, `Iteration` and `SumsExist` rest on that.

**Only model-checked.**
* Liveness, which TLAPS does not reach: `EventuallySettled` of calculations and of deliveries, `EventuallyJournalled`,
  `DedupDrains`, `Recovers`, `HubGoesOn`, and `ApiStops` in `ShutdownIsOrderly`.
* `OffersAreAccepted` and `RoomOffersFit`, the other parts of `AdviceHolds`: what is offered was tried by other code than the code that judges it
  later, and is tried against the sheets in part or not at all. That it passes nevertheless is a fact about the numbers of the catalogue, the norms and the
  usual sizes of stairs, not about the steps of the service; for a material of another size it would be false. `ServiceTypeOK`, the type of
  the service, is checked with them.

## 5. Findings

Each is a run that TLC refutes against a sentence of the repository; the sentences are quoted in `PROJECT.json`.

1. **A disconnected client strands a row** (`calcjobs_orphan`, `src/internal/application/jobs/service.go:146`).
   The clean-up after a failed push runs with the request's context. If the push failed because that context
   was cancelled, so does the clean-up, and the row stays `pending` without a job.
2. **A worker does not drain** (`calcjobs_drain`, `src/cmd/worker/main.go:165`). The shutdown cancels the
   context the job in progress stores its outcome with: the calculation may end, but the row stays `running`.
3. **A review does not freeze the configuration** (`project_frozen`,
   `src/internal/application/project/service.go:274`). The status is checked before the pipeline and not
   again when its result is saved. `RestoreConfiguration` does not look at the status at all.
4. **Equal requests can overlap** (`dedup_overlap`, `src/internal/transport/http/dedup.go:31`). A request that
   read the map just before the first one left enters under an orphaned mutex, while a third registers another.
5. **An accepted event can be missing from the journal** (`payments_accepted`,
   `src/internal/infrastructure/payments/stripe_webhook.go:85`). A duplicate is answered with 200 while the
   first delivery is still at work and may fail.
6. **A logout may leave its session alive** (`sessions_logout`, `src/internal/transport/http/auth.go`). The middleware has
   just rotated the session; the handler deletes the token the request came with, whose row is gone already.
7. **An internal page leaves the internal network** (`cache_internal`, `src/internal/transport/http/responsecache.go:79`). The guard
   of `/metrics`, `/swagger` and the API description looks at the caller's address behind the response cache, which does not: an answer to
   a caller inside is given to everybody for the lifetime of its entry.

Stated in the modules, violated, and without a run of their own:
* against a sentence of the repository: `RatesAreTheUsers` (`Pricing`: the client's percentages are the keys of a map, of equal ones only
  one replaces its default, where `dto.go:48` has all of them do so), `FloodStaysBounded` (`RateLimits`: calls Redis does not answer are
  let through, where EDR-0014, 3.2, promises the limiter in memory), `NobodyIsLockedOut` (`RateLimits`: an EXPIRE that is lost leaves a counter
  for ever), `StopIsGraceful` (`Hub`: a close frame may meet a pump's write and end the process);
* promised by no document: `ReadyIsProbed` (`RequestPath`: the readiness answer is cached), `SucceededIsFinal` with the fault `"ack"`
  (`CalcJobs`: a late `MarkFailed`), `BroadcastIsHarmless` (`Hub`: a dropped client stays in its rooms), `CleanFits` (`ParametricModel`: a
  calculated parameter handed to a rebuild is marked clean), `SilenceMeansItFits`, `VariationsKeepTheirPromise` and `LandingDepthIsTheUsers` (`StairService`),
  `NothingMeansNothing` and `AskedBoundsKept` (`Optimizer`), `NeverWrapped` (`Pricing`), `AcceptedIsReachable` (`Processes`), `MemberAddedRecorded` (`ProjectApi`), `KeysNeedNoToken` and
  `ExportRecorded` (`AdminApi`).

The passing properties beside them say exactly what does hold.

Observed besides: the owner's own request for a review can be decided by nobody (`ReviewsAreSafe` says why); of two good events
about one intent the one that writes last decides its status, so that a late failure turns a paid intent into a failed one.

## 6. What is not modelled, and why

Within the modelled components: the in-memory queue's jobs once accepted (nobody reads them), the backoff's durations,
`created_at` of configurations (so `GetLatestCalculation` is not compared with the current configuration), creation
and deletion of projects, the generic payment webhook (the same steps without the mark), signature checks, encryption of
endpoint secrets, the lifetime of a mark, the addresses a limiter reads from proxy headers, password hashing, the exchange with the
identity provider. Of the engines: texts and titles, the geometry's meshes and railings beyond what can be built and its
footprint, angles other than by their tangents, the fractions of a millimetre of a suggested spiral radius.

Components that are left out: meshes, CAD and document export, object storage behind its keys, tokens and the OIDC client, observability,
GraphQL and the DTOs, all of which convert or do I/O; the in-memory search engine and the TTL cache of
`infrastructure/cache`, which no production code calls; the pipeline adapter, which nothing constructs; the AI assistant, whose
behaviour is an external model's; migrations. `frontend`, `frontend-store`, `deploy` and `deployments` are
clients and configuration.

## 7. Conventions

Definitions keep the source's names where there is one (`MarkFailed`, `CheckAndMark`, `AllowRequest`); modules that
run in one instance have names that do not meet, so a component's `Init`, `Next`, `Spec` and `TypeOK` carry
its name (`BreakerInit`, `ApiNext`, `DeliverySpec`). `PROJECT.json` gives the lines each definition stands for. A step is what the
code does between two points where another process can run: between two remote calls, or one section under a lock. Values
of no concern to a property (payloads, prices, names) are absent. A module states what it assumes of its constants as an ASSUME of
its own; `Graph`, `ParametricModel`, `Pricing` and `StairService` state it as a definition, which theorems have as a hypothesis and the `MC` modules assume.

## 8. Plan

Done, in this order: calculations, projects, deduplication, breaker, payments, integrations; sessions and SSO; hub, bus,
orchestrator, scheduler, graph; the routes of projects and of the administration; middleware and limiters; the stair
service with its engines, optimizer, cutting plan, prices; the processes.

Next:

1. **Proofs**: `OffersAreAccepted` for one type of stair and one material, from the numbers of its catalogue; the type of the
   stair service, from a record type of the forms.
2. **Abstract specifications**: an interface of a durable queue that both `CalcJobs` and `Delivery` implement; an
   atomic register of sessions that `Sessions` implements while no request is disturbed.
3. **Projects, extended**: `created_at` and `GetLatestCalculation`, so that the answer can be compared with the
   current configuration.
4. **Payments, extended** with the generic webhook and the expiry of marks.

The suite is meant to stay at about a dozen runs. Once the code is repaired, the violations join the run of their
component.
