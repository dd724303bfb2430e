# A TLA+ model of the AI proxy gateway

The repository is an API gateway in Go. Clients send OpenAI-style requests to it; it authenticates
them, routes a model name or alias to a chain of upstream models, enforces policy, rate limits and
token quotas, forwards the request to one upstream service (9Router) with fallback, and records
metrics and audit events. An administrator changes keys, routes, deny lists and outbound proxy
profiles through a management API, or through a terminal UI on top of it. All this state is in
memory and is shared by one goroutine per HTTP request, each store under its own lock. No lock is
held from one store to the next, or across the upstream call, and that is where the interesting
behaviours are.

This directory holds TLA+ modules of that system, TLC configurations that explore small instances
of it, and TLAPS proofs for every instance. `PROJECT.json` maps every definition that models code
to the lines it models. Paths below are relative to `src/`.

## 1. Inventory

| component | state | operations | interacts with | hard behaviour | correct when |
|---|---|---|---|---|---|
| circuit breaker, `internal/routing/circuit.go` | `targets`: failures, state and last failure time of each target that ever failed | Allow, RecordSuccess, RecordFailure, GetState | called by the routing engine | reports arrive after the circuit changed; Allow changes state although nothing may be sent | a target is refused only for recent, consecutive, reported failures, and comes back |
| routing engine, `internal/routing/engine.go` | `aliases` | SetAlias, DeleteAlias, GetAliases, Resolve, RecordResult | breaker; called by the data plane and the routes handlers | a resolution asks the breaker target by target under the read lock while others report | the chain holds the admitted targets, in order |
| rate limiter, `internal/limiter/limiter.go` | `windows`: timestamps per key and window | Allow (minute), AllowRPS (second) | called by the data plane | bursts across window boundaries, limits that change under a full window | no window holds more grants than the limit; Retry-After is exact |
| token quota, `internal/quota/quota.go` | `usage`: daily and monthly tokens per key | Allow, Record | called by the data plane before and after the upstream call | check and record are a whole upstream call apart | usage is what was answered; overshoot is bounded |
| policy engine, `internal/policy/engine.go` | global deny lists | SetGlobalDeny, EvaluateModel, EvaluateProvider | called by the data plane | one decision, many targets | global deny wins, then key deny, then key allow |
| data plane handler, `internal/api/dataplane.go` | the local variables of each request | ChatCompletions, ListModels | all of the above, adapter, metrics, audit | a dozen early returns, a fallback loop, a body passed on chunk by chunk, clients that leave, upstreams that hang or break off | the status says what was spent, sent, counted and audited; an answer that ends has what the upstream sent |
| authentication and keys, `internal/auth/auth.go` | `keys` | Create, List, FindByHash, Update, Delete, AuthMiddleware | in front of the data plane; changed by the management API | a request keeps the record it was authenticated with | no key reappears, none is lost |
| management handlers, `internal/api/management.go` | none beyond the handler's variables | keys, routes, policies, proxies, overview | every store, audit | read, change and write in separate critical sections | no update is lost, every change is audited |
| proxy profiles, `internal/proxy/profile.go` | `profiles`, by pointer | List, Get, Save, Delete | management handlers | the stored object is shared and changed without a lock; Save inserts | deleted profiles stay deleted |
| audit log, `internal/audit/audit.go` | the newest events, up to a cap | Log, List | data plane, router, management | reaching its cap, readers meanwhile | the newest events survive |
| metrics, `internal/telemetry/metrics.go` | counters | one method per counter | data plane | which failure counts when | every outage counts |
| 9Router adapter, `internal/ninerouter/client.go` | none | ListModels, CheckHealth, ForwardChatCompletion | upstream | no answer, an error, a broken stream | every wait ends |
| readiness, `internal/health/health.go` | the registered checkers | Live, Ready | stores, adapter | a slow dependency eats the budget of the next | says ready only if all are up, in bounded time |
| migrator, `internal/store/migrator.go` | `schema_migrations` | RunMigrations | PostgreSQL, main | two gateways at once, a crash or a lost answer at a COMMIT, 30 s for all of it | each migration is applied once, in order; success is reported only of a complete schema |
| gateway process, `cmd/proxygateway-api/main.go` | what it could open | start, serve, stop | everything | stores that do not open, a failed migration, SIGTERM with requests in flight, SIGKILL | starting and stopping end |
| terminal UI, `internal/tui` | the screen, the lists, the cursor | Update on keys and fetched messages | management API | a refresh between choosing and confirming | what is confirmed is what was chosen |
| router, middleware, config, admin token, transport | none, or set once | | | | |

The behaviours that are hard to test here are listed one by one, at their lines, under "hazards"
in `PROJECT.json`.

## 2. Modules

| module | what it is |
|---|---|
| `Breaker` | the breaker's table, one operator per method |
| `CircuitBreaker` | the breaker under concurrent callers: ask, leave, answer, report |
| `BreakerContract` | what the breaker promises: a streak and a timer for each target, no states; the data plane implements it too |
| `BreakerProofs` | what each operation does to the table: the lemmas that the breaker's proofs and the data plane's share |
| `CircuitBreakerProofs` | type, inductive invariant and refinement, for every instance |
| `RateLimiter` | Allow and AllowRPS over a discrete clock, with the whole history kept beside it |
| `SlidingWindow` | what a limiter promises: a verdict on the whole history, nothing purged |
| `RateLimiterProofs` | the window bound and the refinement, for every instance |
| `Policy`, `Quota` | pure decisions of the policy engine and the token counter |
| `TokenQuota` | concurrent requests that check, fail and record while limits change; the data plane implements it |
| `TokenQuotaProofs` | types and the bound on the overshoot, for any number of requests |
| `DataPlane` | ChatCompletions and ListModels, composed of Breaker, Policy, Quota and the limiter's contract, with an administrator, the clock, clients and the upstream |
| `DataPlaneProperties` | what the data plane must guarantee |
| `DataPlaneProofs` | types, status, outages, usage, attempts and the refinements of `TokenQuota` and `BreakerContract`, for any number of requests and routes of any length |
| `AuditLog` | the capped log as an operator on sequences, and what it promises to keep |
| `ManagementPlane` | the handlers on keys, profiles, routes and the deny list, step by step, over the audit log |
| `ManagementPlaneProofs` | types, the newest events, no lost or resurrected record, audit of every change |
| `TuiConsole` | the terminal UI: dialogs, writes, background fetches that arrive in any order |
| `TuiConsoleProofs` | edits go to the record the form was filled from; lists show what the API can have answered |
| `Migrator` | RunMigrations statement by statement, in any number of gateways on one PostgreSQL |
| `Schema` | what the migrator promises: the migrations one by one, in order, each once |
| `Relay` | how a body gets from the upstream to the client, with the buffer below the handler |
| `Readiness` | GET /health/ready: checkers in sequence under one budget |
| `Gateway` | the life of the processes: composes `Migrator`, `Relay` and `Readiness` |
| `GatewayProofs` | the inductive invariant of the migrator and that it implements `Schema`; then the same, relay and readiness for whole processes that start, serve, stop and are killed |
| `MC*` | the small instances TLC explores; each `.cfg` says in its first line what it is for |

### How state and actions correspond to the code

*Grain.* A step ends where the code gives up a lock or waits for something outside. A method that
runs under one mutex is one step. `Resolve` holds only a read lock, so each question to the breaker
is a step of its own (`AskNext`), and writers of `aliases` wait (`NobodyResolving`).

*Breaker.* `targets` is the Go map: a target without an entry has never failed. `quiet` stands for
`time.Since(lastFailureTime)` and stops at the cooldown, `failures` stops at `FailureCap`. The code
only asks whether each has reached its limit, so both are exact. `RecordSuccess` closes a circuit
from every state, as the code does.

*Limiter.* The slice of timestamps is a set of stamps `[n, at]`; `n` is the order in the slice.
`grants` is a history variable, never purged. A key has two entries, `keyID` and `keyID:rps`,
which are two buckets of different length. `AllowRPS` is complete in the package but no handler
calls it.

*Quota.* `Admit` is the comparison of `Allow`, which sets nothing aside. `Settle` is `Record`.
The limits a request is checked against are those its handler got from the key record (`seen`),
which `UpdateKey` may replace and `DeleteKey` remove meanwhile: `limits` has an entry for each key
in the store. Everything else that can end a request before the check, a model list among it, is
`TurnAway`. `Pending` is what the requests in flight may still be charged, as a set of tokens.
`ImplementsQuota` (DataPlaneProperties) maps the data plane to this: a handler has arrived from the
key check to `CheckQuota`, and is in flight from there until it is answered.

*Data plane.* `req[r]` holds the handler's variables: the copied key record, what is left to ask of
the route, the chain, how many attempts were sent, the last outcome. `ledger[r]` is history: what
the request did to everyone else (slot, tokens, targets refused, attempts with outcomes, counted
errors, events). A
client that leaves cancels its context, so all its later attempts fail as transport errors. The
limiter is taken at the contract that `RateLimiterProofs` establishes, with a counter for the live
stamps instead of the clock. Wrong names, missing bodies and unreadable JSON are one rejection.
ListModels shares the key check, then `rest` is the upstream's list and `chain` what the policy left
of it, decided model by model while the deny list may change. `DataPlane` ends when the status is
decided; passing the body on is `Relay`. `ImplementsBreaker` maps all this to `BreakerContract`: a
caller is one turn of a request's loop in Resolve (`Callers`), "refused" if the target was left out,
"admitted" while it waits in the chain for its attempt and through the attempt, then "succeeded" or
"failed" until `RecordResult`. What the request does not come to use stays admitted for ever.

*Passing the body on.* A body is a number of chunks: `sent` by the upstream, `read` by the loop,
`got` by the client. The handler's writer is the middleware's `responseWriter`; it embeds the
interface `http.ResponseWriter`, so the type assertion to `http.Flusher` fails (`CanFlush`) and
net/http sends when its buffer is full and when the handler returns. A body, of a stream or not, may
come with a Content-Length (`sized`) or without: a chunked one has none, and neither has one that
the transport has unpacked. With one, the client notices that the body was cut; without, its end
looks the same whether it was reached or not.

*Readiness.* The checkers are asked in the order main registered them. PostgreSQL's and 9Router's
give up with the context; the Redis client may go on for its own timeouts (`Overrun`), since
it looks at the context between attempts only. A store that did not open is not registered.

*Migrator.* One statement is one step. A transaction takes effect at its COMMIT; `INSERT` waits for
another transaction that inserted the same version, and fails once that is committed. A COMMIT
whose process died, or gave up waiting, may still be carried out (`orphans`, `OrphanEnds`). `Fail`
is every error return, the 30 s context included. `applied` is history.

*Processes.* `phase` is where main is. `Die` takes what a process was doing with it: its calls are
lost to their clients, its migration is left to the database. `Serve` follows a failed migration as
well as a successful one, as main only logs a warning.

*Management plane.* `keys` holds copies, as `List` returns copies: a handler works on
`req[r].copy`. `profiles` holds pointers, as `Get` returns the stored pointer: a handler changes
`objects[p]` itself, field by field, in the order of the assignments. Ids are random, so none comes
up twice. Routes and the deny list are replaced in one critical section. Every handler that changed
something logs last, and the log keeps its newest `MaxEvents`. `latest`, `deleted`, `logged` and
`changes` are history. `changes` notes who altered what, and not where a handler says it did: `Next`
compares what is stored under each id before and after a step (`Altered`), so a step that alters
something else, or alters in silence, is noted too. The `GET` of a profile is a step that changes
nothing; what its encoder reads meanwhile is left out.

*Terminal UI.* One key is one step, with the write it makes (the code calls the API inside Update)
and the fetch it starts. A fetch reads its lists one after the other and is delivered as a step of
its own. `m.selected` is never assigned in the code, so the selected row is the first. A record is
its id and whether it is enabled; text in forms, the policies form and screens without a list are
left out. `wrote`, and the row noted in a confirmation, are history.

*Definitions marked "Wrong on purpose"* stand before the definition they spoil. They are not part
of the model: each is a plausible bug, recorded in `PROJECT.json` under "mutants", and shows that
TLC would notice it: put in place of the right definition, it violates the property named there.

## 3. Runs

Eight runs pass; between them every action of their next-state relations is taken.

| run | instance | what it shows |
|---|---|---|
| `breaker` | 2 targets, 2 callers, threshold 2, cooldown 2 | the count decides the state; GetState and Allow agree; the breaker implements its contract; a healed upstream is readmitted for good |
| `limiter` | a minute bucket (3 ticks) and a second bucket (1 tick), limits 0 to 2, 4 ticks | purging forgets nothing that counts, no window over the past holds too much, Retry-After is exact, the limiter implements its contract |
| `quota` | 3 requests of 1 key, estimates 1 and 2, limits none, 2, 3; the key may be changed and deleted | a quota is passed only when a request is admitted, and then by at most one estimate for each other request in flight |
| `data_plane_failover` | 2 requests for one alias of 2 models; transport errors, 5xx, success, hang-ups | status explains effects; outages are counted and carry the right code; usage is conserved; only attempts harm a target; the data plane implements `BreakerContract`: a target is left out of a chain exactly as the reported results say, and each attempt is reported once, for its own target; under fairness every request is answered |
| `data_plane_governance` | 2 requests, chats or model lists, limited or disabled key; route, deny list and key change meanwhile | status and usage as above for every refusal, whatever the administrator does in between; the data plane implements `TokenQuota` |
| `management` | 4 requests on one key, one profile, one route and the deny list; records of 2 fields; a log of 2 events | no race loses a record or brings a key back; a handler that altered what is stored, in whichever of its steps, altered what it is about and has logged it by the time it answers, and one that refused its request altered and logged nothing; the log holds the newest events in their order |
| `tui` | keys and routes, one record each, two fetches in flight, other administrators | an edit goes to the record it was filled from; under fairness the screen catches up with the server |
| `gateway` | 2 gateways, 2 migrations, one call of 2 chunks or one probe, buffer of 1 chunk | the gateways implement `Schema`; success is reported only of a complete schema; an answer that ends has every chunk the upstream sent, and is whole unless it has no Content-Length; readiness names every dependency in bounded time; under fairness starting and stopping end |

Four runs end in a counterexample, and each is a disagreement between the code and what the
repository says of it (quoted under "findings").

| run | what happens |
|---|---|
| `data_plane_every_attempt_is_allowed` | the global deny list forbids the fallback model from the start; policy looks at the first admitted target only, its attempt fails, and the next goes to the forbidden model |
| `management_lost_update` | two concurrent PUTs on a key: the second writes back what it read before the first |
| `tui_confirmed_record` | a list that arrives between `d` and `y` puts another record under the cursor, and that one is deleted |
| `gateway_stream` | a chunk of a stream stays in the server's buffer while the upstream pauses, because the middleware hides the Flusher |

Other disagreements were met while modelling and are part of the modelled behaviour, but have no run
of their own:

- a client that hangs up cancels the attempt, which is recorded as a failure of the target
  (`dataplane.go:278`), so five impatient clients open the circuit of a healthy model;
  `docs/operations/troubleshooting.md:10` names only 5xx errors as the cause;
- no attempt has a deadline (`client.go:159-165`), so a silent upstream is never given up and no
  fallback is tried; `docs/features/FEAT-008-routing-engine.md:31` promises fallback on timeout;
- an answer without a Content-Length whose upstream breaks off ends like one that is complete: the
  loop of a stream returns on any error (`dataplane.go:373-375`), and the error of `io.Copy` is
  dropped (`dataplane.go:380`); `CompleteMeansWhole` excepts exactly this case;
- a store that did not open has no checker, and a failed migration has none either, so readiness is
  200 without a database or with half a schema; `docs/PHASE-1-COMPLETION-REPORT.md:47` says 503 if
  degraded;
- a process told to stop cuts off what is in flight after its deadline, 10 s, while a stream may take
  longer; `docs/operations/deployment-runbook.md:72` has active requests complete in that window;
- keys, routes, deny lists, usage and audit events are in memory only and a restart starts anew;
  `docs/specs/01-PRD.md:58` says "Persist configuration, usage, and audit data";
- an event's time is taken before the log's lock, so the log is in the order of the lock and not
  always of the times; data-plane and configuration events share one capped log, so busy traffic
  pushes `CONFIG_CHANGED` events out;
- upstream failures of `GET /v1/models` are neither counted as upstream errors nor reported to the
  breaker;
- a late success closes an OPEN circuit before its cooldown; `docs/specs/03-ARCHITECTURE.md:315-321`
  draws no such edge;
- `quota.go:30-31` says Allow reserves the estimate; it reserves nothing, which is why `quota`
  bounds an overshoot instead of excluding it;
- a transport error is counted only when it is the last failure of a chain that failed, so
  `dataplane_metrics_test.go:285` ("each count once") holds in that test's order only;
- the chain is resolved once; a circuit that opens later is not bypassed (`FEAT-008:23`);
- Save after a concurrent DELETE stores a profile again (`proxy_test.go:55` expects it to be gone);
- the design of the terminal UI (`2026-08-16-tui-management-write-design.md:68`) tracks the selected
  row; nothing ever moves it. Its route form is filled with the targets joined by commas
  (`app.go:509`) and sends them back as one target (`app.go:504`), so that even an unchanged edit
  loses the fallbacks; the text is left out of `TuiConsole`;
- a GET can return a half-updated profile, as it encodes the stored record without a lock while
  `UpdateProxy` changes it (`management.go:210`, `231-252`; `04-TECH-STACK.md:360` asks for atomic
  commits).

### Bounds, and why they are enough

- `FailureThreshold` 1 or 2, `CooldownDuration` 1 or 2: the code compares counts and durations with
  these values and never uses their size. With a threshold of 2 a circuit passes through "failed but
  CLOSED"; with a cooldown of 2 through "OPEN but not yet cooled down, one tick gone". The proofs
  cover all other values.
- `FailureCap` is one above the threshold, so that "at the threshold" and "past it" are both there
  (in `data_plane_governance`, which is not about circuits, it is the threshold itself).
- Limiter: with a minute of 3 ticks and 5 instants the window slides completely past its first
  grants, several stamps share an instant, and the limit rises and falls under a full window.
  The proofs cover all lengths, limits and histories.
- Quota: `MaxUsage` stops new requests once a key has used more than 4 tokens. The largest limit is
  3, so every overshoot can happen and requests are refused before it. Three requests are the
  fewest for which the overshoot is more than one estimate; they are interchangeable (symmetry).
  `CHECK_DEADLOCK FALSE`, because the only key may be deleted and then nobody asks any more. The
  proofs cover all estimates, limits and numbers of requests.
- Data plane: two requests race for every resource; two models give one fallback, and a third would
  repeat the second's turn of the loop. Model lists are asked for in `data_plane_governance`, where
  the deny list changes and requests are interchangeable (symmetry).
  `Outcomes` holds one member per branch of the loop that the run is about; 401, 429 and 5xx are told apart by their error codes only (`ErrorCode`).
  `Estimate` is 1. A request is handled once, so a run ends when all requests are answered and the
  environment has nothing new to do; the environment itself never stops.
- Management: four requests are enough for create, two overlapping updates and a delete of a record,
  and two fields let the updates of a profile overlap between fields; a log of two is full after the
  second event, and two more push out the others. Admins and values are interchangeable (symmetry). `CHECK_DEADLOCK FALSE`, because finitely
  many requests are each handled once and then the system has really stopped.
- Terminal UI: two fetches are what it takes for one to overtake the other. One record for each
  list lets every list be empty, and every record appear, be switched and vanish while a dialog is
  open; `tui_confirmed_record` has two, so that the cursor can move from one to the other.
- Gateway: two processes race for each migration, and two migrations give a database that is behind
  by one. A body of two chunks over a buffer of one is held back once and overflows it once. Budget
  and overrun of one tick distinguish in time, out of time and in overtime. `MaxRequests` is 1:
  what calls and probes share is the process they die with, and one of either is enough for that;
  the proofs cover any number of calls. A process may start again after any end.

### Fairness

- `Scheduling` (CircuitBreaker), `HandlersRun` (DataPlane): weak fairness of the gateway's own steps
  and of the clock. Each handler is a goroutine, and the only locks it takes are held for a bounded
  number of steps.
- `Traffic` (CircuitBreaker), for `Recovers` only: requests for the target keep coming, and not
  every one is dropped between Resolve and the attempt. The breaker has no probe of its own, so
  without traffic nothing could close a circuit. It is strong fairness because a caller may be busy
  with another target again and again.
- `UpstreamResponds` (DataPlane): each attempt ends some day. The gateway does not ensure this, as
  no timeout is put on an attempt. `EveryRequestIsAnswered` says that nothing else keeps a client
  waiting.
- `FairSpec` (Gateway): a process goes on with its migration, with serving after it, and its deadline
  for stopping passes. `Migrate` contains `Fail`, which stands for the 30 s context: it is what ends
  a wait for another transaction. Nothing is assumed of the database, the upstream or the clients.
- `Fetches` (TuiConsole): a fetch goes on and is delivered; the client's 3 s timeout turns silence
  into a failure. No list's request fails every time, which the gateway cannot promise; without it
  no screen could ever be right. `Operator`: dialogs are closed, and the lists refreshed, now and
  then. The UI does not refresh by itself.

## 4. Proofs

Eight modules hold proofs. Every invariant and every action property that a passing run checks is a
theorem, and so is every refinement. Assumptions are those of the constants, and TLC evaluates each
on some run:

| assumption | says | because |
|---|---|---|
| `BreakerAssumption` | threshold and cooldown are positive, the cap is not below the threshold | NewCircuitBreaker replaces values that are not positive |
| `CallerAssumption` | the value for "no target" is not one | |
| `LimiterAssumption` | window lengths are positive, limits natural numbers | the lengths are constants of the code |
| `DataPlaneAssumption` | routes, asks and catalogs are made of names; finitely many requests; estimates and quotas are natural numbers | a name that is no alias is passed on as a model; `estimateTokens` is a length divided by 4; a negative quota is none, like 0 (`quota.go:39-47`) |
| `ManagementAssumption` | ids of keys, of profiles and alias names are told apart; the fields of a profile have an order | an event names the kind of its target as well; the order of the assignments |
| `AuditAssumption` | the log holds at least one event | `NewMemoryStoreWithLimit` replaces a size that is not positive |
| `QuotaAssumption` | finitely many requests at once; estimates and limits are natural numbers, and one estimate is the largest | a body is read into memory, so its estimate is bounded; lemma `QuotaAssumed` proves this of the data plane's constants |
| `MigratorAssumption` | the number of migrations is a natural number | the embedded directory |
| `RelayAssumption`, `BudgetAssumption` | sizes, budget and overrun are natural numbers | |
| `ConsoleAssumption` | the screens are a sequence; a screen has finitely many ids | `fetchData` asks for them in turn; a list is held in memory |

**CircuitBreakerProofs**, for any sets of targets and callers, any threshold and cooldown:

- `TypeCorrect`: the table stays well-formed. Lemma `OpsKeepTables` says so of the breaker's
  operations, `TickKeepsTables` of the clock.
- `CountDecides`: a circuit is CLOSED exactly while its failures are below the threshold, and
  HALF_OPEN only past the cooldown. `CountDecidesState` is inductive relative to `TypeOK`; one
  lemma per operation says what it does to an entry (`AllowEffect`, `SuccessEffect`,
  `FailureEffect`, `TickEffect`). The second conjunct is what makes the first useful: a failure in
  HALF_OPEN is the code's "count is still at the threshold", not a case of its own.
- `ReportMatches`: GetState says OPEN of exactly the targets Allow refuses.
- `Implements`: every step of the breaker is a step of `BreakerContract` under the mapping that
  forgets the states. It needs `CountDecides`: only because OPEN and HALF_OPEN differ exactly by
  the elapsed cooldown can the contract do without them.

**BreakerProofs** holds the lemmas about the table alone: `OpsKeepTables`, the `...Effect` lemmas,
`FailureSpares`, that a failure of one target leaves the entries of the others, and the `...Maps`
lemmas, which say what each operation is to the streaks and quiet times of `BreakerContract`. They
are used by the two modules that have the table as a variable.

**RateLimiterProofs**, for any keys, window lengths, limits and any length of history:

- `TypeCorrect`, and `LimiterSafe`: purging forgets nothing that counts (`PurgeForgetsNothing` on
  its own), and every window over the past holds at most `MaxLimit` grants. Neither is inductive
  alone. The invariant `IInv` adds `History`: the grants are finite, lie in the past, and are
  numbered in the order of their times. A new grant can only overfill a window that ends now, and
  that window is what the purged slice holds.
- `RetryAfterIsExact`: a refused caller that waits as told finds a slot free, and not a tick
  earlier. `RefusedInv` ties a refusal to a grant in the past, and to how many came since.
- `LimiterImplements`: the limiter answers as `SlidingWindow`, which never forgets, would. Lemma
  `LiveIsRecent` says the purged slice and the whole history show the same recent grants.

**TokenQuotaProofs**, for any requests, keys, estimates and limits:

- `TypeCorrect`, and `OvershootIsBounded`, an action property. `Committed` is usage plus the tokens
  pending; that the pending tokens are a set turns the sum over the requests in flight into the size
  of a union, so that no induction is needed: a request that leaves takes its tokens out of the set
  (`Settle` moves them to usage, `GiveUp` drops them), and only `Admit` adds some. There the check
  bounds the usage and the new estimate, and every other request in flight has at most the largest
  estimate pending.

**DataPlaneProofs**, for any number of requests, keys and models, routes of any length, and any
doings of the administrator, the upstream and the clients:

- `StatusIsExplained` and `OutagesAreCounted`. The argument is `StageInv`: what a request has done
  to the rest of the system is a function of how far its handler has come (`Stage`), and what it was
  answered says which end it came to (`Ended`). The delicate conjunct is that of the attempt loop:
  the attempts made so far all failed, the last outcome is that of the last one, and the errors
  counted are at most the attempts, one fewer if the last had no status, at least one if it had.
  With it the summary after the loop neither counts an error twice nor misses an outage. One lemma
  per action shows that the stage is kept; `OneMoves` confines each to its own request.
- `UsageIsConserved`: a key has used the estimates of exactly the requests it was answered. It needs
  `StageInv` for one thing: no request that is answered moves again. `OnlySettleCharges` goes through
  the other actions.
- `CircuitsAreConsistent`: under everything the data plane does to it, the breaker's table stays such
  that the count decides the state. `CircuitInv` has it with the type of the table, by the lemmas of
  `BreakerProofs`.
- `TypeCorrect`: from `StageInv`, `CircuitInv`, and that usage stays natural numbers.
- `AttemptsAreCounted`: a target has at most as many failures as attempts on it failed. That is not
  inductive: between the upstream's answer and RecordResult an attempt has failed that the breaker
  does not know of. `AttemptInv` therefore compares with the attempts that were reported
  (`Reported`), which leave out the last one of a handler that is between the two. An answer leaves
  `Reported` alone (`AnswerUnreported`), a report adds exactly one element, its own
  (`FailureReported`), and every other step changes neither (`QuietSteps`).
- `QuotaIsImplemented`: each step of the data plane is a step of `TokenQuota` or leaves its variables
  alone, under the mapping of `ImplementsQuota`. The interesting steps are those that end a request
  between check and record, which must be `GiveUp` and not `Settle`, and the administrator's, which
  must not touch the limits a handler already has.
- `BreakerIsImplemented`: each step of the data plane is a step of `BreakerContract` or leaves its
  variables alone, under the mapping of `ImplementsBreaker`. What a step does to the streaks and quiet
  times is in `BreakerProofs` (`AskMaps`, `SuccessMaps`, `FailureMaps`, `TickMaps`), and needs
  `CircuitInv`. What is left is that a step of a handler moves one caller at most: `CallersMove`
  makes that of what it does to one list of one request. Asking appends to one of two lists
  (`AskNextAsks`), and `TurnInv` says there is a caller for the new place: chain, refusals and what is
  left to ask are no longer together than the route they came from, whatever became of it. An attempt
  moves the caller at the place `sent` (`AttemptMoves`), and sending it moves none (`SendUnnoticed`).
- `DataPlaneOvershootIsBounded`: the bound of `TokenQuotaProofs`, with the mapping put in, holds of the
  data plane. The theorem is not proved again: `TQ` is the instance of that module under the mapping,
  `QuotaAssumed` discharges its assumption, and `QuotaIsImplemented` its specification.

**ManagementPlaneProofs**, for any number of requests, records, and size of the log:

- `TypeCorrect`; `TrailStaysNewest`: the log is the newest part of everything that was ever logged,
  in its order, by the lemma that dropping the oldest event of a full log keeps it so.
- `StoresStayAccountedFor`: no record is lost, and no key comes back, as Update of a key that is gone
  does nothing. Save of a profile that is gone inserts it again, which is why the property promises
  less of profiles. `StoreInv` adds that only what was created is ever deleted.
- `ChangesAreAudited`: whoever altered something has logged it by the time it answers, and altered
  only what its request is about; nobody logs twice, and a refused request has done neither.
  `AuditInv` adds where a handler can be that has altered something and not logged it: among the
  fields of a profile, or about to log (`Owns`). A step is then judged by what it leaves as it was
  (`Kept`): one lemma for the handlers that have not logged yet (`UnloggedStep`), and one for each
  kind of record that says what its steps alter.

**GatewayProofs**, first for the migrator alone, with any number of gateways and of migrations, and
any crashes:

- `SuccessIsReal`: RunMigrations reports success only if every migration is committed. The
  invariant `MigInv` says that at any time only the version after the committed ones can be
  inserted and uncommitted, and by one transaction at most: a second one waits for the first and
  fails if it commits.
- `MigratorImplementsSchema`: hence each COMMIT applies the next migration of `Schema`, once, also
  one that takes effect after its process died.

then for whole processes that start, serve, stop and are killed at any point:

- `GatewayReportsRealSuccess`, `GatewayImplementsSchema`: every step of a gateway is a step of its
  migrator or leaves the migrator's variables alone (`StepIsMigration`), a crash included, so both
  results above carry over.
- `CompleteAnswersAreWhole`: a client that sees its answer end has every chunk the upstream sent, and
  the whole body unless that came without a Content-Length and the upstream broke off, for bodies and
  buffers of any size, from the order got <= read <= sent (`RelayInv`).
- `ProbesCoverAll`: a readiness answer names every dependency that was registered, and comes within
  budget plus one overrun. `ProbeInv` says which checkers are left, and that Redis, the only one that
  may overrun, can do so once, being asked once.
- `GatewayTypeCorrect`: what a process migrates and serves fits its phase (`PhaseInv`: it migrates
  exactly while it starts, and is busy only while it serves or drains).

**TuiConsoleProofs**, for any screens, records and number of fetches in flight:

- `EditsAreForTheFilledRecord`: an edit goes to the record its form was filled from, whatever lists
  arrive while it is open.
- `TypeCorrect`: every list on a screen is one the API can answer with. `ConsoleInv` says the same of
  every list on its way (`FetchInv`), whichever screen it is for, and that the ids of all of them were
  given out. The last is needed for a route: a PUT from an edit form creates it again if it was
  deleted meanwhile, and only because its id was once given out is this no new id (`FormInv`).

Model-checked only: what holds under fairness (`Recovers`, `EveryRequestIsAnswered`,
`ScreenCatchesUp`, `StartsAndStopsEnd`), since the prover cannot reason about ENABLED. The safety
results these rest on are proved.

## 5. Plan

Order: first what every request goes through and what is shared, then what is configured, then what
surrounds it.

| | module | composes | abstract spec | runs | theorems |
|---|---|---|---|---|---|
| done | Breaker, CircuitBreaker | | BreakerContract | `breaker` | type, count decides state, report, refinement |
| done | RateLimiter | | SlidingWindow | `limiter` | type, window bound, purge, Retry-After, refinement |
| done | Quota, TokenQuota | | | `quota` | types, overshoot |
| done | DataPlane with ListModels | Breaker, Policy, Quota, limiter contract | TokenQuota, BreakerContract | `data_plane_*` | types, status, outages, usage, attempts, circuits, both refinements, overshoot |
| done | ManagementPlane | AuditLog | the newest events, in order | `management*` | types, trail, stores, audit |
| done | TuiConsole | management API as environment | | `tui*` | types, edits |
| done | Migrator | PostgreSQL as environment | Schema | `gateway` | success, refinement |
| done | Relay, Readiness | | | `gateway*` | in GatewayProofs |
| done | Gateway | Migrator, Relay, Readiness | Schema | `gateway*` | the migrator's, relay's and readiness' results in whole processes |
| next | ManagementPlane | | | with `management` | a sequential specification of the key store that its handlers implement where no two of them meet |
| next | TuiConsole | | | with `tui` | the form of the global deny list, another dialog over a list that may change |

New runs take the places of runs whose question another one comes to answer.

## 6. Not modelled, and why

- What a restart forgets has no module of its own: nothing is persisted but the schema, so keys,
  routes, deny lists, usage, circuits and the audit log start from the initial states of their modules.
- `EvaluateProvider`, the provider deny lists, `AllowRPS` in the handler, priorities of profiles
  and the outbound transport: present in the code, called by nothing in the gateway.
- Key generation and hashing, redaction, header forwarding, estimates of tokens: data. A key is an
  atom, an estimate an external choice.
- Go's memory model below the field: the race on a shared profile is modelled with each field
  written whole.
- Configuration, admin token, request ids, CORS, logging, panic recovery, container files and SQL:
  no state that changes, or nothing that interacts.
