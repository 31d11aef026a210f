# Verification of the AI router

This directory holds TLA+ specifications of the router (module
`ai-go-router`, written in Go), the TLC runs that check them on small
instances, and proofs, checked by TLAPS, of what holds for every instance.
File names without a path below are under `src/internal/`.

Contents: [inventory](#1-inventory), [modules](#2-modules-and-the-code),
[runs](#3-runs), [bounds](#4-bounds), [fairness](#5-fairness),
[proofs](#6-proofs), [what was found](#7-what-was-found),
[not modelled](#8-what-is-not-modelled), [plan](#9-plan).

## 1. Inventory

A client sends an OpenAI-style request.  Middleware recovers panics and
authenticates; the handler (`api/server.go`) applies the policy, looks in the
response cache and calls the routing engine (`router/router.go`).  The engine
resolves the model to a chain of targets, and goes through targets, accounts and
attempts until one adapter (`providers/*.go`) answers.  Breakers and cooldowns
remember which providers and accounts failed (`providers/errors.go`).  The
handler relays the answer, feeds counters and logs to the asynchronous writer
(`storage/writer.go`), which puts them into SQLite.  Providers come from the YAML
file, which the admin API edits through `config/runtime.go`, and from connections
in SQLite, which the dashboard creates by hand or by logging in (`oauth/*.go`);
both builders of the registry (`providers/factory.go`, `hydration.go`) feed the
engine.  Beside that the program runs a tunnel, an interception helper, edits the
settings of command-line tools and updates itself.  The cloud server is a program
of its own.

| Component | State | Operations | Hard part | Correct when |
|---|---|---|---|---|
| Circuit breakers, `providers/errors.go` | state, counters and `openUntil` per provider, one mutex | `IsOpen`, `RecordSuccess`, `RecordFailure`, `GetState`, `Reset` | late reports of calls that began before the breaker opened | open iff over the threshold; closes only after enough successes on trial; never shuts for good |
| Cooldown tracker, `providers/errors.go` | expiry, backoff level and locks per account | set, clear, reset, query | entries that expire but stay, `*` locks | a lock ends only by time or by being cleared; none appears by itself |
| Error classification, `providers/errors.go` | none | `ClassifyHTTPError`, the predicates | order of rules | the kind of an error decides whether the chain goes on |
| Routing engine, `router/router.go` | routes, registry, retry settings, round-robin indexes, under separate locks | `Reconfigure`, `ResolveTargets`, `ChatCompletion`, `StreamingChatCompletion` | three nested loops with early returns, run by many handlers while the configuration changes | no index out of range, every request ends, no provider is called after a final error |
| Runtime configuration, `config/*.go` | memory under an RWMutex, YAML file, temp file | the edits, five ways to apply them, `Persist`, `Reload` | crashes and failures between temp file, rename, memory and engine | memory, file and engine agree; all or nothing; names resolve |
| Lifecycle, `app/app.go` | listener, signals | `Run`, `RunWithReload` | SIGHUP beside API updates, order of deferred closes | nothing taken is lost at shutdown |
| Admin API, `api/server.go` | none of its own | handlers on configuration, connections, nodes, pools | check or read, then act | a request acts on what it read; nothing deleted comes back |
| OAuth, `oauth/*.go`, `api/server.go` | token store, rows, logins at the provider | code, device and social flows, imports, refresh, delete | two refreshes at once; the flow's two halves in different functions | what is redeemed or refreshed is what the provider accepts |
| Chat and service handlers, `api/server.go` | metrics, cache | four counted entry points, Ollama's, services | early returns; cache behind policies | every request is counted once; no answer evades a policy |
| Response cache, `cache/cache.go`; policies, `policy/policy.go` | LRU list and map; ordered rules | get, set, expire; evaluate | order of use, first match | size and order kept |
| Stream relay, `providers/*.go`, `api/server.go` | one goroutine and one channel per stream | scan, send, forward | client leaves, upstream stalls, five kinds of goroutine | all chunks, in order; both goroutines end |
| Google adapters, `providers/{antigravity,gemini_cli,vertex,google_oauth,vertex_auth}.go` | token cache, selector | resolve, refresh, retry on 401, next URL | tokens that run out on the way | a known expiry is never hit |
| Async writer, `storage/writer.go` | four channels, four workers with buffers | four emitters, `Close` | full channels, `Close` beside senders | what a channel took is written, in order |
| Storage, `storage/db.go` | SQLite | rows, upserts | overwriting upserts | a day's row holds the day |
| Tunnel manager, `tunnel/tunnel.go` | subprocesses, status, goroutines | `Start`, `Enable`, `Disable`, `Stop` | goroutine of an old process reports late | disabling stops what was enabled, and returns |
| MITM, `mitm/*.go` | helper, switches, state file; two goroutines per CONNECT | start, stop, switch, map; bridge | restart between two sections | state file holds what memory does; bridges end |
| Tool settings, `api/server.go` | files of other programs | POST, PATCH, DELETE | truncating writes, no lock | the owner's part survives |
| Updater, `updater/updater.go` | executable, backup, temp file | check, download, replace | kill between two renames | an executable, whole |
| Cloud server, `cloud/*.go` | map of uploads under a mutex, table | upload, delete, fallback over accounts, refresh | saves after unlock, maps read without the lock | table and memory agree when quiet |
| Node mesh, sync, translators, token saver, catalog, pricing, i18n, web UI, command line, log rotation | small or none | | | see [not modelled](#8-what-is-not-modelled) |

`PROJECT.json` lists each of them with its sources and whether it is modelled,
and the hazards of this code at the lines where they bite.

## 2. Modules and the code

| Module | Models | How |
|---|---|---|
| `CircuitBreaker` | `CircuitBreakerManager` | a record per provider; each method is one action, since it runs under one mutex. `openUntil` is `openLeft`, the ticks that are left of it, so that `Tick` is the only thing that knows of time |
| `ProviderGate` | what a caller of the breakers relies on | states without counters; the abstract specification that `CircuitBreaker` implements (`ImplementsGate`) |
| `BreakerHistory` | the same, with a history variable | counts successes on trial since the last closing |
| `CooldownTracker` | `CooldownTracker` | a record per account, expiries as time left. A lock entry that has expired is not one that never was: an expired one hides the lock on `*` |
| `ProviderHealth` | both on one clock | any method at any time: all that the router, the dashboard and the admin API could do, and more |
| `ProviderErrors` | the error types and `ClassifyHTTPError` | pure operators; an upstream answer is a record of status, text features and whether it parses |
| `RoutingEngine` | the engine and the handlers that call it | each handler is a process with the local variables of `ChatCompletion`; every lock of the code delimits an action. Streaming requests differ in what they do about a lost context and are the same actions with `stream = TRUE` |
| `RoutingHistory` | the same, with history | late charges and the first target of the last request |
| `Delivery` | what a queue between goroutines promises | lanes on which things arrive one at a time and in order; no channels, buffers or workers. Implemented by a stream's relay (`RelayDelivers`) and by each log channel with its worker (`WriterDelivers`) |
| `ConfigStore` | `RuntimeConfig`, the file and the engine's copy | inodes, so that a rename moves a file while another goroutine still writes into it; the RWMutex as holder and readers; failures, crashes, SIGHUP and an operator who edits the file |
| `ConfigRegister` | what the API promises of the configuration | a register that changes by one valid edit at a time; implemented by what readers of memory see (`MemoryIsRegister`) |
| `RuntimeEdits` | the configuration as data | providers, routes, aliases, models, settings and keys; `validate`; every edit of `runtime.go`, as the set of its outcomes (none: the edit is refused) |
| `AdminConfig` | the handlers that edit it, start and SIGHUP | an edit is one step (`ConfigStore` takes it apart); requests that read first are two; both builders of the registry |
| `ConnectionTable` | three tables of `storage/db.go` | one SQL statement is one step; the n-th row ever created is row n, as identifiers come from the clock |
| `Connections` | handlers of connections, nodes, pools | a job per handler: what it has read and is about to write back |
| `OAuthRegistry` | `oauth/providers.go` | for each provider, its flow and on which of its requests a challenge or verifier goes |
| `OAuthTokens` | token store and refresh | a refresh token is a generation of a grant; a rotating provider honours the newest only |
| `OAuthFlows` | logins and imports | the provider knows a login (`attempts`), the browser carries code and verifier, the server keeps nothing. A client may hand the verifier back or leave it out (`given`); `Verdicts` is what a provider makes of what it is then sent |
| `PolicyRules`, `ResponseCache` | policies, LRU cache | a rule is the set of models it covers and the key; the cache is a sequence, most recently used first |
| `RequestPipeline` | the handlers around the engine | a program counter per handler through authentication, decoding, policy, cache, engine (external) and the counters |
| `StreamRelay` | goroutines of streams and the handler's loop | lines of the upstream, the buffered channel, the context; `reader` is one of five kinds of goroutine, `respWriter` whether the writer can flush |
| `GoogleCalls` | calls of the three Google adapters | tokens with what is left of their life at Google and in the cache; one tick is the HTTP client's timeout |
| `AsyncWriter` | the writer, the handlers that feed it, the shutdown | channels as bounded sequences, workers that buffer, flush and drain; the order of `Shutdown`, `Close` and the closing of the database |
| `Tunnel` | tunnel manager and its subprocesses | tunnel 0 is the one the program starts with, tunnel i that of the i-th `Enable`; each is a goroutine, a child and a watcher |
| `Mitm`, `ConnectBridge` | helper and its state file; the CONNECT proxy | memory and what the file tells a restart as two records; a save may fail or be cut off unseen. One record per bridge with both copying goroutines, each of which is reading or writing and sees its own connection only |
| `CLITools` | settings files of eight kinds of tools | a file is whole or torn, with the router's models, the chosen one and the owner's edits; `stray` are models that a request chose without sending them |
| `SelfUpdate` | the updater | contents of executable, backup and temporary file, per step of `applyUpdate` |
| `CloudServer` | the cloud server, for one machine | Go maps as numbered objects: an upload makes a new one, everything else changes it in place, requests may read an old one. A save turns the map into text and stores it in two steps |
| `MCRoutingEngine`, `MCRoutingHistory`, `MCConfigStore`, `MCAsyncWriter`, `MCStreamRelay` | | values for the constants |
| `MCServing`, `MCRequests`, `MCAdmin` | | several components in one run, see [runs](#3-runs) |
| `CircuitBreakerProofs`, `CooldownProofs`, `HealthProofs`, `RoutingProofs`, `RequestProofs`, `ServingProofs`, `AsyncWriterProofs`, `AdminProofs` | | theorems; `RequestProofs`, `ServingProofs` and `AdminProofs` extend the modules of the runs, `MCRequests`, `MCServing` and `MCAdmin`, whose specifications they are about |

Correspondences that a reader should know:

* **Atomicity.** An action is what the code does under one lock, or between two
  points where another goroutine can interfere.  In the engine these are: the
  snapshot of registry and settings, the reading of routes, the advance of the
  index (each takes a lock of its own), each question to breaker or tracker,
  each call, each charge, level, cooldown and lock.  In `ConfigStore` and
  `CLITools` the two halves of `os.WriteFile` (truncate, fill) are separate.  A
  handler on tables is one step per statement and one per exchange with a
  provider.
* **Time** is discrete.  Whatever is compared with `time.Now()` is kept as what is
  left of it.  Retry delays are reduced to their end, since only that they end
  matters.
* **Data.** Configurations are small records (engine), sets of edits (store: what
  validation refuses is a constant set `Invalid`) or functions from names
  (`RuntimeEdits`).  Messages are model values.  Bodies are numbered chunks,
  `Junk` lines and `Done`.
* **External parts** are modelled from how the code uses them: the provider's
  token endpoint, Google, the subprocesses, the owner of a settings file, the
  process that is killed.
* **Mutants.** Definitions commented "mutant" are plausible bugs in the
  definition they stand next to.  No specification uses them; they are there to
  show that each property can fail.  Where a property has two parts there is one
  for each; `PROJECT.json` names one per property.

## 3. Runs

Runs that pass:

| Run | Question | Properties |
|---|---|---|
| `MCRoutingShared` | Two streaming handlers, one with a client that may leave, on one provider with three accounts that answers or returns 429. | `LateOutcomesBounded`: a leaving client costs providers at most two failures, and an open breaker collects no more failures than handlers times accounts; `BreakersRecover`: it always lets requests through again |
| `MCRoutingChain` | One handler on a chain A, B, A with two attempts each, a status rule and a text rule, five kinds of answer, a client that may leave, and a second configuration, with a round-robin route, an alias and a provider fewer, that may be installed at any step. | `CallsOnlyAfterRetryable`; `RequestsEnd`: through retries, backoff and reconfigurations |
| `MCServing` | Parts whose goroutines must end or hand over. *Configuration*: two API handlers in six worlds, that is, which methods they use and which of write, rename, rollback, engine, crash, reload and operator's edit may go wrong. *Stream*: all answers of up to three chunks, at most one junk line, with or without `[DONE]`, five kinds of goroutine, both writers, a client that leaves, an upstream that stalls. *Tunnel*: start, enable and disable with a child that exits at any time, and a crash. *Bridge*: a CONNECT whose peers send, stall and hang up as they like. | Types; `SettledAgree`: memory, file and engine; `CrashIsAtomic`; `UpdatesEnd`; `MemoryIsRegister`; `RelayDelivers`: what upstream sent arrives as `Delivery` promises; `RelayEnds`: the handler returns, and an answer that fits in the channel never strands its goroutine; `DisableStops`; `DisableReturns`; `BridgesEnd`: with one copy the other and the request end, and a peer's hanging up ends a copy unless what it sent is being written to a peer that never takes it |
| `MCWriter` | Two handlers, the request and quota channels of capacity one, failing inserts, a `Shutdown` that times out, a listener that breaks. | `LogIsComplete`: nothing taken is lost or reordered, and closing drains; `NoPanic`; `WriterDelivers`: each log channel is a lane of `Delivery`; `ShutdownEnds` |
| `MCRequests` | What a request passes. *Rotation*: two handlers on a round-robin route that shrinks from three targets to two and back. *Pipeline*: two handlers, two models, two keys, three rules, a cache of one entry, services over two providers that come and go. *Google*: two calls on one account whose token runs out or is revoked, in either adapter. *Cloud*: two requests, two accounts, two plans of uploads, saves that overtake each other or fail, expiries, restarts. | Types; `RotationServes`; `MetricsBalance`; `AnswersObeyPolicy`; `ServiceTriesAll`; `KnownTokensAreLive`; `ExpiryIsNotSeen`; `TableAgrees` |
| `MCAdmin` | What dashboard and command line change. *Credentials*: two handlers, one row, one login, one of ten providers (every kind of flow, poll, import and refresh; Cline's encoded codes are proved about but not run) or a node with a pool per behaviour. *Configuration*: two admins in five sets of areas, with imports, reloads and edits of the file. *Helper*, whose saves may fail, *tools* (eight kinds), *updates*: two requests each, restarts, failures and kills. *Health*: two breakers and one account with two models and `*`, any methods in any order. | Types; `ChallengeIsAnswered`: both halves of a login agree on its verifier; `UnsavedTokenIsLive`: a refresh never stores an older token over a newer one; `NoResurrection`; `ReferencesResolve`; `KeyActsOnWhatWasRead`; `StateSurvives`; `SettingsSound`; `LeavesExecutable`; `CountersMatchState`: open iff over the threshold, and credit only on trial; `ImplementsGate`; `ClosingIsEarned`; `LocksEndOnTime`; `LocksComeFromLocks` |

Each property of a passing run has a mutant in `PROJECT.json` that violates it.

The other six runs check one property each, taken from a document or a
comment, and end in a counterexample: see [below](#7-what-was-found).

**Runs of several components.**  The parts of `MCServing`, `MCRequests` and
`MCAdmin` share no state, so nothing is lost by looking at them one at a time: a
behaviour chooses its `part` at the start, the steps are those of that part, and
the others keep one fixed initial state.  Each property speaks of one part's
variables.  In `MCServing` the fairness of a part is asked of that part's
behaviours only.

`MCServing`, `MCRequests`, `MCAdmin` and `MCWriter` switch the deadlock check off
because parts of them stop: a stream is over, a program has ended, the last
upload is in.  Nothing else does.

Conditions in the properties are those of the code.  `SettledAgree` and
`CrashIsAtomic` speak of handlers that use the transactional methods while no
reload and no failed rollback is under way (`Transactional`, `Undisturbed`),
because the other methods save after the fact or not at all.  `ConfigRegister`
is `loose` in the worlds in which reloads, imports or lost saves may replace the
configuration.  `NoPanic` of the writer excludes a `Shutdown` that gave up or a
listener that broke, after which the code does close channels under its senders.
`DisableStops` is about requests that do not overlap: a second `Enable` before
the disable replaces the only cancel function.  `SettingsSound` asks for the
owner's part only if no two of the steps overlapped and none failed (`mishap`).
`StateSurvives` speaks of a helper that is not just being launched (`Quiet`) and
of a last save that was written (`unsaved`).  `LeavesExecutable` excludes a kill,
and a failed rename while two updates ran (`unlucky`).  `TableAgrees` excludes a save that failed, an
older text that was stored after the newest one, and an upload or deletion that came
while a save was pending (`lapse`).  `MemoryIsRegister` says of transactional updates
that a failed one is not seen (`FailuresUnseen`), and not of `UpdateAndPersist`, which
keeps in memory what it fails to write.

## 4. Bounds

| Bound | Where | Why it is enough |
|---|---|---|
| `MaxFailures` = 3 | guard in `CircuitBreaker`, `MCAdmin` | one beyond the threshold of 2: further failures leave the same state but for the count. The proofs do without it, and the engine does not use it |
| `FailureThreshold`, `SuccessThreshold`, `OpenTimeout` ≤ 2 | all | each is at least once larger than one, so that counting differs from reacting |
| `LevelCap`, `MaxCooldown`, `LockTime` ≤ 2 | `CooldownTracker` | the code compares remaining times with zero only; the level only decides a duration (1 in `MCRoutingChain`, 0 in `MCRoutingShared`, where cooldowns have one length) |
| Handlers: 2; targets: 3; accounts: 3; attempts: 2 | engine | two handlers make every race of two; three targets make rotations differ from exchanges and a chain return to an earlier provider; three accounts are one more than a request that was left may charge |
| `Configs`: 1 or 2 | engine | the one in force and another; each may be installed again and again |
| `Updaters` = 2, `Inodes` = 5, three edits | `ConfigStore` | five inodes are path, temp and one open file per writer, with one spare (`NewFileAssumption`) |
| one operator's edit | `ConfigStore` | the fault `"edit"` is used up; SIGHUP and crash may repeat |
| `Capacity` = 1 or 2, `BufferSize` = 2 | `AsyncWriter`, for 1000 and 100 | a channel that fills, a buffer that does not |
| `MaxRequests` = 2 | `AsyncWriter` | records taken in all, across both handlers: more than a channel and a buffer hold |
| `MaxLines` = 3, `ChannelCapacity` = 1 | `StreamRelay`, for channels of 10 and 32 | two more chunks than fit |
| `MaxEnables` = 1 | `Tunnel` | the tunnel of the start and one of a request; overlapping enables are left out of the run, see below |
| `MaxCounted` = 2, `CacheSize` = 1 | `RequestPipeline` | one request per handler whose counting may go wrong, while uncounted ones go on; two models compete for one entry |
| `Lead` = 3, `Lifetime` = 4, `MaxTokens` = 2 | `GoogleCalls`, for 5 and 60 minutes | the lead covers an exchange, a wait and the clocks' difference; a token outlives the lead; the second token is what a refresh obtains |
| uploads: 1 or 2 | `CloudServer` | a first, and one that replaces it while requests still use the map of the first |
| `MaxRows`, `MaxGrants`, `MaxAttempts` = 1, `MaxGen` = 3 | credentials | the hazards are about two handlers and one row; deletion and creation differ because no number is used twice; three generations are a token and two refreshes of it, one of which may overtake the other |
| two names, one route, alias and model, three keys | `AdminConfig` | a renaming needs two names; deleting one of three keys shifts another |
| `MaxEdits` = 1, two models | `CLITools` | the owner's edit is there or lost; the chosen model is removed while another stays |

Symmetry is used in `MCRequests` over the two handlers and in `MCAdmin` over handlers,
the tools' models, breakers and the tracker's models, which nothing but their names
tells apart (`MCAdmin` swaps all of these pairs at once, or none); neither run has a
liveness property.

## 5. Fairness

* `RoutingEngine`: weak fairness of every handler and of time.  A handler is a
  goroutine, which the scheduler runs; a call is answered because the adapters'
  HTTP clients have timeouts and requests a deadline.  Clients, reconfigurations
  and the kind of answer are not fair.
* `ConfigStore`: weak fairness of the steps of an update, and strong fairness of
  taking the read lock: Go's `RWMutex` admits the readers that waited when a
  writer unlocks, so one reader is not passed over for ever.  Crashes, SIGHUP,
  edits and failures are not fair.
* `AsyncWriter`: workers, the main goroutine and handlers that are being served.
  Requests and the signal are not.
* `StreamRelay`: both goroutines and the context, which has a deadline.  The
  upstream is not: it may stall for ever.
* `Tunnel`: the goroutines, the handler that disables, and the kill that follows
  the cancelling of a context.  A tunnel that nobody stops may run for ever.
* `ConnectBridge`: the goroutines; a read or write on a closed connection
  returns.  The peers are not fair: they may never send, take what is sent to them,
  or hang up.

Everything else is safety only.

## 6. Proofs

`tlapm` checks the eight proof modules to the last leaf.  The constants are
arbitrary but for the named assumptions, which TLC evaluates in the runs: any
number of requests, handlers, providers, accounts, connections and restarts.

**Breakers** (`CircuitBreakerProofs`), from `ThresholdsPositive` (the thresholds
and the timeout are positive numbers) alone; the set of providers is arbitrary
and `MaxFailures` plays no part.

* `CountersAgree`.  The two statements of `CountersMatchState` are inductive only
  together and with the types.  `Sound(b)` says both of one breaker, and
  `IInv` is `TypeOK` and `Sound` of every breaker.  Lemmas show that each pure
  function (`AfterLook`, `AfterSuccess`, `AfterFailure`, `NewBreaker`, a tick)
  keeps `Sound`; one lemma lifts this to the function of all providers.
* `TypeCorrect` is `TypeOK` from the same invariant.
* `BreakersImplementGate`: initial states and every step map to `ProviderGate`.
  `IsOpen` and `GetState` are a `Try` or a stutter, `RecordSuccess` a `Trust` or
  a stutter, `RecordFailure` a `Trip` or a stutter.  `TypeOK` is needed, since a
  step on an ill-typed record would map nowhere.

**Tracker** (`CooldownProofs`), under `Lengths` (lengths are numbers, the lock's
positive).

* `CooldownsTyped`: types.
* `LocksEnd` and `LocksBegin`: one case per method, comparing the entry that
  decides for a model (`LockEntry`) before and after.  The case worth reading is
  clearing a model's own entry, which may uncover the account's.

**Both** (`HealthProofs`): a behaviour of `ProviderHealth` is one of the breakers
and one of the tracker, so the theorems hold of it: `HealthTyped`,
`HealthLocksEnd`, `HealthLocksBegin`.  `LengthsAssumption` gives the tracker's
hypothesis.  `HealthClosingIsEarned` adds the history of successes on trial: the
invariant `EarnedKept` says that a breaker never counts more of them than were
recorded since it last closed.  They need not come in a row: a failure leaves the
count as it is.

**Engine** (`RoutingProofs`), from `EngineAssumption`, `ConfigsAssumption` (what
configurations and registries are) and `AccountsAssumption` (the numbers of
accounts are bounded).  `Sound(q)` says of one request in flight where it may be in
targets, accounts and attempts, which belong to the snapshot it took and not to
what is installed now; `Good(q, s)` how a step may change it; `Kept` is `Sound` of
all, with breakers that agree with their counters.

* `RetriesAreAllowed` and `IndexesInRange` follow from `Kept`.
* `LateOutcomesAreBounded` counts, per request past a breaker, the failures that
  it may still report.  The weights are summed over all requests, with lemmas about
  sums over finite sets; each step either moves weight into the counter or loses
  some.  A client that left adds two at most.
* `TargetsRotate`: under `RoutesStay` (no configuration drops a model's route), what a
  request goes through is a rotation of a route of its model, although the index
  that it uses may come from another configuration's route.
* `RotationIsServed`: under `Healthy` (`RoutesStay`, upstreams answer, clients wait,
  registries know the targets, and the routes of one model differ by one target at
  most) every request is served.  The invariant `Serene` says that breakers and
  cooldowns are as new and that no index is beyond any route.  The last hypothesis
  is needed: without it finding 1 is what happens.  Both hypotheses are about the
  configurations and hold of the constants of the run that checks the properties.
* `SimilarRoutesNeverPanic` needs that hypothesis alone: calls may fail, clients may
  leave and providers may vanish.  `Fits` says that no index is beyond the shortest
  route that a configuration has for its model, empty routes apart, for which
  no index is read.  An index is at most the length of the route it
  was advanced for less one, hence the one.
* `EngineTypeCorrect`: the types of engine, breakers and tracker.  It asks that
  no configuration has a negative maximal cooldown (`WellFormed`).

**Request pipeline** (`RequestProofs`), from `PipeAssumption`.  `PipeKept` says of
each handler that it was admitted, which model its answer is for and which
providers it has still to try; and of the cache that an entry holds the answer for
the model in its key (`Faithful`).  `CachedAnswersObeyPolicy`, `GivesUpAfterAll` and
`CacheStaysSound` are read off it.  `EveryRequestIsAccounted` counts the requests in
flight (`Balanced`): each step begins one, ends one with one counter, or does
neither (`Accounted`).

**Google adapters** (`RequestProofs`), from `GoogleAssumption`, whose point is that
tokens are renewed at least three client timeouts before they expire (five minutes
against sixty seconds).  `CacheSure`: the router's idea of an expiry is one tick too
late at most, since an exchange takes no longer.  `CallSure` follows a call with its
age: `RequestsCarryLiveTokens` needs the three timeouts, for the refresh and for the
two URLs of Antigravity.

**Cloud server** (`RequestProofs`), from `CloudAssumption`.  `JobFits`: what a
handler reads is in the map that it took, which only ever gains accounts.
`SavesAgree`: without a lapse a save that is still to read the map reads the one that
memory has, the newest text is what memory holds if no such save is left
(`NewestIsCurrent`), and the table agrees once there is no save at all.
`TableFollowsMemory` is its last part, which is not inductive alone.

**Configuration** (`ServingProofs`), from `StoreAssumption` (the empty
configuration is one that `validate` accepts, and the file is edited by hand only
where it may also be reloaded) and `NewFileAssumption` (there is always one more
file).  The invariant has three parts, and each theorem needs all of them:

* `Typed`: every configuration held anywhere, in memory, in a file that is whole,
  in a handler's or the SIGHUP loop's hands, is one that `validate` accepts.  This
  is why a reload or a restart cannot bring in a refused one.
* `Holding`: a transaction holds the lock from beginning to end, what it installs
  is one edit of what it found, and memory is new only while the engine is being
  reconfigured.  `MemoryIsRegister` (`StoreIsRegister`) rests on it: under the
  mapping, readers see what the lock's holder found until it gives the lock back;
  then its edit shows, or nothing does.  `FailuresShowNothing`
  is the second half: where a transactional update gives up, memory is what it began
  from.
* `OnDisk`: for transactional handlers without a reload and without a failing
  rollback, the file is the old configuration until the rename, the new one until
  the rollback's rename, and the temp file is the holder's own.  `StoreSettles` and
  `StoreCrashIsAtomic` are read off it, and a restart is a step of the register
  because of it.

There is one lemma per action; handlers that return early share `GiveUp`.

**Writer** (`AsyncWriterProofs`), from `WriterAssumption` (capacity and buffer size
are positive, plans and the order of closing are sequences of channels).

* `WriterKeepsLog`: `written[c] \o buffer[c] \o channel[c] = accepted[c]` is kept by
  a send (`AppendAtEnd`) and by a record that moves on (`HeadMovesOver`).  That
  nothing is left at the end needs `Drained`: a worker that saw its channel closed
  found it empty, nothing is sent to a closed channel, and a worker leaves only
  when it holds nothing.
* `WriterNeverPanics`: `Unhurried` says that without a timeout or a broken listener
  every handler is idle from the moment Close may begin.
* `WriterTypeCorrect`: the bounds of channels and buffers; a worker at its select
  has room for one more record (`Bounded`).

**Streams** (`ServingProofs`), from `StreamAssumption` (no answer has a chunk after
`[DONE]`).  `RelayKept`: until something is cancelled, what was delivered, what the
consumer holds, what is in the channel and what the goroutine is sending are
together the chunks of the lines read so far, in order.  `ChunksUpTo` is a function
defined by recursion on the number of lines; that it exists is proved once from the
order of the numbers, and every step unfolds it once, so no induction is left.

**Tunnel** (`ServingProofs`), from `TunnelAssumption`.  `TunnelKept`: a process lives
only while its goroutine waits for it or is about to, and once the state says that
the tunnel is off all goroutines of `Enable` have ended.  `DisableStops` asks that
requests come one at a time.

**Editors of the configuration** (`AdminProofs`), from `AdminAssumption` (files
hold configurations; there is a key).  `AdminKept`: what is in memory is always
accepted by `validate`, since every handler, reload and import goes through it.
`ConfigurationResolves` follows; `KeysGoAsRead` is an action property with one case
per edit of the key list.

**Connections, tokens, logins** (`AdminProofs`), from `TableAssumption`,
`ConnectionAssumption`, `TokenAssumption` and `FlowsAssumption`.  `CredKept` has
three parts beside the types.  `JobOK`: what a request holds fits the step it is at.
`LoginsKept`: a login was refused only as `ChallengeIsAnswered` allows, and a device
login began with the challenge that its poll will answer if it is given the verifier.
`RefreshKept`: every refresh token anywhere was issued, and one about to be saved, of
a provider that rotates them, is the newest of its grant while all others, in rows,
store and other requests, are older.  Most steps only copy tokens (`Copied`), for
which one lemma does; the refresh is the step that matters.  `CredentialsStayGood`
needs all parts, `DeletedStaysDeleted` the types only: identifiers are never reused.

**Managers** (`AdminProofs`).

* `RestartFindsState`, without any assumption, is `StateSurvives` of the helper of
  the interception proxy.  It is inductive with the type of `starting` alone, since
  only a handler between its two critical sections can leave memory ahead of the
  file, and every save makes them agree or is remembered as lost (`SavesAgree`).
* `UpdateLeavesExecutable` and `UpdateTypeCorrect`, without any assumption.
  `UpdateKept`: a file is complete before it is moved anywhere, and while there is no
  executable some process is about to put one there, from a backup that only another
  process could have taken (`Excused` lists what a failure may spoil).
* `ToolSettingsAreSound` and `ToolTypeCorrect`, from `ToolAssumption` (no model has
  one of the names the module uses itself).  `Selects`: the chosen model is one the file defines, per
  tool, or one that a request chose without defining it; `Undisturbed`: while requests come one at a time and none fails, only the
  file being written differs from what its owner left.

**Delivery.**  `RelayImplementsDelivery` and `WriterImplementsDelivery` are the
refinements of `Delivery`, with one lane and with one per log channel.

* *Relay.*  What is on its way are the chunks due that were not delivered, whether
  the goroutine has read them yet or not, so the upstream hands in the whole answer
  when the goroutine starts (and some goroutines a finishing chunk of their own).  `RelayKept` gives that what the consumer forwards is
  the next of them, and that the channel is seen closed only after the last.  A
  client that leaves and a refused writer are a `BreakOff`.
* *Writer.*  What is on its way is `buffer \o channel`, for which receiving a record
  is a stutter, and a flush delivers or loses one record per step.  `Drained` gives
  that a worker that leaves has nothing left.

**Types.**  Each component has its type invariant as a theorem.  Most follow from the
invariants above; those that need more:

* `StreamTypeCorrect`: the lines still to be read are the end of the answer, stated
  by indexes (`Unread`), from which `IsSuffix` of the library follows.
* `PipeTypeCorrect`: no list of providers that are still to be tried outgrows the
  chain (`Short`), and no more requests end than were counted (`Balanced`).
* `CloudTypeCorrect`: the uploads to come are the end of a plan (`PlanKept`).
* `TunnelTypeCorrect` asks that a behaviour with a crash is otherwise one of
  requests that come one at a time (`TunnelAssumption`), `MitmTypeCorrect` that
  the URL of a new manager is a router URL (`MitmAssumption`).

**Runs of several components.**  The specifications of `MCServing`, `MCRequests` and
`MCAdmin` are shown to imply those of their parts (`EveryPartServes`,
`EveryPartAnswers`, `EveryPartTakesPart`), so that every theorem of a part holds of
them: `ServingTypeCorrect`, `RequestsTypeCorrect` and `ManagedTypeCorrect` are their
type invariants, `ServingKeepsItsWord`, `RequestsKeepTheirWord` and
`ManagedKeepsItsWord` are all other properties these runs check, for any value of the
constants, but for liveness.

**Only model-checked.**  Liveness (`RequestsEnd`, `BreakersRecover`, `UpdatesEnd`,
`RelayEnds`, `ShutdownEnds`, `DisableReturns`, `BridgesEnd`) is outside what the
prover handles.  Everything else that a passing run checks is a theorem as well.

## 7. What was found

Each is a run whose property is what the documentation or a comment says, and
whose counterexample is what the code does.

1. **Stale round-robin index** (`MCRoutingStaleIndex`, `NoPanic`).  `Reconfigure`
   replaces the routes and keeps the indexes.  After a route of three targets is
   cut to one, `targets[idx:]` (`router/router.go:100`) begins beyond the end and
   panics.  Routes that differ by one target at most are safe, for any number of
   requests (`SimilarRoutesNeverPanic`).
2. **Double rotation** (`MCRoutingRotate`, `RotatesPerRequest`).  Each request
   resolves its targets once to route and once to log (`api/server.go:4352`,
   `4356`), and each advances the index: with two targets all requests start at
   the same one.
3. **Torn configuration file** (`MCConfigTorn`, `PersistIsAtomic`).  `Persist`
   writes under the read lock, so two handlers share one temporary file
   (`config/runtime.go:215`), and one renames it while the other has it empty.
4. **No stream is ever sent** (`MCStreamMounted`, `StreamIsSent`).  The logging
   middleware, which every request passes (`api/server.go:245`), wraps the writer
   in a type without `Flush` (`api/middleware.go:153`), and the handler of streams
   refuses such a writer (`api/server.go:4532`) after the upstream has begun to
   answer.  The properties of the relay in `MCServing` are about both writers;
   that chunks arrive is about the one that can flush.
5. **Overwritten quota rows** (`MCWriterQuota`, `RowHoldsTheDay`).  Totals start
   anew at each flush and the upsert (`storage/db.go:1185`) overwrites the day's
   row, which then holds the last interval only.
6. **Retry with the refused token** (`MCGoogleRetry`, `RetryUsesNewToken`).  After a
   401 the adapters "Retry request with new token" (`antigravity.go:507`,
   `gemini_cli.go:214`), but the refresh asks the cache first
   (`google_oauth.go:55`): a token withdrawn at Google that has more than five
   minutes left is sent again, and calls fail until it runs out.

Statements of the documents that the modules spell out and TLC refutes, kept as
definitions beside the code they are about (each can be checked by naming it as
the invariant or property of the run that includes its module):

| Definition | Says | What happens |
|---|---|---|
| `ConfigStore!PersistIsKept` | `config/runtime.go:78`, `UpdateAndPersist` "atomically updates config, validates, and persists to YAML" | when `Persist` fails, memory keeps the edit and the file never gets it |
| `AdminConfig!EnabledIsServed` | `README.md:196`, enabled providers serve at once | `BuildHydratedRegistry` skips types that `BuildRegistryFromConfig` builds (`opencode-go`), so a provider is gone after start or SIGHUP |
| `GoogleCalls!ChosenAccountIsUsed` | `README.md:29`, rotation over accounts | the adapters ask the selector for account `""` and use its own turn; the engine charges another |
| `OAuthTokens!StoredTokenIsLive` | `docs/implementation-plan.md:268`, a refresh updates the stored token | a test or patch that read the row before writes the spent token back |
| `OAuthTokens!DeleteRemovesToken` | `api/server.go:2374`, delete the token from the store | it looks under the row's id, where none is stored |
| `Connections!OneConnectionPerNode` | `api/server.go:1143`, one connection per compatible node | check and insertion are two statements |
| `Tunnel!IsRunningIsTrue` | comment of `IsRunning` | the goroutine of the old process clears the record of the new one |
| `SelfUpdate!OnlyReleases` | `updater/updater.go:2-5`, the checksum is verified | nothing verifies it; an error page is installed as the executable |

Other observations made while modelling, that no property is about:

* The helper of the interception proxy is started with the context of the request
  that asks for it, so it ends with that request, while the manager goes on to
  call it running until somebody asks.
* The rate limiter is never created (`api/server.go:199`), so
  `docs/config-reference.md:150` has no effect.  Rules with `match_provider` never
  match, as no caller names a provider (`README.md:34`); `/v1/messages` and
  `/v1/responses` evaluate no policy at all.
* Streams that a client leaves strand the goroutines whose sends are outside a
  `select` (`providers/openai.go:269` and most others) once the channel is full,
  with the upstream's body open; so does every refused stream of finding 4.  A
  stream that was cut off ends with `[DONE]` and counts as a success, against
  `docs/architecture.md:404`; some goroutines even add a finishing chunk.
* In the cloud server a delayed save may bring a deleted machine's row back, a
  client that disconnects marks accounts as cooling (`cloud/server.go:871`), a
  refreshed copy may overwrite a newer upload (`1016`), an account without a base
  URL ends the whole request (`860`), and a table that fails to load is an empty
  one.
* Vertex tokens are cached by the client's e-mail alone.  A chosen explorer agent
  of OpenCode keeps a model that was removed (`api/server.go:7422`); codex' settings
  are replaced, not edited (`7039`).
* `app/logrotate.go` closes the file before it renames and reopens it: after a
  failed rotation every write fails, against the comment in line 64, and two
  rotations in one second overwrite a backup.  `sync/sync.go` uploads the database
  without its journal, then the configuration, with updates in between.

## 8. What is not modelled

* **Node mesh**: `Forward` has no caller outside tests, so nothing depends on what
  the health checks find.  **Backup sync** and **log rotation**: file operations
  by one goroutine, or under one mutex, without a promise beyond the hazards
  above.
* **Pure conversions**: translators, token saver, catalog, endpoints, pricing,
  i18n, the building of requests and parsing of answers in the adapters.  They
  keep no state and their correctness is a matter of formats.
* **Dead code**: `oauth/refresh.go`, `EnsureFreshToken`, the handlers of GitHub,
  Qwen and Codex logins that no router mounts, the rate limiter, `hydrateRuntimeState`
  (nothing saves the cooldowns it reads).
* **Clients**: web UI, command line.
* **Wording**: log lines, error texts, response layout.
* **Simplifications in modelled parts**: thresholds of breakers do not change with
  a reconfiguration; the chain's retry delays are reduced to their end; a data
  race on `retryConfig` is a choice of either value; the details and usage workers
  are the request worker over again and are left out of the runs, not of the
  module; a connection that is posted carries an API key only, and a patch brings
  no token of its own (absent or empty fields, `ConnectionAssumption`); requests other
  than chat keep neither key nor model; of the cloud server's endpoints those
  that keep no state are left out, and a save reads a whole map at one moment; Google
  does not rotate refresh tokens; a
  Cursor stream may add its finishing chunk after a read error too, which the
  code does not; limits on single numbers in `validate` are one flag.

## 9. Plan

Done: breakers, cooldowns, errors; the engine; configuration, its edits and their
handlers; connections, tokens, logins; the request pipeline; streams of all
adapters; the Google adapters; writer and shutdown; the managers, the tools'
settings, the updater; the cloud server.  Every safety invariant and every action
property of the passing runs is a theorem;
so are the refinements (breakers, configuration, streams, log channels), the
combined type invariants, and, for each run that combines components, all of its
properties but the liveness.

Next:

1. An abstract specification of the cloud server's table, or of the token store,
   as a further refinement.
2. Liveness by hand: `UpdatesEnd` and `RelayEnds` rest on variants (steps that a
   handler has left, lines that are left) that could at least be proved to
   decrease.
3. The hazards without a property, of which the settings patch written back whole
   says most.
