# Verification of pellucid

TLA+ modules for pellucid, the TLC configurations that check them on small
instances, and TLAPS proofs of their main safety properties for every instance.
Paths below are relative to `src/`, crate names stand for
`src/crates/pellucid-<name>/src`.

## 1. The system

pellucid collects public data from many upstream sources, stores it as
envelopes in one SQLite file (WAL mode, up to eight pooled connections) and
serves it through an HTTP gateway, as a relay on a server and as a sidecar
inside a desktop application.

| Part | State | Operations | Hard behaviour |
|---|---|---|---|
| seed publication (`seeders/atomic_publish.rs`, `locks.rs`) | tables `seed_lock`, `kv_envelope`, `seed_meta` | acquire a lease on a domain, stage, promote, release | many publishers and processes, aborts at any await, leases that end while the holder works, SQLite snapshot conflicts |
| envelope cache (`cache/coalesce.rs`, `kv.rs`, `negative.rs`) | a row per key; the in-flight registry of `OnceCell`s | look up, join, fetch, write back, evict | calls on several threads between every two statements; callers dropped by their clients; errors; expiry |
| rate limiter (`cache/rate_limit.rs`, `gateway/stages/endpoint_rate.rs`) | table `rate_limit_window` | check a request against three buckets and record it | clock readings older than the table they are compared with, many requests of one millisecond, fail-open |
| job queues (`workers/scenario.rs`, `deep_forecast.rs`, `simulation.rs`, `redis.rs`) | two Redis lists and a result row per job | drain orphans, claim, mark, compute, write, acknowledge | every command is an HTTP request that may fail after it was executed; crashes; several workers |
| seeders and their scheduler (`seeders`) | one interval per seeder, rows in `kv_envelope` | tick, fetch, publish or skip | seeders of one lock domain fall due together; partial fetches; restarts; the shape of the rows is a contract nobody checks |
| upstream clients (`streams`) | none | request, parse with defaults | replies of another shape, refusals, silence |
| request handlers (`handlers`) | none of their own | read slots, decode, answer | missing, undecodable and empty rows; partial answers; hydration of the webview |
| gateway (`gateway`) and `auth` | JWKS cache, table `entitlements_cache` | fourteen stages in a fixed order; verify a token; look a plan up | refreshes that race, keys that rotate, plans that change, outages of Clerk and Convex |
| machine-learning engines (`ml`) | two API keys | classify, extract, summarise, embed | whatever a provider answers must reach the caller as what it is |
| correlation (`correlation`) | topic history, seen keys; clusters of the run before | cluster, detect, deduplicate, announce; group, score, compare | order of feeds, of signals and of a hash map; what was announced before |
| token rotation (`tauri/token_rotation.rs`, `ipc.rs`, `app.rs`, `sidecar-bin/auth.rs`, the webview runtime) | current and previous token in four places | rotate, persist, forward, re-attach | one task per rotation and one per refresh, answers out of order, a slow keychain, overlap windows |
| telegram (`telegram`, `tauri/ipc.rs`, `telegram_login.rs`) | the session in the keychain, in the host, in the sidecar and in a client | log in, log out, harvest, poll | four writers of one blob without a lock, lines that cross, commands on several threads |
| AIS stream (`streams/ais.rs`, `maritime_state.rs`, `relay-bin/ais_task.rs`, `app.rs`) | websocket session, bounded channel, vessel table | connect, receive, prune, count, shut down | lag, silence, reconnects, a shutdown in three steps |
| relay (`relay-bin`) | tasks, health cascade over `seed_meta` | boot, health, proxy, shutdown | tasks aborted in the middle of a step |
| core, codegen, db, edge-bin, webview, convex | none that is shared, or only tables above | types, bindings, wiring, user interface | none beyond the parts above |

How the parts interact: the scheduler's cycles fetch through the clients and
call `atomic_publish`; handlers read the rows, some of them through
`cached_fetch_json` on the same table `kv_envelope`; every gateway request
passes authentication, entitlement and the limiter before its handler, and
the handler's answer passes the boundary and the headers on its way out; the
health cascade reads `seed_meta`; the relay spawns the scheduler, the scenario
worker and the AIS tasks and stops them at shutdown; the workers meet each other
and their producers only in Redis; token rotation and the Telegram session
share one entry of the keychain and the sidecar's stdin.

What makes each part correct is in section 3, property by property; the hazards
behind the properties, with the lines where they bite, are in `PROJECT.json`.

## 2. Modules

| Module | What it is |
|---|---|
| `LeaseLock` | abstract specification: a lease per domain, granted atomically to a run that then is active until it leaves, freed by its own holder only |
| `SeedPublish` | `acquire_seed_lock`, `release_seed_lock`, `atomic_publish`; implements `LeaseLock` |
| `Coalesce` | `cached_fetch_json` for one key |
| `JobQueue` | `run_worker`, `requeue_orphaned_jobs`, `poll_once` |
| `RateLimit` | `check_rate_limit` and gateway stage 8 for one client |
| `SeederCatalog` | every seeder: slot, lock domain, life, way of fetching, members stored; the registry with its cadences |
| `UpstreamCatalog` | every JSON or CSV client: timeout, slots fed, what each kind of reply becomes |
| `ReaderCatalog` | every handler that answers from seeded rows: its slots, and what of each row it needs, defaults or shows |
| `Bootstrap` | the hydration of the webview, in the terms of `ReaderCatalog` |
| `Delivery` | composes the four catalogues: scheduler, cycles, rows, handler |
| `Inference` | the endpoints that ask a model, as a function of the call and the reply |
| `Gateway` | the pipeline with `ClerkJwtVerifier`, the JWKS cache and `ClerkEntitlementChecker`; its handlers are those of `Inference` |
| `Proximity` | the geographic clustering: grid, pairs, union-find with path halving |
| `Correlate` | the correlation engine with its four adapters and its handler, around `Proximity` |
| `Signals` | news clustering, the eight detectors, deduplication |
| `TokenRotation` | rotation loop, rotation tasks, keychain, the sidecar's token pair, the webview's cache and poll loop |
| `TelegramSession` | login, logout, harvest and rotation over one vault, both pipes, the sidecar's poll loop |
| `AisStream` | producer, channel, consumer, seeder cycles and shutdown of the AIS feed |
| `MC*` | the instances TLC checks |
| `*Proofs` | the theorems of the module of that name; `CorrelationProofs` has those of `Proximity`, `Correlate` and `Signals`, `RelayProofs` those of `JobQueue` and `AisStream`, `SeededRowProofs` those of `SeedPublish` and `Delivery` |

A module whose proofs share a file with another's has its own name in those of its
specification (`AisInit`, `AisNext`, `AisSpec`, `DeliverySpec`), so that one
module can extend both, and so has one that is checked beside another
(`CoalesceSpec`, in `MCCache` with `RateLimit`; `Signals` in `MCCorrelation`): the two
share no state, and a behaviour of the instance is of one of them.

### Correspondence with the code

**SeedPublish.** A run is one call of `atomic_publish`. `pc` is the await it
stands at. `ReadClock` is `let now = now_ms()`, `SelectLock` is `pool.begin()` and
the SELECT, `TakeLock` is the INSERT or UPDATE with its commit, `HeldByAnother`
the rollback, `Validate`, `Stage`, `Promote`, `Release` are the four numbered
parts of `atomic_publish` that follow. `SnapshotConflict` is what SQLite does to a deferred transaction
that reads, then writes after another connection committed: in WAL mode the
write fails at once with `SQLITE_BUSY`, whatever the busy timeout. `stale` is
the set of runs in that position. `AcquireError`, `Invalid`, `InnerError` and
`ReleaseError` are the error paths; `Abort` is the death of the process or the
`scheduler.abort()` of the relay's shutdown. The commit of a transaction and
its rollback after an error leave the same tables as the code's.

**Coalesce.** A cell is named after the call that inserted it. `runner` is the
permit of tokio's `OnceCell`: held by the call whose initialiser runs, free
again when that call is dropped. The look-up, the registry entry, the
initialiser's fetch, its write and its end, and the eviction are separate
actions since the calls run on several threads.

**JobQueue.** One action per Redis command. A command that fails for the worker
was executed or was not; an action for a failure exists where the two differ from
success followed by something else. The `.ok()` of the code (failures ignored)
and its `?` (failure ends the poll) are the difference between `MarkError`,
`FailedError`, `Drop` on the one hand and `DoneError`, `DrainError` on the other.
The three workers have the same loop; `compute_scenario` and the drivers are the
choice between `Compute` and `ComputeError`. Idle polls change nothing and are
stutters.

**RateLimit.** The transaction begins with a DELETE and so holds the write
lock from its first statement: it is one action. What is not one is the
clock reading before it; `HasLock` bounds the wait by `MaxWait`, which stands
for the busy timeout and the pool's acquire timeout together.

**TokenRotation.** Token `n` is made by the `n`-th rotation; token 0 is the one
the host mints at start and gives the sidecar in its environment. `Init` is the
moment the sidecar has printed its port (at most 10 seconds after the start, the
first rotation comes after 5 minutes). `task[n]` is the task that the loop's
callback spawns: `PersistRead` and `PersistWrite` are `persist_rotation`, `Forward` is
`send_token_rotation` with the sidecar's `set_pair`, `Emit` is the event with its
listener, which sends a `refresh_secrets`. A refresh is `RefreshRead` (the vault
is read, then the rotator is asked) and `RefreshApply` (the answer replaces the
webview's cache); the answers of several refreshes arrive in any order.
`Then` is what follows the `await` in each caller. A poll chain is one
sequence of `setTimeout` and run in `startSmartPollLoop`; `armed` is its variable
`timer`, which is `null` also while a run awaits its answer, so that `Show` can
start a second chain. Only keychain operations take time, each up to
`Patience`, or, as `vault.rs` has no timeout, for ever (`Stall`); everything else happens
before the clock moves (`Quiet`). `ForwardFails` is a hand-over whose error `app.rs` only
logs. Hangs, failed hand-overs, saves, events and refreshes share the bound `MaxFaults`. The
refreshed copy of the vault in `LocalApiState` is not read while a rotator is
attached and is left out, as is the previous token in the webview's cache, which
nothing sends.

**Delivery and the catalogues.** A behaviour picks one handler and follows it
with the jobs of its slots. `StartCycle` is a tick of `run_one_interval` with the
seeder's first request, `Fetch` each further one, `Publish` and `Skip` the two
results of `atomic_publish` (its inside is `SeedPublish`), `Restart` a process
that comes back, `ReadSlot` and `Answer` the handler. A slot's clock counts
minutes: `due` to the next tick, `left` of the row's life. What a request
yields comes from `UpstreamCatalog`: for each client what it makes of rows, of an
empty list, of an object of another shape, of a list without the known members,
of garbage, 404, 429, another status and silence. What a seeder makes of it is its
fetch class in `SeederCatalog`; which members it stores is there too.
`ReaderCatalog` says which members a handler needs (without them
`serde_json::from_value` fails and the answer is 502), which it replaces by a
default, and which must be there for the row to count. The comparison of the
two catalogues, `Undecodable`, `Defaulting` and `Partless`, is the contract the code
nowhere states. `Bootstrap` treats hydration one key at a time: a key's row goes
out as it is stored. The registry describes a relay that runs every seeder; the
binary boots today with an empty scheduler (`relay-bin/main.rs` 14), so that
`Delivery` is about the composition the registry describes.

**Gateway.** One action per stage that can end a request; the fetches of a JWKS
document and of a plan are two actions each, the moment the upstream answers
and the moment the answer is stored, with time passing at both. A deadline is
kept as the ticks left to it. `Handle` is any handler, or one of the four that
ask a model: their answer is the function `Respond` of `Inference`, passed through
`handler_boundary` (`Boundary`) and the etag stage (`Tagged`). `Truth` says what
was really the matter with the call, independently of the code's path.

**Signals, Proximity, Correlate.** `Signals` runs tick by tick: `ClusterNews` and
the detectors are operators over the feed, prices and moves of a tick;
`ColdStart` and `Tick` are the two cases of `analyze_correlations_core`. An event is known
by the position of its first item, a topic's history is a set of points, one of a
moment, of which the latest stay. `analyze_correlations_core` is exported by the crate
(`correlation/lib.rs` 78) and called by its tests alone; `Signals` is what it promises a
caller that calls it tick by tick, and the news contexts of entities, which nothing in
the repository builds, are an input (`Keywords`). `Proximity` makes the union-find
of `cluster_signals_geographic` a step at a time, the pairs in any order, for
the grid is a hash map; distances and cells are constants. `Correlate` puts the
engine around it: `Accept`, `Cluster`, `Report`, `TimeOut`, `Renew` are
the handler of `correlation/v1/run.rs` with the computation it waits for; a group of
signals is a function of their positions in the request; scores, titles, keys
and trends are those of the four adapters.

**TelegramSession.** A writer of the vault is in one of the steps `read`, `write`,
`share`, `push`, each of which one of login `n`, logout, harvest and rotation
takes by itself: the blob it read at the first is written at the second, stored
in `LocalApiState::cached` at the third and pushed to the sidecar's stdin at the
fourth. A write can fail (`WriteFails`), which ends the command, and so can a push
(`PushFails`), which is only logged. `LoginBegin`, `CodeRequested`, `SubmitCode`, `SubmitPassword`, `ReadFile` and
`DropLogin` are the login commands; `ReadLine` is the sidecar's stdin task,
`Start`, `Hear`, `Tick`, `Cycle` and `PersistSession` the poll loop with its watch
channel; `up` is the sidecar's stdout with the harvest channel behind it. The
loop is started as `telegram/task.rs` does; no binary calls that today.

**AisStream.** `Connect`, `GoMute`, `Fail`, `Close`, `Wake` are the session loop of
`ais.rs`, with its backoff computed in words of `Width` bits; `Frame` puts an
envelope into the bounded broadcast channel, `Receive` and `Prune` are the
consumer, `Begin`, `Publish`, `EmptyUpstream` the two reads of the three
seeders that count vessels, `Shutdown`, `ProducerDrained`, `Stop` the steps of
`app.rs`'s shutdown. `Tick` comes only when no task has anything to do.

### Abstractions shared by the modules

Time is an integer that never goes back (`now_ms()` reads the wall clock; a
clock set back is not modelled). Payloads, keys and errors carry only what a
property tells apart. A process that dies loses its local variables and keeps its
rows. Scores, weights and thresholds of the correlation crate are the code's, in
whole per cent, tenths or ticks; its word lists hold, of each list in the code,
the words the instances' titles use (`ai` is in two lists there too). A variable
called history in its module records what no code variable has.

## 3. Runs

Runs that must pass. All are exhaustive.

| Run | Instance | Properties |
|---|---|---|
| `seed_one_domain` | 3 runs, 2 of one key and 1 of another in one domain, lease 2, clock to 3 | `LeaseHeld`: nobody takes a domain from a run whose lease is running. `NoLeakedLock`: a lock row belongs to a publish under way, or to one aborted or unable to release. `PublishOrder`: rows promoted in time never go back. `ImplementsLeaseLock`, `TypeOK` |
| `cache` | calls: 3 of one key, value TTL 2, negative TTL 1, clock to 2, fair; requests: 4 on 2 paths, limits 1, 1, 3, 3, windows 2, 3, 3, 3, wait 1, clock to 4 | `UsableEntry`: the registered cell can serve the next miss. `FetchesAreShared`: no two fetches at once and no fetch for what is there, but for a call that came late, an awaiter of a dropped one, and a later cell evicted. `StoredBeforeShared`: an awaiter hears of nothing that was not stored. `EveryCallReturns`. `SlidingCap`: no stretch shorter than the window by the longest wait lets in more than the limit. `TypeOK` of the limiter |
| `queue` | 2 workers, 3 jobs, the last malformed, 2 faults, `FairSpec` | `InOrder`: first in, first out through crashes and drains. `NoSilentDrop`: a well-formed job leaves the lists only with a row written or a failed computation. `EveryJobIsTaken`: once no worker is in its startup drain |
| `delivery` | all 65 handlers that answer from seeded rows, and each of the 145 hydrated keys, each with the jobs of its slots | `ContractHolds`: outside three named lists no handler answers 502 for a row's shape, 503 while it has a row, or a default for a stored figure. `NeverTakenBack`: no failed cycle, lost lock or restart costs a handler a row. `NothingMadeUp`: outside a named list no reply of an upstream becomes figures |
| `delivery_live` | handlers of one, two and four slots | `Recovers`: once all works, a job with a lock of its own makes its slot fresh again and again. `Served`: and its handler answers 200 for good |
| `gateway` | 2 requests, 2 keys, cache lives and flight 1, plans 1 and 3, routes 0 and 3 | `AcceptedByARecentKey`. `PublishedKeyNeverRefused`: a rotation signs nobody out. `DecidedByARecentPlan`: an outage never reads as a missing upgrade. `ModelFaultsAreTold`: the status says what was the matter with the model |
| `correlation` | signals: 3 ticks, 11 feeds, 2 price vectors, 2 moves; engine: 2 runs over selections of 4 signals of each domain | `EventsShareFeed`. `QuietWhenUnchanged`: what was announced is not announced again, with two named exceptions. `ToldOnce`: a triangulated story is told again only if its beginning changes. `NoStrangers`, `LevelTogether`: clusters are what the near pairs link. `MoreIsNeverLess`: more evidence loses or weakens no card, unless it was one signal posted twice. `TypeOK` |
| `tokens` | 3 rotations, ticks of 15 s: interval 20, overlap 2, poll 4, keychain up to 1 or without end; 1 fault, 1 return from hidden | `BearerAccepted`: while nothing failed, the sidecar refuses the page only for a token it has not been told of yet or after an overtaken answer. `RefusedAtMost`: a visible page is refused for at most a poll period, one more per failure, and the time a save takes, while no operation hangs and no hand-over is missing. `SettlesOnCurrent`: when the tasks have ended, failed or not, sidecar and vault have the host's tokens; a failed hand-over or a hanging task parts them until the next hand-over in order |
| `telegram` | 2 logins, 1 renewal, 1 rotation, 1 logout, 1 failed write or line, 2 lines up | `OnlySignedIn`: while logins do not cross, only accepted sessions are stored. `AgreeWhenQuiet`: vault, host and sidecar hold one session; what overlapping writers, a failed write or a failed line put apart lasts until the next writer that has the vault to itself. `LogoutIsFinal`: a logout between two cycles stays |
| `ais` | 2 vessels, one that stays in the regions, channel of 2, lives, prune, graces and reset 1, backoff 2 to 3 in words of 2 bits | `TableIsCurrent`: the table has the last place heard of each vessel. `CountsTheRecent`: no count has a fix older than life, prune interval and graces together. `SilenceEndsPublishing`. `Reconnects` |

Two runs check what a comment says, and TLC refutes it; the quotes are in
`PROJECT.json`. `queue_orphans`, 1 worker, 2 jobs, 1 fault, `OrphansAreRecovered`:
a worker dies after marking a job, and the requeued job is mistaken for a processed
one because of its own `processing` mark. `coalesce_once`, 3 calls that all stay, no
time passing, `OneCacheWrite`: a call that missed and comes to the registry after
another has written and evicted fetches and writes once more.

Bounds. Three runs are the least that let a lease be stolen twice and an
overtaken release meet a third holder; lease 2 and clock 3 let a lease end
while its holder is at any step and a second one begin, and give clock
readings that are one and two ticks old. Three calls are the least with which
one evicts a later cell while a third awaits it; two fetches side by side need a
fourth, for which `FetchesShared` is proved. Three jobs and two workers give lists with
both ends distinct and a drain beside a busy worker; two faults are a crash
after a lost answer, a failed write or an expiry. In `cache` the two
paths have different windows and share two buckets, and every limit is reached.
In `tokens` one fault is a task that hangs and hands its token over after a newer one, a
hand-over that fails, a lost event or a failed poll; the third rotation is the one that
makes good what the second met. Several faults, as when a lost event and two failed
polls refuse the page until a poll brings the next token before the sidecar is told of
it, are in the proofs. One return from hidden gives two poll chains; a keychain
operation of one tick makes a save and the refresh after it outlast the overlap's first
tick. `delivery` has no bound: the catalogues are the code's. `delivery_live`
leaves out handlers whose product with liveness checking is too large; those it
has cover every fetch class and both ways of decoding. In `gateway` two requests
and two keys give fetches that overlap and are stored in the wrong order; every
life is one tick, so that everything is stale after it. In `correlation` three
ticks are a cold start, one tick to announce and one to repeat; four signals are
the least that make two clusters or one in which the order of unions matters. In
`telegram` two logins let one replace the other's session while the other's
bytes are on their way; one renewal, rotation and logout each meet every step of
the others, and the fault is at any write or line. In `ais` a channel of two
overflows, and a word of two bits lets the shift reach both zero and the cap, as 64 bits do with the code's numbers.
Every bound is a constant or a set, named in its module. `CHECK_DEADLOCK FALSE`
is set where the system may stop: calls return, jobs end, ticks and runs are
bounded, the relay shuts down. The deadlock check is on in `delivery`,
`delivery_live` and `gateway`.

Symmetry is used in two runs, without liveness properties, over runs, or requests and
keys, that are alike.

### What the code does not keep

The properties say what holds. Where a comment or a test promises more, or a
reader would expect more, the exception is in the property, or it is here:

- Seed publication: a publish that outlives its lease goes on beside the run that
  took the domain; a commit of another domain can make an acquire fail with
  `SQLITE_BUSY` (`locks.rs` 72: BEGIN is deferred, the comment says IMMEDIATE); an
  aborted publish leaves its staging row for ever, although `atomic_publish.rs`
  calls it short-lived; a seeder fetches before it asks for the lock, so an
  older fetch can be stamped later than a newer.
- Coalescing: a late awaiter evicts the cell of the next window, and two fetches
  run at once; an expired value is returned as it is although `coalesce.rs` lists
  "otherwise, fetch"; a call that missed before a write and joins after the
  eviction fetches a second time (`coalesce_once`).
- Queues: one failed request in the startup drain ends the worker for good
  (`scenario.rs` 242); a malformed job is removed without the `failed` row that
  `run_worker`'s comment promises; a timed-out request can take effect later.
- Rate limiter: stamps are older than admissions, so a whole window can hold
  more than the limit (the property is for the window less the wait); denied
  checks roll their deletions back and the rows of clients that never return stay.
- Delivery: the named lists. 20 handlers cannot decode what a seeder of theirs
  stores, 7 have a slot that yields nothing, 13 show a default for a stored
  figure, 17 can show zeros for an upstream's odd reply, and hydration passes 28
  kinds of rows of zeros on. Slots without a writer: `consumer-prices:latest-cpi`,
  `economic:fred-latest`, `news:articles:list`. 7 registered names have no seeder, 4
  seeders are not registered; 78 hydration keys have no seeder although
  `keys.rs` says each is a slot "a real seeder would populate", and it counts 112 keys
  where the lists have 145.
- Gateway: `jwks.rs` 173 speaks of a single flight under the write lock, but the
  refresh holds none, and an older document can replace a newer; a JWKS outage
  is a 401; a bad bearer beside a good API key is a 401 in spite of the
  auth-or; an account Convex does not know is a 503; a snapshot past its stated
  end is used once; `cache_control.rs` promises `no-store` on errors that the
  stages before it answer without; `etag.rs` promises to forward a body above 4
  MiB, which becomes empty, and waits for ever for the end of a stream
  (`list-live`); the boundary catches no panic. The production edge has no tier
  rules and wires neither verifier nor checker.
- Inference: an object without a list is "no entities", a missing confidence one
  half, a query of zeros finds nothing, a search ranks the embeddings of other
  models of the same dimension; `news_embeddings` has no writer.
- Correlation: a find dropped by the cold start, by the one-of-a-type filter or
  for low confidence is marked and so lost; an explained flow price diverges on
  the next unchanged tick; two markets whose titles share fifty characters
  share a price; the deduper never forgets; output order of clusters is by
  root, not by smallest member (`engine.rs` 528); near signals in cells of
  different breadth, or on two sides of the antimeridian, can be parted; every
  request has a new engine, so no trend but "stable" is ever shown.
- Tokens: a keychain operation has no timeout, so that two rotations that wait for it
  (a prompt nobody answers for 5 minutes) can reach the sidecar in the wrong order, and
  a hand-over that fails is not repeated: the sidecar then knows tokens the page no
  longer sends until the next rotation; a page that is hidden and shown
  while a poll awaits its answer polls twice per interval from then on;
  SPEC-001 relies on a 401 retry in the webview, which has none.
- Telegram: a logout heard during a cycle, before the loop subscribes or while a
  line is on its way up is undone; a login made while the loop runs is
  overwritten by the old client's session at its next save; a second
  `telegram_login_begin` removes or replaces the file of the first; overlapping
  writers lose updates, a line that cannot be sent is not repeated and a failed harvest is not retried; a FloodWait
  sleeps in the loop and hears neither shutdown nor logout; after a restart the
  sidecar is not given the session (`ipc.rs` 420 says it is).
- AIS: the wait after `n` failures is not `min(initial * 2^n, max)`: with 100 ms it
  is 0 at `n` = 62 and 63; a clean close reconnects at once; a session whose peer is
  gone is never missed; the producer looks for its consumer only between
  sessions, so a shutdown with a healthy socket takes the whole grace and
  leaves the producer behind, while the scheduler, stopped last, publishes a
  table nobody prunes; `WatermarkQueue` neither drains nor pauses anything; two of
  the eight default basins cross the antimeridian and always count zero.
- Health: `seed_meta` rows are never deleted, the MIN of a group hides a member
  that never published, and 503 comes at the threshold, not above it.

## 4. Fairness

Safety needs none. `MCCache`, like `Coalesce!FairSpec`, has weak fairness of the steps of each call
once it has missed: tokio polls every task that is ready, and the HTTP clients
have timeouts, so a fetch ends. Nothing forces a call to start, to be dropped or
the clock to move. `JobQueue!FairSpec` has weak fairness of each worker's drain and
poll steps: sleeps and requests end. Nothing forces a process to start again, a
job to be pushed or a result to expire. `EveryJobIsTaken` speaks of behaviours
in which the startup drains come to an end: the drain of one worker can put back
for ever what another takes, and nothing in the code prevents it.

`Delivery` has weak fairness of each job: the interval ticks, every client of
`UpstreamCatalog` has a timeout (those of the process's own client are in
`edge-bin/lib.rs` 126 and `relay-bin/app.rs` 149), and a publication ends. Requests to
handlers, failures, restarts and the calm after them are not forced; `Recovers`
and `Served` speak of behaviours that become calm.

`AisStream` has weak fairness of the consumer, of a wait that ends, of a
cycle's end, of the steps of a shutdown, and of a connection attempt while
upstream is calm. `Tick` has strong fairness: it waits until no task has anything
to do, and frames and cycles, which come at intervals, cannot keep that from
happening for ever. Nothing forces a frame, a failure or a close. `Reconnects`
names the session that went mute: there is no timeout that would end it.

## 5. Proofs

Each theorem holds for every value of the constants that satisfies the
assumptions named in its module, without a bound on clocks or steps other than
the module's own.

| Module | Theorem | Property |
|---|---|---|
| `SeededRowProofs` | `TypeCorrect` | `TypeOK` |
| | `LeaseSafety` | `LeaseHeld` |
| | `LocksReturned` | `NoLeakedLock` |
| | `CrashBlocksAtMostALease` | no row blocks for longer than one lease from now |
| | `LiveLeasesExclude` | no two publishes of one domain are within their leases at once |
| | `PublishesInOrder` | `PublishOrder` |
| | `LockRefinement` | `ImplementsLeaseLock` |
| | `AnswersStay` | `NeverTakenBack` |
| | `WrongAnswersHaveASlot` | every 502, 503 with rows, default or made-up figure comes from a slot of the handler that calls for it |
| `CoalesceProofs` | `EntryUsable` | `UsableEntry` |
| | `FetchesShared` | `FetchesAreShared` |
| | `SharedIsStored` | `StoredBeforeShared` |
| `RelayProofs` | `FirstInFirstOut` | `InOrder` |
| | `NothingLost` | `NoSilentDrop` |
| | `TableCatchesUp` | `TableIsCurrent` |
| | `CountsAreRecent` | `CountsTheRecent` |
| `RateLimitProofs` | `TypeCorrect` | `TypeOK` |
| | `CapHolds` | `SlidingCap` |
| | `NoneUncounted` | no request is let through because its row collides |
| `CorrelationProofs` | `TypeCorrect` | `TypeOK` |
| | `ClustersAreLinked` | `NoStrangers` |
| | `NearOnesJoined` | `LevelTogether` |
| | `RunsAreLinked` | `NoStrangers`, of the engine |
| | `RunsAreJoined` | `LevelTogether`, of the engine |
| | `MoreNeverLess` | `MoreIsNeverLess` |
| | `EventsShare` | `EventsShareFeed` |
| | `StoriesToldOnce` | `ToldOnce` |
| | `UnchangedIsQuiet` | `QuietWhenUnchanged` |
| `TelegramProofs` | `OnlyAccepted` | `OnlySignedIn` |
| | `ComesToAgree` | `AgreeWhenQuiet` |
| | `LogoutStays` | `LogoutIsFinal` |
| `GatewayProofs` | `KeysAreRecent` | `AcceptedByARecentKey` |
| | `RotationSignsNoOneOut` | `PublishedKeyNeverRefused` |
| | `PlansAreRecent` | `DecidedByARecentPlan` |
| | `CallersAreTold` | `ModelFaultsAreTold` |
| `TokenRotationProofs` | `RotationIsNotFelt` | `BearerAccepted` |
| | `PollsMakeGood` | `RefusedAtMost` |
| | `HostAndSidecarAgree` | `SettlesOnCurrent` |

**SeedPublish.** Assumed: `KeyOf` and `DomainOf` are functions between the right
sets, the lease is a positive number, and `NoRow` is no row. `LeaseHeld` is not
inductive: a run that has read the row and not yet decided could steal a live
lease if what it read were old. The strengthening (`LockInv`) says that a run at
`decide` which is not in `stale` has read what the table still says, that clock
readings are not in the future, that a row's expiry is at least the holder's
reading plus the lease and at most the present plus the lease, and that a run in
the publish steps whose lease has not ended has its row. A steal then needs an
expiry not after the reader's clock reading, hence not after the clock, which
contradicts a live lease. `PublishOrder` adds (`OrderInv`) that a row written in
time carries a stamp not later than the clock and not later than the reading of
the present live holder's publish. The refinement follows from the same invariant.

**Delivery.** What is proved holds of any catalogues, with no assumption about what a
seeder stores, a client returns or a handler needs. `WrongAnswersHaveASlot` says of
every answer that is not what an upstream sent which slot it comes from, whatever
requests failed, which publish lost its lock and when a process came back. Which
handlers have such slots is in the named lists, and comparing the code's catalogues
with them is TLC's part (`ContractHolds`, `NothingMadeUp`). A row made of defaults comes from a slot one of whose
clients can return them (`RowsExplained`); what the handler has gathered halfway
through its slots is what some slot can be to it (`GatheredExplained`). `StaysFed` is
what makes `NeverTakenBack` inductive: a handler that has answered 200 has a slot
with a row that counts, rows are replaced and never removed, and a later request that is
past this slot has gathered its part.

**Coalesce.** `CellInv` says who has a cell and who none yet (`HasCell`, `NoCellYet`),
that a cell's permit is held by exactly the call that works for it (`Permits`), that
only a cell with an answer is evicted (`Evictions`), and that an answered cell's
value is in the table's history (`Answered`). The permit keeps two calls of one cell
apart; two cells of one key are the registry's part. As long as no call has evicted a
cell other than its own (`stray`), an unset cell that some call has is the one in the
registry (`OneUnset`): an eviction takes a set cell, and a new one is put only where
there is none. `Behind` says who can still await a fetch when the row can answer: a
call that registered late, one whose fetching call wrote the row and was dropped, or
one whose fetching call is about to set its cell.

**JobQueue.** The two lists are read as one line, `processing \o queue`. Every
step keeps the line, takes one place out of it, or appends a job pushed now
(`LineStep`), and each of the three keeps it in order; that the head of the
queue becomes the end of processing changes nothing in it. `NoSilentDrop` adds
`Accounted`: what a worker has in hand is in the line, has a row, or its
computation failed. The least elements that LREM and the drains pick are had
from the well-founded order of the naturals.

**AisStream.** Assumed: the durations are positive and the first wait is within the
longest (`ScheduleAssumption`), and a frame is of a vessel and a place
(`FramesAssumption`). `TableIsCurrent` speaks of an empty channel. `NothingSkipped` says
for any channel where the place last heard of a vessel is: in the last of the
vessel's envelopes in it, or, when the channel has none, in the table (`Arrives`). A
full channel loses its head, which is the last of a vessel only when nothing newer of the
vessel is in the channel (`TailNewest`): the history variable `heard` forgets such a
vessel, and one the prune removed. For the counts, `AgesBounded` weighs ages against time to come:
a fix's age together with what the next prune, or what is left of a shutdown, can
still take (`Spare`) is never more than `MaxAge`. There may be infinitely many vessels; that one
has the oldest fix follows from the cap on ages and the well-founded order of the
naturals (`MaxExists`).

**RateLimit.** The cap counts admissions, the code counts rows that it stamped by old
clock readings and deletes by others. What links them in `CapInv` is `Covered`:
since any moment that the window less the wait still reaches, no more requests
were let in than there are rows stamped since that moment less the wait, and no
clock reading there can be deletes one of those. A new row is put one past the
newest when its reading is not later (`Bounded` gives a newest), so it never
collides: that is `NoneUncounted`.

**Proximity, Correlate.** Assumed: a distance is the same from both ends, and near places in
cells of one breadth are in neighbouring cells. `ClusterInv` carries a set closed
under nearness along: a signal and its parent are on one side of it, also in the
middle of a search (`SearchInRegion`). `JoinInv` says that a pair near enough and
no longer to be compared is in one tree; path halving moves nobody to another
tree, and a union merges two whole trees. `Correlate` puts the clustering behind
requests: `RunsAreLinked` and `RunsAreJoined` say the same of `EngineSpec`, where
one set of signals follows another on the grid, some without a place, and a
timeout ends a search anywhere. Assumed: requests are of the four domains and their rows
signals (`RequestsAssumption`), and no place is near `Nowhere`, so that the pairs
`Accept` leaves out need no comparison. `EngineInv` adds that nothing is on the grid
between two requests.

`MoreNeverLess` compares two runs, with other positions, pairs and roots. `FindingInv`
keeps of the first what the second needs (`LastHeld`): a card's signals are those of
one key, whose score the engine remembers, or are on one side of every line in the
rows that no pair near enough in touching cells crosses. `Forest`
says that whoever follows the parents comes to a root, so the N hops of `RootOf`
find it (`Rooted`, by the pigeonhole principle) and a cluster is a whole tree
(`MembersTree`). When the second run has dealt with all pairs, each of its trees
draws such a line through the rows of the first (`TreeOfOldRows`); a
card with one signal in the tree has all of them in it. The score is a maximum per
kind, a sum over kinds and a bonus for their number, none of which loses by
more signals (`ScoreGrows`). The proof failed for a run with one signal posted twice,
rightly: two alike are a cluster, and are none when the next run has that signal
once. `MoreIsNeverLess` now excepts such a first run.

**Signals.** Assumed: feeds are sequences of items with a moment each, prices are
numbers, thresholds are positive. Two parts are recursions over data, and are
solved without the induction theorems: sums over a set (`SumsExist`, `SumIs`) and the
leaders of a feed (`LeaderFound`), each by the least size or position up to which a
solution would be missing. From these follow what an event is (`EventsAre`) and that the
counts add up (`CountsSumUp`), which is `EventsShare`. The other two compare a
tick with what came before, and `SignalsInv` says what that left: a triangulation
told has the key of the earliest of its items and is marked (`NamedWhenTold`), so
that the same story under another key must have another earliest item;
everything the last tick found by itself is marked (`FindsMarked`); and a topic
that was no spike, and whose baseline has not been cut, was at most three times
the average of the points before (`SpikesMarked`). That is no spike now either, for
the points of the last tick have joined the baseline: one more of the same
activity only brings the average nearer to it (`SpikesStayMarked`). A cut baseline
could lose its highest point; `NothingAged` excludes it, since a topic at
`MaxPoints` gains none (`LatestAreFew`).

**TelegramSession.** Assumed: the bounds are naturals, and `None` is no session
and no event. `TelegramInv` has a part for each property, on top of the types.
`SignInv`: while logins do not cross, the file that all of them share belongs to
the one login in flight and is signed in when the command goes on to read it
(`OneDialog`), so what every writer carries is signed in. `AgreeInv`, while
nothing is `mixed`: at most one writer has a blob, and the last line down, or the
store, is the vault's session unless a line up differs from it, which its harvest will
put right (`Synced`). A writer that has the vault to itself restores this with its
line (`Mended`). For this a login whose code is not accepted yet must have nothing to write
(`FreshLogins`). `FinalInv`: after an undisturbed logout nothing is left that
could bring a session back, neither a blob nor a line nor a cycle.

**Gateway.** Assumed: ranks are those of the code, lifetimes are positive
numbers, and of the validities Convex states one is the longest
(`ValidityAssumption`: without it `PlanAges` has no end). What a request decides by
is older than it looks twice over: it comes from a cache, and the cache was
filled by a fetch that took its time. `KeysInv` bounds for each key of the
cached document how long ago Clerk withdrew it, by the document's age and one
flight; `RowInv` does the same for a plan, by the longest validity less what is
left of the row's; `RequestInv` says that what a fetch brings back was true while
this request waited for it, and that a caller marked as holding a key published
all the while finds it in that document. The decisions are actions, and
`KeysAreRecent`, `RotationSignsNoOneOut` and `PlansAreRecent` are about steps: each
follows from the invariant in the state the step is taken in. `CallersAreTold` goes
through the stages from the handler's answer outwards (`Respond`, `Boundary`,
`Tagged`).

**TokenRotation.** Assumed (`KeychainAssumption`): a keychain operation that does not
hang takes less than the overlap, the overlap is no longer than a poll period, and with
two keychain operations no longer than the interval, as 30 seconds, a minute and 5
minutes are. One that hangs (`Stall`) is a fault and may last for ever. None of the
three properties is inductive, and they need one another's parts. What is said of
tasks, pair and polls is said while `disturbed` is false, that is, from the moment no
operation hangs and the newest rotation's hand-over has come in order (`InOrder`),
which the invariant shows to restore it (`MendStep`). `TaskInv` and `PairInv`: at most
the newest rotation has a task, it is over two keychain operations after the rotation,
and the sidecar's pair is that of the host's token or the one before, the latter while
the task has not told it. `AnswerInv`: an answer on its way is the newest token, or the one before if that
was replaced in this very moment. From these, `FreshInv`: while nothing failed,
the refresh that an event asks for is under way and younger than the overlap, or
the page has the new token. For `RefusedAtMost` a poll that is to come is weighed
against the ticks the page has been refused: `PollInv` says that some round's
answer is due (`Due`) in so many ticks that together with those refused, less
those for which its token is still good (`Grace`), they are within `Budget`. A
failure loses the round, but the one after it is due a poll period later, and
`Budget` has grown by as much. `ChainInv` gives that some round is always to come:
a hidden page starts one when it is shown. `SavingInv` has the rest: a page
refused for longer has the newest token already, and the sidecar has been
waiting for it for no longer than the save takes. That last term was missing from
the property at first; the proof failed there, and TLC, given three faults, found
the behaviour that the bounds paragraph of section 3 describes.

Only model-checked: all liveness (out of the prover's reach), the code's catalogues
against the named lists (`ContractHolds`, `NothingMadeUp`), and the two refuted
statements.

## 6. Not modelled

- Database layer, core types, code generation, edge binary: no state of their
  own, or wiring; the tables and transaction rules are in the modules that use them.
- Relay health cascade: a pure function of the `seed_meta` rows at one moment; see
  the end of section 3.
- Seeders, clients, handlers: the figures they compute, URLs, handlers that call an
  upstream directly, the OREF alerts and the RSS fetcher, which no job runs.
- `handlers/geo` and the digest of `correlation/clustering.rs`: nothing calls them.
- Gateway and auth: the headers the inner stages add, the HMAC helper,
  cryptography (a token is judged by its key or not).
- Correlation: threat levels, and the values shown in cards and signals.
- Coalescing: `KvCache::delete` and the batch read, which no fetch meets.
- Workers: the numbers a scenario computes; a Redis command that takes effect
  after its client gave up.
- Rate limiter: the Retry-After value.
- Sidecar and host: launch, port and shutdown; crashes of either process; the
  variant; the relay's read-only Telegram store and the host's
  `VaultSessionStore`.
- AIS: `WatermarkQueue`, which nothing reads. Relay: boot, configuration and the
  OpenSky proxy.
- Webview: the user interface; Convex: the functions behind the plan that
  `Gateway` asks for.
- Everywhere: a wall clock set back.
