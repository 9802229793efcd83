# A TLA+ model of Random-Pixiv-img-api

The program is an Express server that stores rows for Pixiv images in
PostgreSQL, serves one of them at random or by id through its own proxy
connections to Pixiv, and keeps the rows alive with background jobs of pg-boss.
An AdminJS console edits rows and drives the jobs.  Several instances may run on
one database (docs/deployment/docker-compose-prod.md:44).  There is no shutdown
handler: a restart is a crash.

The modules here model the parts that carry state over an `await`: what two
requests, two processes, a job and an administrator do to the same rows, queue
and in-memory objects.  TLC checks small instances; TLAPS proves every invariant and every safety property
of a step that the runs check, for every value of the constants, and that the
configuration caches implement their abstract specification.

Twelve runs: nine must pass, with 40 properties between them, three refute a line
of the repository's own documents.

## How to run

    tlc -workers 2 -config HydrationBackfill_all.cfg MCHydrationBackfill
    tlc -workers 2 -config Handlers_all.cfg MCHandlers
    for m in HydrationBackfill ImportJob ProxyFailover ConfigCaches TokenService \
             ImageLifecycle Services Handlers ; do tlapm ${m}Proofs.tla ; done

HandlersProofs takes less than half an hour, the others minutes.

PROJECT.json lists every run with what it shows, which definition stands for
which lines of the source (`map`), the defects each property would catch
(`mutants`), and where the code and its documents disagree (`findings`).

## Inventory

| component | state | operations | interacts with |
|---|---|---|---|
| hydration backfill (`jobs/hydrationBackfill.ts`, `repositories/hydrationRunsRepo.ts`) | HydrationRun row: status, cursor, counters; the job of the run | start, job handler (batches of `loadNextIllustIds`), re-enqueue | queue (throttled send, retry, DLQ), console, `hydrate_metadata` |
| hydration and jobs console (`admin/adminJs.ts`, `admin/pages/hydrationOps.jsx`, `adminJobs.jsx`) | the lists that its pages show | pause, resume, cancel, start_backfill; list, cancel, retry of jobs; list, retry, delete of dead letters | run row, queue |
| request limiters (`proxy/rateLimit.ts`, `services/pixivService.ts`) | `inFlight`, `waiters`, `nextAt` per proxy, per token and global | acquire, release, pacing, retry | every Pixiv request of the jobs |
| token service (`services/pixivAuthService.ts`, `services/tokenStore.ts`) | `pixivAuthById`, `currentTokenIndex`, snapshot cache | getAccessTokenWithMeta, refresh, invalidate | PixivToken rows, console |
| image serving and self-healing (`controllers/imageByIdController.ts`, `services/randomService.ts`, `routes/random.ts`, `jobs/healUrl.ts`, `repositories/imagesRepo.ts`) | Image rows: status, original_url | open, mark, enqueue heal, heal, hydrate, enable, disable | queue, Pixiv, memcached, import rollback |
| metadata hydration (`jobs/hydrateMetadata.ts`, `repositories/tagsRepo.ts`) | Tag, ImageTag and Image rows | ask Pixiv, write the images, sync the tags of each | queue, detail of an illust |
| detail of an illust (`services/pixivService.ts`, `resilience/*.ts`) | memcached, the opossum breaker of the Pixiv API | getPixivIllustIdData: retry, fail over, classify | limiters, tokens, proxies |
| import (`routes/adminImport.ts`, `jobs/importImages.ts`, `admin/pages/importUrls.jsx`) | Import row with its counters and detail, Image rows; the page's batches and sums | submit in batches, create, import job, rollback job | queue, image rows, hydration |
| public reads (`routes/random.ts`, `routes/images.ts`, `tags.ts`, `authors.ts` and the repositories) | none of their own | /random with its filters, attempts and formats; lists with cursors | image and tag rows, healing |
| token bindings (`proxy/tokenProxyBinding.ts`, `admin/pages/tokenProxyBindings.jsx`) | TokenProxyBinding rows, loads of the proxies while it spreads | spread, rebind, set and clear an override | console |
| proxy endpoint import (`proxy/easyProxiesImporter.ts`, `proxyUriImporter.ts`) | ProxyEndpoint rows, the saved configuration, the timer | import, automatic refresh, rollback, save | console, easy_proxies server |
| console tests (`jobs/adminActions.ts`, `admin/components/recordActionRunner.jsx`) | jobs with a result, the check in flight | order, probe, test refresh, overview of the pool | queue, health check |
| runtime configuration (`config/runtimeConfig.ts`, `config/notify.ts`, `proxy/proxyEndpointStore.ts`) | versioned copy, endpoint cache, LISTEN client | snapshot, invalidate, publish, reconnect | PostgreSQL NOTIFY, every reader of the settings |
| proxies (`proxy/*.ts`) | ProxyEndpoint rows and their one-second copy, samples of each endpoint, the check in flight | load candidates, pick, fail over, check health, probe | token service, limiters, image requests, console |
| queue lifecycle (`queue/queue.ts`) | the boss of the process, the set of created queues | start, stop, ensure queue with its DLQ | all jobs |
| opportunistic hydration (`hydration/opportunisticHydrate.ts`) | dedupe map, quota window | schedule | image requests, `hydrate_metadata` |
| circuit breaker (`resilience/circuit.ts`) | one breaker for the Pixiv API | fire | detail of an illust |
| access, logs, audit, metrics, dashboard | counters, append-only rows | one step each | - |

The hard behaviours, by component (each is a `hazard` of PROJECT.json at its line):

- *Backfill.* A handler reads the row, awaits, and writes it back: pause, resume,
  cancel and a second handler come in between.  The re-enqueue is throttled by the
  very slot in which the running job was created.  A process can die at any await.
  Correct when no illust is skipped, the counters add up, and a live run is never
  left without somebody who will go on with it.
- *Limiters.* `release` wakes a waiter, which takes its slot in a later microtask;
  a request holds a slot of one limiter while it waits for another.  Correct when
  slots are neither lost nor leaked, no wake-up is lost, nobody waits for ever.
- *Tokens.* All calls share entries, flags and an index; a refresh may fail; rows
  are edited and entries rebuilt underneath.  Correct when an entry has at most
  one refresh in flight, every call returns, and none gives up early.
- *Images.* A request marks a row long after it read it; jobs write urls they
  fetched before; a debounce window may already be spent.  Correct when a broken
  row has somebody who will heal it, what the admin turned off stays off, and the
  urls recover.
- *Import.* Imports share images, a death after the counters counts everything again,
  a rollback comes while the job writes.  Correct when a rollback touches what its
  import created and nothing brings that back, and the counters are explained.
- *Configuration.* Loads overlap with invalidations, a notification is lost, a query
  fails.  Correct when nobody gets settings older than the process was told of, and
  everything becomes current in the end.
- *Proxies.* Endpoints queried before an invalidation are cached after it; a check
  fails half way or meets a console probe; two tokens of a request share what has
  failed.  Correct when a request goes by
  the endpoints of a second ago, gives up on them last, and the health check follows
  what they can do.
- *Endpoint imports.* The automatic refresh and the console write the same rows, each
  from a configuration it has read before.  Correct when what a rollback disabled stays
  so, and a refresh that failed is followed by another.
- *Details.* One breaker counts the attempts of all callers through all proxies.  Correct
  when a proxy's failure does not close the way to Pixiv, and Pixiv's rate limit stops
  a call at once.
- *Hydration.* Two workers hydrate one illust, and an illust is scheduled on demand by
  calls that await their configuration with an old time in hand.  Correct when the tags
  of an undisturbed sync are those of the detail, known fields stay known, and neither
  the quota nor the dedupe map lets more through than they promise.
- *Public reads.* Rows change between the queries of one request and the pages of one
  list.  Correct when an answer is one that was meant, and a list is complete.
- *Console pages.* They act on lists that are old, and several of them act at once.
  Correct when no work vanishes, a choice is not overwritten by somebody who did not
  see it, and a result that is shown is true.

## Modules

### HydrationBackfill (with MCHydrationBackfill, HydrationBackfillProofs)

State: `run` is the row; `missing` the illusts whose images lack metadata;
`waiting`, `orphans`, `dlq` are the jobs of pg-boss that wait, whose process has
died, that are dead-lettered; `slot` is the two-second throttle slot; `tick[w]` is
the handler that worker `w` runs, with its local variables; `admin[a]` a request of
the console.  `calls`, `lost`, `deaths`, `faults`, `adminOps` are kept for the
properties and bounds.

One action per stretch between two awaits of `processBackfillRun`: `Fetch`,
`ReadRun`, `MarkRunning`, `CheckStatus`, `LoadBatch`, `EnqueueOne`, `Commit`,
`AfterCommit` / `MarkFailed`, `Complete`, `FinalCheck`, `Requeue`, `Return`.  The
console: `Start`, `StartEnqueue`, `PauseRead`, `PauseWrite`, `ResumeRead`,
`ResumeWrite`, `ResumeEnqueue`, `ResumeUndo`, `CancelRead`, `CancelWrite`,
`DlqRetry`, `DlqRetryDelete`, `DlqDelete`.  External: `Expire`, `Crash`,
`AdminCrash`, `SlotElapses`, `Hydrated`.

| run | shows | bounds, and why they are enough |
|---|---|---|
| backfill | `NoSilentStall`, `NoSkippedIllust`, `CountersAgree`, `EndsOrIsStranded` | two processes, two illusts in batches of one, a job per batch, one request of the console, one fault (a send, a handler, a process), which with no retry dead-letters the job: enough for the handlers to move each other's cursor back, and for every way of losing the driver |
| backfill_stall | refutes `RunsToTheEnd` | no fault, no admin |

Fairness: every handler and request that has begun goes on (Node runs its
continuations; an unresponsive database is a fault), an orphaned job expires
(pg-boss maintenance), the throttle slot ends.  Nothing makes an admin act.

Proved, from `BackfillAssumption` alone: `TypeCorrect` (`TypeOK` with the types of
the local variables of each handler, which `TypeOK` needs to be inductive);
`CountersAlwaysAgree` (from the invariant that a handler's own `ok` and `bad` add up
to what it is about to add to `processed`); `NothingSkipped` (the row's cursor
and every cursor that a handler holds are covered: each illust up to them either has
its metadata or was requested; `NextBatch` leaves nothing between the cursor and its
front, which is where `NextBatchFront` is used); `NeverSilentlyStalled` (each step
that takes the last driver away either leaves the run not live or records why).
The sums and sets range over any finite `Illusts`, any number of workers and admins.

### RequestLimiter (in Services)

`inFlight` and `waiters` are the fields of a LimiterEntry, `wait` the time to its
`nextAt`; `call[c]` is where a request is: its stage, how many limiters of the stage
it holds, its attempt.  `Plan` gives each request its stages: the proxy's limiter
alone, and inside it the global and the token's.  A step is what runs between two
awaits, so `Release` and the step of the waiter that it wakes (`TakeSlot`) are apart.

| run | shows | bounds |
|---|---|---|
| services | `SlotsAccounted` (no slot is lost, leaked, or idle while somebody waits), `EveryCallEnds` | three requests, two through one proxy and one direct, two tokens, every limit one, intervals of 1 and 2, one retry: each limiter has a waiter, and stages nest |

Fairness: every request that can go on does, and time passes.

Proved in ServicesProofs, from `LimiterAssumption` alone: `SlotsAlwaysAccounted`, for
any requests, plans, limits, intervals and retries.  The invariant `LimiterInv` has, beside
the types, `Placed` (where a request is, how many limiters of its stage it holds and which
one it waits for agree), `LinedUp` (a line has each waiter once, and only waiters), `Slots`
(`inFlight` is the number of holders) and `Promised` (where somebody waits, the slots held
and the slots promised to woken waiters fill the limit).  `SlotsAccounted` without the last
two is not inductive: a release hands on a slot before the waiter has it.  `AfterStart` is
the state of a request whose stage has let it go, and `Holds` the limiters of its stages
so far.

### TokenService (with MCTokenService, TokenServiceProofs)

`row` are the PixivToken rows; `cache` the snapshot cache; `byId` and `entry` the
entries of `pixivAuthById` (an entry is an object that a call may still hold after
it was replaced: it is named by token and generation); `current` the shared index;
`call[c]` a call of `getAccessTokenWithMeta`.  `Begin`, `Load`, `Store`, `Install`
follow `ensurePixivAuthInitialized`; `Select` chooses by the strategy and enters
`ensureAccessTokenReady`; `RefreshOk`, `RefreshFail`, `Poll`, `Use` are its ends.
`Edit` and `Invalidate` are the console's; `CacheExpires`, `AccessExpires`,
`BackoffEnds` are the clock.

| run | shows | bounds |
|---|---|---|
| tokens | `OneRefreshPerEntry`, `GivesUpLast` | two calls, two tokens, one failure, one edit (so entries are replaced while a call holds them); any choice of a candidate, a superset of the other strategies; the two callers are alike, which SYMMETRY uses (no liveness is checked here) |
| services | `EveryCallReturns` | two calls that come again, round robin, one failure, one outage of the database |
| token_secret | refutes `EditedSecretUsed` | one edit |

Fairness: a call goes on; a call that polls sees the flag down if it is down again
and again (it polls every 50 ms, and a refresh lasts far longer than the gap
between two refreshes of the same entry need be).

Proved, from `TokenAssumption` alone, for any tokens, calls, failures and edits:
`TypeCorrect`; `OneRefreshAlways`; `GivesUpOnlyLast`.  The invariant `ServiceInv` (which
TLC found true in 2.2 million states) says that an entry's flag is up exactly while one call
is at its refresh, that a refreshing entry is neither valid nor in backoff, that a table of
entries names the last generation of each token, and of a call what it has tried: each
entry of `tried` was refreshed by it or is in backoff, unless something aged.  The ids of a
snapshot are put in order by rank (`Ascending`), so that nothing is recursive.

### ImageLifecycle (with MCImageLifecycle, ImageLifecycleProofs)

`status` and `url` are the rows of the pages of one illust; a url is its version, and
`origin` the one Pixiv serves; `detail` is the cached answer of Pixiv; `waiting`,
`heal`, `slot` the heal_url jobs, their worker and the debounce window; `hydrate`
the hydrate_metadata worker; `reader[r]` an image request.  `wanted`, `revoked` and
`why` are kept for the properties: what the admin decided last, which disabled pages
a request has marked broken since, why nobody is healing a page.

| run | shows | bounds |
|---|---|---|
| image | `TypeOK`, `BrokenAccounted`, `OffUntilRevoked`, `UrlsRecover` | two pages, one request at a time whose later steps come among jobs and admin requests, one retry, one move of the urls, one hydrate job with a cached detail, one admin request, one fault |
| image_disabled | refutes `DisabledNeverPicked` | one page, one request, one disable |

Fairness: requests and jobs settle, the window ends; every page is asked for again
and again, and not every client leaves before Pixiv has answered.  `UrlsRecover`
speaks of the url and not of the status, because a page that a stream error marked
broken while its url is good (or that a hydrate job gave a good url) is served by id
without ever being healed: `markOk` has no caller, so it stays out of /random until
an admin enables it.

Proved, from `LifecycleAssumption` alone, for any pages, readers and retries: `TypeCorrect`
(inductive with `origin = moves`: the version that Pixiv serves is one that exists);
`BrokenAlwaysAccounted` (a mark either leaves its reader at the step that asks for a heal
job or records why not, and every step that takes the last job away heals or records why);
`StaysOffUntilRevoked` (heal and hydrate jobs write no status of a row that is off unless
it is broken, and only a mark makes it so, which revokes).

### ImportJob (with MCImportJob, ImportJobProofs)

`img` are the rows, `rec` the counters of the Import rows, `job[i]` the import's one
job with the handler that runs it, `rb[r]` a rollback and its job, `asked` the images
whose metadata was requested.  `CreateImport`, `EnqueueImport` are the request;
`TakeImport`, then `UpsertOne` and `SetPath` for each item or `BulkUpsert` for all,
`Hydrate`, `ReadCounters`, `WriteCounters`, `Return` the handler; `ItemFails`,
`BulkFails`, `HydrateFails` its errors that are caught and `Interrupted` those that
are not, with deaths.  A row's `id` counts its lives, because the second update of an
item goes by id.  `Import.detail` is left out: it is a report, which the request and
the jobs each read and write back whole.

| run | shows | bounds |
|---|---|---|
| import | `ForeignRowsSurvive`, `RolledBackStaysOff`, `PendingExplained`, `ReportTrue`, `JobsEnd` | an import of an image that exists and a new one, a bulk import of the new one, one rollback, one retry, two faults: a job that is repeated and one that is dead-lettered |

Fairness: the worker of each process takes jobs and its handlers go on.  A job that
outlives its expiry (15 minutes) while it still runs is not modelled.

Proved, from `ImportAssumption` alone: `TypeCorrect`; `ForeignRowsAlwaysSurvive` and
`RollbackIsFinal`, both from `RollbackInv` (a rollback names an import that exists; a
job that was over when a rollback ran stays over; a row that was there before has no
creator): a step of an import only adds rows of its own, and a step of a rollback
neither makes a row active nor gives it another creator; `PendingAlwaysExplained`, from
`PathInv` (the images a handler keeps belong to its import, and it works on one at a
time, so the explanation of a row moves from `cur` to `bad` or to the next delivery).
They hold for any imports that share any images, any number of rollbacks, processes,
retries and faults.  `ReportAlwaysTrue`, from `ReportInv` (checked by TLC in 465 237 states):
the items of a job are at each moment apart in to do, current, good and bad; the counters
hold the rejected lines and a number of deliveries times the items, at most as many as there
were, one more once it has written; and what was good was asked for unless the note says so.

### ConfigCaches (with MCConfigCaches, ConfigCachesProofs)

`proc[p]` is the state of runtimeConfig.ts in a process: version, copy, load under
way; `call[c]` a call of `getRuntimeConfigSnapshot` with the load it owns or has joined;
`listener` and `inbox` the LISTEN connection and what is under way to it.  `told` and
`since` are kept for the properties.  `EditSettings` and `InvalidateSettings` are the
proxy switch of the console, the one edit that invalidates settings; `EditPolicy` is
an edit of the database of which nobody is told.

The caches implement **FreshReads**, an abstract specification of what a caller is
promised: settings are written, processes are told of writes some time later, and a call
returns a value no older than what its process had been told of when the call was made,
or the defaults.  The refinement maps the calls under way to `asked`, what a process had
been told of when a call began to `since`, and what it got to `answer`; versions, copies
and shared loads disappear.  Every step of ConfigCaches is a step of FreshReads or
changes nothing it can see: `Tell` is an invalidation, `Return` the end of a load for
all the calls that share it, `AskAndReturn` a copy that is served at once.

| run | shows | bounds |
|---|---|---|
| config | `ReadsAreFresh` (the refinement), `NeverBackInTime`, `EventuallyCurrent` | two processes, two calls in one of them, two edits in either or by hand, one fault |

Fairness: calls keep coming and settle, a second passes, timers fire.  Nothing is
assumed of NOTIFY: a publication may always fail, so the properties do not rest on
it.  (PostgreSQL takes a literal as the payload of NOTIFY; the bound parameter of
notify.ts:264 is rejected by its grammar, and then every publication fails.)

Proved, from `CachesAssumption` alone, for any processes, calls, edits and faults:
`TypeCorrect`; `NeverGoesBack`; `CachesImplementFreshReads`, that `Spec` implements
`FreshReads` under the mapping above, step by step.  All three rest on `CachesInv` (checked
by TLC in 4.9 million states): a copy is no older than what its process was told of; a load
of the current version is the one that others may join, and began with all that its process
was told of; a call that joined knows no more than the load it waits for; what a load has
read is no older than the copy.  The middle part is what an invalidation without a version
would break.  Liveness (`EventuallyCurrent`) stays with TLC.

### ProxyFailover (with MCProxyFailover, ProxyFailoverProofs)

`row` is `enabled` of each endpoint, `cache` the copy of proxyEndpointStore.ts, `timer`,
`check` and `samples` the health check, `line` what each proxy can do, `req` a request to
Pixiv: what its query has read (`rows`, `old`), its candidates, those that failed it, its
token and its switches.  `Begin`, `Query`, `Store`, `QueryFails` follow
`loadEnabledProxyCandidates`; `WithCandidates` filters by health and ends a request that
has none, refused or direct by the policy of its host; `GetToken`, `Answer`, `ProxyFails`
are the loops of proxyFailover.ts.  `Tick`, `CheckQuery`, `ProbeEnds` are the health
check, `AdminProbe` a probe job of the console, which keeps one sample.  `Edit`,
`Invalidate`, `Second`, `Turn` are the console, time and the proxies.  `changed`,
`outage` and `req.sure` are kept for the properties.

Scores, the rendezvous rank for a token and the cost of an override order the
candidates and nothing more: the model takes any order.  The retries that the limiters
make within one attempt are part of that attempt.

| run | shows | bounds |
|---|---|---|
| proxies | `GivesUpLast`, `ListCurrent`, `HealthTracks` | three proxies and one switch, so that a request without a token uses up its switches before its proxies and one with two tokens its proxies before its switches; windows of two samples, of which a failure spoils one; two events |

Fairness: the timer fires, the query of a check settles and every probe has a
timeout.  `HealthTracks` speaks of the time when the scheduler runs: the first load of
endpoints starts it, and nothing makes a request come.

Proved, from `FailoverAssumption` alone: `TypeCorrect`; `NeverGivesUpEarly`, from
`Attempts` (at the n-th token's turn, n times one more than the switches have failed, or
all have, and the proxy to try next is one that has not); `CandidatesCurrent`, from
`ListInv` (the copy is right about each row that was not edited within a second, and a
load that is not too old to be kept covers all of those).

### OpportunisticHydrate (in Services)

`dedupe` and `window` are the map and the quota of opportunisticHydrate.ts as ages,
`boss` the process's queue with the start that concurrent callers share (queue.ts),
`call[c]` a call that has taken its time and awaits the configuration.  `Serve`,
`ConfigRead`, `ConfigRefuses`, the start, the send and the job are its steps.  `last`,
`forgot`, `recent` are kept for the properties.

| run | shows | bounds |
|---|---|---|
| opportunistic | `QuotaHolds`, `NotTwice`, `EventuallyHydrated` | two illusts, two calls, an entry that lives three ticks (more than the lateness of a call takes away), a window of two, one hydration per window, a map for one illust (so it overflows), one failure anywhere, one change of the setting |

Fairness (`FairHydration`): what is awaited settles, time passes, the worker works, and
images of `i1` go on being served while it is not hydrated (strong, because the calls may
be taken by `i2`, whose images need not be served).

`consumeQuota` is a fixed window, and a call brings the time from before it awaited its
configuration.  "At most twice the limit in any window" is then true only of calls that are
hardly late: with `Latency` of two ticks or more a late call restarts the window at an old
time, and a third window fits.  What holds, and what `QuotaHolds` says, is twice
the limit in a stretch that is shorter than a window by the lateness, and less than three
times the limit in a whole one.

Proved in ServicesProofs, from `OpportunisticAssumption` alone: `QuotaAlwaysHolds` and the
step property `NeverTwice`, for any illusts, calls, windows, limits, capacities and any
lateness below the window.  `QuotaInv` bounds what was scheduled at the last `k` ages by how
the window stands: at most its count as far back as its first call, at most that and one
limit more up to a window before, less than that and two limits for all ages there are.
`EntriesInv` says that an entry which was not forgotten is hardly older than the last
hydration of its illust.

### EndpointImport (in Services)

`row` are the ProxyEndpoint rows, `setting` the saved configuration, `act[a]` what the
automatic refresh or a request of the console is doing, with the configuration it has
read.  `Tick`, `TickConfig`, `Export`, `ReadLine`, `Upsert`, `Imported` are the import;
`Rollback` with `UndoSetting` the rollback, `SaveRead` and `SaveWrite` the form;
`why` records what may have enabled a row since the last rollback.

| run | shows | bounds |
|---|---|---|
| services | `RollbackSticks`, `RefreshTracks` | one exported address, two overlapping requests of the console beside the automatic refresh, one fault; lines are imported one by one, so more addresses repeat the case |

Fairness: the timer fires, the interval passes, and what the refresh awaits settles.

Proved in ServicesProofs, from `EndpointAssumption` alone: `RollbackAlwaysSticks`, for any
addresses, any number of administrators and faults.  Its invariant adds to it what the
property does not see: as long as nothing but an unwritten setting could enable a row,
nobody is importing and no save will switch refreshes on; and once the setting is written
it is there and off, so that the next tick has nothing to do.

### PixivDetail (in Handlers)

getPixivIllustIdData: `call[c]` goes from the cache through the plan (configuration,
routing, proxies, token), its attempts with their retries and proxies, to what the
caller is told; `breaker` and `stats` are opossum's.  `Classify`, `Retryable` and
`ProxyClass` are outboundErrors.ts and proxyFailover.ts; an outcome is one of ten
kinds.  `DetailsRight` has four parts: only what is Pixiv's opens the breaker; after a
rate limit the call asks no more and says so; a call that a proxy failed has tried all
that were enabled, or as many as the switches of both tokens allow together; only a detail
is cached.  The loops of runWithTokenProxyFailover are counted by `turn` (tokens) and
`tries` (proxies of this token), what they have used up by `left` and `failed`; `Pools`
says how many proxies may be enabled, any number.

Proved (`DetailsAlwaysRight`), for any number of proxies, of switches and of retries: the
invariant adds that at every attempt the loops have given up exactly `turn` times one more
than the proxy switches, plus `tries`, proxies (so that where they end with some left, the
product of the property is reached), that a call which waits for its next attempt has a
retry left, and who has opened the breaker, if it is open.

### PublicReads (in Handlers)

`image` and `tags` are rows, `now` a request to /random with its filters and attempts,
`walk` a list that a client pages through.  `Edit`s by others come between any two
queries.  Both dialects of the filter (Prisma and raw SQL) are there, and the properties
compare them with what the query means.  "None matches" has three causes and the client
cannot tell them apart, so the property names all of them: nothing matched all the while;
the row that was chosen was deleted before it was read (`lost`); or the stream was asked for
and every attempt's image could not be fetched (`misses`; pickRandomImageStream returns null
after its last attempt, randomService.ts:129, as it does when it finds no image).

Width, height, pixels and orientation of a row are written together
(domain/imageGeometry.ts), which `ReadsAssumption` says of `Metadata`: a query means the
shape of an image, and the filters look at the stored `orientation`.

Proved: `AnswersAlwaysMeant` and `NeverRetriedHot`, for any rows, metadata, queries and
edits.  The lemma `FoundMeant` says that both dialects find exactly what the query means, of
any row and any query; the invariant follows a request through its attempts: the rows that
matched all the while have not failed recently when an attempt begins, a row that is
gone when it is read was deleted after it was chosen, and before the n-th attempt n - 1
have failed.

And `WalksAlwaysListAll`, for any rows, queries, edits and lengths of a page.  Its invariant
`WalkInv` says what lies on either side of the cursor: nothing that is listed comes after it;
what was to be listed all the while is listed, or comes after it, or is on the page whose
rows are being read.  `PageTaken` says of any finite set of keys and any limit that what
is neither before the cursor nor on the page comes after the last key of the page; an edit
only takes keys from what was to be listed all the while.  A page is a set of keys,
which the client appends in the order of the list (`InOrder`).

### MetadataHydration (in Handlers)

hydrate_metadata with the queries of syncImageTags and upsertTag; `expected` holds the
tags of the last sync of a page that none overlapped.  The pages of a detail are taken by
index (`NextPage`).

Proved: `HydrationAlwaysKept`, for any workers, pages, names and details.  The invariant says
that the rows a sync has found or made are those of the tags it is done with, one of each by
folded name, and that a sync which none overlapped has read the rows its image has.

### TokenBindings, PrimaryBindings (in Handlers)

TokenBindings: the page and the three actions that write a row of
`token_proxy_bindings`, query by query.  PrimaryBindings:
`computeScaledPrimaryBindings` as the three loops it is, one turn per step, from any
bindings and any affinities.

Proved: `ChoiceAlwaysSticks`, for any tokens, proxies, scores and consoles (an override that is
about to write knows only that its row may be there by now, and its write leaves the primary
of a row that is); `SpreadAlwaysRight`, for any tokens, proxies, scores, bindings and caps.
`SpreadInv` says at each turn of the loops that the loads are the sizes of the bindings, that
the proxies which are trimmed have at most the cap and still their first tokens, and that if
one has more than the cap all have it.  It rests on two counting lemmas: `PlacesCount`
(exactly `k` elements of a finite order have fewer than `k` before them, so a trimmed proxy
keeps as many as its load is set to) and `OwnersCount` (proxies that each own `c` tokens
own the number of proxies times `c`, so the default cap always leaves room for the next).

### ConsoleJobs, ConsoleProbes, ImportPage (in Handlers)

ConsoleJobs: the pages of jobs and of dead letters with the handlers that answer them
and the workers.  ConsoleProbes: the orders of tests, their jobs, the health check they
join, the overview of the pool, and the endpoints themselves, which stop answering and
answer again at any moment: `up` says which would answer now, `worked` when each last
would have.  `ReportsTrue` compares what the console says with that history.  A check is
dated before its probes, so what it calls ok has worked at its date or later, and the
overview measures that date against the moment it was asked; dated when the last probe has
ended, it would show as recent what stopped working long ago (`FinishDatedNow`).
ImportPage: lines, dedupe, batches, sums, progress, with the routes that answer a batch;
what becomes of an import, and what a rollback does to its images, is ImportJob.  `fetch`
holds the requests for progress and for rollbacks that are under way: a submit or a clear
may begin beside them, and their answers land in whatever the page shows by then.  The text
and the settings stay as they are from the start until they are cleared, so a result is
compared with the text that was submitted, not with what is typed afterwards.

Proved: `WorkAlwaysAccounted`, for any works, queues and pages (the invariant leaves any one
job out of account while a retry has sent a copy of its dead letter and has yet to delete
it, and says that a dead letter's queue was named after a queue that somebody works or an
operator may send to, without which a retry could send into a queue that does not exist); `ReportsAlwaysTrue`, for any endpoints, tokens and cutoff (`ProbesInv` says that whatever
has answered in the check in flight, is ok in the last report, or is shown as ok has worked
at the date of that or later (`Since`), which stays true as endpoints change and time passes
(`LaterStill`), that an endpoint which is up has worked now, and that a token's test, which
is ok when Pixiv says so, is no endpoint's);
`SubmitsAlwaysTrue`, for any lines, images, sizes, batches and limits of the server.  The
last rests on `PageInv`: while a submit is under way, the batches of the imports it was told,
followed by the batches that are left, are the deduped lines.  That the batches of a
submit are its lines to begin with is `ChunksAreCut`: each turn of chunkLines (`Put`) adds
its line at the end of what the batches hold, whatever the limits are.

| run | shows | bounds |
|---|---|---|
| handlers | `TypesOK` (of the component in focus) | all below |
| handlers | `ChoiceSticks` | two tokens, two proxies with different affinities, the page and one other console, two posts, one failed query, one toggle |
| handlers | `SpreadRight` | three tokens over one or two proxies, all affinities in 0..1, all current bindings, the default cap and 1: the smallest instance in which a cap both trims and spills over |
| handlers | `WorkAccounted` | a job that hydrates and one that probes, lists of two, three jobs, two posts, one failure |
| handlers | `ReportsTrue` | two endpoints and a token, two orders, edits, failures or changes of an endpoint, one tick and a cutoff of none, so that whatever was begun a tick ago is old |
| handlers | `SubmitTrue` | all texts of up to two lines, and two of three, out of two ways to write one image and junk; batches of one and three, a server that takes two lines, two submits, one failure; progress is asked for again when what was asked has been answered |
| handlers | `HydrationKept` | two workers, two pages, three names of which two differ in case, three jobs, one failure |
| handlers | `AnswersMeant`, `NoHotRetry`, `WalkListsAll` | three rows of three kinds, five queries that use every parameter, two edits, one failure |
| handlers | `DetailsRight` | two calls (alike, so taken by symmetry), none, one or five proxies, one switch of proxies and one of tokens (so that five proxies are more than a call may try), one retry, a volume threshold of two |

No liveness is stated here: these handlers wait for nobody.

### Why several components share a run

Handlers and Services hold components whose variables are disjoint: no step of one
can change what another sees; MCHandlers and MCServices give their constants values.  A
behaviour of either module is a behaviour of one of its components, in `focus`; the
variables of the others are unused.  The theorems of HandlersProofs and ServicesProofs go
the same way: an invariant of each component, and that the component in focus has it.  Every behaviour of every component
is there, and each property speaks of the component in focus, so nothing is lost by
leaving their interleavings out.  In Services the fairness of each component is that
of its module's FairSpec, restricted to its focus.

## Known disagreements that no run is spent on

The three `violation` runs each follow one quoted line.  These came up as well:

- `complete` writes the status without a condition, so a pause or cancel that came after
  the batch's check is lost (hydrationBackfill.ts:380).
- Two processes of a backfill request an illust twice: the cursor is read before the
  batch and set after it (hydrationBackfill.ts:416).
- With two slots the interval between requests does not hold: `nextAt` is read before a
  sleep (pixivService.ts:114).
- The backoff of a token is forgotten when it leaves a snapshot for an outage of the
  database and comes back (pixivAuthService.ts:301).
- Token rows (tokenStore.ts:83) and proxy endpoints (proxyEndpointStore.ts:85) that were
  queried before an invalidation are cached after it, for up to a second.
- /random marks and heals a row although Pixiv answered with Retry-After
  (randomService.ts:119).
- An invalidation drops the last loaded configuration, so if the database fails next
  the defaults apply, although PPOOL-0004 goes on with the last one
  (runtimeConfig.ts:110).
- The rollback request writes `Import.detail` as it was before it sent the job
  (adminImport.ts:257), over the entry that a fast worker has written, which
  DATA-0002.md:34 expects to find; the import request does the same (line 523).
- More requests than the limit can be in flight: a woken waiter takes its slot in a
  later microtask, and a new request can come first (pixivService.ts:79; docs/queue.md:33
  speaks of a maximum).
- An override of a token's proxy lives as long as one request, and
  `token_proxy_bindings` is neither read nor written for it, although
  docs/usage/proxy-pool.md:48 and docs/adr/PPOOL-0003-token-proxy-binding.md:31 keep
  it; its time to live cannot run out between its planning and its use.
- A console probe during a check gets the report of that check, of other endpoints
  (healthCheck.ts:339).
- One endpoint row without a valid host or port makes every load fail, and then no
  endpoint is used (proxyEndpointStore.ts:80).
- The periodic easy-proxies import enables endpoints that an administrator has disabled
  (easyProxiesImporter.ts:212, proxyUriImporter.ts:144).
- The pasted-lines import says that it does not overwrite manual endpoints
  (easyProxiesImport.jsx:315), but looks a row up and writes it in two steps
  (proxyUriImporter.ts): one that is made manual in between is overwritten.
- An empty password in the easy_proxies form means "unchanged", but if the previous
  setting cannot be read it is erased; a failed read of it also makes the automatic
  refresh go by the environment, which refreshes (proxyEndpoints.ts,
  easyProxiesImporter.ts); a rollback reports auto_refresh_disabled although its write
  may have failed or been skipped, and writes the environment's password to the database.
- An open breaker's error has no response and so is taken for a failure of the proxy:
  every proxy is tried, and recorded as failing, before `circuit_open` is told
  (outboundErrors.ts:100, proxyFailover.ts:189).  A proxy that times out counts against
  Pixiv's breaker; a proxy that fails in the half-open trial closes it.
- A token that cannot be had is told as a network error of the Pixiv API
  (pixivService.ts:290).
- /random as an image answers "no match" when every fetch failed, or when the row that
  a raw query picked is deleted before it is read; `format=json&r18=0&r18_strict=1` may
  answer an image whose row became r18 before it was read again (docs/api/random.md:126);
  a stream error marks the row broken even when it is transient (random.ts).
- Two jobs that meet may create the tags "Foo" and "foo", and hydrations of one illust
  that overlap may leave a mixture of both details' tags (tagsRepo.ts:45, 73).
- job_cancel answers ok for a job that runs or is done, and the page says cancelled;
  two consoles may both retry one dead letter and both are told it worked; a choice of
  all queues does not survive a refresh (adminJs.ts, adminJobs.jsx); a refresh of the
  dead letters shows the first queue's while another stays selected (hydrationOps.jsx).
- When a later batch of an import fails, the ids of those before it are not shown
  (importUrls.jsx:448); a progress that was asked for before a rollback may be shown after
  it; hydrate-only answers ok when some of its sends failed, and the page ignores the note.
- The report of a probe of one endpoint becomes the pool's last report, which the overview
  shows, and the probe discards the samples of its endpoint (adminActions.ts:343); an
  order that is reported as timed out may still be sent (runWithTimeout.ts).
- An identifier is turned to a bigint after a test by a pattern that no digits match
  (adminJs.ts:202); stopQueue has no caller.

## What is proved, what is only model-checked, what is not modelled

Proved for every value of the constants, from the named assumptions on them and nothing
else: the theorems above, in eight modules (PROJECT.json lists them under `theorems`).  They
are all the invariants that the runs check, their properties of a step (`NeverTwice`,
`StaysOffUntilRevoked`, `RollbackIsFinal`, `NeverGoesBack` and others) and the refinement of
FreshReads.  `TypesAlwaysOK` puts the components of Handlers together: each has its
invariant while it is in focus (`AllHold`), and the invariant gives its types.

Where a model computes by recursion and a theorem needs the result, the model has a recursive
function of a number, and the proof goes by induction over a set of numbers: `UpTo` says that
a set which has 0 and with n also n + 1 has every number up to m, and follows from the least
element of what is missing.  `ChainExists` gets the function itself from that, `DedupedLines`,
`FlatExists` and `ChunksAreCut` are what it computes.

Liveness (`EndsOrIsStranded`, `EveryCallEnds`, `EveryCallReturns`, `UrlsRecover`, `JobsEnd`,
`EventuallyCurrent`, `HealthTracks`, `RefreshTracks`, `EventuallyHydrated`) is checked by TLC
only: under fairness it is out of the provers' reach.  Bounds are the tables' above; every
unbounded counter of the code is capped by a constant named `Max...`, and the theorems hold
for any value of those.

What the proofs asked of the models: functions and sets where TLC would have done with
recursion (`Ascending`, `NextPage`), conditions in `IF` chains, scores by token and then by
proxy, and the assumptions that the code gives but TLC's constants had by accident: that the
settings of the import page are numbers (`PageAssumption`), that endpoints and tokens have
different ids (`ProbesAssumption`), that details hold pages and tags (`HydrationAssumption`), that the
geometry of a row is coherent (`ReadsAssumption`).

Not modelled, with the reason:

- admin access, rate-limit and CSRF middlewares: a decision about one request from its
  headers, address and session; the counters are those of a library;
- other middlewares, the dashboard, metrics, version and health routes: they transform or
  print, and nothing is decided by them later;
- the legacy image proxy: stateless per request; what it goes through is modelled;
- the request log and audit: append-only rows, written without waiting, which nothing
  reads back to decide, and a timed cleanup that deletes old ones;
- platform code (environment, clients, parsing of urls, logging), the process start, and
  the JavaScript twins of TypeScript modules;
- of the modelled components: the bytes, headers and ranges of streams; how configuration
  rows are parsed; named proxy pools; job metrics; a job that outlives its 15-minute expiry
  while it runs (except in HydrationBackfill, where an orphaned job expires).

## Plan

Done: the eighteen modules above and their compositions Services and Handlers; theorems for
every component, which state every safety property of the runs.  What is left, in this order:

1. An abstract specification of the limiters (a counting lock with a line) and of the public
   lists (a snapshot with what changed meanwhile), with RequestLimiter and PublicReads shown
   to implement them, as ConfigCaches implements FreshReads.
2. The dashboard's and the easy-proxies page's own requests, which only read.
