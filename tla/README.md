# Verification of stock-insight-analyzer

TLA+ modules, TLC configurations and TLAPS proofs for the stock dashboard in
this repository: a Node/Express backend with a SQLite database and a daily
job, and a React page. The modules are translated from the source; line
numbers below are those of the commit beside which this directory is kept.

    tlc -workers 2 -config Daily.cfg DailyJob.tla     # a model-checking run
    tlapm DailyJobProofs.tla                          # a proof

`PROJECT.json` lists the components, the runs, the mutants that show each
property to be sensitive to a bug, the source lines of every definition, the
hazards and the theorems.

## 1. The system

| Component | Source (`src/`) | State | Operations |
|---|---|---|---|
| Job lock | `backend/src/services/jobLock.ts` | a row of `job_locks` | `acquire`, `release` |
| Daily update | `services/dailyUpdateService.ts`, `cli/dailyUpdate.ts` | a run: tallies, its row of `import_runs`, exit code | `run()`: lock, CSV import, top-up of each ticker, record, release |
| Market data sync | `services/marketDataSyncService.ts` | in-flight map of the process; `price_bars`, `sync_state` | `sync(ticker, range)`: skip, throttle, call, filter, store, record |
| Repositories | `repositories/*.ts` | tables | upserts and queries |
| SQLite wrapper | `db/sqlite.ts` | connection, count of open transactions | `transaction`, statements |
| Migrations, store | `db/migrations.ts`, `db/store.ts` | `schema_migrations` | apply what is missing |
| CSV import | `services/csvImportService.ts`, `csv/parsePriceCsv.ts`, `cli/importData.ts` | `import_runs`, `price_bars` | import a directory, a file |
| Memory cache | `services/ttlCache.ts` | an ordered `Map` | `get`, `getWithMeta`, `has`, `set`, `delete`, `clear` |
| Report repository | `services/reportRepository.ts` | one file for each key | `get` (with touch and unlink), `set` (with the cap), `delete` |
| Report service | `services/stockService.ts` | in-flight map | `getReport`: memory, disk, in-flight, provider; historical and hybrid paths |
| Provider client | `services/alphaVantageClient.ts`, `providerErrorClassifier.ts`, `schemas/alphaVantage.ts` | a timer for each call | one request with a timeout; the verdict on its answer |
| Calendar, indicators, analysis, report | `utils/marketCalendar.ts`, `analytics/*.ts`, `services/historicalDataService.ts`, `dataFreshnessService.ts` | none | pure functions |
| HTTP application | `index.ts`, `app.ts`, `routes/`, `middleware/` | two rate limiters | start, requests |
| Shutdown | `lifecycle/shutdown.ts` | a flag, a timer | signals, close callback, forced exit |
| Mock provider | `services/mockStockDataProvider.ts` | none | a series for a ticker |
| Report store of the browser | `frontend/src/hooks/useStockReports.ts`, `lib/api.ts` | entries, pending marks, a Map of controllers, generations | `request`, `refetch`, `forget`, unmount |
| Page | `frontend/src/App.tsx` and its components | selection, active ticker, window | clicks, two effects |
| Chart sampling | `frontend/src/lib/chart.ts` | none | a pure function |

How they interact:

* The **page** asks the **report store**, which calls the HTTP API; the
  **report service** answers from memory, from a file, by sharing a flight, or
  by calling the provider (directly, or through the **sync** in hybrid mode).
* The **daily job** and the **import CLI** are separate processes on the same
  database. They meet the server only there: in `price_bars`, `sync_state`,
  `import_runs`, `job_locks`, and in SQLite's single write lock. Each brings
  the schema up to date when it starts, perhaps beside the others.
* The **HTTP application** lets a request through the origin check, the limiter
  of `/api`, the body parser and the limiter of `/api/stock` before it asks the
  report service; the **shutdown** waits for the connections that are open,
  though not for ever: the timer of the **provider client** and Node's
  keep-alive timeout end what holds them open.
* Inside a process there is one event loop. A function runs to its next
  `await` undisturbed by the code of its own process, but each of its SQL
  statements is a point at which other processes may write.

What is hard:

* an `await` between reading and using state (sync, report service, report
  repository, page);
* several processes on one database, each of whose statements may throw
  (`SQLITE_BUSY` after the busy timeout, a full disk) and any of which may die;
* a lease that is not renewed, clocks read before a wait;
* folders and files that several operations change between each other's calls;
* timers that race what they bound: the provider's answer, the drain of the
  server;
* answers that come late, after a cancel, or never; clean-up code of an old
  call that meets the state of its successor;
* React: an update queued in an effect or in a promise callback is rendered
  later than the next click.

What makes each component correct is stated in section 3, run by run.

## 2. Modules and code

Names follow the source where TLA+ allows. In every module a step is a stretch
of code between two points where something else can happen: an `await`, or, in
the modules about the database, the end of an SQL statement. Definitions whose
comment begins "Faulty" are wrong versions of an operation that no
specification uses; PROJECT.json pairs them with the properties they break.

**`JobLock`**: the lease lock. `row` is the table's row, `asked` the clock
reading that `acquire()` takes *before* its transaction, `lease` the expiry in
the handle. `TakeRow`, `Blocked`, `DropRow` and `PassTime` are the effects on
the table; `LockNext` arranges them for a client that asks, holds and ends in
any way. It is both the model of `jobLock.ts` and the abstract specification
of what the daily job does with the lock.

**`DailyJob`**: `dailyUpdateService.run()` as executed by the CLI, one member
of `Runs` for each process. It composes `JobLock` by taking its effects in the
steps that make the calls; `Client` maps the point of the run to the client of
the lock, and `ImplementsLock` is the refinement. Every call that may throw has
an action for that: before the `try` (`EntryThrows`), in it (`WorkThrows`), in
the catch block (second disjunct of `RecordFailure`), in the finally block
(`ReleaseThrows`); `Crash` may come anywhere. What the import of a file and the
top-up of a ticker do is reduced to their outcomes, the insides being in
`CsvImport` and `MarketSync`.

**`MarketSync`**: the sync of one ticker (rows and in-flight keys carry the
ticker, so tickers do not meet). `call` holds the local variables that live
across the awaits (`ref`, `latest`), `inflight` the Map of each process. `Free`
says that between two awaits no other code of the process runs. Bars are
reduced to where they came from (CSV or provider). `IsLatest` is a relation, so
that the proofs need no `CHOOSE`.

**`HybridReport`**: `getHistoricalReport()` of the server, composed with
`MarketSync` by taking its steps: a member of `Callers` in the process `Server`
is one request, the other process is the daily job. `stage` is where the
request stands: awaiting its sync, between the reading of the bars (line 288)
and that of their status (299), or done. A report is its last bar (`last`) and
its `dataStatus`; `cache` is the memory cache, one entry for a range, from which
other tickers' reports may push it (`Evict`). `known`, `floor` and `served` are
history variables: what was stored, and what the range had been answered with,
when the request came in, and when it was answered. Two over-approximations:
`RecordThrows` lets any record of an attempt throw, and `Evict` may come at any
time. Left out: the indicators, the slicing to the window (it keeps the last
bar) and the final schema check.

**`TtlCache`, `LruCache`**: the memory cache as a JavaScript `Map` (its keys in
insertion order, and what they map to), and the abstract LRU cache with a use
*relation* that says nothing of how it is kept. `ImplementsLru` reads the use
relation off the order of the keys.

**`ReportService`**: the live and mock path of `getReport()` with the file of
the report repository, for one key. The two awaits of the disk layer and the
provider call are steps; the operations of the operating system on the file
(`ReadFile`, `Touch`, `Unlink`, `WriteFile`) are steps of their own between
them. Other keys enter only through `ForgetMemory` and `ForgetFile`.

**`Migrations`**: `openHistoricalStore()` and `runMigrations()` in several
processes, a step being one statement. `db` is what is committed, `draft` what
the holder of the write lock would commit; both hold the versions whose tables
are there and the rows of `schema_migrations`. `applied` is what
`appliedVersions()` returned before any transaction was opened: `FindTaken` is
the insert that then meets another process's row. The initial database is new,
old, or has tables made by hand.

**`Server`**: the server from its start to its exit. It extends `Migrations` and
takes its steps for the process `Main` (`StartStep`, in historical and hybrid
mode: `UsesSqlite`) and for command line tools (`ToolStep`). A member of
`Connections` carries one request after the other, of any `Kind` and any of the
`Clients` (the values of `req.ip`; behind a trusted proxy one connection may
carry several): `conn` is what `server.close()` knows of it, new, busy, kept
alive or gone. `Arrive` runs the middleware in the order of `app.ts` up to the
first `await`, the operators `LimitApi`, `ParseBody`, `Dispatch`, `StockRoute`
and `GetReport` being its stations; an origin that is refused, a body that does
not parse and a ticker that is not valid are left to choice. `work` is what the
handler awaits, the body of the request or the provider's headers and body; a
client may go while its handler goes on. `timer` is the provider call's timeout,
or the keep-alive timeout once the request is answered, and `budget` the timer
of the shutdown. `apiHits` and `stockHits` are the counters of the limiters, one
for each client. `bodies`, `calls` and `held` are history variables. Node is
external: `close()` ends the connections that are idle at that moment (one on
which no request has come yet is not), and one that becomes idle later stays
open for its keep-alive timeout and may bring a further request. How the report
is made is `ReportService` and `HybridReport`.

**`ReportRepository`**: the cache folder with several keys and several
operations at a time; a step is one call of the file system and the code up to
the next one. `alone`, `before` and `strays` are history variables: whether
anything else ran or failed during an operation, the folder when it began, and
files that stay or come back although they were to be removed. `ReportService`
has the same file for one key, with the layers above it.

**`TradingCalendar`**, **`PriceAnalytics`**, **`PriceCsv`**,
**`ProviderResponse`**: the pure parts as operators, each with a reference
definition it is compared with: the rule of the exchange stated on the face of
a date; means and falls computed from the closes; a writer of CSV, and what
makes a row sound; and what the user may be told. `MCAlgorithms` builds every
bounded input, a piece at each step. Numbers are integers and exact fractions:
rounding and overflow of floating point are left out, and with them
`finiteOrNull()`, which then keeps everything. In `PriceCsv` a text is a
sequence of characters, but a cell of a row is what its validation finds. In
`ProviderResponse` an advisory is the set of topics that the patterns find in
it.

**`CsvImport`**: the import of a directory over the SQLite wrapper. `lock` and
`draft` are SQLite (external): the write lock and the uncommitted table; `depth`
is the wrapper's counter. The order in which a directory is read and a file's
rows are written is left open.

**`StockReports`, `Dashboard`**: the report store of the browser and the page
above it. `reports` is React's queued state, `reportsRef` that of the last
render; the Map, the generations and `mounted` are refs, which change at once.
React is external, and modelled by these assumptions:

* the updates of a click are rendered, and that render's effects run, before
  the next click is handled (React's SyncLane for discrete events);
* updates made in an effect or in a promise callback are rendered by a later
  task; clicks may come in between;
* a render's effects run before the next render, with the values of their own
  render, and only those of which a dependency changed;
* which tab is the first is left open (`selected` is a set).

## 3. The runs

| Run | Configuration | States | Question |
|---|---|---|---|
| `daily_job` | `Daily.cfg` | 159k, 50 s | Does the lock keep valid leases apart, does the job use it as specified, does the exit code tell the truth, does every run end and every row stop blocking? |
| `sync` | `Sync.cfg` | 244k, 70 s | One provider call for a key, `sync_state` backed by bars, calls throttled, no regress, every call settles? |
| `hybrid` | `Hybrid.cfg` | 495k, 120 s | Does a request see what its sync wrote, never an older day than before, no false "no data", a status that is true of its series, and does it end? |
| `ttl_cache` | `TtlCache.cfg` | 3.9k, 10 s | Is the Map an LRU cache with expiry? |
| `report` | `Report.cfg` | 63k, 15 s | Is the in-flight map exact, are hits young and sound, is every request answered? |
| `csv_import` | `CsvImport.cfg` | 64k, 5 s | Do files appear whole, do reports and records tell the truth, is the write lock given back? |
| `csv_nested` | `CsvNested.cfg` | violation | Is a transaction refused only for being nested? |
| `dashboard` | `Dashboard.cfg` | 100k, 35 s | One call for a key, nothing revived, pending exactly while in flight, the latest answer wins, no spinner for ever, a valid active ticker in the end? |
| `dashboard_readd` | `DashboardReAdd.cfg` | violation | Has the active pair always been requested? |
| `server` | `Server.cfg` | 230k, 150 s | Is the schema whole for everyone who is ready, do the limits hold for each client, is an exit forced only for a reason, do calls and the shutdown end? |
| `report_files` | `ReportFiles.cfg` | 490k, 55 s | By how much can concurrent operations exceed the cap, and does an undisturbed one do exactly what the cache promises? |
| `algorithms` | `Algorithms.cfg` | 127k, 50 s | Are calendar, indicators and report, chart, CSV parser and the verdict on the provider's answers what their references say? |

Type correctness is proved (section 5) and is not repeated by the runs; the
`TypeOK` of `TtlCache` and of `ReportRepository` are only stated. The same holds
of `ValidLeaseOwnsRow` and `RowIsStable` of the daily job, which follow from the
lock's theorems by the refinement that the run `daily_job` checks.

### Bounds

* *Daily*: two executions, a lease of one unit on a clock of three instants,
  one file, one ticker. The second can be granted the lock while the first has
  outlived its lease, work beside it and be released late by it; the loops run
  zero times, once, or fail. A third run adds nothing the row can see: it holds
  one id.
* *Sync*: two calls, two processes, two ranges, four instants, two units to a
  trading day. The initial state chooses process and range of each call, so
  that joins, independent keys and different processes are all covered; the
  throttle window ends within the horizon.
* *Hybrid*: two calls in any two of server and daily job, two ranges, three
  instants, days and time to live of one unit. Two requests share or miss the
  cache entry or the sync of each other; a request meets an import or a top-up
  of the daily job between any two of its steps; entries expire once. A third
  request would only repeat what the second sees, for the cache and the table
  are all that requests leave behind.
* *TtlCache*: four keys for three places, so that an eviction leaves an order
  to be wrong about; two values and instants before, at and after an expiry.
* *Report*: two requests, one clock unit to live, three instants, a file of any
  kind in the initial state (absent, old, corrupt, odd), with and without a
  repository. One request flies while the other is on any await of the disk
  layer.
* *CsvImport*: two processes, two files that share a row; all interleavings of
  rows, failures and deaths.
* *Dashboard*: two tickers, two windows, three calls and three clicks. That
  suffices for add, remove, add again with the answers of the first call in
  any order. The safety properties were also checked once with four clicks
  (2.2 million states).

* *Server*: one tool beside the server and two migrations; then two connections
  and two clients, limits of one. The tool can overtake, be overtaken, fail and
  die between any two statements of the start; `ToolsFirst` is a bound that keeps
  the migrations and the requests from multiplying each other's states: the
  tools run before the first connection, and no request looks at the schema. A
  request is refused for another of its client by either limiter, on either side
  of an awaited body, while those of the other client pass; windows end at any
  time. One unit for the provider, one for keep-alive and three for the
  shutdown: a call, and an idle connection after it, end before the shutdown
  does, and two calls in a row with an idle time need not. A call begins before
  or after the signal and ends by answer or timer; its connection goes, is kept,
  or brings a further request. Also checked once: keep-alive of two and a
  shutdown of four (294k states).
* *ReportFiles*: two operations at a time on four keys for two places, one
  failing call, two instants. The folder can be one over the cap, so an
  eviction removes two; files are foreign, corrupt, live, dead, brought back
  by a touch.
* *Algorithms*: every day of the 25 years from 2012 to 2036, which are all
  fourteen kinds of year; all series of up to six prices of 1 to 4 with windows
  of 2 and 4 for 20 and 50; all texts of two records of one or two fields that
  hold nothing, a letter, a comma, a quote or line ends, in each way to write
  them; all files of three rows that pass or fail any one check, under five
  headers; all answers of three rows, with every set of advisory topics in
  each channel, and each kind of failure.

Deadlock is not checked where the system may stop: every job ends, every
request is answered, the horizon of the clock is reached.

### Fairness

* `DailyJob`: a run that has begun keeps moving, for it is synchronous code
  and one await that the provider client bounds by a timeout; time passes.
  Nobody has to begin a run, and no crash, failure or success is promised.
* `MarketSync`: the steps of a call (`Advance`), for the same reason. None on
  imports, crashes, joining or beginning.
* `HybridReport`: the steps of a sync and of a request whose sync has settled.
  None on arrivals, evictions, imports or the daily job's calls.
* `ReportService`: the steps of a request (`Progress`): file operations
  complete, the provider client gives up in the end.
* `Dashboard`: React renders and runs effects; a call leaves the stage
  `headers` (the timer of `api.ts` sees to it) and settled promises run their
  callbacks. **No** fairness on the end of a body: the timer is cleared once
  the headers have come (`api.ts:116`), so a stalled body stays, and
  `PendingEnds` names it as the exception. None on clicks or on leaving.

* `Server`: time passes for timers that are set, a timer that is due fires
  (`Abort`, `KeepAliveEnds`, `ForceExit`) and the close callback runs. None on clients,
  provider, signals, tools, or on leaving.

## 4. Where the code and its documents disagree

Two runs end in a violation, each of one sentence that a comment or a message
states; the traces are TLC's.

* `csv_nested`: `transaction()` counts itself before `BEGIN`, outside the `try`
  whose `finally` takes the count back; one `SQLITE_BUSY` and all later
  transactions of the connection are refused as "nested".
* `dashboard_readd`: a ticker removed and added again before the effect's
  update is rendered is active in two consecutive renders, so the effect does
  not request it, against `App.tsx:50-51` and `:108`.

Six more sentences are stated in the modules and do not hold; no configuration
is kept for them, but TLC finds the trace with the constants given.

* `AlwaysReleased` (`DailyJob`): `importRuns.start()` is called after
  `acquire()` and before the `try`; if it throws the row stays until it expires,
  although `dailyUpdateService.ts:201` says the lock is always released.
  `LockIsReclaimable` shows that the expiry repairs it. (`Spec`, two `Runs`,
  `Ttl` 1, `Horizon` 3, `NFiles` 0, `NTickers` 1.)
* `HistoryIsKept` (`MarketSync`): the filter for new days uses a latest day that
  was read before the provider was awaited; a CSV file imported meanwhile is
  overwritten, against `marketDataSyncService.ts:198`. (One of `Callers`, two of
  `Procs`, one of `Ranges`, `StaleAfter` 1, `DayLen` 2, `Horizon` 2.)
* `FetchesAreShared` (`ReportService`): the await on the disk lies between the
  look at the memory layer and the look at the in-flight map; a flight that
  began and landed in between is in neither, so a second provider call is made,
  against `stockService.ts:181`. (Two `Requests`, `Ttl` 1, `Horizon` 1.)
* `OneCallPerTicker` (`MarketSync`): the in-flight key of the sync is ticker and
  range (`marketDataSyncService.ts:277`, as the comment at 28-29 says), so two
  ranges of a ticker call the provider at once, against `docs/DATA_PIPELINE.md:84`
  (concurrent requests for a ticker are gathered into one call), `:77` and
  `README.md:254` (at most one call for a ticker). (`Spec`, two `Callers`, one of
  `Procs`, two `Ranges`, `StaleAfter` 2, `DayLen` 2, `Horizon` 4.)
* `ShownIsFresh` (`HybridReport`): the bars and their `latestTradeDate` are read
  by two statements (`stockService.ts:288`, `299`). After an import between them
  the report ends on the day before the one its status names, is not stale, and
  is cached like that, while `dataStatus` is documented as how fresh the served
  report is (`domain/historical.ts:109-111`). `FreshnessIsTrue` says what does
  hold: what a report says is true of its series when both end on the same day,
  and a report that says it is stale always is. (`HybridSpec`, the constants of
  `Hybrid.cfg`.)
* `ForcedExitCutsOff` (`Server`): the shutdown "exits 0 once in-flight requests
  drain" (`shutdown.ts:31-34`), but `server.close()` waits for connections. One
  that was busy at the signal and is kept alive after its answer stays for five
  seconds; with a provider call of more than five seconds before it, nothing is
  in flight and the exit is forced with code 1. `ForcedExitHasReason` says what
  does hold, for any times. (`Spec`, one process and one of `Connections`,
  `FetchBudget` 3, `KeepAlive` 2 and `DrainBudget` 4, which are the default 8, 5
  and 10 seconds in units of 2.5.)

Met while modelling, without a property of their own:

* a job that outlives its lease is joined by the next one
  (`dailyUpdateService.ts:107`: no renewal);
* `sync_state` has one row for a ticker and `recordAttempt()` overwrites: with
  two ranges, as in `OneCallPerTicker`, or with two processes the row may regress
  (`syncStateRepository.ts:43-44`). `OneCallPerRange`, `CallsAreThrottled` and
  `SuccessNeverRegresses` are stated for calls of one key;
* a skip because the data is fresh is recorded as an attempt and delays the
  call of the next day; a bar of the day in progress, once stored, is never
  corrected;
* `csvImportService.ts:163` says that no rows were persisted, but the catch
  block also sees a `finish()` that throws after `COMMIT`;
* the repository's touch writes back the envelope it read some awaits ago, over
  a newer one or a deleted file, and the unlink of an expired file may hit a
  fresh one: both cost a provider call and serve nothing wrong
  (`HitsAreYoung`, `ServedIsSound`);
* `stockService.ts:283-284` says that failures of the sync are swallowed, but
  `sync()` rejects when `recordAttempt()` throws, and the request then ends in
  an error although bars are stored (`SyncRejects`);
* concurrent operations exceed the cap on files, by fewer files than they are
  (`OvershootIsBounded`); a file that a late touch brings back comes on top of
  that, and such files can add up until evictions catch up with them;
* of two processes that start together on an old database the second fails its
  start with a violated primary key (`FindTaken`), although
  `migrations.ts:9-10` calls the runner safe on every startup;
* an abort of the provider's timeout while the body is read is reported as an
  invalid response and not as a timeout;
* `ALPHA_VANTAGE_TIMEOUT_MS` may be configured up to 30 s, above the fixed 10 s
  of the shutdown (`shutdown.ts:38`). Then a slow provider alone can force the
  exit: that is the second reason that `ForcedExitHasReason` leaves;
* `README.md:144` says that the indicators are computed over the whole period;
  they are computed over the window of the requested range, as the comment at
  `stockService.ts:92` says;
* a lone carriage return in a quoted field of a CSV file is not counted as a
  line (`parsePriceCsv.ts:126`), so the lines of later errors are one short;
* a window of one month (21 days) never has a 50-day average, so its report
  never has a score;
* the calendar closes Juneteenth in years before it was a holiday (2022); the
  branch for duplicate dates in `normalize()` (`alphaVantageClient.ts:215`)
  cannot be reached, for the keys of a parsed object are unique;
* two quick removals let the page's effect request the ticker that was just
  removed;
* `chart.ts:15` promises at most `cap` points; there may be one more
  (`ChartHolds`). `marketCalendar.ts:59` moves a Saturday New Year's day to a
  Friday in a year whose holidays are not looked at: that is the rule of the
  exchange, which stays open on that Friday, so `CalendarIsTheRule` holds.

## 5. Proofs

The theorems hold for every value of the constants that satisfies the modules'
`ASSUME`s (a positive lease and time to live, at least one place in a cache,
at least one caller of the cache folder, markers outside the sets they mark,
positive times of the server, years of the calendar from 1971 to 2198; the
number of runs, callers, requests, connections, clients, files, keys, rows,
tickers, windows and calls is arbitrary). Each
module of proofs extends the module that it is about, so that a theorem and a
run speak of the same definition.

* **`DailyJobProofs`**. First the lock, on its own specification:
  `LeaseMutualExclusion`, `LeaseOwnership`, `RowStability`. The invariant
  `LockInv` is ownership: a run within its lease owns the row, and the row's
  expiry is the lease of its owner and comes from a clock reading that is not
  later than now. Exclusion alone is not inductive: without ownership the
  release of one run might free the row under another. Then the job: each of
  its steps is a step or a stutter of the lock (`JobImplementsLock`), hence the
  lock's theorems hold of the job (`JobLeaseExclusion`, `JobLeaseOwnership`,
  `JobRowStability`). `ExitReportHolds` needs `JobInv`, which relates tallies,
  remaining work, record and exit code at each point of the run.
* **`HybridReportProofs`**. First the sync, on its own specification.
  `OneCallPerRangeHolds` from "a call past `idle` that is not waiting is the one
  in the in-flight map of its process and range"; `SyncStateIsBackedHolds` from
  "the latest and top days that a call carries are stored", which lasts because
  no step removes a bar. `CallsAreThrottledHolds` and
  `SuccessNeverRegressesHolds` speak of a record that one call reads and
  another may have written in the meantime, and hold as long as all calls go
  through one in-flight key (`OneQueue`): `QueueInv` says that at most one call is then under way
  (`Underway`), that what it has read is as new as the record, and that the
  last call of the provider has an attempt on record unless it is still under
  way itself. Then the reports: `HybridUsesSync`, every step is a step of
  `MarketSync` or leaves its variables alone, so that all of this holds here
  too (`HybridThrottles`). `HybridInv` adds that every day held anywhere (a
  report, the cache, an outcome, a floor) is stored, which lasts because rows
  are never deleted; so the latest day that a request reads is at least all of
  them (`InHandIsNewest`), and what it caches is the newest of its range
  (`CacheIsNewest`). That is what `NeverOlderHolds` needs and its statement
  does not say. `FreshnessIsTrueHolds` rests on `CacheIsDated`: what an entry
  says of its freshness was true of its series at the instant its expiry was
  computed from (`SaysTrue`). That a stale report's series is out of date needs
  that a status is never older than the bars read before it (`StatusFacts`).
* **`SequentialProofs`**. What runs alone, to its end and in one thread: the
  pure algorithms and the cache.

  *Induction.* The library's rules take an operator as a parameter, which the
  provers cannot instantiate. Here the predicate is a set: `Induction` says
  that a set of numbers with 0 in it, and with each number behind one in it,
  has them all; its proof is the least exception (`LeastIsLeast`, from the
  well-foundedness of `<`). A recursive function is a `CHOOSE` until one that
  satisfies its equation is known to exist: `RunExists` builds it up, as a
  finite function one argument longer at a time, and each of the functions in
  the modules (`Totals`, `SlidingSum`, `Averages`, `Drawdowns`, `After`,
  `Judged`) is shown to be such a run.

  *The report*, `EveryReportIsConsistent`: the sliding sum is a difference of
  two totals; the peak and the worst fall so far are what their names say, by
  induction over the prices; averages stay not negative, so that the RSI lies
  in its range, and those of the mirrored prices are the swapped ones; and each
  verdict is unknown exactly when what it is made of is null.
  *The chart*, `EveryChartIsFair`: the stride is the least that leaves no more
  bars than the cap (`StrideIsLeast`, `SampleFits`).

  *The text of a CSV file*, `EveryTextIsReadBack`: for any alphabet, any fields
  and all twenty-four ways to write them. The reader is followed part by part: what it
  does with one character (`ReadOutside`, `ReadInside`), with a field whose
  quotes are doubled (`DoubledIsRead`), with a record (`RecordIsRead`), with an
  end of line (`EndIsRead`), and then line by line (`LinesAreRead`). The
  character that follows is part of every statement, since a quote and a
  carriage return are read with it in sight; `RecordHasNoFeedAhead` is why a
  lone carriage return is never taken for half of a line end.
  *Its rows*, `EveryRowIsAccounted`: `Accounted` says what has become of the
  first rows, with `seen` the keys of the sound ones among them, and each row
  carries it on (`OneMoreRow`). Hypothesis: the records begin on lines of their
  own in rising order. `EveryTextIsInOrder` proves that the reader gives them
  so for any text at all, well formed or not: wherever it stands, the record in
  hand begins after all those that have ended (`InLine`), and a character takes
  it to another such place.

  *The answer of the provider*, `EveryAnswerIsJudged`: the first failing test
  decides (`FirstFailureDecides`), an advisory speaks through its leading
  channel (`AdvisoryIsLead`), and the series is sorted since to count the dates
  below a date is a bijection from the dates to the places (`RanksCount`), so
  every place has one date and a later place a later one. Hypotheses: a JSON
  object names a date once, and only a text has topics.

  *The calendar*, `EveryDayIsJudged`. Days are numbers, so the proof begins with
  what a date is written with: years and months follow each other
  (`YearsFollow`, `MonthsFollow`), so every day has one face (`FaceExists`,
  `FaceIsRead`). Then each holiday of the code is its rule: fixed ones with the
  Friday before and the Monday after (`FixedHoliday`), the n-th and the last of
  a weekday (`NthHoliday`, `LastHoliday`), and Easter (`EasterIsRight`). The
  reference for Easter is the table of full moons; the code's formula gives a
  Sunday by a congruence modulo seven, and in the week after the full moon, for
  its epact is the table's but for two moons, which its own correction moves
  (`FullMoons`). The walk back to a trading day ends, since no two fixed
  holidays lie six days apart (`OpenDayExists`), and finds the last one
  (`WalkEnds`). Hypothesis: the years are from 1971 to 2198
  (`CalendarConstants`). The model's days count from 1970, the table of full
  moons ends with 2199, and the days around today may lie in the next year.

  From these, `ReportsAreConsistent`, `FilesAreReadTruly`, `AnswersAreJudged` and
  `CalendarIsRight` are the invariants of the run `algorithms`, for any bounds:
  `InputInv` says that every input is one that the theorems speak of, and
  `DaysAreKnown` that every day is one of its year.

  *The cache*, `CacheIsLru`: the Map implements the abstract LRU cache. The Map
  is a sequence of different keys (`MapIsOrdered`), its use relation the pairs
  of places in falling order; three lemmas say what taking a key out and adding
  one at the tail do to that relation (`RemovedKey`, `DeletedKey`,
  `AppendedKey`), one that the key `evictOne()` finds is expired or the least
  used (`EvictedIsVictim`), and then each operation is one of the abstract
  cache.
* **`ReportRepositoryProofs`**. `OvershootIsBoundedHolds`: the bound on the
  number of files is not inductive, for it says nothing of the files that
  operations under way will still write, nor of those they will still remove.
  `RoomIsBounded` counts every coming write with its key, and takes off, for
  any set of operations that evict, whatever each of them may have planned to
  remove; it holds for every such choice, so the proof needs no history of who
  listed what. `AloneIsAtomicHolds` from `AloneInv`: while nothing else runs,
  the folder at each stage of an operation is the folder at its beginning less
  what the operation has done, and the files it plans to remove are the first
  of the ranking, as many as make room (`RankLeavesRoom`).
* **`ReportServiceProofs`**. `FlightsAreRegisteredHolds` is inductive with
  typing. `HitsAreYoungHolds` and `ServedIsSoundHolds` need that every copy of a
  report (memory, file, in hand) carries the expiry its version was fetched
  with, and that a request that is about to serve checked it after it came in.
* **`CsvImportProofs`**. The invariant says that the draft is the table plus
  the rows of the current file already written, that `depth` is at most one
  and positive while writing, and where each file's record stands.
  `FilesAreAtomicHolds` follows at the commit.
* **`DashboardProofs`**. `StoreInv`: the controllers in the Map are exactly the
  calls in flight, each of the latest generation of its key; aborted calls are
  of older generations. From it follow `OneCallPerKeyHolds`,
  `NothingRevivedHolds`, `PendingIsInFlightHolds` and `LatestWinsHolds`. The
  point of the argument is that neither the Map nor the generation alone is
  enough: `forget()` bumps only the keys it finds in the Map or the last
  render, and `StoreInv` shows that this is every key with a call in flight.
* **`ServerProofs`**. `ServerMigrates`: every step of the server and its tools
  is a step of `Migrations` or leaves the database alone, so that
  `MigrationsAlways` carries over. `MigrationInv` is needed because
  `ReadyIsMigrated` says nothing of transactions: the draft contains the
  database, rows have no gaps in both (`NextLeavesNoGap`: the next pending
  migration follows on what is recorded, for what a process believes applied
  is applied), and a process in a transaction holds the lock and has done
  there what its stage says. `ForcedExitHasReasonAlways` is about time:
  `BudgetInv` says, of every connection and as long as no client has held up the
  drain by what it sends, that what its timer still has left and what the
  shutdown has spent are together at most the provider's time, or that and the
  keep-alive time once it is kept. A step of time keeps the sums, and since the
  drain goes on only while some such connection is open, the time spent is
  bounded as well; `ForceExit` finds all of it spent. `ConnInv` is needed because
  a connection without a timer must not be open. `WorkIsLimitedAlways` bounds the
  history of each window by the counter of its limiter and client (`CountInv`).

Every safety property of the passing runs is thus a theorem. Only model-checked
are the liveness properties, which are outside the prover's reach: `RunEnds`,
`LockIsReclaimable`, `EveryCallSettles`, `EveryRequestEnds`, `EveryReportEnds`,
`PendingEnds`, `ActiveBecomesValid`, `ShutdownEnds` and `FetchesEnd`.

## 6. Not modelled

Not modelled, because they keep no state the properties could be about:
configuration (checked once, its values are the constants here), logging,
response headers and correlation ids, rendering and formatting, the prices of
the mock series, timestamps with a time of day in `dates.ts`, and the scheduler
script, which starts the job and passes on its exit code.

Left out of modelled components, and why:

* floating point: rounding and overflow of the indicators, the logarithms of the
  volatility;
* temporary files of the cache folder, which nothing reads and nothing removes
  after a crash; the reads of `Promise.all` are taken at one instant and do not
  fail (the code ranks a file that it cannot read with the expired ones);
* the error of `server.close()`, which a server that listens does not report;
  preflight requests, which `cors` answers; requests that are pipelined on a
  connection, answers given before the body of a request has been read, and
  Node's own timeouts on slow requests, which are a minute and longer;
* the values of bars in `MarketSync`, so that the bar of a day in progress
  counts as that day.
