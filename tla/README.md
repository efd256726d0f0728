# EquityLens in TLA+

EquityLens is a desktop application (Python, PySide6/QML, SQLite) and a command
line tool that fetch market data, run three analyses over a stock pool (relative
strength "RS", turning point, extreme deviation), keep the results in a local
history and let an AI service write reports about them.

These modules describe the part of the program where a unit test says least: the
operations that several threads and processes share, the close guard of the
window, pages whose jobs are canceled, crash, wait for the user or answer late,
the transactions that save runs, labels and settings, the requests to providers
and AI services with their retries and limits, and the calculations that carry a
state from bar to bar. TLC checks small instances; TLAPS proves what matters
most of the registry and the shell on it, of a run in a worker process, of the
run of an analysis, of the history, of the pages and the master data, of a batch
of requests, and of the services (database, settings, facade, preflight, AI
requests, log, update) for all of them.

`tlc -workers 2 -config X.cfg M` runs a configuration, `tlapm M.tla` checks the
proofs of a module. `PROJECT.json` lists components, runs, mutants, the source
lines behind each definition, findings, hazards and theorems. Paths below are
relative to `src/src/stock_toolbox/` unless they start with `docs/` or `tests/`.

## 1. Inventory

| component | state | operations | what makes it correct |
|---|---|---|---|
| Operation registry and executor (`core/operations/registry.py`, `executor.py`) | entries with status, cancel event and execution flag; idempotency index; admission flag; listeners; notification queue | reserve, begin, cancel, commit gate, complete, admission, subscribe, drain | an operation is decided once; cancel and commit cannot both win; every listener ends with the current activity; shutdown sees whatever still executes |
| Shell and close guard (`desktop_qml/shell_bridge.py`, `app.py`, `qml/PilotWindow.qml`) | mirror of the activity, queued signals, guard flags | close, dismiss, cancel and close, re-cancel on an edge | a closed window left nothing running; a dismissed guard leaves admission open; cancel-and-close closes once nothing is active |
| RS run bridge, consent gate, worker (`desktop_qml/rs_run_bridge.py`, `fallback_consent.py`, `cli.py`) | process, buffers, cancel flag, held result, decision | start, preflight, launch, read, resolve, cancel, finished, errorOccurred | reported once; what is shown as saved is saved; one data source; no fallback without consent |
| Turning point, extreme deviation, RS history and master data pages (`desktop_qml/*_bridge.py`) | form, budget, job, run shown, pool tasks | select, preflight, start, cancel, report, delete, import, refresh | a page shows one run; late answers do not move it; it is busy only as long as its job is |
| Run of an analysis (`analyses/*/application/service.py`, `storage_guard.py`, `fallback.py`) | request, work done, decision, stored run | freeze, fetch, ask, digest, compute, summarize, save | a stored run is whole, of one source and reliable; the user is asked once; the caller is told the truth |
| Run completion, history, AI reports (`infrastructure/persistence/history_*.py`, `completed_run_store.py`, `analysis_payload_store.py`, `desktop_qml/report_operation.py`) | rows, pins, reports in rows | save with gate and eviction, attach, pin, delete, clear, import | what the caller is told equals what is stored; retention never touches pinned rows; reports accumulate |
| Shared candle cache (`core/market_data/cache.py`, `infrastructure/persistence/candle_cache.py`) | rows, coverage watermark with two counts | get, upsert, mark, clear | a hit is as good as a fetch: no hole, not stale; no needless repeat |
| Providers (`infrastructure/providers/longbridge.py`, `futu.py`), failure policy | pages, cursors, quota snapshot, breaker, batch of futures | fetch by page, batch of quant requests, quota check | no partial page passed off as a whole; each symbol answered once; limits respected |
| Preflight (`analyses/resource_budget.py`, `core/market_data/request_plan.py`) | estimate | estimate, let through | the run sends no more than was estimated; quota suffices |
| Calculations (`analyses/*/domain/`, `backtest.py`) | chunks, queues, distances | align, rank, scan, score, trade | chunked equals serial; scans find swings; queues find extremes |
| Master data store and import (`infrastructure/persistence/master_data_store.py`, `repositories.py`, `import_writer.py`, `core/securities/import_service.py`) | labels, aliases, securities, pools | create, rename, merge, delete, import, reanalyze | members are bound to labels their security has; a late write keeps its meaning |
| Settings, reset, facade (`composition.py`, `service_settings.py`, `global_ai_config.py`, `desktop_qml/settings_bridge.py`, `runtime/reset.py`) | rows with revisions, adapters in use, tokens | save, authorize, quality check, activate, reload, reset, connection tests | only a checked provider becomes active; no closed adapter is in use; a call tells what it did |
| AI requests (`infrastructure/ai/`) | configuration, key, attempt | request with retries, discover, report | bounded attempts, cancellation respected, a key goes to its endpoint |
| Database (`migrations.py`, `uow.py`, `connections.py`) | schema, receipts, write lock | bootstrap, unit of work | a migration is there whole with its receipt, once; so is a unit |
| Diagnostics (`infrastructure/diagnostics/jsonl.py`) | bounded queue, important events beside it, active file | emit, flush, clear, close, rotate | what is reported flushed was written |
| Updates (`infrastructure/updates/`) | staged bundle, backup, script | check, download, stage, replace | an application is always there |
| QML pages, virtual adapters, developer tools, packaging | presentation, test doubles | - | - |

How they interact. The page bridges reserve operations in the registry and run
them on a pool thread (reports, connection tests) or in a worker process (RS run,
turning point, import; the extreme deviation process is not registered). The
registry's listeners are called outside its lock; the shell's listener emits a
queued Qt signal. Worker processes talk JSON lines over stdout and take
`accept`/`decline` on stdin; they open the same SQLite files as the desktop.
Inside a worker the analysis reports to an in-process registry, whose commit gate
separates what can still be canceled from what is being saved. The facade
(`composition.py`) hands every call the provider of that moment, and replaces and
closes it when settings change.

Hard behaviour: threads around one lock with callbacks outside it; queued signals
and pool tasks that arrive late; processes terminated at any point; two
announcements of one process end; an answer that crosses a cancellation in a
pipe; retention that depends on a wall clock; reads and writes on separate
connections with minutes between them; pages, retries and limits of services.
`PROJECT.json` has one entry per hazard, with the line where it bites.

## 2. Modules

`OperationLifecycle` is the abstract promise of the registry: an operation is
reserved only while admission is open, decided once, never canceled after it
passed the gate. `OperationRegistry` and `RunHistory` both implement it.

| module | source | correspondence |
|---|---|---|
| `OperationRegistry` | registry, executor | one action per critical section; the drain is `TakeEdge`, `SkipInactive`/`DeliverStart`/`DeliverReturn`/`DeliverRaise`, `PruneQuarantined`, `FinishDrain`, each a point where other threads run. `status`, `executionActive`, `canceled`, `identity` are the fields of an entry; `queue`, `dispatching`, `lastEnqueued` those of the registry; `pc`, `edge`, `todo`, `target` are the stack of a draining thread. `seen`, `quiet`, `result`, `shutdown` record answers the properties speak of |
| `ShellShutdown` | shell bridge, app, PilotWindow | EXTENDS `OperationRegistry`: the shell is one listener, `uiQueue` the posted Qt signals, `uiStep` what the Qt thread is in the middle of |
| `RunProcess` | RS bridge, consent gate, worker, close guard | one action per slot and per step of the worker; `stdout`, `stdin` are the pipes; `saved` the rows committed, with the sources they hold |
| `TurningPointPage`, `ExtremeDeviationPage` | the two bridges | one action per slot and per answer; `job` is the worker or the pool task with what it did and said, `tasks`, `lookups`, `budget` the answers under way, `view` what is shown |
| `RsHistoryPage` | RS history bridge | selection, range, report task |
| `MasterData` | master data store, repositories, import writer, import service | one action per transaction; `import` and `reanalysis` hold what was read before the provider and the AI were asked |
| `MasterDataPage` | master data bridge, import worker | the process with its kill timers, the pool variant, the profile refresh and its deletions |
| `AnalysisRun` | three services, storage guard, fallback session, facade | `step` walks through a run; a batch of members is a tally of outcomes; the kinds differ in what they ask, freeze and save |
| `RunHistory` | ends of the three services, stores, report operation | `step` is where the handler is, `phase` the registry's view, `proposal` the candidate it returns; a transaction that saves a run is one action, one that attaches a report two: the row is read, then written back |
| `CandleCache` | cached candle service and its tables | one action per connection: load (`Ask`), read coverage (`Hit`, `Miss`), `Fetch`, `Upsert`, `Reload`, `Mark` |
| `QuantBatch` | Longbridge quant loop, circuit breaker | the loop's phases fill, handle and stopping; futures in `flight` |
| `HistoryFetch` | Longbridge and Futu calls | per symbol a cursor, what was got, pages and attempts; the quota snapshot beside what the server charged |
| `RsCalculation` | RS domain, staged calculation | operators for each function of the domain; the stages as actions; `CalculateRun` is the serial calculation they are compared with |
| `TurningSignal` | turning point engine, backtest | series over bars as recursive functions; `Add` appends a bar and looks for signals and trades |
| `DeviationScore` | extreme deviation domain | the two monotone queues, events, score of table and chart, consensus |
| `ResourcePreflight` | resource budget, request plan | `Estimate` is the preflight's count, `work` the requests the run sends |
| `ServiceSettings` | settings stores, facade, settings bridge, reset | a service call is a list of steps (`Steps`) run by the Qt thread or a pool thread |
| `FacadeCall` | facade calls with an operation, report operation | `Script` gives the steps of each call; deletion, reload and cancellation in between |
| `AiRequest` | request retry, AI adapters, AI configuration | one request at a time with its task list; the configuration is saved and cleared meanwhile |
| `DatabaseStart` | migrations, unit of work, connections | one action per statement group of a migration; a unit's commit and telling its caller are two; the lock and the uncommitted copy are SQLite's |
| `DiagnosticLog` | JSONL logger | queue, deque, writer thread step by step, callers waiting for a command |
| `UpdateCheck` | update bridge, service, script | the script is one action per command |
| `Pages` | - | the sum of the four pages, the master data store and the run of an analysis |
| `Services` | - | the sum of the database and the six services |
| `MC*` | - | instances for TLC |
| `OperationRegistryProofs`, `ShellShutdownProofs`, `RunProcessProofs`, `AnalysisRunProofs`, `RunHistoryProofs`, `PagesProofs`, `QuantBatchProofs`, `ServicesProofs` | - | the theorems about the module of that name |

`ShellShutdown` composes registry and shell. `RunProcess` keeps the few registry
facts its runs need (status, execution flag, admission) with the registry's
guards, because the full registry under it would multiply the states by those of
a drain that `ShellShutdown` already covers. `RunHistory` instantiates
`OperationLifecycle` with its own phases.

The runs over several modules (`MCLive`, `Pages`, `MCAnalyses`, `Services`)
are sums: `part` names one module, is chosen in the initial state and never
changes. One module of a sum is extended (`RunProcess` beside the registry's
instance, `MasterData`, `QuantBatch`, `DatabaseStart`); in the other parts its
variables keep their initial values, so that its properties are properties of the
sum as its own module states them, and as the theorems do. The other modules share
the variables v1, v2, ... . The parts of a sum do not interact; a property of a
sum that is not the extended module's own says which part it speaks of.

What code outside the repository is assumed to do:

* Qt: a process that cannot be started emits `errorOccurred` only; a crashed one
  emits `errorOccurred` and `finished`, and the model lets them arrive in either
  order. A slot runs to completion on the Qt thread.
* SIGTERM: no handler is installed, so a terminated worker dies at some later
  point and may take steps before.
* SQLite: a transaction is atomic; writers exclude each other (`BEGIN IMMEDIATE`).
* A provider answers a cached request with the last n bars that are complete when
  it is asked, a page with the newest n bars before the cursor, which it may
  include; it may fail, and refuses new symbols beyond its quota.

## 3. Runs

Passing runs. The properties of a sum are those of its extended module and
conjunctions of properties of the other parts; each is defined, and explained, in
the module of the part.

| run | instance | shows |
|---|---|---|
| `registry_safety` | 2 operations, keys, listeners, threads | listeners converge, an unsubscribed one is quiet, cancellation and shutdown are final, `OperationLifecycle` is implemented |
| `live` | registry: 1 operation, 1 listener, 3 threads; RS page: 2 runs | an operation whose handler returned ends, and so do drains and unsubscribe; reports, sources, consent; a cancellation releases the page |
| `shell` | 2 operations, Qt thread and 1 worker | the close guard against every interleaving; after cancel-and-close the window closes, unless something stays active |
| `history` | 3 runs and an import with a clock; or 2 runs and 2 reports | truth of the answer, retention, reports, `OperationLifecycle` is implemented |
| `pages` | see `Pages.cfg` | pages and their jobs, the master data store, the run of an analysis |
| `analyses` | see `MCAnalyses` | batches, RS calculation, signals, score; pages and quota; the cache for requests of one count, of the present, about finished sessions and beside no cleanup (outside of that see below) |
| `services` | see `Services.cfg`, `MCBound` | database, settings, facade, AI requests, preflight, log, update |

Runs that end in a violation, each of a sentence the documentation says:

| run | what happens |
|---|---|
| `process_cancel_saved` | the user cancels after the worker's commit: shown as canceled and unsaved, yet in the history |
| `process_closed_window` | the launch ignores a refused reservation; the window closes over a live worker |
| `cache_gap` | a small request moves the watermark past bars a larger one then never fetches |
| `import_alias` | the provider's name of a label equals an alias of a known one: the import inserts an id that exists, and the batch fails as a whole |
| `fallback_offer` | an extreme deviation run comes to its summary with too few results, would have enough with those the fallback could repair, and the user was not asked |

### What else the models show not to hold

The modules state these too; each is seen with a configuration of the module
alone that checks it, or with the change named.

| formula | what happens |
|---|---|
| `RunProcess!AcceptedCancelNeverSaves` | cancel-and-close cancels in the registry, nobody tells the worker, which saves |
| `RunProcess!RunningHasWorker` | a worker launched while admission was closed ends: `try_complete` raises in the finished slot and the page stays running |
| `RunProcess!CancelAndCloseCloses` | cancel-and-close while the worker waits for a consent that the guard hides: the window never closes |
| `RunHistory!SavedRunIsKept` | a run dated before the kept rows is evicted by its own save and reported saved |
| `RunHistory!KeptIsShown` | pinned rows fill the page and hide what retention keeps, the run just finished among them |
| `CandleCache!FreshUnlessOvertaken`, `Early = TRUE` | a date whose session is not over is marked covered, its last bars are never fetched |
| `CandleCache!FreshUnlessOvertaken`, `Replays = TRUE` | a date between two earlier requests is answered with the older one's rows |
| `CandleCache!ServedWithoutGap`, `Cleanups = TRUE` | a cleanup during a tail fetch turns the tail into the whole history |
| `CandleCache!RepeatIsHit`, `Replays = TRUE` | an older date is not recorded beside a later one and is fetched every time |
| `AnalysisRun!NoneAbandoned` | `composition.py` reserves before it builds providers and opens stores; an exception there leaves the operation reserved |
| `QuantBatch!BreakerOpensOnPersistentFailure` | the breaker is not told of successes: failures with successes between them count as a row (`Width = 1`, `Retries = 0`) |
| `RsCalculation!AlignmentKeepsRanges` | the benchmark's tail is cut to the day most members have, and a range that began after it loses its boundaries |
| `ResourcePreflight!EstimateAlwaysCovers`, `EstimateCoversRepeats` | nothing is read again between estimate and run, while the cache was cleared; a server that repeats the bar of a page's end makes 220 bars take a third page |
| `HistoryFetch!WithinQuota` without `~futu.left` | a call that ends early leaves symbols authorized that were never charged; the next snapshot gives their share to others |
| `TurningSignal!RightAlwaysFollowsLeft` | when the first bars of a swing leave the window, its lowest close rises and an older bar becomes a signal after the fact |
| `MasterData!AliasesAreDistinct` | a label is created or renamed to the alias of another one |
| `MasterData!ImportStoresAll` | a symbol another import stored meanwhile is skipped, with the labels resolved for it, after it was reported as imported |
| `FacadeCall!OneProvider` | a call with two steps takes the provider before a reload for the first and after it for the second |
| `FacadeCall!CanceledIsTold` | a call canceled after its last look at the flag tells success |
| `AiRequest!EveryKeyGoesToItsEndpoint` | model discovery is not in the registry, so a reset and a new configuration may come between its reads of address and key |
| `AiRequest!CanceledIsTold` | an answer that comes after the cancellation is returned |
| `ServiceSettings!ClientHasToken` | a slot writes back the client it read before a check replaced it |
| `ServiceSettings!ResetStays` | a check that runs during a reset writes its result after it |
| `ServiceSettings!NoneLeaks` | two reloads cross and the adapter of one stays open |
| `ServiceSettings!ModelStays` | the check of Longbridge writes the AI model back that it read before another one was saved |
| `ServiceSettings!ChecksAreOfProvider` | checks shown as passed are those of another provider |
| `ServiceSettings!NothingStuck` | an exception after the check leaves its operation in the registry, and no reset is possible until a restart |
| `DatabaseStart!ReadyIsCompatible` | an older program runs on while a newer one migrates under it |
| `DiagnosticLog!DoneCoversImportant` | an event that found the queue full reaches the deque after the writer looked there, and waits until something else is queued |
| `DiagnosticLog!WriterSurvives` | a failed rotation returns the closed handle, the next write raises `ValueError` and the writer ends; later events stay in memory |
| `DiagnosticLog!ClosedLogIsWritten` | an event another thread emits while the log is being closed is never written |
| `UpdateCheck!NeverDowngrades` | the old version, opened again before the script moves it aside, is offered an update once more and replaces the new one, also by an older one |
| `UpdateCheck!RaceLosesNothing` | the window refuses to close after an update was staged, the user installs once more, and the two scripts that wait for one process remove each other's backup |
| `UpdateCheck!QuietMeansInstalled` | the machine goes down between the two moves, and nothing moves the application back |
| `MasterDataPage!NothingSavedIsTrue` | the import is canceled after its commit and the page says that nothing was saved |
| `MasterDataPage!WaitsForSomething` | the reservation is refused after the process was made and before it is started: the page waits for it for good |
| `MasterDataPage!KillsItsOwn` | the delayed kill of a canceled import hits the one started since |
| `MasterDataPage!RefreshSaysWhatItDid` | a refresh that fails at a security deleted meanwhile lists none of the profiles it had replaced |
| `TurningPointPage!ReportStays`, `ListIsStored`, `ListSurvivesRun`, `PickedDateStays` | a list or a date read before a later action arrives after it: it replaces a newer report, shows a deleted run, drops a stored one, moves the date the user set |
| `ExtremeDeviationPage!OfferHasJob` | the fallback question stays open when its worker is gone |

### Bounds, and why they are enough

* Registry: a second drainer, an edge overtaken by another, a raising listener
  beside a healthy one, an unsubscribe against a dispatch, and a race for one key
  each need two of the things involved. An identity is never released, so the
  history of one instance is finite without a counter. Liveness has three
  threads, so that one can drain, one wait in unsubscribe and one work.
* Shell: two operations, so that a cancel loop can be overtaken between two
  cancellations, and one worker thread beside the Qt thread.
* `MaxRuns = 2` in `RunProcess`: whatever one run leaves behind meets the next
  one. The turning point page has two runs and one report per run, so that a
  report can return for the run that is no longer selected; the deviation page
  one run, two dates and one security, the calendar being the hard part.
* History: `Keep = 1` instead of 10 makes every second save evict; three runs
  give an evicting save a concurrent one and an older row. `MaxTime` bounds the
  clock, which may go back; with two values equal dates occur too, which the
  comparison breaks by id. Reports need no clock step; the part with the clock has
  at most one deletion and no progress report that raises, for size.
* Master data: two names and one row each give a conflict of a name and an alias;
  one security, one pool; `MaxBound = 2` instead of 3 labels of a security. The
  other import that stores the symbol first binds it to at most one label.
* Run of an analysis: five members are the least for four fifths to differ from
  all; two intervals give a partial run.
* Cache: `Counts` 1..4 and `Overlap` 1 stand for 220/650 bars and an overlap of 4
  (2 for weeks); what matters is that a tail may be smaller than the request and
  that more bars than the overlap may pass. `MaxTime` 8 leaves room for a full
  fetch, a gap longer than tail plus overlap and another request. Bars complete
  one a day, the most that the estimate of the missing tail allows.
* Batch: three symbols, two at a time, one retry and a breaker of 2, 3 of 4
  instead of 8, 16 of 20: two requests in flight and one waiting when a rate
  limit, a fatal error or a cancellation comes; four symbols were checked once.
* Pages: pages of 2 bars, two pages and three bars make a short page, a full last
  page and the page limit occur; the quota part has two calls over three symbols.
* RS calculation: five members in three classes, series that rise, fall, start
  late, end early or fail, two ranges of which one is short, chunks of two.
* Signals: five kinds of bars in sequences of seven, one more than the window;
  the kinds are those a fall, a recovery and a deeper fall with less momentum
  need. Score: six kinds of bars in sequences of six, at least three of history.
* Settings: one client, one model, one stored revision and three adapters, so
  that two reloads cross. Two clients, and operations that go on beyond the third
  adapter, were checked once.
* AI: two addresses and keys, two saves, two retries (the code's limit); the
  search stops at a third pair of an address and its key, two being enough for a
  key to go to the wrong address. Log: two threads with four events or commands
  together and three at most of one, a queue of two, one important event; three
  each were checked once. These three stops are `MCBound`, a constraint.
* Database: an older and a newer program and a tool, three migrations of two
  statements, one of them repeatable, two units.
* Update: three versions: installed, offered, and one published meanwhile; two
  scripts, enough for one to meet another.

Deadlock is not checked: a session may end, an instance runs out of operations,
runs or time.

### Fairness

* Registry (`MCFairness` of `MCLive`): weak fairness of a draining and of an
  unsubscribing thread (they are inside a call), and of the completion of an
  operation whose handler has returned (`Completes`: `execute()` is in its
  `finally`). A reserved operation owes no beginning, since what lies between
  `reserve` and `execute()` may raise, and a handler owes no return. Subscribing,
  reserving and canceling owe nothing.
* Shell: weak fairness of the Qt event loop (`UiProgress`) and of drains. A worker
  owes no return: one that waits for a consent the guard hides never does. So
  `CancelAndCloseCloses` says that the window closes or something stays active.
* RS page: weak fairness of the event loop, of the worker's steps, of the death
  of a worker that got SIGTERM, and of the end of other pages' operations. The
  user owes nothing; in particular no answer to an offer.

The other runs check safety and action properties and assume no fairness.

### Mutants

Every property has a mutant in `PROJECT.json`: a `Faulty...` definition that
changes the code's in the way a plausible mistake would, which TLC finds. A
conjunction has one mutant, for one of its parts. Other `Faulty...` definitions
of the modules were seen to violate the property of their part: a failed mark,
a dropped guard, a swapped order, a missing reset.

## 4. Proofs

All theorems hold for every value of the constants that meets the assumption of
the module, which is as weak as the code allows: finite sets, limits of at least
one, `None` apart from the operations, and so on. The assumption of `AnalysisRun`
(two natural numbers) stands in its theorems. Each inductive invariant was checked
by TLC before it was proved.

`OperationRegistryProofs`, for any sets of operations, keys, listeners, threads
and the assumption that `None` is none of them:

* `TypeCorrect`.
* `NotificationInvariant`: `NotifyInv` is inductive. "Every live listener has been
  told the current activity" is not inductive by itself; what carries it is that
  the last queued edge is the current activity (`lastEnqueued = Active`), that one
  thread drains exactly while the flag is set, that a listener still to be called
  is handed the edge in flight, and that one nobody will call has seen the last.
  `InformedWhenQuiet` and `ListenersConverge` follow.
* `UnsubscribedStaysQuiet`: an unsubscribed listener is not in the drain's list
  and nobody is calling it; between the two halves of an unsubscribe it may be.
* `LifecycleInvariant`: `LifecycleInv` is inductive; it ties status, cancel event,
  execution flag, owner and returned payload together. `CancellationIsFinal`,
  `ShutdownIsFinal` and `TerminalStatusIsFinal` follow.
* `RegistryImplementsLifecycle`: every step of the registry is a step of
  `OperationLifecycle` or a stutter.

`ShellShutdownProofs`, for any operations, listeners and threads, the shell being
one of the listeners. `ShellKeepsTheRegistry`: every step of the composition is a
step of the registry or leaves it alone, so the theorems above hold of it too, and
the shell's proofs cite them. `ShellInv` adds what is the shell's own:
`SubscribedInv` (nothing happens before the window is open), `GuardInv` (what each
handler of the window knows), and `EdgeInv`, which follows the last activity from
the registry's queue through the calling thread and the Qt queue to the mirror. It
gives `ShellTypeCorrect`, `ClosedIsIdle` (with `LifecycleInv`),
`GuardKeepsAdmission` and `MirrorIsRight`.

`RunProcessProofs`, for any number of runs: `TypesAndBridge` (`TypeCorrect` and
what each stage of a run means for process, pipes, registry and user, proved
together because a type such as "the latest run" depends on the stage),
`PageIsRight` and `ConsentIsKept`. A fact is in a pipe between the step that
writes it and the one that reads it, so `SavedInv` follows a success, and
`ConsentInv` an acceptance, wherever they are on their way.

`AnalysisRunProofs`, for a pool of any size and any number of intervals:
`RunInvariant` and `RunIsHonest`: a stored run has every task of its request, of
one source and with enough results; the user is asked once; the caller is told
what the history and the registry say (`RunKeepsItsWord`). `IInv` counts: at each
step the tallies taken up so far sum to the tasks of the batches done
(`TalliesInv`), which is what "whole" means once no batch is left.

`RunHistoryProofs`, for any runs, reports, imports, retention and clock:

* `TypeCorrect`; `HistoryInvariant`, where `HistoryInv` says what each step of a
  handler knows of its phase, and that a run is committed, or a report attached,
  exactly when its handler proposes SUCCEEDED, but for a run whose progress report
  raised after the commit (`unheard`: its reader is gone, it proposes FAILED); from
  it `RunsAreToldTheTruth`,
  `ReportsAreToldTheTruth` and `HandlersKeepGateContract`.
* `SaveEvicts`: a save leaves at most `Keep` unpinned rows of its table, and those
  it takes are older than those it leaves. It rests on lemmas about the order of
  rows by date and id (`NewerIsTotal`, `OldestAndNewest`) and on
  `ExcessLeavesTheNewest`, that of a finite set of rows exactly the newest `Keep`
  are not in excess.
* `ReportsAreKept`: no step loses a report of a row that stays. A report is read
  with its row in one step and written back in another; `ReadIsCurrent`, that what
  was read is still what the row holds, rests on the write lock being held from the
  read on, and every other writer of the row waiting for it.
* `HistoryImplementsLifecycle`: each handler's steps are steps of the abstract
  operation or stutters; that a proposal after the gate is never CANCELED is the
  fact of `HistoryInv` the last step needs.

`PagesProofs` proves the sum of `Pages` right for any names, symbols, runs,
dates, reports and profiles. `PagesInv` is the conjunction of the invariant of each
part, and a step of one part leaves the variables of the others:

* the master data store. `PoolsAreBound` and its half of `PagesTypeCorrect` need
  `StoreInv`: the types alone are not inductive, since an import commits rows for
  what it resolved earlier. `BatchInv` says that a batch resolves a symbol to no
  more labels than a security may have; another import may store one of its symbols
  meanwhile, which is then skipped with its bindings; `BoundInv` that
  every binding is a pair of a stored security and a label. `MeaningIsKept` is an
  action property: relabeling and merging take no security that keeps a label out
  of a pool, and a commit binds the labels that the import resolved.
* the pages. On the turning point page `FormInv` says that a preflight is under way
  only while no run is, `JobInv` that a question is open only for a waiting worker
  or one whose end is not told yet and that a run not saved is in no list, and
  `ListsInv` that a list still to be applied was read after what it misses was
  deleted. On the extreme deviation page `DatesInv` says that the calendar is asked
  about the date the user wants, or the user wants none by now; on the master data
  page `ImportInv` that only a task passes the commit gate and has left the registry
  when it exits; on the RS page a report task belongs to a run. The promises of the
  four together are `PagesTypeCorrect`, `PageAlwaysShowsOneRun` and
  `PageAlwaysFollowsItsJob`; what they leave out is in the table above: a run
  deleted beside an older list (`ListIsStored`), the question of the deviation page
  (`OfferHasJob`), a kill that hits a later import (`KillsItsOwn`), a page that
  waits for nothing (`WaitsForSomething`). A task of the turning point page that
  raises leaves the page running, which `BusyWithJob` says (`raised`).
* the run of an analysis. Its proof is that of `AnalysisRunProofs`, instantiated:
  `RunNextIsNext`, `RunInitIsInit` and the like say that the instance of
  `AnalysisRun` in `Pages` and the one of `AnalysisRunProofs` are the same, and
  `RunAlwaysKeepsItsWord` cites its lemmas.

`QuantBatchProofs`, for any symbols, width, retries and limits of the breaker:
`BatchInvariant`, `TypeCorrect`, `EveryBatchIsAnswered` and `LimitedGoesAlone`.
"Answered when it returns" needs to know where every symbol is before: `PlacesInv`
parts the symbols into planned, deferred, in flight and answered, each held once,
which lemmas about sequences without repetition carry through `Append`, `Tail` and
concatenation. `LoopInv` says what the flags mean (the loop is throttled exactly
while something is deferred, a limit nobody has handled is told by a future in
flight), without which the loop could stop with symbols left; `AloneInv` counts
the requests under way.

`ServicesProofs` does the same for `Services`: one invariant per part, `PartInv` of
its module (`IInv` and `UnitCounts` for the database), and `ServicesInv` their
conjunction. It gives `ServicesTypeCorrect`, `TheFileStaysWhole`,
`SettingsAlwaysHoldTogether`, `RequestsStayBounded` and `NothingIsEverLost`, under
`ProcessesAssumption` and `ServicesAssumption` (bounds are natural numbers, at
least one where the code has at least one; the sets of symbols finite; "none" no
address and no key).

* The database, for any processes, versions of their programs, migrations and
  statements; `TheStoreIsWhole`, `TheReadyHaveTheirSchema` and `TypeCorrect` speak
  of `DatabaseStart` alone. What a commit makes visible was written before it, so
  `IInv` says of the process with the lock how its uncommitted work differs from
  the file (`MigrationUnderWay`, `UnitUnderWay`) and of every process that the
  receipts it read are a prefix of those in the file (`PrefixRead`). The commit of
  a migration needs it: its receipt being new means that the file still ends where
  this process stopped reading. A commit and telling its caller are two steps; a
  process that ends between them leaves a unit in the file that nobody was told
  of (`lost`).
* The settings, for any clients, models and number of reloads. "The adapter in use
  is open" is kept by `AdaptersInv`: an adapter that was built and not yet put in
  use is open, and no other thread has it in hand to close. "The provider in use
  was checked" is kept by `RowInv`: a thread writes a row it read earlier, and what
  may have been written in between leaves the check of OpenD as the thread read it,
  or a finished check has only added it (`Lagging`); it holds until a reset comes
  under a running task, which the code's own guard does not exclude
  (`page.erasedUnder`, and `ResetStays` above). A builder that raises (`BuildFails`)
  leaves the adapters as they are. `StepsInv` says which step follows
  which, for all lists of `Steps` at once.
* The facade: `HandlerInv` keeps of the rest of a script that a write comes last
  and after the gate (`GateGuards`), `ResultInv` what is known once it has ended.
* The preflight, for any symbols, limit and quota. `CallsInv` is the budget: what
  was sent and what `StillToSend` counts stay within the estimate. A fetch moves
  requests from one to the other, which needs that a cache that grows leaves fewer
  misses, summed over the intervals (`CallsFacts`, `CallsWithout`). `QuotaInv` says
  the same of the quota: what is still to be asked for fits what the worker
  believes to be left, for its session as for the file. The property
  names their conditions: the first holds while the cache was not cleared and the
  server repeats no bar, the second while the cache was not cleared and nobody else
  used the quota.
* An AI request: `KeyInv` (the key in hand was stored with the endpoint in hand,
  although the configuration is saved and cleared between the two reads),
  `ConfigInv` (revisions order configurations), `SentInv` (the count of requests at
  each step).
* The log, for any threads, events and capacity: "done means done" needs the order
  in the queue, so `QueueInv` and `HandInv` say that of one thread what was put
  later carries the larger number, also behind the command the writer has in hand.
* The update: `ScriptInv` names the bundle each command of the script relies on,
  under the condition that no update was staged while another script waited or ran
  (`raced`); a power loss forgets the scripts and keeps both bundles.

Only model-checked: all liveness properties, whose fairness is about ENABLED,
which the prover does not handle; `CandleCache`, whose `ServedWithoutGap` and
`FreshUnlessOvertaken` hold for one count per symbol but not for all values of its
constants (see above); `HistoryFetch`; and the calculations (`StagedIsSerial`,
`SignalsAndScoresAgree`), whose series are defined by recursion over data, which
the prover cannot do induction on. `AnalysesTypeOK` is checked; of its parts that
of `QuantBatch` is proved in its own module. The lemmas of the preflight sum over
its three intervals one by one for the same reason.

## 5. Not modelled

`PROJECT.json` gives the reason per component. In the modelled ones:

* the constructor arguments and the wiring of `composition.py`, listings,
  wording, progress figures and the contents of QML pages;
* the values in a snapshot or a report, the arithmetic of averages and decimal
  rounding; a factor of 1.01 in a signal's volume condition is a plain
  comparison, and averages that restart in a shorter window are taken to agree;
* SQLite's behaviour after a power loss (`synchronous=NORMAL`) and the backup;
* retention of log files, their query and export;
* waiting times; a timeout is an outcome;
* in the preflight, ranges of more than 1000 days, and repeated attempts;
* the daily and quant result caches, the Yahoo library, the sign-in flows.

## 6. Plan

What would add most next: a sum module for the analyses, as `Pages` and `Services`
are, with the pages and the quota of `HistoryFetch` proved beside `QuantBatch`; the
watermark of `CandleCache` for one count per symbol; the two result caches beside
it; the pages composed with the registry instead of their own copy of an
operation's state.
