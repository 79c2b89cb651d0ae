# Verification of the opptrix harness

The opptrix harness is a single-process TypeScript server (`src/src`) started and supervised by
`src/bootstrap.mjs`. It hosts extensions in worker threads, runs long tasks, LLM agents and their
subagents, cron jobs, MCP connections, code sandboxes and file storage, and upgrades itself between two
slots on the disk. It is written with `async`/`await` over one SQLite connection: there are no data races,
but between any two awaits any other handler, timer, callback or worker message may run, and the process
may end. That is where its hard behaviour is, and that is what these TLA+ modules model:
**one action is one stretch of code between two awaits** (usually one store call together with the
synchronous code around it).

TLC checks the models on small instances; TLAPS proves the central safety properties of sixteen of them
(tasks, subagents, upgrade, cron, extension host, MCP registry, extension routes, SSE hub, files, sandbox, kernel lifecycle,
agent sessions, flows, notifications, LLM gateway, accounts) for every value of the constants. Every definition that models code names its source lines under `map` in
`PROJECT.json`; the hazards each property is aimed at are listed there with the line where they bite.

Paths below are relative to `src/src/kernel/` unless they start with `src/`; `src/extensions/` holds bundled extensions.

- [1. Inventory](#1-inventory)
- [2. Modules](#2-modules)
- [3. Runs](#3-runs)
- [4. Proofs](#4-proofs)
- [5. Disagreements between code and documents](#5-disagreements-between-code-and-documents)
- [6. Plan](#6-plan)
- [7. Reading and running](#7-reading-and-running)

## 1. Inventory

### 1.1 Parts that are modelled

| Component | State | Operations | What is hard | What makes it correct |
|---|---|---|---|---|
| **Tasks** `tasks/manager.ts`, `store.ts`, `worker-pool.ts` | rows of `tasks`; entries of running tasks; a promise chain per task; threads, FIFO queue, jobs in flight | dispatch, cancel, callbacks progress/done/failed, timeout sweep, start, stop | callbacks, cancel and sweep decide the outcome of one row from reads that are an await old; chains are dropped while handlers run; threads die; crash between outcome, payload and event | one outcome, its payload and its event, once; jobs neither lost nor run twice; every running row ends |
| **Subagents** `agents/manager.ts`, `agents/store.ts` | rows of `subagents`; controllers and timers; a lock chain; a chain per agent | spawn, cancel, runner events, timeout, pump, sweepTimeouts, restart | the pump starts agents from counts and lists that are awaits old; timer, runner and cancel race for the outcome | limits kept, memory agrees with rows, first outcome stands, waiting agents are started (while nobody cancels), FIFO |
| **Upgrade** `update/slots.ts`, `update/updater.ts`, `src/bootstrap.mjs` | `slots.json`, two slot directories, kernel process, watchdog | apply, settlement at boot, restart, crash loop, watchdog, rollback | two processes write one file from old reads; power cut between any two steps; both slots can become unusable | an update window is open on a complete release only; the current slot is left alone; the system gets ready again; windows close |
| **Cron** `cron/scheduler.ts`, `cron/store.ts` | rows; `#jobs`; one timer; tick in progress; fires in flight; queued runs | schedule, unschedule, enable, update, run now, tick, fire, after-fire, start, stop | one timer for all jobs is re-armed from several places across awaits | memory equals store; the timer is not lost; no round fired twice |
| **Extension host** `extensions/manager.ts`, `bridge.ts`, `src/src/extension-host/*` | rows, active extensions, routes, worker, bridge, locks, crash handler | enable, disable, reload, stop, crash, back-off, trip | the crash handler takes no lock; loads time out in the kernel and go on in the worker; roll-backs | table, memory, routes and worker agree once everything is quiet |
| **Extension routes** `extensions/routes.ts` | table, draining mark, requests in flight | commit, remove, request | a swap waits up to 5 s for requests; requests authenticate across an await | the table asked for last is served; the extension does not stay closed |
| **SSE hub** `http/sse/hub.ts` | numbers and ring per topic, clients | publish, connect, replay, disconnect, restart | gap or replay; buffers given up; half-open connections; numbers start again with the process | a connected client has seen everything or was told of a gap |
| **Kernel lifecycle** `Kernel.ts`, `Container.ts` | state, held fields, providers booted | boot, abort, shutdown, drain | shutdown during boot, failing steps, two callers | everything started is stopped, once, in order |
| **MCP registry** `mcp/registry.ts`, `mcp/config-store.ts` | configuration, connection, clients | connect, disconnect, configure | two connects of one server; configuration changed during a handshake | no client left behind; what the map holds is open |
| **Sandbox** `sandbox/manager.ts`, `sandbox/docker.ts` | workspaces, containers, idle times | create, remove, exec, isolated exec, sweep, recovery | every call of Docker is an await; a timeout kills the container under other execs | workspaces say what their containers do; containers are accounted for |
| **Files** `files/service.ts`, `files/drivers/local.ts` | rows, files on disk | store, remove | disk and row fail one without the other; the quota is read awaits before the insert | row and file belong together; the quota is exceeded by overlapping uploads only |
| **Agent sessions** `agents/session.ts`, `runner.ts` | messages, the exclusion per session, abort controllers | sendMessage, cancel, delete | cancel before, in and after the loop; deletion beside a turn; limits of the tool loop | what the model is shown and what is kept are whole turns |
| **Chat and session page** `chat/`, `src/extensions/webui/ui-src` `useChatMessages`, `AgentChat.tsx` | pages, events, optimistic messages; two streams and lists | send, page, reconcile, switch, open, resend | answers and events pass each other and the reader | shown = stored, once; sent once |
| **Flows** `flow/` | endpoint, key, events | create, update, delete, rotate, inbound | no transaction over row, key and events; checks against old rows | an event says what was done |
| **Notifications** `notification/` | row, plan, deliveries, channel settings | send, retry, edit | retries of what had arrived; read-modify-write of one array | each planned delivery accounted for |
| **LLM gateway** `llm/gateway.ts`, `health.ts` | failures and cooldown per provider | chat, failover | requests overlap and share the breaker | rests exactly as it should; every candidate is tried |
| **LLM providers** `Settings.tsx`, `src/src/api/llm.ts` | list, secrets, a copy per open page | edit, save, reload | the whole list is saved from a copy | keys stay with their provider |
| **Accounts** `src/extensions/auth/index.js` | users, sessions, API keys, second factor, tokens in memory | onboarding, login, enrolment, role, deletion, recovery | checks and writes awaits apart | an administrator stays; nothing outlives its credentials |
| **Browser, coding engine** `browser/engine.ts`, `coding/engine.ts` | browser, queue, idle timer; processes, directories | operations, close, stop; runs, reset, delete | timers and kills beside operations | one browser, one process per session, nothing left behind |
| **Extraction, speech** `fileextract/`, `asr/` | model files, flights, engines, idle timers | download, load, extract, transcribe | two writers of one temporary file; idle timer under a use | whole files; one engine; what was not read says so |
| **Extension worker** `src/src/extension-host/worker.ts`, `extensions/bridge.ts`, `events/bus.ts`, `hooks/manager.ts`, `extensions/registry.ts` | loaded extensions, timers, migrations, pending calls, handlers | load, unload, calls both ways, events, hooks | a load outlives its timeout; handlers change under a loop with awaits; four timers on one call | migrations complete, timers cleared, each call ends once, nobody passed over |
| **Installed extensions** `extensions/installer.ts`, `manager.ts`, `src/src/api/extensions.ts` | directory, row, copy of the row, trust | install, rescan, enable, disable, reload, uninstall, start | directory, memory and row change one after the other | only what was confirmed runs; the row brings back what ran |
| **Plugins, skills** `plugins/`, `skills/` | directories, the view of them, contributed servers | install, remove, refresh; create, delete | scans beside changes | what is listed is what is there |
| **Memory, MCP file, log table** `memory/`, `mcp/config-store.ts`, `logging/sqlite-sink.ts` | rows; a file and its copy; buffer, chain and table | add, extract, prune; change; log, flush, trim, close | check-then-insert; one temporary name; failing flushes | within the limit; the file is whole; order and no doubles |
| **Workspaces, backup** `workspace/service.ts`, `storage/backup.ts` | parents of sessions; archive | resolve, create, delete; back up | rows deleted half way up; files deleted under a listing | files go to the root's workspace; archives are whole |

How they interact: the **kernel** builds and starts all of them and stops them in a fixed order
(Lifecycle). The **extension manager** registers routes, task executors, cron jobs and tools on behalf of
extensions; an extension's `task.*` messages reach the task manager as callbacks that may come late, twice or
never (the `external` tasks of Tasks). **Cron** fires into the extension host or an agent session and waits
for the promise. **Subagents** are run by the session runner, which is free to answer at any time or never
(`runner` in Subagents). An agent **session** asks the LLM gateway, calls tools
and stores messages, which a page follows over one stream while it sends over another. **Flows** and cron jobs lead to notifications
or session messages. Nearly every service **publishes** on the event bus, which the SSE hub numbers and
keeps. All stores share one SQLite connection: their calls are served first come first served, which Cron
models as a queue and Subagents relies on for atomic store calls.

### 1.2 Parts that are not modelled, and why

- **Migrator** (`storage/migrator.ts`): each migration and its row are one transaction, so that a crash is between two; nothing
  calls rollback. The migrations of extensions, which are not in one transaction, are in `Guest`.
- **Settings, secrets, database**: single statements and encryption of values; no state of their own to interleave. What writes
  two of them in a row (providers, flows, channels) is modelled where it does.
- **System MCP server** (`mcp/system-tools.ts`) and most **kernel handlers** (`extensions/kernel-handlers.ts`): they check arguments and
  call one operation of a component each; their awaits are those of the component. Of the handlers the cron topics, whose effect
  spans two components, are in `Guest`.
- **Listing and pruning of backups**: nothing in `src/src` calls them.
- **Isolation of the vm contexts** (`extension-host/sandbox.ts`): it wraps and freezes objects; what it guarantees is a property of
  JavaScript, not of states.
- **Manifests, contributions, cron expressions, MIME types, formats of adapters and channels, permissions, schemas**: functions of data
  on which no interleaving depends; the models keep their outcome (accepted or not, due or not).
- **HTTP server, configuration, error codes, system information, authentication of requests**: mapping, pure I/O, stateless checks.
- **Other pages of the console** (`Onboarding`, `Notifications`, `Cron`, `Extensions`, ...): each loads a list, edits one row through a route and
  loads the list again. The pages that hold more (a channel, a session, the providers) are modelled.
- **Chat bridges, connectors, command line, release scripts, examples**: adapters to outside services and build tooling.

The map names the lines that definitions stand for, and nothing else: about 14 % of the implementation. What remains is for the most
part in the list above: markup of the console, tool and route tables, type declarations, parsing, formatting and validation.

## 2. Modules

| Module | Role |
|---|---|
| `Tasks` | the task subsystem in full |
| `TaskLifecycle` | what a client may see of a task: the abstract specification that `Tasks` implements |
| `TasksProofs`, `MCTasks` | proofs; instances |
| `Subagents`, `SubagentsProofs` | the subagent manager |
| `Upgrade`, `UpgradeProofs` | the updater, slots.json and bootstrap |
| `Cron`, `CronProofs`, `MCCron` | the scheduler over its single connection; proofs; an instance |
| `ExtHost` | one pool of the extension manager, its worker and crash handler |
| `ExtRoutes`, `SseHub`, `Lifecycle`, `McpRegistry`, `Sandbox`, `Files` | one service each |
| `ServicesProofs` | proofs about `McpRegistry`, `ExtRoutes`, `SseHub`, `Sandbox`, `Files` |
| `KernelProofs` | proofs about `ExtHost` and `Lifecycle` |
| `CountingTheorems` | what the proofs need of natural numbers, finite sets and sums: least elements, induction, sums over sets, enumerations of a set in an order |
| `MCServices` | Cron, ExtHost and the six services, each in its turn |
| `Session`, `Flow`, `Notify`, `LlmGateway`, `Accounts` | conversations, inbound events, notifications, the model gateway, accounts |
| `FeaturesProofs` | proofs about these five, each in a part of its own |
| `ChatRoom`, `AgentPage`, `Providers` | a channel, a session and the list of providers on the screen, with the routes behind them |
| `Browser`, `Coding`, `Downloads`, `Recognition` | the engines |
| `Guest`, `Dispatch`, `Calls`, `Catalog` | an extension: its thread, events and hooks, calls, its installation |
| `Library`, `Memory`, `McpConfig`, `LogSink`, `Workspace`, `Backup` | what is kept on disk and in tables |
| `MCFeatures` | the features, from `Session` to `Backup`, each in its turn |

### 2.1 Tasks

*State.* `status`, `payload`, `overdue` are the table; `entry`, `chained`, `chain`, `arrived`, `calls` the
manager's `runningTasks` and `#chains`; `canceller`, `dispatcher`, `sweep` hold what the methods in progress
have read; `poolUp`, `alive`, `job`, `queue` the pool. `announced` is the history of events.

*Actions.* `DispatchAdmit/Create/Run`; `CancelGet/Transition/Mark/Return`; for each callback `CallCheck`, `CallGet`,
`CallEnsureRunning`, `CallFinish`, `CallRecord` (which may throw, `CallRecordThrows`), `CallSettle`;
`SweepList ... SweepEnd`; `Start`, `StopPool`, `StopAwait`, `StopFinish`; `WorkerProgress/Done/Failed/Crash`;
`ExtMessage`, `ExtLost`; `TimePasses`; `Crash`. A conditional UPDATE (`Transition`) is atomic; the read that led to it is another action.
Calls of one task are served in order within a promise chain (`IsHead`), and a chain that is deleted
while handlers are on it lets a later callback overtake them, as in manager.ts:214.

*Left out.* Progress percentages and SSE (the events are in `announced`), the limit of 500 rows per sweep,
failures of the database other than those of `setResult`. One cancel per task is under way at a time.

*Abstract specification.* `TaskLifecycle`: an outcome is decided once; its payload follows and is that of the
outcome; its event comes at most once, after the payload. The mapping is the identity on `status`, `payload`
and `announced`. It allows a crash to lose payload and event, which the code does. `Tasks` takes it as
`Lifecycle == INSTANCE TaskLifecycle WITH ...`, and `ImplementsLifecycle` is its specification.

### 2.2 Subagents

*State.* The rows (`status`, `parent`, `overdue`, ids in order of `created_at`), `registered` and `timers` for the
controllers, `runner` for the external session runner, `chain`/`step` per agent, `lock`/`cs` for the critical
section, `sweep`. *Actions.* `Spawn`, `SpawnCount`, `SpawnCreate`; `PumpCount/List/Get/Start`; `StepGet/Update/Notify`
for done, error, timeout, cancel; `TimerFires`; `SweepList/Update/Notify`; `Restart`. A store call is atomic with the
code that continues after it, since the pool of the database has one connection. The chain of an agent awaits
the pump it schedules, which only delays an API reply and is abstracted. Prompts, results, transcripts,
usage and the limit of iterations are data. `sweepTimeouts` has no caller in `src/src`; it is modelled because it is public.

### 2.3 Upgrade

*State.* `slots` is slots.json, `disk` the content of both slots (`torn` while or after a half extraction), `kernel`
where the running code came from and how far it is, `seen`/`watchdog.seen` the old reads of the two writers.
*Actions.* `Boot` with the fallback order of bootstrap; settlement in three steps; `apply` as download, emptying,
extraction, preflight, commit in two steps, restart; exits of a broken or working kernel; the watchdog and its
two-step rollback; `PowerCut`. *Left out.* check() and the feed, backup, history.json, notifications, delays in seconds,
a damaged slots.json. Watchdog and crash path of bootstrap are not at work at the same time, and the
failures of a broken release fall into one window of the failure counter.

### 2.4 Cron

Store calls are a FIFO queue (`calls`), served by `StoreStep`; tick, fire and after-fire are the code between
them. Time is a counter in units of the finest expression, a job comes round every `Period[j]` units. The timer
goes off at once when its delay is longer than `MaxDelay` (2^31-1 ms), as `setTimeout` does. *Left out.* Failing store calls, requests before start() is over,
`reload()` (no caller), run history. `stalled` marks that a tick has waited for the store: beyond that point two
races of the code are real (section 5 and `hazards`), and two parts of `CronInStep` say what holds before.
The jobs that are due are a set, and the list of a tick the one order of it that the code's sort makes.

### 2.5 Extension host

One pool, started. `bridge`, `dead`, `running`, `loaded`, `loading` are workers; `row`, `activeOn`, `routes` what the
manager committed; `lock`/`job` the operations; `restart` the crash handler with its list made before the back-off. A
`host.load` that times out in the kernel may still be carried out by the worker. *Left out.* Discovery,
rescan, uninstall and the trust gate (`Catalog`), dispatch of events (`Dispatch`), what a load does in the thread (`Guest`). Store calls
outside the commit do not fail: a row whose write fails is only logged in the code (manager.ts:1055). The undo of one extension's
activation is one step. `disturbed`
records that an operation met a crash or its handler, where the code is known to disagree (hazards at
manager.ts:735, 1021).

### 2.6 Services

- **ExtRoutes**: `DrainThenSwap` at once or later, the five-second limit, requests that look the table up, authenticate,
  enter. Path matching and schemas are data. `overtaken`: a change asked for while another one waits.
- **SseHub**: numbers, ring, eviction of topic buffers, half-open connections, gap or replay. Replay is on (nobody
  turns it off). `last[c][t].from/life` tell a cursor of an earlier process.
- **Lifecycle**: the steps of `#runBoot` as a sequence, any of which may fail; abort and shutdown go through one
  list; a provider that fails in its boot is not stopped by the code. `beside`: boot gives up beside a shutdown. At most `MaxLeaks` stops fail.
  Providers are told apart by names that differ from each other and from the kernel's fields, as the objects in the code do.
- **McpRegistry**: one server; `displaced` clients are those a second connect replaced in the map without
  closing; `outdated`: the configuration changed beside a connect. The file of the configuration and the race of two writers are in `McpConfig`.
- **Sandbox**: workspaces as objects that operations may hold after removal; Docker as an external
  automaton that refuses illegal starts and stops and may fail at any other call; what fails is taken as not done. File operations are execs. `strays`: containers the code gives up
  (one that does not start, one entered for a workspace that is gone, one whose handle another replaces, the one of an isolated command
  whose forced removal fails and is only logged (manager.ts:440), those a restart finds). An isolated command is two steps, its
  container with its start, and its end with the removal. After a restart an extension's workspace cannot
  be used by exec although kernel-handlers.ts:794 finds its directory.
- **Files**: sizes are small numbers, names and types are left out. `litter`, `hollow`, `grown` name what the code is
  known to leave: a file whose undo failed, a row whose file went first, bytes added by hooks after the quota was read.

**Composition.** `MCServices` takes Cron, ExtHost and the six services as one system. They run in one process but share
no variable of the models (what they share in the code, the database connection and the event bus, is
inside each model as an await or an observation). An interleaving of two services therefore changes no
projection onto one of them, and an invariant of one service holds of all interleavings exactly when
it holds of its own behaviours. `focus` makes use of that: the initial state chooses the service whose steps the behaviour
takes. This is sound for the safety invariants that run checks, each of which speaks of one service, and for
nothing else: no liveness property is checked there.

### 2.7 Features

Each of these modules is one feature with its own variables, initial states and next-state relation; its header says what a step is, and
one property says when everything is right. Histories (marked so in the modules) record the
sequences in which the code is known to go wrong: a property says *what holds unless* one of them has happened, and each is a line in
`hazards`. Of such a hazard the property shows that nothing else goes wrong beside it; it would not catch the sequence itself (`crossed`, `clashed`, `tangled`,
`headless`, `abandoned`, `stray`, `twins`, a missed scan; in the services `overtaken`, `displaced`, `outdated`, `stalled`, `beside`, `strays`).

- **Session**: one conversation, two messages. `Send`, `SessionChecked`, `AddUser`, `ReadHistory`, then rounds of `ChatBegins`, `Answers`/`WantsTools`,
  `RunTool`, then `Persist`/`Reply`; `CancelGeneration`, `DeleteSession` between any two. The window counts every message; of those in it
  `Shown` keeps what `historyToText` does, all but the results of tools, each at its place in the window. *Left out*: titles, archive, compression of
  early rounds, texts.
- **Flow**: an endpoint's row, key and events; two requests. *Left out*: templates, signatures' arithmetic.
- **Notify**: hook, plan, table, deliveries with retries, beside two edits of the settings array. *Left out*: drivers, formats, routes by severity.
- **LlmGateway**: three providers, one of them without a model, two requests, the breaker. *Left out*: wire formats.
- **ChatRoom**, **AgentPage**: the hooks and pages of the console with the routes and streams they use; `excused` and `odd` name the gaps.
  *Left out*: members, bridges, edits of messages; texts, tokens and the layout.
- **Providers**: two administrators with the tab open, dialogs, the whole list sent, keys into secrets. *Left out*: the other tabs;
  nobody opens a dialog while a request is on its way.
- **Accounts**: the statements of onboarding, login, enrolment, role changes, deletion, API keys and recovery. *Left out*: passwords and codes
  themselves, throttling, pages.
- **Browser**: installation, queue, launch, one retry after a crash, idle timer, stop. **Coding**: sessions, runs with timeout
  and kill, reset, deletion. *Left out*: what a page or a program does, limits of output.
- **Downloads**: mirrors, temporary names, single flights, end of the process. **Recognition**: engines and idle timers, extraction in the pool and
  on the main thread, the stored result. *Left out*: the computation on documents.
- **Guest**: one extension in its thread: `host.load` with migrations and setup against their timeouts, cron jobs, timers, `host.unload`, death
  of the thread. **Dispatch**: events and hooks of one pool over lists that change. **Calls**: calls both ways and between
  extensions, with their four timers. *Left out*: payloads, patterns of event names, the kernel's own subscribers.
- **Catalog**: one extension of an untrusted directory: install, rescan, the row and its copy, enable with confirmation, disable, reload,
  uninstall with and without its row, start of the kernel. *Left out*: checks of archives and manifests; the worker is that of ExtHost.
- **Library**: packages of plugins, with what they contribute, and skills: disk, view, adapter for MCP servers. *Left out*: manifests, scripts.
- **Memory**: adding, doubles, extraction, limit, forgetting. *Left out*: ranking and full text. **McpConfig**: the file, its copy and two writers.
  **LogSink**: buffer, chain, batches, trimming, close.
- **Workspace**: the way from a scope to its root while sessions are deleted. *Left out*: paths, limits of lists, sessions of origin (nobody
  gives one to a subagent: `mcp/system-tools.ts:1917`, `src/src/api/subagents.ts`).
- **Backup**: the copy of the database, the listing, the reading of files, beside uploads and deletions. *Left out*: extensions in the
  archive, which are read as uploads are.

**Composition.** `MCFeatures` takes the features as `MCServices` takes the services, with one difference: it extends the five that have
proofs, and instantiates the other modules (`INSTANCE ... WITH`) over the same variables `p1 ... p13`, as no two of them are in
one state; `feature` says whose they are.
It is sound for the same reason and for the same properties: each invariant speaks of one feature, no feature reads a variable of
another, and what they share in the code (the database connection, the disk, the event bus) is an await, a fault or an
observation in each. What crosses two components in the code is put into one module (Backup with the file service's steps, Flow with the
secrets, ChatRoom with hook and table, Guest with cron rows).

## 3. Runs

| Run | Instance | Checks |
|---|---|---|
| `tasks_pool` | an echo and an extraction on one thread, or an extension task; two may be cancelled | `TypeOK`, `OneSettler`, `PoolWorkConserving`, `NoOrphan`, `ImplementsLifecycle` (the refinement of `TaskLifecycle`) |
| `tasks_live` | the same tasks; the extension task with two starts of the process; threads answer | `RunningEnds`, `InFlightEnds`, `PoolDrains` |
| `tasks_cancel_race` | one echo, one cancel | violation of `CancelEndsTask` |
| `subagents_races` | three agents, one slot, two children, depth 2, one cancel, one restart | `TypeOK`, `WithinCapacity`, `TreeBounds`, `SlotsAccounted`, `OutcomeIsFinal`, `PumpIsFifo` |
| `subagents_queue` | two agents, one slot, one sweep, no cancel | `QueueDrains`, `RunningEnds` |
| `subagents_cancelled` | two agents, one slot, one cancel | violation of `CancelledStaysCancelled` |
| `upgrade_ab` | a good and a bad release, three applies, two faults, one power cut, threshold 2 | `TypeOK`, `WindowIsBootable`, `CurrentIsKept`, `ComesBack`, `WindowCloses` |
| `upgrade_embedded` | first update of a system without seeded slots | violation of `AutomaticRollback` |
| `cron_lost_timer` | two jobs, no request | violation of `NoLostTimer` |
| `services` | Cron and seven services in turn | `ServicesTypeOK`, `CronInStep`, `SettledAgrees`, `TableSettles`, `NothingMissed`, `StopsInOrder`, `ClientsAccounted`, `BoxesMatch`, `FilesPaired` |
| `features` | twenty-two features in turn | `FeaturesTypeOK` and the nine invariants below |
| `guest_cron` | one extension, no fault | violation of `OneJobPerName` |

The invariants of `features` say of each feature in turn what its module's property says:

| Invariant | Features | Module property |
|---|---|---|
| `TranscriptWhole` | session | `TranscriptWhole`: turns are whole in the log, prompts show the window before them but for results |
| `FlowAgrees` | flow | `FlowAgrees`: events say what was done; row, key and events come and go together |
| `NoticeAccounted` | notify | `NoticeAccounted`: each planned delivery once, recorded rightly; edits survive |
| `BreakerHolds` | llm | `BreakerHolds`: providers rest as long as they should; failover tries every candidate |
| `ScreensAgree` | chat, page, providers | `ViewAgrees`, `PageAgrees`, `ProvidersKept`: what is shown was said, what is saved was meant |
| `AccountsAgree` | accounts | `AccountsAgree`: an administrator stays; sessions and keys belong to credentials of today |
| `EnginesAgree` | browser, coding, recognition, downloads | `OneBrowser`, `OneProcess`, `ReadingsAgree`, `ModelsWhole` |
| `GuestsServed` | guest, dispatch, calls, catalog | `GuestKept`, `DispatchKept`, `CallsKept`, `CatalogAgrees` |
| `StoresKept` | packages, skills, memory, MCP file, logs, workspaces, backup | `LibraryAgrees`, `MemoryKept`, `McpConfigKept`, `LinesKept`, `WorkspaceKept`, `BackupWhole` |

Every property of a passing run has a mutant in `PROJECT.json`: a change of one mapped definition (a dropped guard, a swapped order, a missing
reset) under which TLC finds the property violated. Operators marked *Slip* in the modules are these changed forms, and others with
which the parts of a joint invariant were tried out.


**Why these bounds.** The hazards are races of two or three activities over one row, slot or worker; a second
object is there where one must wait for another. *Tasks*: one thread and two jobs make the queue, the return of a thread
and its death meet; the second start is what rows left by a crash need. Pool tasks and the extension task share nothing but
the sweep, which takes rows one by one; they are asked for in behaviours of their own (`OneParty` and `CastSpec`), which only
costs their interleavings. *Subagents*: three agents on one slot give an
active, an older and a younger waiting one; depth 2 gives a parent that itself is cancelled. *Upgrade*: three
applies reach both slots and the first one again, so that an apply empties a slot that was current;
threshold 2 instead of 3 keeps one failure that does not yet roll back. *Cron*: periods 1 and 2 with
overlap skip and queue and both misfire policies; two requests, one restart. *ExtHost*: two extensions, one requiring the other, and
three workers let the crash during a restart happen. *SseHub*: a ring of one and one buffer for two
topics reach overflow, eviction and a cursor ahead. *Sandbox, Files, McpRegistry, ExtRoutes*: two (three) overlapping
requests over one object, since objects share nothing but counters (the quota and the limits are reached).
*Features*: two overlapping requests, runs, jobs or readers over one object (endpoint, settings array, session, temporary name, scope), which
is what each of the races needs; limits are 1 to 3 so that they are reached (threshold 1 and a cap of 3 for the breaker, a window of
three messages, pages of one message, a table of one or two memories, batches of two lines, a chain of two hops); one fault of the surroundings
where the feature has any, since after it the code either goes on or ends.


**Fairness.** *Tasks*: weak fairness of promise callbacks, timers and statements while the process is up
(Node's event loop runs what is ready); none for clients, crashes or messages of extensions. `tasks_live` adds that threads
answer: a hung extraction is never timed out by the code, as its row stays queued (manager.ts:252). The extension task
ends without any answer, by the sweep. *Subagents*: chains, section, pump, timers and time; none for the runner, which may hang. *Upgrade*:
boot, settlement, restart and rollback steps, that a broken kernel is noticed, and that a container is started
again (`restart: unless-stopped`, docker-compose.yml:40); none for apply, which may hang in its download.
`ComesBack` is conditional on two sequences that do end without a bootable slot or with a wrong version, which its
comment names. `QueueDrains` is checked without cancels: with one it fails (hazard at agents/manager.ts:453).


`CHECK_DEADLOCK FALSE` is set throughout: once the bounded requests, failures and restarts are used up each of these
systems may rest.

## 4. Proofs

| Module | Theorem | Establishes |
|---|---|---|
| `TasksProofs` | `TypeCorrect` | `Spec => []TypeOK` for any tasks, threads, bounds |
| | `OneSettlerHolds` | `Spec => []OneSettler`: who decides an outcome is the only one to record and announce it |
| | `LifecycleImplemented` | `Spec => ImplementsLifecycle`: the refinement of `TaskLifecycle` that the runs check |
| | `PoolInvHolds` | `Spec => []PoolInv`: the inductive invariant of the pool and of what it owes the manager |
| | `PoolConserves` | `Spec => []PoolWorkConserving`: a task the pool owns is in one place; no thread idles while a job waits |
| | `NoOrphanHolds` | `Spec => []NoOrphan`: a live pool task without outcome has somebody left to finish it |
| `SubagentsProofs` | `TypeCorrect` | `Spec => []TypeOK` |
| | `AccountHolds` | `Spec => []SlotsAccounted` |
| | `CapacityHolds` | `Spec => []WithinCapacity` |
| | `TreeHolds` | `Spec => []TreeBounds`: no parent has too many children, no agent is too deep |
| | `OutcomeStands` | `Spec => OutcomeIsFinal` (an action property): the first outcome of an agent that ran stands |
| | `PumpInOrder` | `Spec => PumpIsFifo` (an action property): no younger agent starts before an older one that waits |
| `UpgradeProofs` | `TypeCorrect` | `Spec => []TypeOK`, with `current # previous` |
| | `WindowBootable` | `Spec => []WindowIsBootable` |
| | `CurrentKept` | `Spec => CurrentIsKept` |
| `ServicesProofs` | `McpAccounted` | `McpSpec => []ClientsAccounted`: no client is left behind |
| | `RoutesTyped` | `RoutesSpec => []RoutesTypeOK`, with the bound of the gate |
| | `RoutesSettle` | `RoutesSpec => []TableSettles`: the table asked for last is served |
| | `HubTells` | `HubSpec => []NothingMissed`: a client has seen everything or is told of a gap |
| | `FilesTyped` | `FilesSpec => [](FilesTypeOK /\ FilesCarry)` |
| | `FilesStayPaired` | `FilesSpec => []FilesPaired`: rows and files stay paired, quotas are exceeded by overlap only |
| | `BoxesAgree` | `SandboxSpec => []BoxesMatch`: a workspace at rest says what its container does; no container is forgotten but those in `strays` |
| `KernelProofs` | `HostTyped` | `HostSpec => []HostTypeOK`, with the locks: no call waits on a worker that has ended |
| | `HostAgrees` | `HostSpec => []SettledAgrees`: no half alive extension once all has settled |
| | `StopsAsListed` | `LifeSpec => []StopsInOrder`: nothing outlives the stop, and it goes in the order of the list |
| `CronProofs` | `CronTyped` | `CronSpec => []CronTypeOK` |
| | `CronFiresOnce` | `CronSpec => [](MemoryMirrorsStore /\ FiresOnce)`, whatever the periods |
| | `CronStaysInStep` | `CronSpec => []CronInStep` if no period is longer than `MaxDelay` (`WithinReach`) |
| `FeaturesProofs` | `TranscriptKept` | `SessionSpec => [](SessionTypeOK /\ TranscriptWhole)`: a turn is one whole piece of the log; the prompt is the window before it without the results of tools |
| | `FlowsAgree` | `FlowSpec => [](FlowTypeOK /\ FlowAgrees)`: an event says what was done with it |
| | `NoticesAccounted` | `NotifySpec => [](NotifyTypeOK /\ NoticeAccounted)`: each planned delivery once, recorded rightly |
| | `BreakersHold` | `LlmSpec => [](LlmTypeOK /\ BreakerHolds)`: providers rest as long as they should |
| | `AccountsStayInOrder` | `AccountsSpec => [](AccountsTypeOK /\ AccountsAgree)`: an administrator stays, nothing outlives its credentials |

*Assumptions.* The named `ASSUME`s of the modules, and `WithinReach` in `CronStaysInStep`: constants have their types, `NoTask` is no task, `Main` is
no agent, `"none"`, `"torn"`, `"null"` are no releases, providers have names of their own, `NoTurn` is no turn, the breaker's limits are in
order (`BaseCooldown <= MaxCooldown`), bounds are natural numbers. TLC evaluates them in every
run whose module extends the one that states them.

*Tasks.* `ImplementsLifecycle` is not inductive: a step that writes a payload maps to a step of `TaskLifecycle`
only if nobody else has written or announced meanwhile. `OneSettler` is the strengthening: between its conditional UPDATE and
its end a callback (or the sweep) is alone with the row, which is in the status that it chose, with the payload that it is about
to write still missing, and no row without an outcome has a payload or an event. With `TypeOK` it is inductive, and
every action maps to a step or a stutter of `TaskLifecycle` under it. For the pool, `PoolInv` follows a task through the queue, a
thread, the call that answers and the chain that handles it: it is in exactly one of these, and a task that is in none has an outcome
or a timer. Neither `PoolWorkConserving` nor `NoOrphan` says where a job is between two of its places.

*Subagents.* `SlotsAccounted` ties `registered` and live runners to the running rows at every await; it needs
to know which step of which chain has seen what. `WithinCapacity` needs in addition that the number of slots the section in progress has counted
is at most what is free now: other activities only free slots, and sections exclude each other, so that counts that are
awaits old err on the safe side. Cardinalities are handled with the library's theorems on finite sets. `TreeBounds` is about a recursive
function, the way up to the root: its unfolding is proved once, and then that parents are older than children, so that no step changes the way up of
an agent that is there. What a section knows of its parent (present, deep enough, one child fewer than counted) carries the limits over its awaits.
`PumpIsFifo` needs that the list the pump works through holds the agents that waited at its read, in their order, and that whoever came since is younger.

*Upgrade.* The inductive invariant is `TypeOK /\ ReadersOK /\ CommitsOK /\ WindowIsBootable`. `ReadersOK` says of
the old reads of kernel and bootstrap that they never name one slot twice and that the commit being written is not of the slot it
read as current; `CommitsOK` that no apply goes on beside an open window, that from the preflight on the target slot holds the
complete release, and that until then it is not the slot that boots next unless a rollback has just changed that. `CurrentKept` follows from the same invariant.

*McpRegistry.* `McpInv`: no client has two owners, a request at rest holds none, and as long as nothing went past the configuration a
connection means that the server is enabled or that a disconnect is about to write that it is not.
*ExtRoutes.* At most one drain waits for an extension (`OneDrain`), and the gate's counter is the number of requests inside, a cardinality.
*SseHub.* `RingInv`: the ring of a topic holds its last numbers without a gap, so that what a ring still has is decided by its first element.
`HubKnown`: a cursor is of this life of the process, and then no newer than the topic, or it is told of as a gap.
*Files.* Bytes are sums over sets: what is stored plus what overlapping uploads have claimed stays within the quota plus one upload for each
other request. `CountingTheorems` proves what such sums do when one element changes, from an induction over finite sets.
*ExtHost.* `HostInv` says how far each extension is. Whoever has it (the holder of its lock, or the crash handler, which is alone with the pool while it
works) has written, of row, memory and routes, what its progress tells; what nobody has agrees; and without a worker, outside the handler, nothing is on.
As an operation touches its own extension only, one lemma (`OperationStep`) serves all steps of operations; the
others are those of the handler, of requests and of crashes. It holds as long as no operation has met a crash or its handler and the manager is not being
stopped (`Calm`), the cases that the property excepts; the hazard list names what goes wrong in them.
*Sandbox.* `SandboxInv` says who may refer to a container: its workspace by record and by handle, the one request that sets it up, and the requests and
the sweep that were begun on the workspace as it is; objects are numbered and none is numbered again, so that what comes back late is written to
the right object or to none. A container that nobody refers to any more was removed, or given up in one of the steps that add to `strays`: a restart, a start that
fails, a start for a workspace that is gone or whose handle is replaced, a removal of the workspace while records differ, a forced removal that fails.
*Lifecycle.* The list of the steps of boot depends on the providers, so a lemma of its own (`BootPlan`) says which step is where. `LifeInv` holds until
boot gives up beside a shutdown, the case that the property excepts: one stops at a time; where it is in the list says what is gone; what lives is held, or
is a provider that has booted and is not stopped yet; what is started has been made before.

*Cron.* `CronInv` says what the store calls in the queue are about to set. As one connection serves them in order, memory differs from the
store only where a record is about to be read back (`Mirror`). Until a tick has waited, a touch in the queue is that of the one fire
of its job, for a round later than all that were fired, and whatever is behind it sets a time later still (`Fits`, `InOrder`); rows and memory
plan later than the last round fired (`Ahead`) and never more than one period from now (`Timely`), which carries `FiresOnce` over crashes
and restarts. `Wakes` says that the timer stands for the nearest run unless something is under way that will set it; it is preserved only if the
nearest run is within the reach of `setTimeout`, which is what `WithinReach` asks of the periods. For a yearly job that is the only one it fails,
and the code then does lose the timer (scheduler.ts:314): the delay counts as none, the tick finds nothing due, and nothing sets the timer again.
*Session.* At most one turn is inside, the one that `generating` names (`HeldByOne`), and the log ends with what this one has written so far; of every
other turn the log holds a piece that has come to its end, or nothing (`Pieces`). Where the pieces are is a question of positions: storing
a message moves none of them, and the turn at the end alone gets longer. That each call has its result (`Paired`) is carried by `InOrder`, over the log together with what the loop has yet to write:
results follow their calls, except as many as are still to be run; `RoundsLeft` says that these are none once the loop closes. A deletion ends all this for the turn that is inside, which is then in `torn` (`GoneForGood`).
*Flow.* An event is in the hands of one request, or has the status that was decided (`EventsHandled`); a request about to write a patch has a patch that the row
would pass as it is, unless updates crossed (`PatchChecked`); a deletion that met nobody is alone, and so finds everything it is to take (`DeletedAlone`).
*Notify.* Deliveries are the positions of a queue: a channel waits at one of them or has its record, and only the first may have received anything without a record.
An edit about to write holds the settings as they are, unless it is blind or clashed.
*LlmGateway.* Failures since the last success are the streak, their last time bounds the cooldown from both sides, and what a request tries next is among
the places it chose at its beginning, with none of those that could be tried left out before.
*Accounts.* Beside the property itself the invariant says what is gone already at each step of a deletion or a recovery (`WipedSoFar`), that whoever a request is about to change or to
delete has or had a row (`TargetsKnown`), and that a request that makes administrators fewer leaves another one (`OneIsLeft`) unless two overlapped (`headless`).

*What the proofs changed in the models.* `TreeBounds` was false for a depth of 0: the depth is checked for callers that are agents only
(agents/manager.ts:276), so that the main agent may always spawn; the property now says so. The cut of the hub's ring was written for a ring that never has to give up
more than one number; it now follows the code's start for every size. The quota of the file service is stated against the other uploads, which takes at least
one request. Providers that carry the name of a field of the kernel are excluded, as their names stand for objects. `Cron`, `Session` and `LlmGateway` speak of sets of due
jobs, of positions in the log and of places in the configuration where they had sequences made of other sequences: the same states, in a form that can be reasoned about.

*Induction and recursive functions.* The library's induction theorems take operators, which the provers cannot instantiate. `LeastNat`, `NatInductionOnSet` and
`SetInduction` of `CountingTheorems` state induction about sets instead, from the library's well-founded minima, and `SumUnfolds` derives from them
what a sum over a set is. They can be cited, and the proofs above use them.

*Only model-checked.* All liveness (fairness and ENABLED are outside the prover). `ScreensAgree`, `EnginesAgree`, `GuestsServed` and `StoresKept`: the features
behind them have no proofs yet. `ServicesTypeOK` and `FeaturesTypeOK` as a whole, since the composed instances take each part in its turn; of their parts the types of `Cron`,
`ExtHost`, `ExtRoutes`, `Files`, `Session`, `Flow`, `Notify`, `LlmGateway` and `Accounts` are proved above.

## 5. Disagreements between code and documents

Each is shown by a run whose property states the quoted text; `PROJECT.json` quotes it in full.

1. **A cancel may be lost** (`tasks_cancel_race`): `cancel` ignores that its conditional UPDATE missed because the first progress
   callback moved the row on; it answers success, drops later callbacks, and the sweep fails the task much later.
2. **A cancelled agent is started** (`subagents_cancelled`): the pump's second read does not prevent what its comment says it prevents,
   since the update after it is unconditional.
3. **No rollback of the first update of an image** (`upgrade_embedded`): the rollback target is an empty slot; the fallback
   order boots the broken release again, for ever.
4. **The cron timer is lost** (`cron_lost_timer`): a fire that ends while the tick puts its job off arms the timer for the old
   run; the tick it triggers finds nothing due and arms nothing.
5. **A cron job more at every start** (`guest_cron`): scheduling a job of an extension looks for none of the same name, and nothing
   takes back what `setup` has scheduled; each enabling, start or restart of the pool adds one row, and the job fires once for each.

Met while modelling, and not shown by a run of their own (the models follow the code):

- A reload that fails after a crash writes `enabled = 0` also for the pool of builtin extensions, where extensions/manager.ts:27 says "永不自动禁用" (never disabled automatically).
- A skill of a plugin whose id has an underscore passes the check of plugins (plugins/types.ts:42) and fails that of skills (skills/types.ts:95):
  the refresh throws for all plugins, where plugins/registry.ts:110 promises to skip the bad one. The mapping of `:` to `--` in the names
  of servers that plugins contribute (providers/core-services.ts, "可逆、无碰撞") is not injective.
- mcp/config-store.ts:8-9 says that races of reads and writes between calls are avoided by the single thread of Node ("读写竞态由 Node 单线程事件循环天然规避跨调用交错");
  two changes of the list that overlap at their awaits write one temporary file (`McpConfig`, `crossed`; hazard at config-store.ts:201).
- agents/types.ts:125 says a subagent works in the workspace of its session of origin; `mcp/system-tools.ts:1917` never passes one.
- mcp/system-tools.ts:913 describes `workspace_delete` as idempotent; the service refuses what is not there.
- `src/src/api/llm.ts:436-444` drops `maxRetries` of a provider that comes with a key.
- The console's page of notifications saves targets that are not texts as `null` (`Notifications.tsx:314`).
- Sessions can be put below each other deeper than the 16 steps that workspace/service.ts follows (line 199), and then have no workspace.

## 6. Plan

Done: the models of 1.1 with the proofs of section 4.

Next, proofs, in this order: Backup `BackupWhole`; McpConfig `McpConfigKept`; Workspace `WorkspaceKept`; Memory `MemoryKept`; Calls `CallsKept`. None of these modules
has RECURSIVE operators, so that proofs can be written beside them; what they need first is what the five features with proofs got: a named assumption
on the constants, and sets or positions in place of sequences built from sequences.

Next, models: Upgrade extended by `check()`, backup and history; an agent session as the specification that Subagents' `runner` assumes;
sessions of origin once something passes them; the bridge of chat channels.


## 7. Reading and running

Start with `TaskLifecycle`, then `Tasks` and `TasksProofs`; `Upgrade` is the shortest complete module with a proof. In this directory:

    tlc -workers 2 -config MCTasks_pool.cfg MCTasks
    tlapm TasksProofs.tla

`Flow`, `McpConfig` and `Backup` are short examples of the features. `MCFeatures` and `MCServices` are read last. The longest run is
`features` (about 1.5 million distinct states, three minutes with two workers), and the longest proof
`FeaturesProofs` (some eight minutes with four threads).
