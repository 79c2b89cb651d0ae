------------------------------ MODULE ExtHost -------------------------------
(***************************************************************************)
(* One pool of the ExtensionManager (src/kernel/extensions/manager.ts): its *)
(* worker thread, the bridge to it, the extensions that are active on it,   *)
(* and the restart after a crash.  The two pools share nothing but the      *)
(* route table, of which each only touches its own entries.  One action is  *)
(* one stretch of code between two awaits (a call to the worker, a          *)
(* statement of the database, the backoff).  Init is a pool that start()    *)
(* has brought up.                                                          *)
(***************************************************************************)
EXTENDS Naturals, Sequences

CONSTANTS
    Exts,          \* ids of the extensions of the pool
    Requires,      \* Requires[e]: the hard dependencies of e
    PoolKind,      \* "builtin" or "community"
    CrashLoopMax,  \* crashes in the window above which a community pool trips
    MaxSpawns,     \* bound: workers spawned
    MaxAdmin       \* bound: requests of administrators

ASSUME RequiresAssumption == Requires \in [Exts -> SUBSET Exts]
ASSUME PoolAssumption == PoolKind \in {"builtin", "community"}
ASSUME HostBounds == CrashLoopMax \in Nat /\ MaxSpawns \in Nat \ {0} /\ MaxAdmin \in Nat

Restart == "restart"         \* the crash handler, as an actor
Actors  == Exts \union {Restart}
ASSUME RestartAssumption == Restart \notin Exts

VARIABLES
    (* worker threads and bridges, numbered in the order of their spawns *)
    bridge,      \* rt.bridge, 0 for null
    dead,        \* rt.bridgeDead
    spawned,     \* rt.workerSpawnCount
    running,     \* the workers whose thread runs
    loaded,      \* loaded[w]: the extensions in the registry of worker w
    loading,     \* calls of host.load a worker is executing
    (* what the manager committed *)
    row,         \* row[e]: enabled, in the table and in #rowCache
    activeOn,    \* activeOn[e]: the bridge e was activated on, 0 when not active
    routes,      \* the extensions with entries in #routes
    (* the crash handler *)
    tripped, crashes, exitQueued,
    restart,     \* its progress: pc, the ids to enable again, the ids to tear down
    (* operations *)
    lock,        \* lock[e]: the operations of e under or waiting for its lock
    job,         \* job[a]: progress of the activation or removal actor a executes
    respawn,     \* the extensions whose enable() awaits the stop of a stale bridge
    stopping,
    (* observations and bounds *)
    disturbed,   \* an operation has met a crash, its handler or another respawn
    admin

threads  == <<bridge, dead, spawned, running, loaded, loading>>
wiring   == <<row, activeOn, routes>>
healing  == <<tripped, crashes, exitQueued, restart>>
hostVars == <<threads, wiring, healing, lock, job, respawn, stopping, disturbed, admin>>

NoJob     == [pc |-> "idle", ext |-> Restart, on |-> 0, before |-> {}, reload |-> FALSE]
NoRestart == [pc |-> "idle", todo |-> {}, pool |-> {}, tear |-> {}]

On        == {e \in Exts : row[e]}
IsActive(e) == activeOn[e] # 0
ActiveExts  == {e \in Exts : IsActive(e)}

HostInit ==
    /\ bridge = 1 /\ dead = FALSE /\ spawned = 1 /\ running = {1}
    /\ row \in [Exts -> BOOLEAN]
    /\ \A e \in On : Requires[e] \subseteq On
    /\ activeOn = [e \in Exts |-> IF row[e] THEN 1 ELSE 0]
    /\ loaded = [w \in 1..MaxSpawns |-> IF w = 1 THEN On ELSE {}]
    /\ loading = {}
    /\ routes = On
    /\ tripped = FALSE /\ crashes = 0 /\ exitQueued = FALSE /\ restart = NoRestart
    /\ lock = [e \in Exts |-> <<>>]
    /\ job = [a \in Actors |-> NoJob]
    /\ respawn = {}
    /\ stopping = FALSE /\ disturbed = FALSE /\ admin = 0

-----------------------------------------------------------------------------
(* Workers and bridges *)

\* #spawnBridge
SpawnBridge ==
    /\ spawned < MaxSpawns
    /\ spawned' = spawned + 1
    /\ bridge' = spawned'
    /\ dead' = FALSE
    /\ running' = running \union {spawned'}
    /\ UNCHANGED <<loaded, loading>>

\* Worker w is gone: its calls are never answered.
Gone(w) ==
    /\ running' = running \ {w}
    /\ loading' = {c \in loading : c.on # w}
    /\ loaded' = [loaded EXCEPT ![w] = {}]

\* bridge.stop() of the current bridge, after rt.bridge = null: the exit of the worker is not heard.
StopBridge ==
    /\ bridge' = 0
    /\ UNCHANGED <<dead, spawned>>
    /\ IF bridge = 0 THEN UNCHANGED <<running, loaded, loading>> ELSE Gone(bridge)

-----------------------------------------------------------------------------
(* Activation and removal by actor a: the holder of the lock of an          *)
(* extension, or the crash handler, which takes no lock                     *)

Set(a, j) == job' = [job EXCEPT ![a] = j]

\* The operation of actor a is over; the next one gets the lock.
Finish(a) ==
    /\ Set(a, NoJob)
    /\ lock' = IF a \in Exts THEN [lock EXCEPT ![a] = Tail(@)] ELSE lock

\* #missingHardDeps.
Missing(e) == {d \in Requires[e] : ~IsActive(d)}

\* #enableLocked up to the call of host.load, or to the record of a refusal.
EnableLocked(a, e) ==
    IF bridge = 0 \/ IsActive(e) THEN Finish(a) /\ UNCHANGED loading
    ELSE IF Missing(e) # {} THEN
        /\ Set(a, [NoJob EXCEPT !.pc = "fail", !.ext = e])
        /\ UNCHANGED <<loading, lock>>
    ELSE
        /\ Set(a, [NoJob EXCEPT !.pc = "load", !.ext = e, !.on = bridge])
        /\ loading' = IF bridge \in running
                      THEN loading \union {[on |-> bridge, ext |-> e, by |-> a, fresh |-> e \notin loaded[bridge]]}
                      ELSE loading
        /\ UNCHANGED lock

\* handleLoadExt ends; the kernel goes on with validateContributions and
\* #assertContributionPermissions, unless its call has timed out.
WorkerLoads(c, accepted) ==
    /\ c.fresh
    /\ loading' = loading \ {c}
    /\ loaded' = [loaded EXCEPT ![c.on] = @ \union {c.ext}]
    /\ IF job[c.by].pc = "load" /\ job[c.by].ext = c.ext /\ job[c.by].on = c.on
       THEN Set(c.by, [job[c.by] EXCEPT !.pc = IF accepted THEN "commit" ELSE "fail", !.before = routes])
       ELSE UNCHANGED job
    /\ UNCHANGED <<bridge, dead, spawned, running, wiring, healing, lock, respawn, stopping, disturbed, admin>>

\* handleLoadExt fails, or finds the extension loaded.
WorkerRefuses(c) ==
    /\ loading' = loading \ {c}
    /\ IF job[c.by].pc = "load" /\ job[c.by].ext = c.ext /\ job[c.by].on = c.on
       THEN Set(c.by, [job[c.by] EXCEPT !.pc = "fail"])
       ELSE UNCHANGED job
    /\ UNCHANGED <<bridge, dead, spawned, running, loaded, wiring, healing, lock, respawn, stopping, disturbed, admin>>

\* callToWorker times out, or the bridge is stopped; the worker may go on loading.
LoadFails(a) ==
    /\ job[a].pc = "load"
    /\ Set(a, [job[a] EXCEPT !.pc = "fail"])
    /\ UNCHANGED <<threads, wiring, healing, lock, respawn, stopping, disturbed, admin>>

\* The cron jobs are booked; the routes are added with the one that ends last.
AddRoutes(a) ==
    /\ job[a].pc = "commit"
    /\ routes' = routes \union {job[a].ext}
    /\ Set(a, [job[a] EXCEPT !.pc = "row"])
    /\ UNCHANGED <<threads, row, activeOn, healing, lock, respawn, stopping, disturbed, admin>>

\* The row is written: the extension is active.
Activated(a) ==
    /\ job[a].pc = "row"
    /\ row' = [row EXCEPT ![job[a].ext] = TRUE]
    /\ activeOn' = [activeOn EXCEPT ![job[a].ext] = job[a].on]
    /\ Finish(a)
    /\ UNCHANGED <<threads, routes, healing, respawn, stopping, disturbed, admin>>

\* A step of the commit throws: the route table of before is put back.
CommitFails(a) ==
    /\ job[a].pc \in {"commit", "row"}
    /\ routes' = job[a].before
    /\ disturbed' = (disturbed \/ routes \ {job[a].ext} # job[a].before)
    /\ Set(a, [job[a] EXCEPT !.pc = "fail"])
    /\ UNCHANGED <<threads, row, activeOn, healing, lock, respawn, stopping, admin>>

\* #recordFailure: enabled = 0.
RecordFailure(a) ==
    /\ job[a].pc = "fail"
    /\ row' = [row EXCEPT ![job[a].ext] = FALSE]
    /\ Finish(a)
    /\ UNCHANGED <<threads, activeOn, routes, healing, respawn, stopping, disturbed, admin>>

\* #disableLocked up to the call of host.unload.
DisableLocked(e, reload) ==
    LET next == IF IsActive(e) /\ bridge # 0 THEN "unload" ELSE "off"
    IN  /\ activeOn' = [activeOn EXCEPT ![e] = 0]
        /\ routes' = routes \ {e}
        /\ Set(e, [NoJob EXCEPT !.pc = next, !.ext = e, !.on = bridge, !.reload = reload])

\* host.unload is answered, refused or timed out: the worker has executed it if it still can.
Unloaded(e) ==
    /\ job[e].pc = "unload"
    /\ loaded' = [loaded EXCEPT ![job[e].on] = @ \ {e}]
    /\ Set(e, [job[e] EXCEPT !.pc = "off"])
    /\ UNCHANGED <<bridge, dead, spawned, running, loading, wiring, healing, lock, respawn, stopping, disturbed, admin>>

\* The row says enabled = 0; a reload goes on with #enableLocked.
Disabled(e) ==
    /\ job[e].pc = "off"
    /\ row' = [row EXCEPT ![e] = FALSE]
    /\ IF job[e].reload THEN EnableLocked(e, e) ELSE Finish(e) /\ UNCHANGED loading
    /\ UNCHANGED <<bridge, dead, spawned, running, loaded, activeOn, routes, healing, respawn, stopping, disturbed, admin>>

\* The head of the chain of #withLock starts.
LockAcquired(e) ==
    /\ lock[e] # <<>> /\ job[e].pc = "idle"
    /\ \/ /\ Head(lock[e]) = "enable"
          /\ EnableLocked(e, e)
          /\ UNCHANGED <<activeOn, routes>>
       \/ /\ \/ Head(lock[e]) = "disable"
             \/ Head(lock[e]) = "reload" /\ row[e]
          /\ DisableLocked(e, Head(lock[e]) = "reload")
          /\ UNCHANGED <<loading, lock>>
       \/ /\ Head(lock[e]) = "reload" /\ ~row[e]
          /\ Finish(e)
          /\ UNCHANGED <<loading, activeOn, routes>>
    /\ UNCHANGED <<bridge, dead, spawned, running, loaded, row, healing, respawn, stopping, disturbed, admin>>

-----------------------------------------------------------------------------
(* Requests *)

Busy == respawn # {} \/ \E e \in Exts : lock[e] # <<>>

NeedsBridge == tripped \/ (~stopping /\ (bridge = 0 \/ dead))

Request ==
    /\ admin < MaxAdmin
    /\ admin' = admin + 1
    /\ disturbed' = (disturbed \/ restart.pc # "idle" \/ respawn # {} \/ (NeedsBridge /\ Busy))

\* enable: a tripped or dead pool gets a new worker first.
Enable(e) ==
    /\ Request
    /\ IF NeedsBridge
       THEN /\ StopBridge
            /\ respawn' = respawn \union {e}
            /\ crashes' = IF tripped THEN 0 ELSE crashes
            /\ UNCHANGED lock
       ELSE /\ lock' = [lock EXCEPT ![e] = Append(@, "enable")]
            /\ UNCHANGED <<threads, respawn, crashes>>
    /\ tripped' = FALSE
    /\ UNCHANGED <<wiring, exitQueued, restart, job, stopping>>

Respawned(e) ==
    /\ e \in respawn
    /\ respawn' = respawn \ {e}
    /\ SpawnBridge
    /\ lock' = [lock EXCEPT ![e] = Append(@, "enable")]
    /\ UNCHANGED <<wiring, healing, job, stopping, disturbed, admin>>

\* disable, which builtin extensions refuse, and reload.
Ask(e, op) ==
    /\ Request
    /\ op = "disable" => PoolKind = "community"
    /\ lock' = [lock EXCEPT ![e] = Append(@, op)]
    /\ UNCHANGED <<threads, wiring, healing, job, respawn, stopping>>

\* stop(): no new calls, no healing.
StopManager ==
    /\ ~stopping
    /\ stopping' = TRUE
    /\ StopBridge
    /\ UNCHANGED <<wiring, healing, lock, job, respawn, disturbed, admin>>

-----------------------------------------------------------------------------
(* The crash handler *)

\* handleWorkerExit up to the first teardown: crashes that left the window are dropped.
BeginRestart ==
    /\ \E kept \in 0..crashes : crashes' = kept + 1
    /\ restart' = [pc |-> "tear", todo |-> On, pool |-> ActiveExts, tear |-> ActiveExts]

\* Slip: an exit during a restart is swallowed.
ExitSwallowed == restart.pc # "idle" /\ UNCHANGED <<crashes, exitQueued, restart>>

ExitDuringRestart == restart.pc # "idle" /\ exitQueued' = TRUE /\ UNCHANGED <<crashes, restart>>

\* A worker thread ends by itself, and its bridge reports it.
Crash(w) ==
    /\ w \in running
    /\ Gone(w)
    /\ dead' = TRUE
    /\ disturbed' = (disturbed \/ Busy)
    /\ \/ stopping /\ UNCHANGED <<crashes, exitQueued, restart>>
       \/ ~stopping /\ ExitDuringRestart
       \/ ~stopping /\ restart.pc = "idle" /\ BeginRestart /\ UNCHANGED exitQueued
    /\ UNCHANGED <<bridge, spawned, wiring, tripped, lock, job, respawn, stopping, admin>>

\* #deactivatePoolLocal, one extension.
TearDown(e) ==
    /\ restart.pc = "tear" /\ e \in restart.tear
    /\ activeOn' = [activeOn EXCEPT ![e] = 0]
    /\ routes' = routes \ {e}
    /\ restart' = [restart EXCEPT !.tear = @ \ {e}]
    /\ UNCHANGED <<threads, row, tripped, crashes, exitQueued, lock, job, respawn, stopping, disturbed, admin>>

TornDown ==
    /\ restart.pc = "tear" /\ restart.tear = {}
    /\ routes' = routes \ restart.pool
    /\ IF PoolKind = "community" /\ crashes > CrashLoopMax
       THEN tripped' = TRUE /\ restart' = [restart EXCEPT !.pc = "trip"]
       ELSE restart' = [restart EXCEPT !.pc = "backoff"] /\ UNCHANGED tripped
    /\ UNCHANGED <<threads, row, activeOn, crashes, exitQueued, lock, job, respawn, stopping, disturbed, admin>>

\* A tripped pool: the rows of its extensions are written one after the other.
TripRow(e) ==
    /\ restart.pc = "trip" /\ e \in restart.todo
    /\ row' = [row EXCEPT ![e] = FALSE]
    /\ restart' = [restart EXCEPT !.todo = @ \ {e}]
    /\ UNCHANGED <<threads, activeOn, routes, tripped, crashes, exitQueued, lock, job, respawn, stopping, disturbed, admin>>

\* The finally block: an exit heard meanwhile is handled now.
EndRestart ==
    IF exitQueued /\ ~stopping
    THEN exitQueued' = FALSE /\ BeginRestart
    ELSE restart' = NoRestart /\ UNCHANGED <<crashes, exitQueued>>

Backoff ==
    /\ restart.pc = "backoff"
    /\ IF stopping \/ tripped
       THEN EndRestart /\ UNCHANGED threads
       ELSE /\ SpawnBridge
            /\ restart' = [restart EXCEPT !.pc = "enable"]
            /\ UNCHANGED <<crashes, exitQueued>>
    /\ UNCHANGED <<wiring, tripped, lock, job, respawn, stopping, disturbed, admin>>

\* The next extension in the order of the dependencies.
EnableAgain(e) ==
    /\ restart.pc = "enable" /\ job[Restart].pc = "idle"
    /\ e \in restart.todo /\ Requires[e] \intersect restart.todo = {}
    /\ restart' = [restart EXCEPT !.todo = @ \ {e}]
    /\ EnableLocked(Restart, e)
    /\ UNCHANGED <<bridge, dead, spawned, running, loaded, wiring, tripped, crashes, exitQueued, respawn, stopping, disturbed, admin>>

Restarted ==
    /\ restart.pc \in {"trip", "enable"} /\ restart.todo = {} /\ job[Restart].pc = "idle"
    /\ EndRestart
    /\ UNCHANGED <<threads, wiring, tripped, lock, job, respawn, stopping, disturbed, admin>>

-----------------------------------------------------------------------------
JobStep(a) ==
    LoadFails(a) \/ AddRoutes(a) \/ Activated(a) \/ CommitFails(a) \/ RecordFailure(a)

WorkerStep ==
    \/ \E c \in loading : WorkerRefuses(c) \/ \E accepted \in BOOLEAN : WorkerLoads(c, accepted)
    \/ \E w \in running : Crash(w)

RestartStep ==
    \/ \E e \in Exts : TearDown(e) \/ TripRow(e) \/ EnableAgain(e)
    \/ TornDown \/ Backoff \/ Restarted

HostNext ==
    \/ \E e \in Exts : Enable(e) \/ Respawned(e) \/ LockAcquired(e) \/ Unloaded(e) \/ Disabled(e)
    \/ \E e \in Exts, op \in {"disable", "reload"} : Ask(e, op)
    \/ \E a \in Actors : JobStep(a)
    \/ WorkerStep \/ RestartStep \/ StopManager

HostSpec == HostInit /\ [][HostNext]_hostVars

-----------------------------------------------------------------------------
(* Properties *)

Workers == 1..MaxSpawns

\* Every variable keeps its type: no actor talks to a worker that was never spawned.
HostTypeOK ==
    /\ bridge \in 0..spawned /\ spawned \in Workers /\ running \subseteq 1..spawned
    /\ dead \in BOOLEAN
    /\ loaded \in [Workers -> SUBSET Exts]
    /\ loading \subseteq [on : running, ext : Exts, by : Actors, fresh : BOOLEAN]
    /\ row \in [Exts -> BOOLEAN] /\ activeOn \in [Exts -> 0..spawned] /\ routes \subseteq Exts
    /\ tripped \in BOOLEAN /\ exitQueued \in BOOLEAN /\ crashes \in Nat
    /\ restart \in [pc : {"idle", "tear", "trip", "backoff", "enable"},
                    todo : SUBSET Exts, pool : SUBSET Exts, tear : SUBSET Exts]
    /\ lock \in [Exts -> Seq({"enable", "disable", "reload"})]
    /\ job \in [Actors -> [pc : {"idle", "load", "commit", "row", "fail", "unload", "off"}, ext : Actors,
                           on : 0..spawned, before : SUBSET Exts, reload : BOOLEAN]]
    /\ respawn \subseteq Exts /\ stopping \in BOOLEAN /\ disturbed \in BOOLEAN /\ admin \in 0..MaxAdmin

Quiet == ~Busy /\ restart.pc = "idle" /\ ~stopping /\ \A a \in Actors : job[a].pc = "idle"

\* Once everything has settled, the table, the memory of the manager, the routes and the
\* worker agree on which extensions are active, through any number of crashes, failed
\* loads and crashes during a restart (manager.ts, "no half alive extension") -- as long as
\* no operation has met a crash or its handler, and no rollback an older route table.
SettledAgrees ==
    Quiet /\ ~disturbed =>
        /\ ActiveExts = On /\ routes = On
        /\ running \subseteq {bridge}
        /\ \A e \in On : activeOn[e] = bridge /\ bridge \in running /\ e \in loaded[bridge]

=============================================================================
