------------------------------- MODULE Tasks -------------------------------
(***************************************************************************)
(* The long-task subsystem: TaskManager, TaskWorkerPool and the tasks      *)
(* table (src/kernel/tasks).  The process is single threaded, but every    *)
(* database statement is awaited, so the steps of dispatch, cancel, sweep  *)
(* and of the pool's callbacks interleave.  One action is one database     *)
(* statement (a conditional UPDATE is atomic) or one synchronous stretch   *)
(* of code between two awaits.                                             *)
(***************************************************************************)
EXTENDS Naturals, Sequences

CONSTANTS
    Tasks,        \* task ids
    Workers,      \* slots of the thread pool
    Kind,         \* Kind[t]: which executor runs t
    NoTask,       \* not a task: an idle worker
    MaxStarts,    \* bound: times the manager is started
    Cancellable,  \* bound: the tasks some client cancels
    MaxExtCalls   \* bound: task.* messages an extension sends for one task

Kinds == {"echo", "file-extract", "external", "unknown"}

ASSUME KindAssumption == Kind \in [Tasks -> Kinds]
ASSUME NoTaskAssumption == NoTask \notin Tasks
ASSUME BoundsAssumption == Cancellable \subseteq Tasks /\ MaxStarts \in Nat /\ MaxExtCalls \in Nat

VARIABLES
    (* the tasks table; it survives a crash *)
    status,       \* status[t], "none" before the row is inserted
    payload,      \* payload[t]: "none", "result" or "error"
    overdue,      \* the rows whose startedAt + timeout has passed
    (* TaskManager *)
    mgr,          \* "stopped", "running", "terminating" or "draining"
    entry,        \* runningTasks: "none", "live" or "cancelled"
    chained,      \* the keys of #chains
    chain,        \* chain[t]: number of the latest promise chain of t
    arrived,      \* arrived[t]: number of the latest callback of t
    calls,        \* the pool callbacks that are queued or executing
    sweep,        \* the sweep in progress
    canceller,    \* canceller[t]: the cancel(t) in progress
    dispatcher,   \* dispatcher[t]: progress of dispatch for t
    (* TaskWorkerPool *)
    poolUp,       \* #started /\ ~#stopping
    alive,        \* #workers
    job,          \* #inflight: the task a worker executes, or NoTask
    reported,     \* the workers that sent the progress message of their job
    queue,        \* #queue, FIFO
    (* extension side *)
    external,     \* tasks an extension accepted and has not lost
    extCalls,     \* task.* messages sent so far, per task
    (* observations and bounds *)
    announced,    \* announced[t]: events emitted for t
    reply,        \* reply[t]: the status the last cancel(t) returned
    starts

table    == <<status, payload, overdue>>
chains   == <<chained, chain, arrived>>
manager  == <<mgr, entry, chains, calls>>
pool     == <<poolUp, alive, job, reported, queue>>
ext      == <<external, extCalls>>
vars == <<table, manager, sweep, canceller, dispatcher, pool, ext,
          announced, reply, starts>>

Terminal == {"done", "failed", "cancelled"}
Statuses == {"none", "queued", "running"} \union Terminal

NoSweep  == [pc |-> "idle", todo |-> {}, task |-> NoTask]
NoCancel == [pc |-> "idle", seen |-> "none"]

Init ==
    /\ status     = [t \in Tasks |-> "none"]
    /\ payload    = [t \in Tasks |-> "none"]
    /\ overdue    = {}
    /\ mgr        = "stopped"
    /\ entry      = [t \in Tasks |-> "none"]
    /\ chained    = {}
    /\ chain      = [t \in Tasks |-> 0]
    /\ arrived    = [t \in Tasks |-> 0]
    /\ calls      = {}
    /\ sweep      = NoSweep
    /\ canceller  = [t \in Tasks |-> NoCancel]
    /\ dispatcher = [t \in Tasks |-> "idle"]
    /\ poolUp     = FALSE
    /\ alive      = {}
    /\ job        = [w \in Workers |-> NoTask]
    /\ reported   = {}
    /\ queue      = <<>>
    /\ external   = {}
    /\ extCalls   = [t \in Tasks |-> 0]
    /\ announced  = [t \in Tasks |-> <<>>]
    /\ reply      = [t \in Tasks |-> "none"]
    /\ starts    = 0

-----------------------------------------------------------------------------
(* The table *)
\* Slip: an UPDATE without the status condition.
HitsAnyRow(t, from) == status[t] # "none"

\* store.transition: the conditional UPDATE, and whether it hit the row.
Hits(t, from) == status[t] \in from
Transition(t, from, to) ==
    status' = IF Hits(t, from) THEN [status EXCEPT ![t] = to] ELSE status

\* A running row outlives its timeout.
TimePasses(t) ==
    /\ status[t] = "running"
    /\ t \notin overdue
    /\ overdue' = overdue \union {t}
    /\ UNCHANGED <<status, payload, manager, sweep, canceller, dispatcher, pool,
                   ext, announced, reply, starts>>

-----------------------------------------------------------------------------
(* Callback chains: the callbacks of one chain execute one after the other, *)
(* in arrival order; deleting the #chains entry detaches the chain, and the *)
(* next callback starts another one that may overtake it.                   *)

FirstPc == [progress |-> "check", done |-> "check", failed |-> "get"]

NewCall(t, kind) ==
    [task |-> t, kind |-> kind, pc |-> FirstPc[kind], n |-> arrived[t] + 1, awaited |-> FALSE,
     chain |-> IF t \in chained THEN chain[t] ELSE chain[t] + 1]

\* onProgress, onDone and onFailed, for every task of S.
Enqueue(S, kind) ==
    /\ calls' = calls \union {NewCall(t, kind) : t \in S}
    /\ chained' = chained \union S
    /\ chain' = [t \in Tasks |-> IF t \in S \ chained THEN chain[t] + 1 ELSE chain[t]]
    /\ arrived' = [t \in Tasks |-> IF t \in S THEN arrived[t] + 1 ELSE arrived[t]]

PendingOf(t) == {c \in calls : c.task = t}

IsHead(c) == \A d \in calls : d.task = c.task /\ d.chain = c.chain => c.n <= d.n

Goto(c, pc) == calls' = (calls \ {c}) \union {[c EXCEPT !.pc = pc]}
Return(c)   == calls' = calls \ {c}

-----------------------------------------------------------------------------
(* TaskWorkerPool *)

Idle == {w \in alive : job[w] = NoTask}

\* run(): a builtin task starts on a free thread, or queues.
PoolRun(t) ==
    IF Kind[t] = "unknown" \/ ~poolUp
      THEN Enqueue({t}, "failed") /\ UNCHANGED pool
      ELSE /\ UNCHANGED <<poolUp, alive, reported, calls, chains>>
           /\ \/ \E w \in Idle : job' = [job EXCEPT ![w] = t] /\ UNCHANGED queue
              \/ Idle = {} /\ queue' = Append(queue, t) /\ UNCHANGED job
\* Slip: the next job starts but stays in the queue.
ReleaseAndCopy(w, threads) ==
    LET freed == [job EXCEPT ![w] = NoTask]
        free  == {v \in threads : freed[v] = NoTask}
    IN  /\ alive' = threads
        /\ reported' = reported \ {w}
        /\ \/ queue # <<>> /\ \E v \in free : job' = [freed EXCEPT ![v] = Head(queue)]
           \/ (queue = <<>> \/ free = {}) /\ job' = freed
        /\ UNCHANGED <<poolUp, queue>>

\* Slip: the thread is returned without looking at the queue.
ReleaseOnly(w, threads) ==
    /\ alive' = threads /\ reported' = reported \ {w}
    /\ job' = [job EXCEPT ![w] = NoTask]
    /\ UNCHANGED <<poolUp, queue>>

\* Thread w lets go of its job; #pump then gives a waiting job to a free
\* thread (at most one thread was returned, so at most one job moves).
ReleaseAndPump(w, threads) ==
    LET freed == [job EXCEPT ![w] = NoTask]
        free  == {v \in threads : freed[v] = NoTask}
    IN  /\ alive' = threads
        /\ reported' = reported \ {w}
        /\ \/ queue # <<>> /\ \E v \in free : job' = [freed EXCEPT ![v] = Head(queue)]
              /\ queue' = Tail(queue)
           \/ (queue = <<>> \/ free = {}) /\ job' = freed /\ UNCHANGED queue
        /\ UNCHANGED poolUp

\* The echo task reports progress once before it is done.
WorkerProgress(w) ==
    /\ w \in alive \ reported /\ job[w] # NoTask
    /\ Kind[job[w]] = "echo"
    /\ reported' = reported \union {w}
    /\ Enqueue({job[w]}, "progress")
    /\ UNCHANGED <<table, mgr, entry, sweep, canceller, dispatcher, poolUp, alive,
                   job, queue, ext, announced, reply, starts>>

WorkerDone(w) ==
    /\ w \in alive /\ job[w] # NoTask
    /\ Kind[job[w]] = "echo" => w \in reported
    /\ ReleaseAndPump(w, alive)
    /\ Enqueue({job[w]}, "done")
    /\ UNCHANGED <<table, mgr, entry, sweep, canceller, dispatcher, ext,
                   announced, reply, starts>>

\* Only the extraction engine answers with a failure.
WorkerFailed(w) ==
    /\ w \in alive /\ job[w] # NoTask
    /\ Kind[job[w]] = "file-extract"
    /\ ReleaseAndPump(w, alive)
    /\ Enqueue({job[w]}, "failed")
    /\ UNCHANGED <<table, mgr, entry, sweep, canceller, dispatcher, ext,
                   announced, reply, starts>>
\* Slip: the job of a dead thread is forgotten.
WorkerCrashSilent(w) ==
    /\ w \in alive
    /\ ReleaseAndPump(w, alive \ {w})
    /\ UNCHANGED <<table, manager, sweep, canceller, dispatcher, ext,
                   announced, reply, starts>>

\* A thread dies: it is not respawned, its job is judged failed.
WorkerCrash(w) ==
    /\ w \in alive
    /\ ReleaseAndPump(w, alive \ {w})
    /\ Enqueue({job[w]} \ {NoTask}, "failed")
    /\ UNCHANGED <<table, mgr, entry, sweep, canceller, dispatcher, ext,
                   announced, reply, starts>>

-----------------------------------------------------------------------------
(* Extension executors: bridge.callToWorker starts the task in the          *)
(* extension, which answers through the task.* topics whenever it likes.    *)

ExtMessage(t, kind) ==
    /\ t \in external
    /\ extCalls[t] < MaxExtCalls
    /\ extCalls' = [extCalls EXCEPT ![t] = @ + 1]
    /\ Enqueue({t}, kind)
    /\ UNCHANGED <<table, mgr, entry, sweep, canceller, dispatcher, pool, external,
                   announced, reply, starts>>

\* The extension's thread dies with the task; nobody tells the manager.
ExtLost(t) ==
    /\ t \in external
    /\ external' = external \ {t}
    /\ UNCHANGED <<table, manager, sweep, canceller, dispatcher, pool, extCalls,
                   announced, reply, starts>>

-----------------------------------------------------------------------------
(* TaskManager: dispatch *)

\* The started check precedes the awaited INSERT.
DispatchAdmit(t) ==
    /\ dispatcher[t] = "idle" /\ mgr # "stopped"
    /\ dispatcher' = [dispatcher EXCEPT ![t] = "admitted"]
    /\ UNCHANGED <<table, manager, sweep, canceller, pool, ext, announced, reply, starts>>

DispatchCreate(t) ==
    /\ dispatcher[t] = "admitted"
    /\ dispatcher' = [dispatcher EXCEPT ![t] = "created"]
    /\ status' = [status EXCEPT ![t] = "queued"]
    /\ UNCHANGED <<payload, overdue, manager, sweep, canceller, pool, ext,
                   announced, reply, starts>>

\* The entry is registered, then the executor is called.
DispatchRun(t) ==
    /\ dispatcher[t] = "created"
    /\ dispatcher' = [dispatcher EXCEPT ![t] = "over"]
    /\ entry' = [entry EXCEPT ![t] = "live"]
    /\ IF Kind[t] = "external"
         THEN /\ UNCHANGED pool
              /\ \/ external' = external \union {t} /\ UNCHANGED <<calls, chains>>
                 \/ Enqueue({t}, "failed") /\ UNCHANGED external
         ELSE PoolRun(t) /\ UNCHANGED external
    /\ UNCHANGED <<table, mgr, sweep, canceller, extCalls, announced, reply, starts>>

-----------------------------------------------------------------------------
(* TaskManager: cancel *)

CancelGet(t) ==
    /\ t \in Cancellable /\ canceller[t].pc = "idle"
    /\ status[t] \in {"queued", "running"}
    /\ canceller' = [canceller EXCEPT ![t] = [pc |-> "transition", seen |-> status[t]]]
    /\ UNCHANGED <<table, manager, sweep, dispatcher, pool, ext, announced, reply, starts>>

\* The outcome of the conditional update is not looked at.
CancelTransition(t) ==
    /\ canceller[t].pc = "transition"
    /\ Transition(t, {canceller[t].seen}, "cancelled")
    /\ canceller' = [canceller EXCEPT ![t].pc = "mark"]
    /\ UNCHANGED <<payload, overdue, manager, sweep, dispatcher, pool, ext,
                   announced, reply, starts>>

CancelMark(t) ==
    /\ canceller[t].pc = "mark"
    /\ entry' = [entry EXCEPT ![t] = IF @ = "none" THEN @ ELSE "cancelled"]
    /\ canceller' = [canceller EXCEPT ![t].pc = "return"]
    /\ UNCHANGED <<table, mgr, chains, calls, sweep, dispatcher, pool, ext,
                   announced, reply, starts>>

CancelReturn(t) ==
    /\ canceller[t].pc = "return"
    /\ reply' = [reply EXCEPT ![t] = status[t]]
    /\ canceller' = [canceller EXCEPT ![t] = NoCancel]
    /\ UNCHANGED <<table, manager, sweep, dispatcher, pool, ext, announced, starts>>

-----------------------------------------------------------------------------
(* TaskManager: the callbacks *)

HandlerFrame == UNCHANGED <<mgr, sweep, canceller, dispatcher, pool, ext, reply, starts>>
\* Slip: handleDone does not push a queued row to running first.
CallCheckDirect(c) ==
    /\ c.pc = "check"
    /\ IF entry[c.task] # "live" THEN Return(c)
       ELSE Goto(c, IF c.kind = "done" THEN "finish" ELSE "ensure")
    /\ UNCHANGED <<table, entry, chains, announced>> /\ HandlerFrame

\* handleProgress and handleDone drop a callback nobody waits for.
CallCheck(c) ==
    /\ c.pc = "check"
    /\ IF entry[c.task] = "live" THEN Goto(c, "ensure") ELSE Return(c)
    /\ UNCHANGED <<table, entry, chains, announced>> /\ HandlerFrame

\* handleFailed looks at the row, not at the entry.
CallGet(c) ==
    /\ c.pc = "get"
    /\ IF status[c.task] \in {"queued", "running"} THEN Goto(c, "ensure") ELSE Return(c)
    /\ UNCHANGED <<table, entry, chains, announced>> /\ HandlerFrame
\* Slip: a progress callback goes on to settle the task.
CallEnsureOn(c) ==
    /\ c.pc = "ensure"
    /\ Transition(c.task, {"queued"}, "running")
    /\ Goto(c, "finish")
    /\ UNCHANGED <<payload, overdue, entry, chains, announced>> /\ HandlerFrame

CallEnsureRunning(c) ==
    /\ c.pc = "ensure"
    /\ Transition(c.task, {"queued"}, "running")
    /\ IF c.kind = "progress" THEN Return(c) ELSE Goto(c, "finish")
    /\ UNCHANGED <<payload, overdue, entry, chains, announced>> /\ HandlerFrame

OutcomeOf == [done |-> "done", failed |-> "failed"]
PayloadOf == [done |-> "result", failed |-> "error"]
EventOf   == [done |-> "task.completed", failed |-> "task.failed"]
\* Slip: the outcome of the conditional update is not looked at.
CallFinishBlind(c) ==
    /\ c.pc = "finish"
    /\ Transition(c.task, {"running"}, OutcomeOf[c.kind])
    /\ Goto(c, "record")
    /\ UNCHANGED <<payload, overdue, entry, chains, announced>> /\ HandlerFrame

\* running -> done / failed; a lost race drops the callback.
CallFinish(c) ==
    /\ c.pc = "finish"
    /\ Transition(c.task, {"running"}, OutcomeOf[c.kind])
    /\ IF Hits(c.task, {"running"}) THEN Goto(c, "record") ELSE Return(c)
    /\ UNCHANGED <<payload, overdue, entry, chains, announced>> /\ HandlerFrame

CallRecord(c) ==
    /\ c.pc = "record"
    /\ payload' = [payload EXCEPT ![c.task] = PayloadOf[c.kind]]
    /\ Goto(c, "settle")
    /\ UNCHANGED <<status, overdue, entry, chains, announced>> /\ HandlerFrame

\* setResult throws on a result JSON cannot express; the chain logs it.
CallRecordThrows(c) ==
    /\ c.pc = "record" /\ c.kind = "done"
    /\ Return(c)
    /\ UNCHANGED <<table, entry, chains, announced>> /\ HandlerFrame

\* Forget the task, then emit: one synchronous stretch.
CallSettle(c) ==
    /\ c.pc = "settle"
    /\ Return(c)
    /\ entry' = [entry EXCEPT ![c.task] = "none"]
    /\ chained' = chained \ {c.task}
    /\ announced' = [announced EXCEPT ![c.task] = Append(@, EventOf[c.kind])]
    /\ UNCHANGED <<table, chain, arrived>> /\ HandlerFrame

CallStep(c) ==
    /\ IsHead(c)
    /\ \/ CallCheck(c) \/ CallGet(c) \/ CallEnsureRunning(c) \/ CallFinish(c)
       \/ CallRecord(c) \/ CallRecordThrows(c) \/ CallSettle(c)

-----------------------------------------------------------------------------
(* TaskManager: sweepTimeouts.  todo holds the overdue rows of the snapshot *)
(* that are left; task is the one being swept.                              *)

SweepFrame == UNCHANGED <<mgr, calls, canceller, dispatcher, pool, ext, reply, starts>>
\* Slip: only the tasks of this process are swept.
TimedOutKnown == {t \in overdue : status[t] = "running" /\ entry[t] # "none"}

TimedOut == {t \in overdue : status[t] = "running"}

SweepList ==
    /\ sweep.pc = "idle" /\ mgr = "running"
    /\ TimedOut # {}
    /\ sweep' = [sweep EXCEPT !.pc = "next", !.todo = TimedOut]
    /\ UNCHANGED <<table, entry, chains, announced>> /\ SweepFrame

SweepNext(t) ==
    /\ sweep.pc = "next" /\ t \in sweep.todo
    /\ sweep' = [pc |-> "transition", todo |-> sweep.todo \ {t}, task |-> t]
    /\ entry' = [entry EXCEPT ![t] = IF @ = "none" THEN @ ELSE "cancelled"]
    /\ UNCHANGED <<table, chains, announced>> /\ SweepFrame

SweepTransition ==
    /\ sweep.pc = "transition"
    /\ Transition(sweep.task, {"running"}, "failed")
    /\ sweep' = [sweep EXCEPT !.pc = IF Hits(sweep.task, {"running"}) THEN "record" ELSE "next"]
    /\ UNCHANGED <<payload, overdue, entry, chains, announced>> /\ SweepFrame

SweepRecord ==
    /\ sweep.pc = "record"
    /\ payload' = [payload EXCEPT ![sweep.task] = "error"]
    /\ sweep' = [sweep EXCEPT !.pc = "settle"]
    /\ UNCHANGED <<status, overdue, entry, chains, announced>> /\ SweepFrame

SweepSettle ==
    /\ sweep.pc = "settle"
    /\ sweep' = [sweep EXCEPT !.pc = "next"]
    /\ entry' = [entry EXCEPT ![sweep.task] = "none"]
    /\ chained' = chained \ {sweep.task}
    /\ announced' = [announced EXCEPT ![sweep.task] = Append(@, "task.failed")]
    /\ UNCHANGED <<table, chain, arrived>> /\ SweepFrame
\* Slip: the re-entrancy flag is never lowered.
SweepEndStuck ==
    /\ sweep.pc = "next" /\ sweep.todo = {}
    /\ sweep' = [NoSweep EXCEPT !.pc = "next"]
    /\ UNCHANGED <<table, entry, chains, announced>> /\ SweepFrame

SweepEnd ==
    /\ sweep.pc = "next" /\ sweep.todo = {}
    /\ sweep' = NoSweep
    /\ UNCHANGED <<table, entry, chains, announced>> /\ SweepFrame

SweepStep == \/ SweepList \/ SweepTransition \/ SweepRecord \/ SweepSettle \/ SweepEnd
             \/ \E t \in Tasks : SweepNext(t)

-----------------------------------------------------------------------------
(* Life cycle *)

Start ==
    /\ mgr = "stopped" /\ starts < MaxStarts
    /\ starts' = starts + 1
    /\ mgr' = "running" /\ poolUp' = TRUE /\ alive' = Workers
    /\ UNCHANGED <<table, entry, chains, calls, sweep, canceller, dispatcher, job,
                   reported, queue, ext, announced, reply>>

QueuedTasks == {queue[i] : i \in 1..Len(queue)}
InFlight    == {job[w] : w \in Workers} \ {NoTask}

\* pool.stop: queued and in-flight jobs are judged failed at once.
StopPool ==
    /\ mgr = "running"
    /\ mgr' = "terminating"
    /\ Enqueue(QueuedTasks \union InFlight, "failed")
    /\ poolUp' = FALSE /\ alive' = {} /\ reported' = {} /\ queue' = <<>>
    /\ job' = [w \in Workers |-> NoTask]
    /\ UNCHANGED <<table, entry, sweep, canceller, dispatcher, ext, announced, reply, starts>>

\* The threads are gone: wait for the chains #chains knows at this moment.
StopAwait ==
    /\ mgr = "terminating"
    /\ mgr' = "draining"
    /\ calls' = {[c EXCEPT !.awaited = (c.task \in chained /\ c.chain = chain[c.task])] : c \in calls}
    /\ UNCHANGED <<table, entry, chains, sweep, canceller, dispatcher, pool, ext,
                   announced, reply, starts>>

StopFinish ==
    /\ mgr = "draining"
    /\ \A c \in calls : ~c.awaited
    /\ mgr' = "stopped"
    /\ entry' = [t \in Tasks |-> "none"]
    /\ chained' = {}
    /\ UNCHANGED <<table, chain, arrived, calls, sweep, canceller, dispatcher, pool, ext,
                   announced, reply, starts>>

\* The process dies; only the table is left.
Crash ==
    /\ mgr' = "stopped"
    /\ entry' = [t \in Tasks |-> "none"] /\ calls' = {}
    /\ chained' = {} /\ chain' = [t \in Tasks |-> 0] /\ arrived' = [t \in Tasks |-> 0]
    /\ sweep' = NoSweep
    /\ canceller' = [t \in Tasks |-> NoCancel]
    /\ dispatcher' = [t \in Tasks |-> IF dispatcher[t] = "idle" THEN "idle" ELSE "over"]
    /\ poolUp' = FALSE /\ alive' = {} /\ reported' = {} /\ queue' = <<>>
    /\ job' = [w \in Workers |-> NoTask]
    /\ external' = {}
    /\ UNCHANGED <<table, extCalls, announced, reply, starts>>

-----------------------------------------------------------------------------

TaskStep(t) ==
    \/ DispatchAdmit(t) \/ DispatchCreate(t) \/ DispatchRun(t)
    \/ CancelGet(t) \/ CancelTransition(t) \/ CancelMark(t) \/ CancelReturn(t)
    \/ TimePasses(t) \/ ExtLost(t)
    \/ \E kind \in {"progress", "done", "failed"} : ExtMessage(t, kind)

WorkerStep(w) == WorkerProgress(w) \/ WorkerDone(w) \/ WorkerFailed(w) \/ WorkerCrash(w)

Next ==
    \/ \E t \in Tasks : TaskStep(t)
    \/ \E w \in Workers : WorkerStep(w)
    \/ \E c \in calls : CallStep(c)
    \/ SweepStep
    \/ Start \/ StopPool \/ StopAwait \/ StopFinish \/ Crash

Spec == Init /\ [][Next]_vars

-----------------------------------------------------------------------------
(* Fairness.  Promise callbacks, timers and statements are eventually run  *)
(* by the event loop; clients, extensions and crashes are never forced.    *)

KernelFairness ==
    /\ \A t \in Tasks :
          /\ WF_vars(DispatchCreate(t)) /\ WF_vars(DispatchRun(t))
          /\ WF_vars(CancelTransition(t)) /\ WF_vars(CancelMark(t)) /\ WF_vars(CancelReturn(t))
          /\ WF_vars(\E c \in calls : c.task = t /\ CallStep(c))
          /\ WF_vars(TimePasses(t))
    /\ WF_vars(SweepStep)

\* Every thread that lives eventually answers: no job hangs.
ThreadFairness ==
    \A w \in Workers : WF_vars(WorkerProgress(w) \/ WorkerDone(w) \/ WorkerFailed(w))

\* Jobs may hang.
HangSpec == Spec /\ KernelFairness
LiveSpec == HangSpec /\ ThreadFairness

-----------------------------------------------------------------------------
(* Properties *)

Pcs   == {"check", "get", "ensure", "finish", "record", "settle"}
Calls == [task : Tasks, kind : {"progress", "done", "failed"}, pc : Pcs,
          n : Nat, chain : Nat, awaited : BOOLEAN]

\* A progress callback settles nothing.
ProgressPcs == {"check", "ensure"}

TableType ==
    /\ status \in [Tasks -> Statuses]
    /\ payload \in [Tasks -> {"none", "result", "error"}]
    /\ overdue \subseteq Tasks

CallsType ==
    /\ calls \subseteq Calls
    /\ \A c \in calls : c.kind = "progress" => c.pc \in ProgressPcs
    /\ chained \subseteq Tasks
    /\ chain \in [Tasks -> Nat] /\ arrived \in [Tasks -> Nat]

ManagerType ==
    /\ mgr \in {"stopped", "running", "terminating", "draining"}
    /\ entry \in [Tasks -> {"none", "live", "cancelled"}]
    /\ sweep \in [pc : {"idle", "next", "transition", "record", "settle"},
                  todo : SUBSET Tasks, task : Tasks \union {NoTask}]
    /\ canceller \in [Tasks -> [pc : {"idle", "transition", "mark", "return"},
                                seen : Statuses]]
    /\ dispatcher \in [Tasks -> {"idle", "admitted", "created", "over"}]

PoolType ==
    /\ poolUp \in BOOLEAN
    /\ alive \subseteq Workers /\ reported \subseteq Workers
    /\ job \in [Workers -> Tasks \union {NoTask}]
    /\ queue \in Seq(Tasks)

ExtType == external \subseteq Tasks /\ extCalls \in [Tasks -> Nat]

OutputType ==
    /\ announced \in [Tasks -> Seq({"task.completed", "task.failed"})]
    /\ reply \in [Tasks -> Statuses]
    /\ starts \in Nat

\* Every variable has the shape the code gives it.
TypeOK == TableType /\ CallsType /\ ManagerType /\ PoolType /\ ExtType /\ OutputType

Lifecycle == INSTANCE TaskLifecycle
               WITH Tasks <- Tasks, status <- status, payload <- payload, announced <- announced

\* Whatever the interleaving of callbacks, cancels, sweeps, stops and crashes,
\* what a client sees of a task is a behaviour of TaskLifecycle: an outcome is
\* decided once, carries the payload of that outcome only, and is announced at
\* most once, after it is recorded (manager.ts handleDone, handleFailed, sweep).
ImplementsLifecycle == Lifecycle!Spec

Settling(c) == c.pc \in {"record", "settle"}
SweepSettles(t) == sweep.task = t /\ sweep.pc \in {"record", "settle"}

CallSettlesAlone ==
    /\ \A c \in calls : Settling(c) =>
          /\ status[c.task] = OutcomeOf[c.kind]
          /\ payload[c.task] = IF c.pc = "record" THEN "none" ELSE PayloadOf[c.kind]
          /\ announced[c.task] = <<>>
          /\ ~SweepSettles(c.task)
    /\ \A c, d \in calls : Settling(c) /\ Settling(d) /\ c.task = d.task => c = d

SweepSettlesAlone ==
    /\ sweep.pc \in {"transition", "record", "settle"} => sweep.task \in Tasks
    /\ \A t \in Tasks : SweepSettles(t) =>
          /\ status[t] = "failed"
          /\ payload[t] = IF sweep.pc = "record" THEN "none" ELSE "error"
          /\ announced[t] = <<>>

UndecidedIsBlank ==
    \A t \in Tasks : status[t] \notin {"done", "failed"} =>
        payload[t] = "none" /\ announced[t] = <<>>

PendingIsLegal ==
    \A t \in Tasks :
        /\ dispatcher[t] \in {"idle", "admitted"} => status[t] = "none"
        /\ canceller[t].pc = "transition" => canceller[t].seen \in {"queued", "running"}

\* Whoever decides an outcome (a callback or the sweep) is the only one to write
\* its payload and to announce it, although everybody else keeps interleaving
\* with it: the inductive reason why ImplementsLifecycle holds.
OneSettler == CallSettlesAlone /\ SweepSettlesAlone /\ UndecidedIsBlank /\ PendingIsLegal

\* A task the pool owns is in one place: one slot of the queue or one thread;
\* and no thread idles while a job waits, across completions and thread deaths
\* (worker-pool.ts #finish, #onWorkerError, #pump).
PoolWorkConserving ==
    /\ \A i, j \in 1..Len(queue) : queue[i] = queue[j] => i = j
    /\ \A v, w \in Workers : job[v] = job[w] /\ job[v] # NoTask => v = w
    /\ QueuedTasks \intersect InFlight = {}
    /\ queue # <<>> => Idle = {}

\* A pool task the manager still tracks as live and whose row is not final has
\* someone left to finish it: the queue, a thread, or a pending callback.
NoOrphan ==
    \A t \in Tasks :
        Kind[t] # "external" /\ entry[t] = "live" /\ status[t] \in {"queued", "running"} =>
            t \in QueuedTasks \union InFlight \/ PendingOf(t) # {}

\* cancel(t) never answers that t is still waiting or running (manager.ts:167).
CancelEndsTask == \A t \in Tasks : reply[t] \notin {"queued", "running"}

\* A running row ends while the manager is up: by its callback, by cancel, or
\* by the sweep, in this process or in one started after a crash.
RunningEnds ==
    \A t \in Tasks : status[t] = "running" ~> (status[t] \in Terminal \/ mgr # "running")

\* A job on a thread ends up final while the manager is up.
InFlightEnds ==
    \A t \in Tasks : t \in InFlight ~> (status[t] \in Terminal \/ mgr # "running")

\* The FIFO queue of the pool drains as long as one thread lives.
PoolDrains ==
    \A t \in Tasks : t \in QueuedTasks ~> (t \notin QueuedTasks \/ alive = {})
=============================================================================
