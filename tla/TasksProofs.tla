---------------------------- MODULE TasksProofs ----------------------------
(***************************************************************************)
(* Proofs about Tasks: type correctness, the invariant behind the table,   *)
(* that Tasks implements TaskLifecycle, and that the pool neither idles    *)
(* nor forgets a task, for every set of tasks, every pool size and every   *)
(* bound.                                                                  *)
(***************************************************************************)
EXTENDS Tasks, TLAPS

CallKinds == {"progress", "done", "failed"}

-----------------------------------------------------------------------------
(* Type correctness, component by component *)

\* A component keeps its type in a step that leaves it alone.
LEMMA TypeFrame ==
    ASSUME TypeOK
    PROVE  /\ UNCHANGED table => TableType'
           /\ UNCHANGED <<calls, chains>> => CallsType'
           /\ UNCHANGED <<mgr, entry, sweep, canceller, dispatcher>> => ManagerType'
           /\ UNCHANGED pool => PoolType'
           /\ UNCHANGED ext => ExtType'
           /\ UNCHANGED <<announced, reply, starts>> => OutputType'
<1>1. UNCHANGED table => TableType'
  BY DEF TypeOK, TableType, table
<1>2. UNCHANGED <<calls, chains>> => CallsType'
  BY DEF TypeOK, CallsType, chains
<1>3. UNCHANGED <<mgr, entry, sweep, canceller, dispatcher>> => ManagerType'
  BY DEF TypeOK, ManagerType
<1>4. UNCHANGED pool => PoolType'
  BY DEF TypeOK, PoolType, pool
<1>5. UNCHANGED ext => ExtType'
  BY DEF TypeOK, ExtType, ext
<1>6. UNCHANGED <<announced, reply, starts>> => OutputType'
  BY DEF TypeOK, OutputType
<1> QED
  BY <1>1, <1>2, <1>3, <1>4, <1>5, <1>6

\* Callbacks enter the chains well formed.
LEMMA EnqueueType ==
    ASSUME NEW S \in SUBSET Tasks, NEW kind \in CallKinds, CallsType, Enqueue(S, kind)
    PROVE  CallsType'
<1>1. ASSUME NEW t \in S PROVE NewCall(t, kind) \in Calls
  <2>1. FirstPc[kind] \in Pcs
    BY DEF CallKinds, FirstPc, Pcs
  <2>2. chain[t] \in Nat /\ arrived[t] \in Nat
    BY DEF CallsType
  <2> QED
    BY <2>1, <2>2 DEF NewCall, Calls, CallKinds
<1>2. calls' \subseteq Calls /\ \A c \in calls' : c.kind = "progress" => c.pc \in ProgressPcs
  BY <1>1 DEF CallsType, Enqueue, NewCall, FirstPc, ProgressPcs
<1>3. chained' \subseteq Tasks
  BY DEF CallsType, Enqueue
<1>4. chain' \in [Tasks -> Nat] /\ arrived' \in [Tasks -> Nat]
  BY DEF CallsType, Enqueue
<1> QED
  BY <1>2, <1>3, <1>4 DEF CallsType

\* A callback advances within its chain.
LEMMA GotoType ==
    ASSUME NEW c \in calls, NEW pc \in Pcs, CallsType, Goto(c, pc), UNCHANGED chains,
           c.kind = "progress" => pc \in ProgressPcs
    PROVE  CallsType'
<1>1. c \in Calls
  BY DEF CallsType
<1>2. [c EXCEPT !.pc = pc] \in Calls /\ [c EXCEPT !.pc = pc].kind = c.kind
      /\ [c EXCEPT !.pc = pc].pc = pc
  BY <1>1 DEF Calls
<1> QED
  BY <1>2 DEF CallsType, Goto, chains

\* A thread is returned and the next job starts.
LEMMA ReleaseType ==
    ASSUME NEW w \in Workers, NEW threads \in SUBSET Workers, PoolType,
           ReleaseAndPump(w, threads)
    PROVE  PoolType'
<1>1. queue # <<>> => Head(queue) \in Tasks /\ Tail(queue) \in Seq(Tasks)
  BY DEF PoolType
<1>2. [job EXCEPT ![w] = NoTask] \in [Workers -> Tasks \union {NoTask}]
  BY DEF PoolType
<1>3. queue' \in Seq(Tasks)
  BY <1>1 DEF PoolType, ReleaseAndPump
<1>4. job' \in [Workers -> Tasks \union {NoTask}]
  BY <1>1, <1>2 DEF ReleaseAndPump
<1> QED
  BY <1>3, <1>4 DEF PoolType, ReleaseAndPump

\* A pool without threads and jobs.
LEMMA NoJobs == <<>> \in Seq(Tasks) /\ [w \in Workers |-> NoTask] \in [Workers -> Tasks \union {NoTask}]
OBVIOUS

LEMMA RunType ==
    ASSUME NEW t \in Tasks, TypeOK, PoolRun(t)
    PROVE  CallsType' /\ PoolType'
<1>1. CASE Enqueue({t}, "failed") /\ UNCHANGED pool
  BY <1>1, EnqueueType, TypeFrame DEF TypeOK, CallKinds
<1>2. CASE UNCHANGED <<poolUp, alive, reported, calls, chains>>
           /\ \/ \E w \in Idle : job' = [job EXCEPT ![w] = t] /\ UNCHANGED queue
              \/ queue' = Append(queue, t) /\ UNCHANGED job
  <2>1. job' \in [Workers -> Tasks \union {NoTask}] /\ queue' \in Seq(Tasks)
    BY <1>2 DEF TypeOK, PoolType, Idle
  <2> QED
    BY <1>2, <2>1, TypeFrame DEF TypeOK, PoolType
<1> QED
  BY <1>1, <1>2 DEF PoolRun

LEMMA TransitionType ==
    ASSUME NEW t \in Tasks, NEW from, NEW to \in Statuses, TableType,
           Transition(t, from, to)
    PROVE  status' \in [Tasks -> Statuses]
BY DEF TableType, Transition

LEMMA TaskStepType ==
    ASSUME TypeOK, NEW t \in Tasks, TaskStep(t)
    PROVE  TypeOK'
<1> USE DEF table, manager, chains, pool, ext
<1>1. CASE DispatchAdmit(t)
  <2>1. ManagerType'
    BY <1>1 DEF TypeOK, ManagerType, DispatchAdmit
  <2> QED
    BY <1>1, <2>1, TypeFrame DEF TypeOK, DispatchAdmit
<1>2. CASE DispatchCreate(t)
  <2>1. ManagerType' /\ TableType'
    BY <1>2 DEF TypeOK, ManagerType, TableType, DispatchCreate, Statuses
  <2> QED
    BY <1>2, <2>1, TypeFrame DEF TypeOK, DispatchCreate
<1>3. CASE DispatchRun(t)
  <2>1. ManagerType'
    BY <1>3 DEF TypeOK, ManagerType, DispatchRun
  <2>2. ExtType'
    BY <1>3 DEF TypeOK, ExtType, DispatchRun
  <2>3. CallsType' /\ PoolType'
    <3>1. CASE Kind[t] = "external"
      BY <1>3, <3>1, EnqueueType, TypeFrame DEF TypeOK, DispatchRun, CallKinds
    <3>2. CASE Kind[t] # "external"
      BY <1>3, <3>2, RunType DEF DispatchRun
    <3> QED
      BY <3>1, <3>2
  <2> QED
    BY <1>3, <2>1, <2>2, <2>3, TypeFrame DEF TypeOK, DispatchRun
<1>4. CASE CancelGet(t)
  <2>1. ManagerType'
    BY <1>4 DEF TypeOK, ManagerType, CancelGet, Statuses
  <2> QED
    BY <1>4, <2>1, TypeFrame DEF TypeOK, CancelGet
<1>5. CASE CancelTransition(t)
  <2>1. ManagerType'
    BY <1>5 DEF TypeOK, ManagerType, CancelTransition
  <2>2. TableType'
    BY <1>5, TransitionType DEF TypeOK, TableType, CancelTransition, Statuses, Terminal
  <2> QED
    BY <1>5, <2>1, <2>2, TypeFrame DEF TypeOK, CancelTransition
<1>6. CASE CancelMark(t)
  <2>1. ManagerType'
    BY <1>6 DEF TypeOK, ManagerType, CancelMark
  <2> QED
    BY <1>6, <2>1, TypeFrame DEF TypeOK, CancelMark
<1>7. CASE CancelReturn(t)
  <2>1. ManagerType' /\ OutputType'
    BY <1>7 DEF TypeOK, ManagerType, OutputType, TableType, CancelReturn, NoCancel, Statuses
  <2> QED
    BY <1>7, <2>1, TypeFrame DEF TypeOK, CancelReturn
<1>8. CASE TimePasses(t)
  <2>1. TableType'
    BY <1>8 DEF TypeOK, TableType, TimePasses
  <2> QED
    BY <1>8, <2>1, TypeFrame DEF TypeOK, TimePasses
<1>9. CASE ExtLost(t)
  <2>1. ExtType'
    BY <1>9 DEF TypeOK, ExtType, ExtLost
  <2> QED
    BY <1>9, <2>1, TypeFrame DEF TypeOK, ExtLost
<1>10. ASSUME NEW kind \in CallKinds, ExtMessage(t, kind) PROVE TypeOK'
  <2>1. ExtType' /\ CallsType'
    BY <1>10, EnqueueType DEF TypeOK, ExtType, ExtMessage
  <2> QED
    BY <1>10, <2>1, TypeFrame DEF TypeOK, ExtMessage
<1> QED
  BY <1>1, <1>2, <1>3, <1>4, <1>5, <1>6, <1>7, <1>8, <1>9, <1>10 DEF TaskStep, CallKinds

LEMMA WorkerStepType ==
    ASSUME TypeOK, NEW w \in Workers, WorkerStep(w)
    PROVE  TypeOK'
<1> USE DEF table, manager, pool, ext
<1>1. job[w] \in Tasks \union {NoTask}
  BY DEF TypeOK, PoolType
<1>2. CASE WorkerProgress(w)
  <2>1. PoolType' /\ CallsType'
    BY <1>1, <1>2, EnqueueType DEF TypeOK, PoolType, WorkerProgress, CallKinds
  <2> QED
    BY <1>2, <2>1, TypeFrame DEF TypeOK, WorkerProgress
<1>3. CASE WorkerDone(w)
  <2>1. PoolType' /\ CallsType'
    BY <1>1, <1>3, EnqueueType, ReleaseType DEF TypeOK, PoolType, WorkerDone, CallKinds
  <2> QED
    BY <1>3, <2>1, TypeFrame DEF TypeOK, WorkerDone
<1>4. CASE WorkerFailed(w)
  <2>1. PoolType' /\ CallsType'
    BY <1>1, <1>4, EnqueueType, ReleaseType DEF TypeOK, PoolType, WorkerFailed, CallKinds
  <2> QED
    BY <1>4, <2>1, TypeFrame DEF TypeOK, WorkerFailed
<1>5. CASE WorkerCrash(w)
  <2>1. {job[w]} \ {NoTask} \in SUBSET Tasks /\ alive \ {w} \in SUBSET Workers
    BY <1>1 DEF TypeOK, PoolType
  <2>2. PoolType' /\ CallsType'
    BY <1>5, <2>1, EnqueueType, ReleaseType DEF TypeOK, WorkerCrash, CallKinds
  <2> QED
    BY <1>5, <2>2, TypeFrame DEF TypeOK, WorkerCrash
<1> QED
  BY <1>2, <1>3, <1>4, <1>5 DEF WorkerStep

LEMMA CallStepType ==
    ASSUME TypeOK, NEW c \in calls, CallStep(c)
    PROVE  TypeOK'
<1> USE DEF table, pool, ext, HandlerFrame, Pcs
<1>1. c.task \in Tasks /\ c.kind \in CallKinds
  BY DEF TypeOK, CallsType, Calls, CallKinds
<1>2. c.pc \in {"finish", "record", "settle"} => c.kind \in {"done", "failed"}
  BY <1>1 DEF TypeOK, CallsType, CallKinds, ProgressPcs
<1>3. \A pc \in Pcs : (c.kind = "progress" => pc \in ProgressPcs) /\ Goto(c, pc)
                      /\ UNCHANGED chains => CallsType'
  BY GotoType DEF TypeOK
<1>4. Return(c) /\ UNCHANGED chains => CallsType'
  BY DEF TypeOK, CallsType, Return, chains
<1>5. CASE CallCheck(c) \/ CallGet(c) \/ CallRecordThrows(c)
  <2>1. CallsType'
    BY <1>3, <1>4, <1>5 DEF CallCheck, CallGet, CallRecordThrows, ProgressPcs
  <2> QED
    BY <1>5, <2>1, TypeFrame DEF TypeOK, CallCheck, CallGet, CallRecordThrows
<1>6. CASE CallEnsureRunning(c)
  <2>1. CallsType'
    BY <1>3, <1>4, <1>6 DEF CallEnsureRunning
  <2>2. TableType'
    BY <1>1, <1>6, TransitionType DEF TypeOK, TableType, CallEnsureRunning, Statuses
  <2> QED
    BY <1>6, <2>1, <2>2, TypeFrame DEF TypeOK, CallEnsureRunning
<1>7. CASE CallFinish(c)
  <2>1. c.kind \in {"done", "failed"} /\ OutcomeOf[c.kind] \in Statuses
    BY <1>2, <1>7 DEF CallFinish, OutcomeOf, Statuses, Terminal
  <2>2. CallsType'
    BY <1>3, <1>4, <1>7, <2>1 DEF CallFinish
  <2>3. TableType'
    BY <1>1, <1>7, <2>1, TransitionType DEF TypeOK, TableType, CallFinish
  <2> QED
    BY <1>7, <2>2, <2>3, TypeFrame DEF TypeOK, CallFinish
<1>8. CASE CallRecord(c)
  <2>1. c.kind \in {"done", "failed"}
    BY <1>2, <1>8 DEF CallRecord
  <2>2. CallsType'
    BY <1>3, <1>8, <2>1 DEF CallRecord
  <2>3. TableType'
    BY <1>1, <1>8, <2>1 DEF TypeOK, TableType, CallRecord, PayloadOf
  <2> QED
    BY <1>8, <2>2, <2>3, TypeFrame DEF TypeOK, CallRecord
<1>9. CASE CallSettle(c)
  <2>1. c.kind \in {"done", "failed"}
    BY <1>2, <1>9 DEF CallSettle
  <2>2. CallsType'
    BY <1>9 DEF TypeOK, CallsType, CallSettle, Return
  <2>3. ManagerType'
    BY <1>9 DEF TypeOK, ManagerType, CallSettle
  <2>4. OutputType'
    BY <1>1, <1>9, <2>1 DEF TypeOK, OutputType, CallSettle, EventOf
  <2> QED
    BY <1>9, <2>2, <2>3, <2>4, TypeFrame DEF TypeOK, CallSettle
<1> QED
  BY <1>5, <1>6, <1>7, <1>8, <1>9 DEF CallStep

LEMMA SweepStepType ==
    ASSUME TypeOK, SweepStep
    PROVE  TypeOK'
<1> USE DEF table, pool, ext, chains, SweepFrame
<1>0. sweep.task \in Tasks \union {NoTask} /\ sweep.todo \subseteq Tasks
  BY DEF TypeOK, ManagerType
<1>1. CASE SweepList
  <2>1. ManagerType'
    BY <1>1 DEF TypeOK, ManagerType, TableType, SweepList, TimedOut
  <2> QED
    BY <1>1, <2>1, TypeFrame DEF TypeOK, SweepList
<1>2. ASSUME NEW t \in Tasks, SweepNext(t) PROVE TypeOK'
  <2>1. ManagerType'
    BY <1>0, <1>2 DEF TypeOK, ManagerType, SweepNext
  <2> QED
    BY <1>2, <2>1, TypeFrame DEF TypeOK, SweepNext
<1>3. CASE SweepTransition
  <2>1. ManagerType'
    BY <1>3 DEF TypeOK, ManagerType, SweepTransition
  <2>2. TableType'
    BY <1>3 DEF TypeOK, TableType, SweepTransition, Transition, Statuses, Terminal
  <2> QED
    BY <1>3, <2>1, <2>2, TypeFrame DEF TypeOK, SweepTransition
<1>4. CASE SweepRecord
  <2>1. ManagerType'
    BY <1>4 DEF TypeOK, ManagerType, SweepRecord
  <2>2. TableType'
    BY <1>4 DEF TypeOK, TableType, SweepRecord
  <2> QED
    BY <1>4, <2>1, <2>2, TypeFrame DEF TypeOK, SweepRecord
<1>5. CASE SweepSettle
  <2>1. ManagerType'
    BY <1>5 DEF TypeOK, ManagerType, SweepSettle
  <2>2. CallsType'
    BY <1>5 DEF TypeOK, CallsType, SweepSettle
  <2>3. OutputType'
    <3>1. CASE sweep.task \in Tasks
      <4>1. Append(announced[sweep.task], "task.failed") \in Seq({"task.completed", "task.failed"})
        BY <3>1 DEF TypeOK, OutputType
      <4> QED
        BY <1>5, <4>1 DEF TypeOK, OutputType, SweepSettle
    <3>2. CASE sweep.task \notin Tasks
      BY <1>5, <3>2 DEF TypeOK, OutputType, SweepSettle
    <3> QED
      BY <3>1, <3>2
  <2> QED
    BY <1>5, <2>1, <2>2, <2>3, TypeFrame DEF TypeOK, SweepSettle
<1>6. CASE SweepEnd
  <2>1. ManagerType'
    BY <1>6 DEF TypeOK, ManagerType, SweepEnd, NoSweep
  <2> QED
    BY <1>6, <2>1, TypeFrame DEF TypeOK, SweepEnd
<1> QED
  BY <1>1, <1>2, <1>3, <1>4, <1>5, <1>6 DEF SweepStep

LEMMA LifeCycleType ==
    ASSUME TypeOK, Start \/ StopPool \/ StopAwait \/ StopFinish \/ Crash
    PROVE  TypeOK'
<1> USE DEF table, pool, ext, chains
<1>1. CASE Start
  <2>1. ManagerType' /\ PoolType' /\ OutputType'
    <3>1. ManagerType'
      BY <1>1 DEF TypeOK, ManagerType, Start
    <3>2. PoolType'
      BY <1>1 DEF TypeOK, PoolType, Start
    <3>3. OutputType'
      BY <1>1 DEF TypeOK, OutputType, Start
    <3> QED
      BY <3>1, <3>2, <3>3
  <2> QED
    BY <1>1, <2>1, TypeFrame DEF TypeOK, Start
<1>2. CASE StopPool
  <2>1. QueuedTasks \union InFlight \in SUBSET Tasks
    BY DEF TypeOK, PoolType, QueuedTasks, InFlight
  <2>2. CallsType'
    BY <1>2, <2>1, EnqueueType DEF TypeOK, StopPool, CallKinds
  <2>3. ManagerType'
    BY <1>2 DEF TypeOK, ManagerType, StopPool
  <2>4. PoolType'
    BY <1>2, NoJobs DEF PoolType, StopPool
  <2> QED
    BY <1>2, <2>2, <2>3, <2>4, TypeFrame DEF TypeOK, StopPool
<1>3. CASE StopAwait
  <2>1. ManagerType'
    BY <1>3 DEF TypeOK, ManagerType, StopAwait
  <2>2. CallsType'
    <3> DEFINE Mark(c) == [c EXCEPT !.awaited = (c.task \in chained /\ c.chain = chain[c.task])]
    <3>1. ASSUME NEW c \in Calls, NEW b \in BOOLEAN, NEW d, d = [c EXCEPT !.awaited = b]
          PROVE  d \in Calls /\ d.kind = c.kind /\ d.pc = c.pc
      BY <3>1 DEF Calls
    <3>2. \A c \in calls : Mark(c) \in Calls /\ Mark(c).kind = c.kind /\ Mark(c).pc = c.pc
      BY <3>1 DEF TypeOK, CallsType
    <3>3. calls' = {Mark(c) : c \in calls}
      BY <1>3 DEF StopAwait
    <3> HIDE DEF Mark
    <3> QED
      BY <1>3, <3>2, <3>3 DEF TypeOK, CallsType, StopAwait
  <2> QED
    BY <1>3, <2>1, <2>2, TypeFrame DEF TypeOK, StopAwait
<1>4. CASE StopFinish
  <2>1. ManagerType' /\ CallsType'
    BY <1>4 DEF TypeOK, ManagerType, CallsType, StopFinish
  <2> QED
    BY <1>4, <2>1, TypeFrame DEF TypeOK, StopFinish
<1>5. CASE Crash
  <2>1. ManagerType'
    BY <1>5 DEF TypeOK, ManagerType, Crash, NoSweep, NoCancel, Statuses
  <2>2. CallsType'
    BY <1>5 DEF TypeOK, CallsType, Crash
  <2>3. PoolType'
    BY <1>5, NoJobs DEF PoolType, Crash
  <2>4. ExtType'
    BY <1>5 DEF TypeOK, ExtType, Crash
  <2> QED
    BY <1>5, <2>1, <2>2, <2>3, <2>4, TypeFrame DEF TypeOK, Crash
<1> QED
  BY <1>1, <1>2, <1>3, <1>4, <1>5

\* Every reachable state has the shape the code gives it.
THEOREM TypeCorrect == Spec => []TypeOK
<1>1. Init => TypeOK
  <2> SUFFICES ASSUME Init PROVE TypeOK
    OBVIOUS
  <2>1. TableType
    BY DEF Init, TableType, Statuses
  <2>2. CallsType
    BY DEF Init, CallsType
  <2>3. ManagerType
    BY DEF Init, ManagerType, NoSweep, NoCancel, Statuses
  <2>4. PoolType
    BY NoJobs DEF Init, PoolType
  <2>5. ExtType
    BY DEF Init, ExtType
  <2>6. OutputType
    BY DEF Init, OutputType, Statuses
  <2> QED
    BY <2>1, <2>2, <2>3, <2>4, <2>5, <2>6 DEF TypeOK
<1>2. TypeOK /\ [Next]_vars => TypeOK'
  <2>1. ASSUME TypeOK, UNCHANGED vars PROVE TypeOK'
    BY <2>1, TypeFrame DEF vars, manager, TypeOK
  <2> QED
    BY <2>1, TaskStepType, WorkerStepType, CallStepType, SweepStepType, LifeCycleType
       DEF Next
<1> QED
  BY <1>1, <1>2, PTL DEF Spec

-----------------------------------------------------------------------------
(* The outcome of a task is settled by whoever decided it *)

Seen == <<status, payload, announced>>
Implements == Lifecycle!Next \/ UNCHANGED Seen

\* A step that touches nothing a client sees, nor the sweep, cancels and
\* dispatches in progress, and starts no settling, keeps OneSettler.
LEMMA QuietStep ==
    ASSUME OneSettler, UNCHANGED <<Seen, sweep, canceller, dispatcher>>,
           \A c \in calls' : Settling(c) => c \in calls
    PROVE  OneSettler' /\ Implements
<1> USE DEF Seen, Settling, SweepSettles
<1>1. CallSettlesAlone'
  BY DEF OneSettler, CallSettlesAlone
<1>2. SweepSettlesAlone'
  BY DEF OneSettler, SweepSettlesAlone
<1>3. UndecidedIsBlank' /\ PendingIsLegal'
  BY DEF OneSettler, UndecidedIsBlank, PendingIsLegal
<1> QED
  BY <1>1, <1>2, <1>3 DEF OneSettler, Implements

\* New callbacks settle nothing yet.
LEMMA EnqueueQuiet ==
    ASSUME NEW S, NEW kind \in CallKinds, Enqueue(S, kind)
    PROVE  \A c \in calls' : Settling(c) => c \in calls
BY DEF Enqueue, NewCall, FirstPc, Settling, CallKinds

\* A conditional update out of a live status is a legal move, or nothing.
LEMMA TransitionMoves ==
    ASSUME TypeOK, OneSettler, NEW t \in Tasks,
           NEW from \in SUBSET {"queued", "running"}, NEW to,
           \A s \in from : <<s, to>> \in Lifecycle!Edges,
           Transition(t, from, to), UNCHANGED <<payload, announced>>
    PROVE  Implements
<1>1. CASE ~Hits(t, from)
  BY <1>1 DEF Transition, Implements, Seen
<1>2. CASE Hits(t, from)
  <2>1. <<status[t], to>> \in Lifecycle!Edges /\ status' = [status EXCEPT ![t] = to]
    BY <1>2 DEF Transition, Hits
  <2>2. to \in {"queued", "running"} \union Lifecycle!Terminal
    BY <2>1 DEF Lifecycle!Edges, Lifecycle!Terminal
  <2>3. Lifecycle!Move(t, to)
    BY <2>1 DEF Lifecycle!Move
  <2> QED
    BY <2>2, <2>3 DEF Implements, Lifecycle!Next
<1> QED
  BY <1>1, <1>2

\* Such an update disturbs nobody who is settling, provided it decides no
\* outcome that has a payload, or its author becomes the settler.
LEMMA TransitionKeeps ==
    ASSUME TypeOK, OneSettler, NEW t \in Tasks,
           NEW from \in SUBSET {"queued", "running"}, NEW to \in {"running", "cancelled"},
           Transition(t, from, to), UNCHANGED <<payload, announced, sweep, dispatcher>>,
           \A c \in calls' : Settling(c) => c \in calls,
           \A u \in Tasks : canceller'[u].pc = "transition" => canceller'[u] = canceller[u]
    PROVE  OneSettler'
<1> USE DEF Settling, SweepSettles, Transition, Hits
<1>0. \A u \in Tasks : status'[u] # status[u] => status[u] \in {"queued", "running"}
                                           /\ status'[u] \in {"running", "cancelled"}
  BY DEF TypeOK, TableType
<1>1. CallSettlesAlone'
  <2>1. \A c \in calls : c.task \in Tasks /\ (Settling(c) => c.kind \in {"done", "failed"})
    BY DEF TypeOK, CallsType, Calls, ProgressPcs
  <2>2. \A c \in calls : Settling(c) => status'[c.task] = status[c.task]
    BY <1>0, <2>1 DEF OneSettler, CallSettlesAlone, OutcomeOf
  <2> QED
    BY <2>2 DEF OneSettler, CallSettlesAlone
<1>2. SweepSettlesAlone'
  BY <1>0 DEF OneSettler, SweepSettlesAlone
<1>3. UndecidedIsBlank'
  BY <1>0 DEF OneSettler, UndecidedIsBlank
<1>4. PendingIsLegal'
  BY <1>0 DEF OneSettler, PendingIsLegal
<1> QED
  BY <1>1, <1>2, <1>3, <1>4 DEF OneSettler

LEMMA TaskStepSettles ==
    ASSUME TypeOK, OneSettler, NEW t \in Tasks, TaskStep(t)
    PROVE  OneSettler' /\ Implements
<1> USE DEF table, manager, chains, pool, ext, Seen
<1>1. CASE DispatchAdmit(t)
  <2>1. CallSettlesAlone'
    BY <1>1 DEF OneSettler, CallSettlesAlone, DispatchAdmit, Settling, SweepSettles
  <2>2. SweepSettlesAlone'
    BY <1>1 DEF OneSettler, SweepSettlesAlone, DispatchAdmit, SweepSettles
  <2>3. UndecidedIsBlank' /\ PendingIsLegal'
    BY <1>1 DEF TypeOK, ManagerType, OneSettler, UndecidedIsBlank, PendingIsLegal, DispatchAdmit
  <2> QED
    BY <1>1, <2>1, <2>2, <2>3 DEF OneSettler, Implements, DispatchAdmit
<1>2. CASE DispatchCreate(t)
  <2>1. status[t] = "none" /\ payload[t] = "none" /\ announced[t] = <<>>
    BY <1>2 DEF OneSettler, UndecidedIsBlank, PendingIsLegal, DispatchCreate
  <2>2. \A c \in calls : Settling(c) => c.task # t
    <3>1. \A c \in calls : Settling(c) => c.kind \in {"done", "failed"}
      BY DEF TypeOK, CallsType, Calls, ProgressPcs, Settling
    <3> QED
      BY <2>1, <3>1 DEF OneSettler, CallSettlesAlone, OutcomeOf
  <2>3. CallSettlesAlone'
    BY <1>2, <2>2 DEF TypeOK, TableType, OneSettler, CallSettlesAlone, DispatchCreate,
                      Settling, SweepSettles
  <2>4. SweepSettlesAlone'
    BY <1>2, <2>1 DEF TypeOK, TableType, OneSettler, SweepSettlesAlone, DispatchCreate,
                      SweepSettles
  <2>5. UndecidedIsBlank' /\ PendingIsLegal'
    BY <1>2, <2>1 DEF TypeOK, TableType, ManagerType, OneSettler, UndecidedIsBlank,
                      PendingIsLegal, DispatchCreate
  <2>6. Lifecycle!Move(t, "queued")
    BY <1>2, <2>1 DEF DispatchCreate, Lifecycle!Move, Lifecycle!Edges
  <2> QED
    BY <2>3, <2>4, <2>5, <2>6 DEF OneSettler, Implements, Lifecycle!Next
<1>3. CASE DispatchRun(t)
  <2>1. \A c \in calls' : Settling(c) => c \in calls
    BY <1>3, EnqueueQuiet DEF DispatchRun, PoolRun, CallKinds
  <2>2. CallSettlesAlone'
    BY <1>3, <2>1 DEF OneSettler, CallSettlesAlone, DispatchRun, Settling, SweepSettles
  <2>3. SweepSettlesAlone'
    BY <1>3 DEF OneSettler, SweepSettlesAlone, DispatchRun, SweepSettles
  <2>4. UndecidedIsBlank' /\ PendingIsLegal'
    BY <1>3 DEF TypeOK, ManagerType, OneSettler, UndecidedIsBlank, PendingIsLegal, DispatchRun
  <2> QED
    BY <1>3, <2>2, <2>3, <2>4 DEF OneSettler, Implements, DispatchRun
<1>4. CASE CancelGet(t)
  <2>1. CallSettlesAlone'
    BY <1>4 DEF OneSettler, CallSettlesAlone, CancelGet, Settling, SweepSettles
  <2>2. SweepSettlesAlone'
    BY <1>4 DEF OneSettler, SweepSettlesAlone, CancelGet, SweepSettles
  <2>3. UndecidedIsBlank' /\ PendingIsLegal'
    BY <1>4 DEF TypeOK, ManagerType, OneSettler, UndecidedIsBlank, PendingIsLegal, CancelGet
  <2> QED
    BY <1>4, <2>1, <2>2, <2>3 DEF OneSettler, Implements, CancelGet
<1>5. CASE CancelTransition(t)
  <2>1. {canceller[t].seen} \in SUBSET {"queued", "running"}
    BY <1>5 DEF OneSettler, PendingIsLegal, CancelTransition
  <2>2. \A s \in {canceller[t].seen} : <<s, "cancelled">> \in Lifecycle!Edges
    BY <2>1 DEF Lifecycle!Edges
  <2>3. \A u \in Tasks : canceller'[u].pc = "transition" => canceller'[u] = canceller[u]
    BY <1>5 DEF TypeOK, ManagerType, CancelTransition
  <2>4. OneSettler'
    BY <1>5, <2>1, <2>3, TransitionKeeps DEF CancelTransition
  <2>5. Implements
    BY <1>5, <2>1, <2>2, TransitionMoves DEF CancelTransition
  <2> QED
    BY <2>4, <2>5
<1>6. CASE CancelMark(t) \/ CancelReturn(t)
  <2>1. CallSettlesAlone'
    BY <1>6 DEF OneSettler, CallSettlesAlone, CancelMark, CancelReturn, Settling, SweepSettles
  <2>2. SweepSettlesAlone'
    BY <1>6 DEF OneSettler, SweepSettlesAlone, CancelMark, CancelReturn, SweepSettles
  <2>3. UndecidedIsBlank'
    BY <1>6 DEF OneSettler, UndecidedIsBlank, CancelMark, CancelReturn
  <2>4. PendingIsLegal'
    BY <1>6 DEF TypeOK, ManagerType, OneSettler, PendingIsLegal, CancelMark, CancelReturn,
                NoCancel
  <2> QED
    BY <1>6, <2>1, <2>2, <2>3, <2>4 DEF OneSettler, Implements, CancelMark, CancelReturn
<1>7. CASE TimePasses(t) \/ ExtLost(t)
  BY <1>7, QuietStep DEF TimePasses, ExtLost
<1>8. ASSUME NEW kind \in CallKinds, ExtMessage(t, kind) PROVE OneSettler' /\ Implements
  BY <1>8, QuietStep, EnqueueQuiet DEF ExtMessage
<1> QED
  BY <1>1, <1>2, <1>3, <1>4, <1>5, <1>6, <1>7, <1>8 DEF TaskStep, CallKinds

LEMMA WorkerStepSettles ==
    ASSUME TypeOK, OneSettler, NEW w \in Workers, WorkerStep(w)
    PROVE  OneSettler' /\ Implements
<1> USE DEF table, Seen, CallKinds
<1>1. CASE WorkerProgress(w)
  BY <1>1, QuietStep, EnqueueQuiet DEF WorkerProgress
<1>2. CASE WorkerDone(w)
  BY <1>2, QuietStep, EnqueueQuiet DEF WorkerDone
<1>3. CASE WorkerFailed(w)
  BY <1>3, QuietStep, EnqueueQuiet DEF WorkerFailed
<1>4. CASE WorkerCrash(w)
  BY <1>4, QuietStep, EnqueueQuiet DEF WorkerCrash
<1> QED
  BY <1>1, <1>2, <1>3, <1>4 DEF WorkerStep

\* What the code calls the outcome of a callback is what its client sees.
LEMMA OutcomeTables ==
    \A k \in {"done", "failed"} :
        /\ OutcomeOf[k] = k
        /\ Lifecycle!PayloadOf[k] = PayloadOf[k]
        /\ Lifecycle!EventOf[k] = EventOf[k]
BY DEF OutcomeOf, PayloadOf, EventOf, Lifecycle!PayloadOf, Lifecycle!EventOf

LEMMA CallStepSettles ==
    ASSUME TypeOK, OneSettler, NEW c \in calls, CallStep(c)
    PROVE  OneSettler' /\ Implements
<1> USE DEF table, chains, pool, Seen, HandlerFrame
<1>1. c.task \in Tasks
  BY DEF TypeOK, CallsType, Calls
<1>2. c.pc \in {"finish", "record", "settle"} => c.kind \in {"done", "failed"}
  BY DEF TypeOK, CallsType, Calls, ProgressPcs
<1>3. \A pc : Goto(c, pc) => \A d \in calls' : d \in calls \/ d = [c EXCEPT !.pc = pc]
  BY DEF Goto
<1>4. \A pc \in Pcs : [c EXCEPT !.pc = pc].pc = pc /\ [c EXCEPT !.pc = pc].task = c.task
                    /\ [c EXCEPT !.pc = pc].kind = c.kind
  BY DEF TypeOK, CallsType, Calls
<1>5. CASE CallCheck(c) \/ CallGet(c) \/ CallRecordThrows(c)
  <2>1. \A d \in calls' : Settling(d) => d \in calls
    BY <1>3, <1>4, <1>5 DEF CallCheck, CallGet, CallRecordThrows, Return, Settling, Pcs
  <2> QED
    BY <1>5, <2>1, QuietStep DEF CallCheck, CallGet, CallRecordThrows
<1>6. CASE CallEnsureRunning(c)
  <2>1. \A d \in calls' : Settling(d) => d \in calls
    BY <1>3, <1>4, <1>6 DEF CallEnsureRunning, Return, Settling, Pcs
  <2>2. OneSettler'
    BY <1>1, <1>6, <2>1, TransitionKeeps DEF CallEnsureRunning
  <2>3. Implements
    BY <1>1, <1>6, TransitionMoves DEF CallEnsureRunning, Lifecycle!Edges
  <2> QED
    BY <2>2, <2>3
<1>7. CASE CallFinish(c) /\ ~Hits(c.task, {"running"})
  <2>1. \A d \in calls' : Settling(d) => d \in calls
    BY <1>7 DEF CallFinish, Return
  <2> QED
    BY <1>7, <2>1, QuietStep DEF CallFinish, Transition
<1>8. CASE CallFinish(c) /\ Hits(c.task, {"running"})
  <2> DEFINE e == [c EXCEPT !.pc = "record"]
  <2>1. status[c.task] = "running" /\ payload[c.task] = "none" /\ announced[c.task] = <<>>
    BY <1>1, <1>8 DEF Hits, OneSettler, UndecidedIsBlank
  <2>2. status' = [status EXCEPT ![c.task] = OutcomeOf[c.kind]]
        /\ UNCHANGED <<payload, announced, sweep, canceller, dispatcher>>
        /\ calls' = (calls \ {c}) \union {e}
    BY <1>8 DEF CallFinish, Transition, Goto
  <2>3. e.pc = "record" /\ e.task = c.task /\ e.kind = c.kind /\ c.kind \in {"done", "failed"}
    BY <1>2, <1>4, <1>8 DEF CallFinish, Pcs
  <2>4. OutcomeOf[c.kind] \in {"done", "failed"}
    BY <2>3 DEF OutcomeOf
  <2>5. \A d \in calls : Settling(d) => d.task # c.task /\ d.task \in Tasks
    <3>1. \A d \in calls : Settling(d) => d.kind \in {"done", "failed"} /\ d.task \in Tasks
      BY DEF TypeOK, CallsType, Calls, ProgressPcs, Settling
    <3> QED
      BY <2>1, <3>1 DEF OneSettler, CallSettlesAlone, OutcomeOf
  <2>6. ~SweepSettles(c.task)
    BY <1>1, <2>1 DEF OneSettler, SweepSettlesAlone
  <2> HIDE DEF e
  <2>7. CallSettlesAlone'
    BY <1>1, <2>1, <2>2, <2>3, <2>5, <2>6
       DEF TypeOK, TableType, OneSettler, CallSettlesAlone, Settling, SweepSettles
  <2>8. SweepSettlesAlone'
    BY <1>1, <2>2, <2>6 DEF TypeOK, TableType, OneSettler, SweepSettlesAlone, SweepSettles
  <2>9. UndecidedIsBlank' /\ PendingIsLegal'
    BY <1>1, <2>1, <2>2, <2>4
       DEF TypeOK, TableType, OneSettler, UndecidedIsBlank, PendingIsLegal
  <2>10. Lifecycle!Move(c.task, OutcomeOf[c.kind])
    BY <2>1, <2>2, <2>4 DEF Lifecycle!Move, Lifecycle!Edges
  <2> QED
    BY <1>1, <2>4, <2>7, <2>8, <2>9, <2>10
       DEF OneSettler, Implements, Lifecycle!Next, Lifecycle!Terminal
<1>9. CASE CallRecord(c)
  <2> DEFINE e == [c EXCEPT !.pc = "settle"]
  <2>1. Settling(c) /\ c.kind \in {"done", "failed"} /\ status[c.task] = OutcomeOf[c.kind]
        /\ payload[c.task] = "none" /\ announced[c.task] = <<>> /\ ~SweepSettles(c.task)
    BY <1>2, <1>9 DEF CallRecord, Settling, OneSettler, CallSettlesAlone
  <2>2. payload' = [payload EXCEPT ![c.task] = PayloadOf[c.kind]]
        /\ UNCHANGED <<status, announced, sweep, canceller, dispatcher>>
        /\ calls' = (calls \ {c}) \union {e}
    BY <1>9 DEF CallRecord, Goto
  <2>3. e.pc = "settle" /\ e.task = c.task /\ e.kind = c.kind
    BY <1>4 DEF Pcs
  <2> HIDE DEF e
  <2>4. \A d \in calls : Settling(d) /\ d # c => d.task # c.task
    BY <2>1 DEF OneSettler, CallSettlesAlone
  <2>5. \A d \in calls : d.task \in Tasks
    BY DEF TypeOK, CallsType, Calls
  <2>6. CallSettlesAlone'
    BY <1>1, <2>1, <2>2, <2>3, <2>4, <2>5
       DEF TypeOK, TableType, OneSettler, CallSettlesAlone, Settling, SweepSettles
  <2>7. SweepSettlesAlone'
    BY <1>1, <2>1, <2>2 DEF TypeOK, TableType, OneSettler, SweepSettlesAlone, SweepSettles
  <2>8. UndecidedIsBlank' /\ PendingIsLegal'
    BY <1>1, <2>1, <2>2
       DEF TypeOK, TableType, OneSettler, UndecidedIsBlank, PendingIsLegal, OutcomeOf
  <2>9. Lifecycle!Record(c.task)
    BY <2>1, <2>2, OutcomeTables DEF Lifecycle!Record
  <2> QED
    BY <1>1, <2>6, <2>7, <2>8, <2>9 DEF OneSettler, Implements, Lifecycle!Next
<1>10. CASE CallSettle(c)
  <2>1. Settling(c) /\ c.kind \in {"done", "failed"} /\ status[c.task] = OutcomeOf[c.kind]
        /\ payload[c.task] = PayloadOf[c.kind] /\ announced[c.task] = <<>>
        /\ ~SweepSettles(c.task)
    BY <1>2, <1>10 DEF CallSettle, Settling, OneSettler, CallSettlesAlone
  <2>2. announced' = [announced EXCEPT ![c.task] = Append(<<>>, EventOf[c.kind])]
        /\ UNCHANGED <<status, payload, sweep, canceller, dispatcher>>
        /\ calls' = calls \ {c}
    BY <1>10, <2>1 DEF CallSettle, Return
  <2>3. \A d \in calls : Settling(d) /\ d # c => d.task # c.task
    BY <2>1 DEF OneSettler, CallSettlesAlone
  <2>4. \A d \in calls : d.task \in Tasks
    BY DEF TypeOK, CallsType, Calls
  <2>5. CallSettlesAlone'
    BY <1>1, <2>1, <2>2, <2>3, <2>4
       DEF TypeOK, OutputType, OneSettler, CallSettlesAlone, Settling, SweepSettles
  <2>6. SweepSettlesAlone'
    BY <1>1, <2>1, <2>2 DEF TypeOK, OutputType, OneSettler, SweepSettlesAlone, SweepSettles
  <2>7. UndecidedIsBlank' /\ PendingIsLegal'
    BY <1>1, <2>1, <2>2
       DEF TypeOK, OutputType, OneSettler, UndecidedIsBlank, PendingIsLegal, OutcomeOf
  <2>8. Append(<<>>, EventOf[c.kind]) = <<EventOf[c.kind]>>
    OBVIOUS
  <2>9. Lifecycle!Announce(c.task)
    BY <2>1, <2>2, <2>8, OutcomeTables DEF Lifecycle!Announce
  <2> QED
    BY <1>1, <2>5, <2>6, <2>7, <2>9 DEF OneSettler, Implements, Lifecycle!Next
<1> QED
  BY <1>5, <1>6, <1>7, <1>8, <1>9, <1>10 DEF CallStep

LEMMA SweepStepSettles ==
    ASSUME TypeOK, OneSettler, SweepStep
    PROVE  OneSettler' /\ Implements
<1> USE DEF table, chains, pool, Seen, SweepFrame
<1>1. CASE SweepList \/ SweepEnd \/ \E t \in Tasks : SweepNext(t)
  <2>1. UNCHANGED <<Seen, calls, canceller, dispatcher>>
        /\ sweep.pc \in {"idle", "next"}
        /\ sweep'.pc \in {"idle", "next", "transition"}
        /\ (sweep'.pc = "transition" => sweep'.task \in Tasks)
    <3>1. CASE SweepList
      BY <3>1 DEF TypeOK, ManagerType, SweepList
    <3>2. CASE SweepEnd
      BY <3>2 DEF SweepEnd, NoSweep
    <3>3. CASE \E t \in Tasks : SweepNext(t)
      BY <3>3 DEF SweepNext
    <3> QED
      BY <1>1, <3>1, <3>2, <3>3
  <2>2. CallSettlesAlone'
    BY <2>1 DEF OneSettler, CallSettlesAlone, Settling, SweepSettles
  <2>3. SweepSettlesAlone'
    BY <2>1 DEF SweepSettlesAlone, SweepSettles
  <2>4. UndecidedIsBlank' /\ PendingIsLegal'
    BY <2>1 DEF OneSettler, UndecidedIsBlank, PendingIsLegal
  <2> QED
    BY <2>1, <2>2, <2>3, <2>4 DEF OneSettler, Implements
<1>2. CASE SweepTransition /\ ~Hits(sweep.task, {"running"})
  <2>1. UNCHANGED <<Seen, calls, canceller, dispatcher>> /\ sweep'.pc = "next"
    BY <1>2 DEF TypeOK, ManagerType, SweepTransition, Transition
  <2>2. CallSettlesAlone'
    BY <2>1 DEF OneSettler, CallSettlesAlone, Settling, SweepSettles
  <2>3. SweepSettlesAlone'
    BY <2>1 DEF SweepSettlesAlone, SweepSettles
  <2>4. UndecidedIsBlank' /\ PendingIsLegal'
    BY <2>1 DEF OneSettler, UndecidedIsBlank, PendingIsLegal
  <2> QED
    BY <2>1, <2>2, <2>3, <2>4 DEF OneSettler, Implements
<1>3. CASE SweepTransition /\ Hits(sweep.task, {"running"})
  <2> DEFINE t == sweep.task
  <2>1. t \in Tasks /\ status[t] = "running" /\ payload[t] = "none" /\ announced[t] = <<>>
    BY <1>3 DEF SweepTransition, Hits, OneSettler, SweepSettlesAlone, UndecidedIsBlank
  <2>2. status' = [status EXCEPT ![t] = "failed"] /\ sweep'.pc = "record" /\ sweep'.task = t
        /\ UNCHANGED <<payload, announced, calls, canceller, dispatcher>>
    BY <1>3 DEF TypeOK, ManagerType, SweepTransition, Transition
  <2> HIDE DEF t
  <2>3. \A d \in calls : Settling(d) => d.task # t /\ d.task \in Tasks
    <3>1. \A d \in calls : Settling(d) => d.kind \in {"done", "failed"} /\ d.task \in Tasks
      BY DEF TypeOK, CallsType, Calls, ProgressPcs, Settling
    <3> QED
      BY <2>1, <3>1 DEF OneSettler, CallSettlesAlone, OutcomeOf
  <2>4. CallSettlesAlone'
    BY <2>1, <2>2, <2>3 DEF TypeOK, TableType, OneSettler, CallSettlesAlone, Settling, SweepSettles
  <2>5. SweepSettlesAlone'
    BY <2>1, <2>2 DEF TypeOK, TableType, SweepSettlesAlone, SweepSettles
  <2>6. UndecidedIsBlank' /\ PendingIsLegal'
    BY <2>1, <2>2 DEF TypeOK, TableType, OneSettler, UndecidedIsBlank, PendingIsLegal
  <2>7. Lifecycle!Move(t, "failed")
    BY <2>1, <2>2 DEF Lifecycle!Move, Lifecycle!Edges
  <2> QED
    BY <2>1, <2>4, <2>5, <2>6, <2>7 DEF OneSettler, Implements, Lifecycle!Next, Lifecycle!Terminal
<1>4. CASE SweepRecord
  <2> DEFINE t == sweep.task
  <2>1. t \in Tasks /\ status[t] = "failed" /\ payload[t] = "none" /\ announced[t] = <<>>
        /\ SweepSettles(t)
    BY <1>4 DEF SweepRecord, OneSettler, SweepSettlesAlone, SweepSettles
  <2>2. payload' = [payload EXCEPT ![t] = "error"] /\ sweep'.pc = "settle" /\ sweep'.task = t
        /\ UNCHANGED <<status, announced, calls, canceller, dispatcher>>
    BY <1>4 DEF TypeOK, ManagerType, SweepRecord
  <2> HIDE DEF t
  <2>3. \A d \in calls : d.task \in Tasks /\ (Settling(d) => d.task # t)
    BY <2>1 DEF TypeOK, CallsType, Calls, OneSettler, CallSettlesAlone
  <2>4. CallSettlesAlone'
    BY <2>1, <2>2, <2>3 DEF TypeOK, TableType, OneSettler, CallSettlesAlone, Settling, SweepSettles
  <2>5. SweepSettlesAlone'
    BY <2>1, <2>2 DEF TypeOK, TableType, SweepSettlesAlone, SweepSettles
  <2>6. UndecidedIsBlank' /\ PendingIsLegal'
    BY <2>1, <2>2 DEF TypeOK, TableType, OneSettler, UndecidedIsBlank, PendingIsLegal
  <2>7. Lifecycle!Record(t)
    BY <2>1, <2>2, OutcomeTables DEF Lifecycle!Record, PayloadOf
  <2> QED
    BY <2>1, <2>4, <2>5, <2>6, <2>7 DEF OneSettler, Implements, Lifecycle!Next
<1>5. CASE SweepSettle
  <2> DEFINE t == sweep.task
  <2>1. t \in Tasks /\ status[t] = "failed" /\ payload[t] = "error" /\ announced[t] = <<>>
        /\ SweepSettles(t)
    BY <1>5 DEF SweepSettle, OneSettler, SweepSettlesAlone, SweepSettles
  <2>2. announced' = [announced EXCEPT ![t] = Append(<<>>, "task.failed")]
        /\ sweep'.pc = "next" /\ UNCHANGED <<status, payload, calls, canceller, dispatcher>>
    BY <1>5, <2>1 DEF TypeOK, ManagerType, SweepSettle
  <2> HIDE DEF t
  <2>3. \A d \in calls : d.task \in Tasks /\ (Settling(d) => d.task # t)
    BY <2>1 DEF TypeOK, CallsType, Calls, OneSettler, CallSettlesAlone
  <2>4. CallSettlesAlone'
    BY <2>1, <2>2, <2>3 DEF TypeOK, OutputType, OneSettler, CallSettlesAlone, Settling, SweepSettles
  <2>5. SweepSettlesAlone'
    BY <2>1, <2>2 DEF SweepSettlesAlone, SweepSettles
  <2>6. UndecidedIsBlank' /\ PendingIsLegal'
    BY <2>1, <2>2 DEF TypeOK, OutputType, OneSettler, UndecidedIsBlank, PendingIsLegal
  <2>7. Append(<<>>, "task.failed") = <<"task.failed">>
    OBVIOUS
  <2>8. Lifecycle!Announce(t)
    BY <2>1, <2>2, <2>7, OutcomeTables DEF Lifecycle!Announce, PayloadOf, EventOf
  <2> QED
    BY <2>1, <2>4, <2>5, <2>6, <2>8 DEF OneSettler, Implements, Lifecycle!Next
<1> QED
  BY <1>1, <1>2, <1>3, <1>4, <1>5 DEF SweepStep

LEMMA LifeCycleSettles ==
    ASSUME TypeOK, OneSettler, Start \/ StopPool \/ StopAwait \/ StopFinish \/ Crash
    PROVE  OneSettler' /\ Implements
<1> USE DEF table, chains, pool, Seen
<1>1. CASE Start \/ StopFinish
  BY <1>1, QuietStep DEF Start, StopFinish
<1>2. CASE StopPool
  <2>1. \A c \in calls' : Settling(c) => c \in calls
    BY <1>2, EnqueueQuiet DEF StopPool, CallKinds
  <2> QED
    BY <1>2, <2>1, QuietStep DEF StopPool
<1>3. CASE StopAwait
  <2> DEFINE Mark(c) == [c EXCEPT !.awaited = (c.task \in chained /\ c.chain = chain[c.task])]
  <2>1. \A c \in calls : /\ Mark(c).task = c.task /\ Mark(c).kind = c.kind
                         /\ Mark(c).pc = c.pc
    BY DEF TypeOK, CallsType, Calls
  <2>2. calls' = {Mark(c) : c \in calls} /\ UNCHANGED <<Seen, sweep, canceller, dispatcher>>
    BY <1>3 DEF StopAwait
  <2> HIDE DEF Mark
  <2>3. CallSettlesAlone'
    BY <2>1, <2>2 DEF OneSettler, CallSettlesAlone, Settling, SweepSettles
  <2>4. SweepSettlesAlone' /\ UndecidedIsBlank' /\ PendingIsLegal'
    BY <2>2 DEF OneSettler, SweepSettlesAlone, UndecidedIsBlank, PendingIsLegal, SweepSettles
  <2> QED
    BY <2>2, <2>3, <2>4 DEF OneSettler, Implements
<1>4. CASE Crash
  <2>1. CallSettlesAlone'
    BY <1>4 DEF Crash, CallSettlesAlone
  <2>2. SweepSettlesAlone'
    BY <1>4 DEF Crash, SweepSettlesAlone, SweepSettles, NoSweep
  <2>3. UndecidedIsBlank'
    BY <1>4 DEF Crash, OneSettler, UndecidedIsBlank
  <2>4. PendingIsLegal'
    BY <1>4 DEF Crash, TypeOK, ManagerType, OneSettler, PendingIsLegal, NoCancel
  <2> QED
    BY <1>4, <2>1, <2>2, <2>3, <2>4 DEF OneSettler, Implements, Crash
<1> QED
  BY <1>1, <1>2, <1>3, <1>4

LEMMA StepSettles ==
    ASSUME TypeOK, OneSettler, [Next]_vars
    PROVE  OneSettler' /\ Implements
<1>1. CASE UNCHANGED vars
  BY <1>1, QuietStep DEF vars, table, manager, Seen
<1> QED
  BY <1>1, TaskStepSettles, WorkerStepSettles, CallStepSettles, SweepStepSettles,
     LifeCycleSettles DEF Next

LEMMA InitSettles == Init => OneSettler /\ Lifecycle!Init
<1> SUFFICES ASSUME Init PROVE OneSettler /\ Lifecycle!Init
  OBVIOUS
<1>1. CallSettlesAlone /\ SweepSettlesAlone
  BY DEF Init, CallSettlesAlone, SweepSettlesAlone, SweepSettles, NoSweep
<1>2. UndecidedIsBlank /\ PendingIsLegal
  BY DEF Init, UndecidedIsBlank, PendingIsLegal, NoCancel
<1>3. Lifecycle!Init
  BY DEF Init, Lifecycle!Init
<1> QED
  BY <1>1, <1>2, <1>3 DEF OneSettler

\* The one that decides an outcome is the only one to record and announce it.
THEOREM OneSettlerHolds == Spec => []OneSettler
<1>1. TypeOK /\ OneSettler /\ [Next]_vars => OneSettler'
  BY StepSettles
<1> QED
  BY <1>1, InitSettles, TypeCorrect, PTL DEF Spec

\* What a client sees of every task is a behaviour of TaskLifecycle.
THEOREM LifecycleImplemented == Spec => ImplementsLifecycle
<1>1. TypeOK /\ OneSettler /\ [Next]_vars => [Lifecycle!Next]_Seen
  BY StepSettles DEF Implements
<1>2. [Lifecycle!Next]_Seen => [Lifecycle!Next]_(Lifecycle!vars)
  BY DEF Lifecycle!vars, Seen
<1> QED
  BY <1>1, <1>2, InitSettles, TypeCorrect, OneSettlerHolds, PTL
     DEF Spec, ImplementsLifecycle, Lifecycle!Spec

-----------------------------------------------------------------------------
(* The pool: where its tasks are, and who is left to finish them *)

Owned == QueuedTasks \union InFlight

\* A stopped pool holds nothing; the pool is up as long as the manager runs.
PoolFollowsManager ==
    /\ poolUp <=> mgr = "running"
    /\ ~poolUp => queue = <<>> /\ InFlight = {}

\* Whatever is waiting, executing or called back was dispatched, once.
DispatchedOnce ==
    /\ \A t \in Owned \union external : dispatcher[t] = "over"
    /\ \A c \in calls : dispatcher[c.task] = "over"

PoolIsConserved == PoolWorkConserving /\ PoolFollowsManager /\ DispatchedOnce

\* A callback that is about to settle its task has pushed it to running.
FinishIsStarted ==
    \A c \in calls : c.pc = "finish" => status[c.task] # "queued"

\* Progress callbacks do not count: the one that finishes the task is still
\* to come, from the pool, or is among the callbacks.
LiveIsOwed ==
    \A t \in Tasks :
        Kind[t] # "external" /\ entry[t] = "live" /\ status[t] \in {"queued", "running"} =>
            t \in Owned \/ \E c \in calls : c.task = t /\ c.kind # "progress"

\* Only a dispatched task has a live entry.
LiveIsDispatched == \A t \in Tasks : entry[t] = "live" => dispatcher[t] = "over"

\* A task at the end of the queue.
LEMMA QueueAppended ==
    ASSUME NEW t \in Tasks, queue \in Seq(Tasks), queue' = Append(queue, t)
    PROVE  /\ QueuedTasks' = QueuedTasks \union {t}
           /\ t \notin QueuedTasks /\ (\A i, j \in 1..Len(queue) : queue[i] = queue[j] => i = j)
                => \A i, j \in 1..Len(queue') : queue'[i] = queue'[j] => i = j
<1>1. Len(queue') = Len(queue) + 1 /\ queue'[Len(queue) + 1] = t
      /\ \A i \in 1..Len(queue) : queue'[i] = queue[i]
  OBVIOUS
<1>2. 1..Len(queue') = 1..Len(queue) \union {Len(queue) + 1} /\ Len(queue) \in Nat
  BY <1>1
<1>3. QueuedTasks' = QueuedTasks \union {t}
  BY <1>1, <1>2 DEF QueuedTasks
<1> QED
  BY <1>1, <1>2, <1>3 DEF QueuedTasks

\* The first task leaves the queue.
LEMMA QueueShifted ==
    ASSUME queue \in Seq(Tasks), queue # <<>>, queue' = Tail(queue)
    PROVE  /\ QueuedTasks = QueuedTasks' \union {Head(queue)}
           /\ (\A i, j \in 1..Len(queue) : queue[i] = queue[j] => i = j)
                => /\ Head(queue) \notin QueuedTasks'
                   /\ \A i, j \in 1..Len(queue') : queue'[i] = queue'[j] => i = j
<1>1. Len(queue) \in Nat /\ Len(queue) >= 1 /\ Len(queue') = Len(queue) - 1
      /\ Head(queue) = queue[1] /\ \A i \in 1..Len(queue') : queue'[i] = queue[i + 1]
  OBVIOUS
<1>2. \A i \in 1..Len(queue) : i = 1 \/ (i - 1 \in 1..Len(queue') /\ queue'[i - 1] = queue[i])
  BY <1>1
<1>3. \A i \in 1..Len(queue') : i + 1 \in 1..Len(queue) /\ i + 1 # 1
  BY <1>1
<1>4. 1 \in 1..Len(queue)
  BY <1>1
<1>5. QueuedTasks = QueuedTasks' \union {Head(queue)}
  <2>1. \A x \in QueuedTasks : x \in QueuedTasks' \union {Head(queue)}
    BY <1>1, <1>2 DEF QueuedTasks
  <2>2. \A x \in QueuedTasks' : x \in QueuedTasks
    BY <1>1, <1>3 DEF QueuedTasks
  <2>3. Head(queue) \in QueuedTasks
    BY <1>1, <1>4 DEF QueuedTasks
  <2> QED
    BY <2>1, <2>2, <2>3
<1>6. ASSUME \A i, j \in 1..Len(queue) : queue[i] = queue[j] => i = j
      PROVE  /\ Head(queue) \notin QueuedTasks'
             /\ \A i, j \in 1..Len(queue') : queue'[i] = queue'[j] => i = j
  <2>1. ASSUME NEW i \in 1..Len(queue') PROVE queue'[i] # Head(queue)
    BY <1>1, <1>3, <1>4, <1>6
  <2>2. ASSUME NEW i \in 1..Len(queue'), NEW j \in 1..Len(queue'), queue'[i] = queue'[j]
        PROVE  i = j
    <3>1. i + 1 = j + 1
      BY <1>1, <1>3, <1>6, <2>2
    <3> QED
      BY <3>1
  <2> QED
    BY <2>1, <2>2 DEF QueuedTasks
<1> QED
  BY <1>5, <1>6

\* A step that leaves the pool alone and calls back dispatched tasks only.
LEMMA PoolFrame ==
    ASSUME PoolIsConserved, UNCHANGED <<mgr, poolUp, alive, job, queue>>,
           \A t \in Tasks : dispatcher[t] = "over" => dispatcher'[t] = "over",
           Owned \union external \subseteq Tasks,
           \A t \in external' : t \in external \/ dispatcher'[t] = "over",
           \A c \in calls' : c.task \in Tasks
                             /\ (dispatcher[c.task] = "over" \/ dispatcher'[c.task] = "over")
    PROVE  PoolIsConserved'
<1>1. UNCHANGED <<Owned, QueuedTasks, InFlight, Idle>>
  BY DEF Owned, QueuedTasks, InFlight, Idle
<1>2. PoolWorkConserving' /\ PoolFollowsManager'
  BY <1>1 DEF PoolIsConserved, PoolWorkConserving, PoolFollowsManager
<1>3. DispatchedOnce'
  BY <1>1 DEF PoolIsConserved, DispatchedOnce
<1> QED
  BY <1>2, <1>3 DEF PoolIsConserved

\* A thread that lets go of its job takes the next one: nobody else's job moves.
LEMMA ReleaseConserves ==
    ASSUME TypeOK, PoolIsConserved, NEW w \in Workers, NEW threads \in SUBSET alive,
           alive \ {w} \subseteq threads, ReleaseAndPump(w, threads)
    PROVE  /\ PoolWorkConserving'
           /\ Owned' \subseteq Owned
           /\ Owned \subseteq Owned' \union {job[w]}
<1> DEFINE freed == [job EXCEPT ![w] = NoTask]
           free  == {v \in threads : freed[v] = NoTask}
<1>1. job \in [Workers -> Tasks \union {NoTask}] /\ queue \in Seq(Tasks) /\ alive \subseteq Workers
      /\ NoTask \notin Tasks
  BY NoTaskAssumption DEF TypeOK, PoolType
<1>2. \A v \in Workers : freed[v] = IF v = w THEN NoTask ELSE job[v]
  BY <1>1
<1>3. PoolWorkConserving /\ alive' = threads
  BY DEF PoolIsConserved, ReleaseAndPump
<1>4. queue # <<>> => free \subseteq {w}
  BY <1>1, <1>2, <1>3 DEF PoolWorkConserving, Idle
<1>5. ASSUME NEW v \in free, queue # <<>>, job' = [freed EXCEPT ![v] = Head(queue)],
             queue' = Tail(queue)
      PROVE  PoolWorkConserving' /\ Owned' \subseteq Owned /\ Owned \subseteq Owned' \union {job[w]}
  <2>1. v = w /\ Head(queue) \in Tasks
    BY <1>1, <1>4, <1>5
  <2>2. job' = [job EXCEPT ![w] = Head(queue)]
    BY <1>1, <1>5, <2>1
  <2>3. Head(queue) \in QueuedTasks /\ QueuedTasks = QueuedTasks' \union {Head(queue)}
        /\ Head(queue) \notin QueuedTasks'
        /\ \A i, j \in 1..Len(queue') : queue'[i] = queue'[j] => i = j
    BY <1>1, <1>3, <1>5, QueueShifted DEF PoolWorkConserving
  <2>4. \A u \in Workers : job'[u] = IF u = w THEN Head(queue) ELSE job[u]
    BY <1>1, <2>2
  <2>5. InFlight' \subseteq InFlight \union {Head(queue)}
    BY <2>4 DEF InFlight
  <2>6. InFlight \subseteq InFlight' \union {job[w]} /\ Head(queue) \in InFlight'
    BY <1>1, <2>1, <2>4 DEF InFlight
  <2>7. \A u \in Workers : job[u] # Head(queue)
    BY <1>1, <1>3, <2>1, <2>3 DEF PoolWorkConserving, InFlight
  <2>8. \A x, y \in Workers : job'[x] = job'[y] /\ job'[x] # NoTask => x = y
    BY <1>3, <2>4, <2>7 DEF PoolWorkConserving
  <2>9. QueuedTasks' \intersect InFlight' = {}
    BY <1>3, <2>3, <2>5 DEF PoolWorkConserving
  <2>10. Idle' = {}
    BY <1>1, <1>3, <1>4, <1>5, <2>1, <2>4 DEF Idle
  <2> QED
    BY <2>3, <2>5, <2>6, <2>8, <2>9, <2>10 DEF PoolWorkConserving, Owned
<1>6. ASSUME queue = <<>> \/ free = {}, job' = freed, UNCHANGED queue
      PROVE  PoolWorkConserving' /\ Owned' \subseteq Owned /\ Owned \subseteq Owned' \union {job[w]}
  <2>1. UNCHANGED QueuedTasks
    BY <1>6 DEF QueuedTasks
  <2>2. \A u \in Workers : job'[u] = IF u = w THEN NoTask ELSE job[u]
    BY <1>2, <1>6
  <2>3. InFlight' \subseteq InFlight /\ InFlight \subseteq InFlight' \union {job[w]}
    BY <2>2 DEF InFlight
  <2>4. \A x, y \in Workers : job'[x] = job'[y] /\ job'[x] # NoTask => x = y
    BY <1>3, <2>2 DEF PoolWorkConserving
  <2>5. Idle' = free
    BY <1>3, <1>6 DEF Idle
  <2> QED
    BY <1>3, <1>6, <2>1, <2>3, <2>4, <2>5 DEF PoolWorkConserving, Owned
<1> QED
  BY <1>5, <1>6 DEF ReleaseAndPump

\* What Enqueue adds to the callbacks: one of that kind for each task of S.
LEMMA EnqueueAdds ==
    ASSUME NEW S, NEW kind \in CallKinds, Enqueue(S, kind)
    PROVE  /\ calls \subseteq calls'
           /\ \A c \in calls' \ calls : c.task \in S /\ c.kind = kind /\ c.pc # "finish"
           /\ \A t \in S : \E c \in calls' : c.task = t /\ c.kind = kind
<1>1. \A t \in S : NewCall(t, kind).task = t /\ NewCall(t, kind).kind = kind
                   /\ NewCall(t, kind).pc # "finish"
  BY DEF NewCall, FirstPc, CallKinds
<1>2. calls' = calls \union {NewCall(t, kind) : t \in S}
  BY DEF Enqueue
<1> QED
  BY <1>1, <1>2

\* A task is dispatched once, so the pool does not know it yet.
LEMMA RunConserves ==
    ASSUME TypeOK, PoolIsConserved, NEW t \in Tasks, dispatcher[t] # "over",
           dispatcher' = [dispatcher EXCEPT ![t] = "over"], PoolRun(t),
           UNCHANGED <<mgr, external>>
    PROVE  /\ PoolIsConserved' /\ Owned \subseteq Owned'
           /\ calls \subseteq calls'
           /\ \A c \in calls' \ calls : c.pc # "finish"
           /\ t \in Owned' \/ \E c \in calls' : c.task = t /\ c.kind # "progress"
<1>1. /\ job \in [Workers -> Tasks \union {NoTask}] /\ queue \in Seq(Tasks) /\ NoTask \notin Tasks
      /\ alive \subseteq Workers /\ dispatcher \in [Tasks -> {"idle", "admitted", "created", "over"}]
      /\ Owned \union external \subseteq Tasks /\ \A c \in calls : c.task \in Tasks
  BY NoTaskAssumption
     DEF TypeOK, PoolType, ManagerType, ExtType, CallsType, Calls, Owned, QueuedTasks, InFlight
<1>2. t \notin Owned /\ t \notin external /\ \A c \in calls : c.task # t
  BY DEF PoolIsConserved, DispatchedOnce
<1>3. PoolWorkConserving /\ PoolFollowsManager
  BY DEF PoolIsConserved
<1>4. \A u \in Tasks : dispatcher'[u] = IF u = t THEN "over" ELSE dispatcher[u]
  BY <1>1
<1>5. CASE Enqueue({t}, "failed") /\ UNCHANGED pool
  <2>1. /\ calls \subseteq calls' /\ \A c \in calls' \ calls : c.task \in {t} /\ c.pc # "finish"
        /\ \E c \in calls' : c.task = t /\ c.kind = "failed"
    BY <1>5, EnqueueAdds DEF CallKinds
  <2>2. PoolIsConserved'
    BY <1>1, <1>4, <1>5, <2>1, PoolFrame DEF pool, PoolIsConserved, DispatchedOnce
  <2>3. UNCHANGED Owned
    BY <1>5 DEF pool, Owned, QueuedTasks, InFlight
  <2> QED
    BY <2>1, <2>2, <2>3
<1>6. ASSUME poolUp, UNCHANGED <<poolUp, alive, reported, calls, chains>>,
             NEW w \in Idle, job' = [job EXCEPT ![w] = t], UNCHANGED queue
      PROVE  PoolIsConserved' /\ Owned' = Owned \union {t}
  <2>1. w \in Workers /\ job[w] = NoTask /\ UNCHANGED QueuedTasks
    BY <1>1, <1>6 DEF Idle, QueuedTasks
  <2>2. \A u \in Workers : job'[u] = IF u = w THEN t ELSE job[u]
    BY <1>1, <1>6, <2>1
  <2>3. InFlight' = InFlight \union {t}
    BY <1>1, <2>1, <2>2 DEF InFlight
  <2>4. queue = <<>>
    BY <1>3, <1>6 DEF PoolWorkConserving
  <2>5. \A u, v \in Workers : job'[u] = job'[v] /\ job'[u] # NoTask => u = v
    BY <1>2, <1>3, <2>2 DEF PoolWorkConserving, Owned, InFlight
  <2>6. PoolWorkConserving'
    BY <1>3, <1>6, <2>1, <2>4, <2>5 DEF PoolWorkConserving, QueuedTasks
  <2>7. PoolFollowsManager'
    BY <1>3, <1>6 DEF PoolFollowsManager
  <2>8. DispatchedOnce'
    BY <1>1, <1>4, <1>6, <2>1, <2>3 DEF PoolIsConserved, DispatchedOnce, Owned
  <2> QED
    BY <2>1, <2>3, <2>6, <2>7, <2>8 DEF PoolIsConserved, Owned
<1>7. ASSUME poolUp, UNCHANGED <<poolUp, alive, reported, calls, chains>>,
             Idle = {}, queue' = Append(queue, t), UNCHANGED job
      PROVE  PoolIsConserved' /\ Owned' = Owned \union {t}
  <2>1. QueuedTasks' = QueuedTasks \union {t} /\ UNCHANGED <<InFlight, Idle>>
    BY <1>1, <1>7, QueueAppended DEF InFlight, Idle
  <2>2. \A i, j \in 1..Len(queue') : queue'[i] = queue'[j] => i = j
    BY <1>1, <1>2, <1>3, <1>7, QueueAppended DEF PoolWorkConserving, Owned
  <2>3. PoolWorkConserving'
    BY <1>2, <1>3, <1>7, <2>1, <2>2 DEF PoolWorkConserving, Owned
  <2>4. PoolFollowsManager'
    BY <1>3, <1>7 DEF PoolFollowsManager
  <2>5. DispatchedOnce'
    BY <1>1, <1>4, <1>7, <2>1 DEF PoolIsConserved, DispatchedOnce, Owned
  <2> QED
    BY <2>1, <2>3, <2>4, <2>5 DEF PoolIsConserved, Owned
<1> QED
  BY <1>5, <1>6, <1>7 DEF PoolRun

PoolInv == PoolIsConserved /\ FinishIsStarted /\ LiveIsOwed /\ LiveIsDispatched

\* The tasks and callbacks are where the types say.
LEMMA PoolTyped ==
    ASSUME TypeOK
    PROVE  /\ Owned \union external \subseteq Tasks /\ \A c \in calls : c.task \in Tasks
           /\ dispatcher \in [Tasks -> {"idle", "admitted", "created", "over"}]
           /\ status \in [Tasks -> Statuses]
           /\ entry \in [Tasks -> {"none", "live", "cancelled"}]
BY DEF TypeOK, TableType, PoolType, ManagerType, ExtType, CallsType, Calls, Owned, QueuedTasks,
       InFlight

\* A step that loses no job and no callback, revives no row and no entry.
LEMMA OwedFrame ==
    ASSUME TypeOK, PoolInv, Owned \subseteq Owned', calls \subseteq calls',
           \A c \in calls' \ calls : c.pc # "finish",
           \A t \in Tasks : status'[t] \in {"queued", "running"} =>
               \/ status[t] \in {"queued", "running"} /\ (status'[t] = "queued" => status[t] = "queued")
               \/ dispatcher[t] # "over",
           \A t \in Tasks : entry'[t] = "live" => entry[t] = "live",
           \A t \in Tasks : dispatcher[t] = "over" => dispatcher'[t] = "over"
    PROVE  FinishIsStarted' /\ LiveIsOwed' /\ LiveIsDispatched'
<1>1. \A c \in calls : c.task \in Tasks /\ dispatcher[c.task] = "over"
  BY PoolTyped DEF PoolInv, PoolIsConserved, DispatchedOnce
<1>2. FinishIsStarted'
  BY <1>1 DEF PoolInv, FinishIsStarted
<1>3. LiveIsOwed'
  BY DEF PoolInv, LiveIsOwed, LiveIsDispatched
<1>4. LiveIsDispatched'
  BY DEF PoolInv, LiveIsDispatched
<1> QED
  BY <1>2, <1>3, <1>4

LEMMA TaskStepPool ==
    ASSUME TypeOK, OneSettler, PoolInv, NEW t \in Tasks, TaskStep(t)
    PROVE  PoolInv'
<1> USE DEF table, manager, chains, pool, ext
<1>0. PoolIsConserved /\ Owned \union external \subseteq Tasks
      /\ \A c \in calls : c.task \in Tasks /\ dispatcher[c.task] = "over"
  BY PoolTyped DEF PoolInv, PoolIsConserved, DispatchedOnce
<1>1. CASE DispatchAdmit(t) \/ DispatchCreate(t)
  <2>1. \A u \in Tasks : dispatcher[u] = "over" => dispatcher'[u] = "over"
    BY <1>1, PoolTyped DEF DispatchAdmit, DispatchCreate
  <2>2. UNCHANGED <<mgr, poolUp, alive, job, queue, calls, external, entry>>
    BY <1>1 DEF DispatchAdmit, DispatchCreate
  <2>3. PoolIsConserved'
    BY <1>0, <2>1, <2>2, PoolFrame
  <2>4. \A u \in Tasks : status'[u] = status[u] \/ dispatcher[u] # "over"
    BY <1>1, PoolTyped DEF DispatchAdmit, DispatchCreate
  <2>5. UNCHANGED Owned
    BY <2>2 DEF Owned, QueuedTasks, InFlight
  <2> QED
    BY <2>1, <2>2, <2>3, <2>4, <2>5, OwedFrame DEF PoolInv
<1>2. CASE DispatchRun(t)
  <2>1. /\ dispatcher[t] = "created" /\ dispatcher' = [dispatcher EXCEPT ![t] = "over"]
        /\ entry' = [entry EXCEPT ![t] = "live"] /\ UNCHANGED <<mgr, status>>
    BY <1>2 DEF DispatchRun
  <2>2. \A u \in Tasks : dispatcher'[u] = IF u = t THEN "over" ELSE dispatcher[u]
    BY <2>1, PoolTyped
  <2>3. \A u \in Tasks : entry'[u] = IF u = t THEN "live" ELSE entry[u]
    BY <2>1, PoolTyped
  <2>4. CASE Kind[t] = "external"
    <3>1. /\ UNCHANGED <<poolUp, alive, job, queue>>
          /\ calls \subseteq calls'
          /\ \A c \in calls' \ calls : c.task = t /\ c.pc # "finish"
          /\ \A u \in external' : u \in external \/ u = t
      BY <1>2, <2>4, EnqueueAdds DEF DispatchRun, CallKinds
    <3>2. PoolIsConserved'
      BY <1>0, <2>1, <2>2, <3>1, PoolFrame
    <3>3. UNCHANGED Owned
      BY <3>1 DEF Owned, QueuedTasks, InFlight
    <3>4. FinishIsStarted'
      BY <2>1, <3>1 DEF PoolInv, FinishIsStarted
    <3>5. LiveIsOwed'
      BY <2>1, <2>3, <2>4, <3>1, <3>3 DEF PoolInv, LiveIsOwed
    <3>6. LiveIsDispatched'
      BY <2>2, <2>3 DEF PoolInv, LiveIsDispatched
    <3> QED
      BY <3>2, <3>4, <3>5, <3>6 DEF PoolInv
  <2>5. CASE Kind[t] # "external"
    <3>1. /\ PoolIsConserved' /\ Owned \subseteq Owned' /\ calls \subseteq calls'
          /\ \A c \in calls' \ calls : c.pc # "finish"
          /\ t \in Owned' \/ \E c \in calls' : c.task = t /\ c.kind # "progress"
      BY <1>0, <1>2, <2>1, <2>5, RunConserves DEF DispatchRun
    <3>2. FinishIsStarted'
      BY <2>1, <3>1 DEF PoolInv, FinishIsStarted
    <3>3. LiveIsOwed'
      BY <2>1, <2>3, <3>1 DEF PoolInv, LiveIsOwed
    <3>4. LiveIsDispatched'
      BY <2>2, <2>3 DEF PoolInv, LiveIsDispatched
    <3> QED
      BY <3>1, <3>2, <3>3, <3>4 DEF PoolInv
  <2> QED
    BY <2>4, <2>5
<1>3. CASE \/ CancelGet(t) \/ CancelTransition(t) \/ CancelMark(t) \/ CancelReturn(t)
           \/ TimePasses(t) \/ ExtLost(t)
  <2>1. UNCHANGED <<mgr, poolUp, alive, job, queue, calls, dispatcher>> /\ external' \subseteq external
    BY <1>3 DEF CancelGet, CancelTransition, CancelMark, CancelReturn, TimePasses, ExtLost
  <2>2. PoolIsConserved'
    BY <1>0, <2>1, PoolFrame
  <2>3. UNCHANGED Owned
    BY <2>1 DEF Owned, QueuedTasks, InFlight
  <2>4. \A u \in Tasks : status'[u] = status[u] \/ status'[u] = "cancelled"
    BY <1>3, PoolTyped DEF CancelGet, CancelTransition, CancelMark, CancelReturn, TimePasses,
                           ExtLost, Transition
  <2>5. \A u \in Tasks : entry'[u] = "live" => entry[u] = "live"
    BY <1>3, PoolTyped DEF CancelGet, CancelTransition, CancelMark, CancelReturn, TimePasses, ExtLost
  <2> QED
    BY <2>1, <2>2, <2>3, <2>4, <2>5, OwedFrame DEF PoolInv
<1>4. ASSUME NEW kind \in CallKinds, ExtMessage(t, kind) PROVE PoolInv'
  <2>1. /\ t \in external /\ UNCHANGED <<mgr, poolUp, alive, job, queue, dispatcher, external, status, entry>>
        /\ calls \subseteq calls'
        /\ \A c \in calls' \ calls : c.task = t /\ c.pc # "finish"
    BY <1>4, EnqueueAdds DEF ExtMessage
  <2>2. dispatcher[t] = "over"
    BY <2>1 DEF PoolInv, PoolIsConserved, DispatchedOnce
  <2>3. PoolIsConserved'
    BY <1>0, <2>1, <2>2, PoolFrame
  <2>4. UNCHANGED Owned
    BY <2>1 DEF Owned, QueuedTasks, InFlight
  <2> QED
    BY <2>1, <2>3, <2>4, OwedFrame DEF PoolInv
<1> QED
  BY <1>1, <1>2, <1>3, <1>4 DEF TaskStep, CallKinds

LEMMA WorkerStepPool ==
    ASSUME TypeOK, PoolInv, NEW w \in Workers, WorkerStep(w)
    PROVE  PoolInv'
<1> USE DEF table, manager, chains, pool, ext
<1>0. /\ PoolIsConserved /\ Owned \union external \subseteq Tasks
      /\ \A c \in calls : c.task \in Tasks /\ dispatcher[c.task] = "over"
      /\ \A t \in Owned : dispatcher[t] = "over"
      /\ (job[w] # NoTask => job[w] \in Owned)
  BY PoolTyped DEF PoolInv, PoolIsConserved, DispatchedOnce, Owned, InFlight
<1>1. CASE WorkerProgress(w)
  <2>1. /\ job[w] \in Owned
        /\ UNCHANGED <<mgr, poolUp, alive, job, queue, dispatcher, external, status, entry>>
        /\ calls \subseteq calls'
        /\ \A c \in calls' \ calls : c.task = job[w] /\ c.pc # "finish"
    BY <1>0, <1>1, EnqueueAdds DEF WorkerProgress, CallKinds
  <2>2. PoolIsConserved'
    BY <1>0, <2>1, PoolFrame
  <2>3. UNCHANGED Owned
    BY <2>1 DEF Owned, QueuedTasks, InFlight
  <2> QED
    BY <2>1, <2>2, <2>3, OwedFrame DEF PoolInv
<1>2. ASSUME NEW threads \in SUBSET alive, alive \ {w} \subseteq threads,
             ReleaseAndPump(w, threads),
             NEW kind \in {"done", "failed"}, Enqueue({job[w]} \ {NoTask}, kind),
             UNCHANGED <<mgr, dispatcher, external, status, entry>>
      PROVE  PoolInv'
  <2>1. PoolWorkConserving' /\ Owned' \subseteq Owned /\ Owned \subseteq Owned' \union {job[w]}
    BY <1>0, <1>2, ReleaseConserves
  <2>2. /\ calls \subseteq calls'
        /\ \A c \in calls' \ calls : c.task \in {job[w]} \ {NoTask} /\ c.kind = kind /\ c.pc # "finish"
        /\ \A t \in {job[w]} \ {NoTask} : \E c \in calls' : c.task = t /\ c.kind = kind
    BY <1>2, EnqueueAdds DEF CallKinds
  <2>3. PoolFollowsManager'
    <3>1. ~poolUp => Owned = {} /\ queue = <<>>
      BY <1>0 DEF PoolIsConserved, PoolFollowsManager, Owned, QueuedTasks
    <3>2. UNCHANGED <<mgr, poolUp>> /\ (queue = <<>> => queue' = <<>>)
      BY <1>2 DEF ReleaseAndPump
    <3> QED
      BY <1>0, <2>1, <3>1, <3>2 DEF PoolIsConserved, PoolFollowsManager, Owned
  <2>4. DispatchedOnce'
    BY <1>0, <1>2, <2>1, <2>2 DEF PoolIsConserved, DispatchedOnce
  <2>5. FinishIsStarted' /\ LiveIsDispatched'
    BY <1>2, <2>2 DEF PoolInv, FinishIsStarted, LiveIsDispatched
  <2>6. LiveIsOwed'
    <3>1. \A t \in Tasks : t \in Owned => t \in Owned' \/ \E c \in calls' : c.task = t /\ c.kind # "progress"
      BY <2>1, <2>2, NoTaskAssumption
    <3> QED
      BY <1>2, <2>2, <3>1 DEF PoolInv, LiveIsOwed
  <2> QED
    BY <2>1, <2>3, <2>4, <2>5, <2>6 DEF PoolInv, PoolIsConserved
<1>3. CASE WorkerDone(w)
  <2>1. {job[w]} \ {NoTask} = {job[w]}
    BY <1>3 DEF WorkerDone
  <2> QED
    BY <1>2, <1>3, <2>1 DEF WorkerDone
<1>4. CASE WorkerFailed(w)
  <2>1. {job[w]} \ {NoTask} = {job[w]}
    BY <1>4 DEF WorkerFailed
  <2> QED
    BY <1>2, <1>4, <2>1 DEF WorkerFailed
<1>5. CASE WorkerCrash(w)
  BY <1>2, <1>5 DEF WorkerCrash
<1> QED
  BY <1>1, <1>3, <1>4, <1>5 DEF WorkerStep

LEMMA CallStepPool ==
    ASSUME TypeOK, OneSettler, PoolInv, NEW c \in calls, CallStep(c)
    PROVE  PoolInv'
<1> USE DEF table, chains, pool, ext, HandlerFrame
<1>0. /\ PoolIsConserved /\ Owned \union external \subseteq Tasks
      /\ \A d \in calls : d.task \in Tasks /\ dispatcher[d.task] = "over"
  BY PoolTyped DEF PoolInv, PoolIsConserved, DispatchedOnce
<1>1. \A pc \in Pcs : [c EXCEPT !.pc = pc].pc = pc /\ [c EXCEPT !.pc = pc].task = c.task
                    /\ [c EXCEPT !.pc = pc].kind = c.kind
  BY DEF TypeOK, CallsType, Calls
<1>2. UNCHANGED <<mgr, poolUp, alive, job, queue, dispatcher, external>>
  BY DEF CallStep, CallCheck, CallGet, CallEnsureRunning, CallFinish, CallRecord,
         CallRecordThrows, CallSettle
<1>3. UNCHANGED Owned
  BY <1>2 DEF Owned, QueuedTasks, InFlight
<1>4. \A d \in calls' : d \in calls \/ (d.task = c.task /\ d.kind = c.kind)
  <2>1. (\E pc \in Pcs : Goto(c, pc)) \/ Return(c)
    BY DEF CallStep, CallCheck, CallGet, CallEnsureRunning, CallFinish, CallRecord,
           CallRecordThrows, CallSettle, Pcs
  <2>2. \A pc : Goto(c, pc) => \A d \in calls' : d \in calls \/ d = [c EXCEPT !.pc = pc]
    BY DEF Goto
  <2>3. Return(c) => \A d \in calls' : d \in calls
    BY DEF Return
  <2>4. ASSUME NEW d \in calls', d \notin calls, NEW pc \in Pcs, Goto(c, pc)
        PROVE  d.task = c.task /\ d.kind = c.kind
    <3>1. d = [c EXCEPT !.pc = pc]
      BY <2>2, <2>4
    <3> QED
      BY <1>1, <3>1
  <2> QED
    BY <2>1, <2>3, <2>4
<1>5. PoolIsConserved'
  BY <1>0, <1>2, <1>4, PoolFrame
<1>6. \A t \in Tasks : entry'[t] = "live" => entry[t] = "live"
  BY PoolTyped DEF CallStep, CallCheck, CallGet, CallEnsureRunning, CallFinish, CallRecord,
                   CallRecordThrows, CallSettle
<1>7. \A t \in Tasks : status'[t] \in {"queued", "running"} =>
          status[t] \in {"queued", "running"} /\ (status'[t] = "queued" => status[t] = "queued")
  <2>1. CASE CallEnsureRunning(c)
    BY <2>1, PoolTyped DEF CallEnsureRunning, Transition, Hits
  <2>2. CASE CallFinish(c)
    <3>1. c.kind \in {"done", "failed"}
      BY <2>2 DEF TypeOK, CallsType, Calls, ProgressPcs, CallFinish
    <3>2. OutcomeOf[c.kind] \in {"done", "failed"}
      BY <3>1 DEF OutcomeOf
    <3> QED
      BY <2>2, <3>2, PoolTyped DEF CallFinish, Transition, Hits
  <2>3. CASE CallCheck(c) \/ CallGet(c) \/ CallRecord(c) \/ CallRecordThrows(c) \/ CallSettle(c)
    BY <2>3 DEF CallCheck, CallGet, CallRecord, CallRecordThrows, CallSettle
  <2> QED
    BY <2>1, <2>2, <2>3 DEF CallStep
<1>8. FinishIsStarted'
  <2>1. ASSUME NEW d \in calls', d.pc = "finish", d \notin calls
        PROVE  status'[c.task] # "queued" /\ d.task = c.task
    <3>1. CallEnsureRunning(c)
      BY <1>1, <2>1 DEF CallStep, CallCheck, CallGet, CallFinish, CallRecord, CallRecordThrows,
                        CallSettle, Goto, Return, Pcs
    <3> QED
      BY <1>0, <1>4, <2>1, <3>1, PoolTyped DEF CallEnsureRunning, Transition, Hits
  <2> QED
    BY <1>0, <1>7, <2>1, PoolTyped DEF PoolInv, FinishIsStarted
<1>9. LiveIsOwed'
  <2>1. ASSUME entry'[c.task] = "live", status'[c.task] \in {"queued", "running"},
               c.kind # "progress"
        PROVE  \E d \in calls' : d.task = c.task /\ d.kind # "progress"
    <3>1. entry[c.task] = "live" /\ status[c.task] \in {"queued", "running"}
      BY <1>0, <1>6, <1>7, <2>1
    <3>2. ~Settling(c)
      BY <2>1, <3>1 DEF OneSettler, CallSettlesAlone, TypeOK, CallsType, Calls, OutcomeOf,
                        Settling
    <3>3. c.pc = "finish" => status[c.task] = "running"
      BY <3>1 DEF PoolInv, FinishIsStarted
    <3>4. CASE CallFinish(c)
      <4>1. OutcomeOf[c.kind] \in {"done", "failed"}
        BY <2>1 DEF OutcomeOf, TypeOK, CallsType, Calls
      <4> QED
        BY <1>0, <2>1, <3>3, <3>4, <4>1, PoolTyped DEF CallFinish, Transition, Hits
    <3>5. CASE CallCheck(c) \/ CallGet(c) \/ CallEnsureRunning(c)
      <4>1. \E pc \in Pcs : Goto(c, pc)
        BY <2>1, <3>1, <3>5 DEF CallCheck, CallGet, CallEnsureRunning, Pcs
      <4> QED
        BY <1>1, <2>1, <4>1 DEF Goto
    <3>6. CASE CallRecord(c) \/ CallRecordThrows(c) \/ CallSettle(c)
      BY <3>2, <3>6 DEF CallRecord, CallRecordThrows, CallSettle, Settling
    <3> QED
      BY <3>4, <3>5, <3>6 DEF CallStep
  <2>2. \A d \in calls : d # c => d \in calls'
    BY DEF CallStep, CallCheck, CallGet, CallEnsureRunning, CallFinish, CallRecord,
           CallRecordThrows, CallSettle, Goto, Return
  <2> QED
    BY <1>3, <1>6, <1>7, <2>1, <2>2 DEF PoolInv, LiveIsOwed
<1>10. LiveIsDispatched'
  BY <1>2, <1>6 DEF PoolInv, LiveIsDispatched
<1> QED
  BY <1>5, <1>8, <1>9, <1>10 DEF PoolInv

LEMMA SweepStepPool ==
    ASSUME TypeOK, PoolInv, SweepStep
    PROVE  PoolInv'
<1> USE DEF table, chains, pool, ext, SweepFrame
<1>0. /\ PoolIsConserved /\ Owned \union external \subseteq Tasks
      /\ \A c \in calls : c.task \in Tasks /\ dispatcher[c.task] = "over"
  BY PoolTyped DEF PoolInv, PoolIsConserved, DispatchedOnce
<1>1. UNCHANGED <<mgr, poolUp, alive, job, queue, dispatcher, external, calls>>
  BY DEF SweepStep, SweepList, SweepNext, SweepTransition, SweepRecord, SweepSettle, SweepEnd
<1>2. UNCHANGED Owned
  BY <1>1 DEF Owned, QueuedTasks, InFlight
<1>3. PoolIsConserved'
  BY <1>0, <1>1, PoolFrame
<1>4. \A t \in Tasks : status'[t] = status[t] \/ status'[t] = "failed"
  BY PoolTyped DEF SweepStep, SweepList, SweepNext, SweepTransition, SweepRecord, SweepSettle,
                   SweepEnd, Transition
<1>5. \A t \in Tasks : entry'[t] = "live" => entry[t] = "live"
  BY PoolTyped DEF SweepStep, SweepList, SweepNext, SweepTransition, SweepRecord, SweepSettle,
                   SweepEnd
<1> QED
  BY <1>1, <1>2, <1>3, <1>4, <1>5, OwedFrame DEF PoolInv

\* A pool that holds nothing.
LEMMA PoolEmptied ==
    ASSUME queue' = <<>>, job' = [w \in Workers |-> NoTask]
    PROVE  Owned' = {} /\ PoolWorkConserving'
<1>1. QueuedTasks' = {} /\ InFlight' = {}
  BY DEF QueuedTasks, InFlight
<1> QED
  BY <1>1 DEF Owned, PoolWorkConserving

LEMMA LifeCyclePool ==
    ASSUME TypeOK, PoolInv, Start \/ StopPool \/ StopAwait \/ StopFinish \/ Crash
    PROVE  PoolInv'
<1> USE DEF table, chains, pool, ext
<1>0. /\ PoolIsConserved /\ Owned \union external \subseteq Tasks
      /\ \A c \in calls : c.task \in Tasks /\ dispatcher[c.task] = "over"
      /\ \A t \in Owned \union external : dispatcher[t] = "over"
  BY PoolTyped DEF PoolInv, PoolIsConserved, DispatchedOnce
<1>1. CASE Start
  <2>1. queue = <<>> /\ InFlight = {} /\ UNCHANGED <<queue, job, calls, status, entry, dispatcher, external>>
    BY <1>0, <1>1 DEF Start, PoolIsConserved, PoolFollowsManager
  <2>2. UNCHANGED <<QueuedTasks, InFlight, Owned>>
    BY <2>1 DEF QueuedTasks, InFlight, Owned
  <2>3. PoolWorkConserving'
    BY <1>0, <2>1, <2>2 DEF PoolIsConserved, PoolWorkConserving
  <2>4. PoolFollowsManager'
    BY <1>1 DEF Start, PoolFollowsManager
  <2>5. DispatchedOnce'
    BY <1>0, <2>1, <2>2 DEF DispatchedOnce
  <2> QED
    BY <1>0, <2>1, <2>2, <2>3, <2>4, <2>5, OwedFrame DEF PoolInv, PoolIsConserved
<1>2. CASE StopPool
  <2>1. /\ calls \subseteq calls'
        /\ \A c \in calls' \ calls : c.task \in Owned /\ c.pc # "finish"
        /\ \A t \in Owned : \E c \in calls' : c.task = t /\ c.kind = "failed"
    BY <1>2, EnqueueAdds DEF StopPool, CallKinds, Owned
  <2>2. UNCHANGED <<entry, dispatcher, status, external>> /\ mgr' = "terminating" /\ poolUp' = FALSE
        /\ queue' = <<>> /\ job' = [w \in Workers |-> NoTask]
    BY <1>2 DEF StopPool
  <2>3. Owned' = {} /\ PoolWorkConserving'
    BY <2>2, PoolEmptied
  <2>4. PoolFollowsManager'
    BY <2>2, <2>3 DEF PoolFollowsManager, Owned
  <2>5. DispatchedOnce'
    BY <1>0, <2>1, <2>2, <2>3 DEF DispatchedOnce
  <2>6. FinishIsStarted' /\ LiveIsDispatched'
    BY <2>1, <2>2 DEF PoolInv, FinishIsStarted, LiveIsDispatched
  <2>7. LiveIsOwed'
    BY <2>1, <2>2 DEF PoolInv, LiveIsOwed
  <2> QED
    BY <2>3, <2>4, <2>5, <2>6, <2>7 DEF PoolInv, PoolIsConserved
<1>3. CASE StopAwait
  <2> DEFINE Mark(c) == [c EXCEPT !.awaited = (c.task \in chained /\ c.chain = chain[c.task])]
  <2>1. \A c \in calls : /\ Mark(c).task = c.task /\ Mark(c).kind = c.kind
                         /\ Mark(c).pc = c.pc
    BY DEF TypeOK, CallsType, Calls
  <2>2. calls' = {Mark(c) : c \in calls} /\ mgr = "terminating" /\ mgr' = "draining"
        /\ UNCHANGED <<poolUp, alive, job, queue, dispatcher, external, status, entry>>
    BY <1>3 DEF StopAwait
  <2> HIDE DEF Mark
  <2>3. UNCHANGED <<Owned, QueuedTasks, InFlight, Idle>>
    BY <2>2 DEF Owned, QueuedTasks, InFlight, Idle
  <2>4. PoolIsConserved'
    BY <1>0, <2>1, <2>2, <2>3
       DEF PoolIsConserved, PoolWorkConserving, PoolFollowsManager, DispatchedOnce
  <2>5. FinishIsStarted' /\ LiveIsDispatched'
    BY <2>1, <2>2 DEF PoolInv, FinishIsStarted, LiveIsDispatched
  <2>6. LiveIsOwed'
    BY <2>1, <2>2, <2>3 DEF PoolInv, LiveIsOwed
  <2> QED
    BY <2>4, <2>5, <2>6 DEF PoolInv
<1>4. CASE StopFinish
  <2>1. mgr = "draining" /\ mgr' = "stopped" /\ entry' = [t \in Tasks |-> "none"]
        /\ UNCHANGED <<poolUp, alive, job, queue, dispatcher, external, status, calls>>
    BY <1>4 DEF StopFinish
  <2>2. UNCHANGED <<Owned, QueuedTasks, InFlight, Idle>>
    BY <2>1 DEF Owned, QueuedTasks, InFlight, Idle
  <2>3. PoolIsConserved'
    BY <1>0, <2>1, <2>2
       DEF PoolIsConserved, PoolWorkConserving, PoolFollowsManager, DispatchedOnce
  <2>4. FinishIsStarted' /\ LiveIsDispatched' /\ LiveIsOwed'
    BY <2>1 DEF PoolInv, FinishIsStarted, LiveIsDispatched, LiveIsOwed
  <2> QED
    BY <2>3, <2>4 DEF PoolInv
<1>5. CASE Crash
  <2>1. Owned' = {} /\ PoolWorkConserving' /\ mgr' = "stopped" /\ poolUp' = FALSE /\ queue' = <<>>
        /\ external' = {} /\ calls' = {} /\ entry' = [t \in Tasks |-> "none"]
    BY <1>5, PoolEmptied DEF Crash
  <2>2. PoolIsConserved'
    BY <2>1 DEF PoolIsConserved, PoolFollowsManager, DispatchedOnce, Owned
  <2>3. FinishIsStarted' /\ LiveIsDispatched' /\ LiveIsOwed'
    BY <2>1 DEF FinishIsStarted, LiveIsDispatched, LiveIsOwed
  <2> QED
    BY <2>2, <2>3 DEF PoolInv
<1> QED
  BY <1>1, <1>2, <1>3, <1>4, <1>5

LEMMA InitPool == Init => PoolInv
<1> SUFFICES ASSUME Init PROVE PoolInv
  OBVIOUS
<1>1. QueuedTasks = {} /\ InFlight = {}
  BY DEF Init, QueuedTasks, InFlight
<1>2. PoolIsConserved
  BY <1>1 DEF Init, PoolIsConserved, PoolWorkConserving, PoolFollowsManager, DispatchedOnce, Owned
<1>3. FinishIsStarted /\ LiveIsOwed /\ LiveIsDispatched
  BY DEF Init, FinishIsStarted, LiveIsOwed, LiveIsDispatched
<1> QED
  BY <1>2, <1>3 DEF PoolInv

LEMMA StepPool ==
    ASSUME TypeOK, OneSettler, PoolInv, [Next]_vars
    PROVE  PoolInv'
<1>1. CASE UNCHANGED vars
  <2>1. UNCHANGED <<Owned, QueuedTasks, InFlight, Idle>>
    BY <1>1 DEF vars, pool, Owned, QueuedTasks, InFlight, Idle
  <2>2. PoolIsConserved'
    BY <1>1, <2>1 DEF vars, table, manager, chains, pool, ext, PoolInv, PoolIsConserved,
                      PoolWorkConserving, PoolFollowsManager, DispatchedOnce
  <2>3. FinishIsStarted' /\ LiveIsOwed' /\ LiveIsDispatched'
    BY <1>1, <2>1 DEF vars, table, manager, PoolInv, FinishIsStarted, LiveIsOwed, LiveIsDispatched
  <2> QED
    BY <2>2, <2>3 DEF PoolInv
<1> QED
  BY <1>1, TaskStepPool, WorkerStepPool, CallStepPool, SweepStepPool, LifeCyclePool DEF Next

\* The inductive invariant of the pool and of what it owes the manager.
THEOREM PoolInvHolds == Spec => []PoolInv
<1>1. TypeOK /\ OneSettler /\ PoolInv /\ [Next]_vars => PoolInv'
  BY StepPool
<1> QED
  BY <1>1, InitPool, TypeCorrect, OneSettlerHolds, PTL DEF Spec

\* A task the pool owns is in one place, and no thread idles while a job waits.
THEOREM PoolConserves == Spec => []PoolWorkConserving
<1>1. PoolInv => PoolWorkConserving
  BY DEF PoolInv, PoolIsConserved
<1> QED
  BY <1>1, PoolInvHolds, PTL

\* A live pool task whose row is not final has someone left to finish it.
THEOREM NoOrphanHolds == Spec => []NoOrphan
<1>1. PoolInv => NoOrphan
  BY DEF PoolInv, LiveIsOwed, NoOrphan, Owned, PendingOf
<1> QED
  BY <1>1, PoolInvHolds, PTL
=============================================================================
