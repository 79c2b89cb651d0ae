----------------------------- MODULE Subagents ------------------------------
(***************************************************************************)
(* SubagentManager (src/kernel/agents/manager.ts): a tree of LLM agents    *)
(* run under a global concurrency limit, with a persistent waiting list.   *)
(*                                                                         *)
(* Three kinds of activity interleave at every await of a store call: the  *)
(* critical section (#lockChain: spawn and pump, one at a time, FIFO), the *)
(* per-agent event chains (#chains: runner events, timeouts and cancels,   *)
(* one at a time per agent, in arrival order), and sweepTimeouts, which is *)
(* on neither.  One action is one store call and the code after it up to   *)
(* the next await.                                                         *)
(***************************************************************************)
EXTENDS Naturals, Sequences, FiniteSets

CONSTANTS
    N,              \* bound: number of agents that can ever be created
    Main,           \* the root of the tree, not an agent
    MaxConcurrent,  \* maxConcurrent
    MaxChildren,    \* maxChildrenPerParent
    MaxDepth,       \* maxDepth
    Cancellable,    \* bound: the agents that some client cancels
    Callers,        \* bound: the agents, or Main, that call spawn
    MaxRequests,    \* bound: spawn calls
    MaxSweeps,      \* bound: sweepTimeouts calls
    MaxRestarts     \* bound: restarts of the process

\* Agents are numbered in the order of created_at (made strictly increasing
\* by #lastSpawnMs).
Agents == 1..N

ASSUME MainAssumption == Main \notin Agents
ASSUME LimitsAssumption ==
    /\ N \in Nat /\ MaxConcurrent \in Nat \ {0} /\ MaxChildren \in Nat /\ MaxDepth \in Nat
    /\ Cancellable \subseteq Agents /\ Callers \subseteq Agents \union {Main}
    /\ MaxRequests \in Nat /\ MaxSweeps \in Nat /\ MaxRestarts \in Nat

VARIABLES
    (* the subagents table *)
    created,    \* rows inserted so far
    status,     \* "none" before the row exists
    parent,
    overdue,    \* the running rows whose startedAt + timeoutMs has passed
    (* memory of the manager *)
    registered, \* #running: controller and timer of the agents being run
    timers,     \* the agents whose timer has not fired
    runner,     \* "off", "live" or "aborted": the execution of deps.runner
    events,     \* events[a]: the chain of a, a FIFO of steps
    step,       \* progress of the step at the head of events[a]
    lock,       \* #lockChain, a FIFO of critical sections
    cs,         \* progress of the critical section at the head of lock
    sweep,      \* progress of sweepTimeouts
    (* observations and bounds *)
    runs,       \* runs[a]: times deps.runner was called for a
    notices,    \* notices[a]: notifications sent for a
    requests, sweeps, restarts

table   == <<created, status, parent, overdue>>
runtime == <<registered, timers, runner>>
chains  == <<events, step>>
section == <<lock, cs>>
bounds  == <<requests, sweeps, restarts>>
vars    == <<table, runtime, chains, section, sweep, runs, notices, bounds>>

Terminal == {"done", "failed", "cancelled"}
Statuses == {"none", "queued", "running"} \union Terminal
Rows     == 1..created
With(st) == {a \in Agents : status[a] = st}

NoStep    == [pc |-> "idle", from |-> "none"]
NoSection == [pc |-> "idle", slots |-> 0, todo |-> {}]
NoSweep   == [pc |-> "idle", todo |-> {}]
Pump      == [kind |-> "pump", parent |-> Main]

Init ==
    /\ created    = 0
    /\ status     = [a \in Agents |-> "none"]
    /\ parent     = [a \in Agents |-> Main]
    /\ overdue    = {}
    /\ registered = {}
    /\ timers     = {}
    /\ runner     = [a \in Agents |-> "off"]
    /\ events     = [a \in Agents |-> <<>>]
    /\ step       = [a \in Agents |-> NoStep]
    /\ lock       = <<>>
    /\ cs         = NoSection
    /\ sweep      = NoSweep
    /\ runs       = [a \in Agents |-> 0]
    /\ notices    = [a \in Agents |-> 0]
    /\ requests   = 0
    /\ sweeps     = 0
    /\ restarts   = 0

-----------------------------------------------------------------------------
(* Running an agent *)

\* #execute: register the controller and the timer, call deps.runner.
Execute(a) ==
    /\ registered' = registered \union {a}
    /\ timers' = timers \union {a}
    /\ runner' = [runner EXCEPT ![a] = "live"]
    /\ runs' = [runs EXCEPT ![a] = @ + 1]

\* Slip: the timer and the registration survive.
AbortOnly(a) ==
    /\ runner' = [runner EXCEPT ![a] = IF @ = "live" THEN "aborted" ELSE @]
    /\ UNCHANGED <<registered, timers>>

\* #teardownRuntime: nothing for an agent that is not registered.
Teardown(a) ==
    /\ registered' = registered \ {a}
    /\ timers' = timers \ {a}
    /\ runner' = [runner EXCEPT ![a] = IF a \in registered /\ @ = "live" THEN "aborted" ELSE @]

\* The runner ends by itself or because it was aborted, and says how.
RunnerEnds(a) ==
    /\ runner[a] # "off"
    /\ runner' = [runner EXCEPT ![a] = "off"]
    /\ \E kind \in {"done", "error"} : events' = [events EXCEPT ![a] = Append(@, kind)]
    /\ UNCHANGED <<table, registered, timers, step, section, sweep, runs, notices, bounds>>

TimePasses(a) ==
    /\ status[a] = "running" /\ a \notin overdue
    /\ overdue' = overdue \union {a}
    /\ UNCHANGED <<created, status, parent, runtime, chains, section, sweep, runs, notices, bounds>>

\* Slip: the timeout reaches the runner only.
TimerAborts(a) ==
    /\ a \in timers \intersect overdue
    /\ timers' = timers \ {a}
    /\ runner' = [runner EXCEPT ![a] = IF @ = "live" THEN "aborted" ELSE @]
    /\ UNCHANGED <<table, registered, chains, section, sweep, runs, notices, bounds>>

\* #onTimeout
TimerFires(a) ==
    /\ a \in timers \intersect overdue
    /\ timers' = timers \ {a}
    /\ events' = [events EXCEPT ![a] = Append(@, "error")]
    /\ UNCHANGED <<table, registered, runner, step, section, sweep, runs, notices, bounds>>

-----------------------------------------------------------------------------
(* The event chain of one agent: #handleEvent and #cancelInChain *)

Cancel(a) ==
    /\ a \in Cancellable \intersect Rows
    /\ \A i \in 1..Len(events[a]) : events[a][i] # "cancel"
    /\ events' = [events EXCEPT ![a] = Append(@, "cancel")]
    /\ UNCHANGED <<table, runtime, step, section, sweep, runs, notices, bounds>>

EndStep(a) ==
    /\ events' = [events EXCEPT ![a] = Tail(@)]
    /\ step' = [step EXCEPT ![a] = NoStep]

\* Slip: a late event is not dropped.
AcceptsAny(kind) == Statuses \ {"none"}

Accepts(kind) == IF kind = "cancel" THEN {"queued", "running"} ELSE {"running"}

\* store.get and the check of the status it returned.
StepGet(a) ==
    /\ events[a] # <<>> /\ step[a].pc = "idle"
    /\ IF status[a] \in Accepts(Head(events[a]))
         THEN /\ step' = [step EXCEPT ![a] = [pc |-> "update", from |-> status[a]]]
              /\ UNCHANGED events
         ELSE EndStep(a)
    /\ UNCHANGED <<table, runtime, section, sweep, runs, notices, bounds>>

Outcome == [done |-> "done", error |-> "failed", cancel |-> "cancelled"]

\* #schedulePump: the pump takes its turn in the critical section.
SchedulePump == lock' = Append(lock, Pump)

\* store.update: unconditional.  A cancel ends here and pumps only if it
\* believes it freed a slot; an outcome is notified first.
StepUpdate(a) ==
    LET kind == Head(events[a]) IN
    /\ step[a].pc = "update"
    /\ status' = [status EXCEPT ![a] = Outcome[kind]]
    /\ overdue' = overdue \ {a}
    /\ Teardown(a)
    /\ IF kind = "cancel"
         THEN /\ EndStep(a)
              /\ IF step[a].from = "running" THEN SchedulePump ELSE UNCHANGED lock
         ELSE /\ step' = [step EXCEPT ![a].pc = "notify"]
              /\ UNCHANGED <<events, lock>>
    /\ UNCHANGED <<created, parent, cs, sweep, runs, notices, bounds>>

\* Slip: the freed slot is not handed on.
NotifyOnly(a) ==
    /\ step[a].pc = "notify"
    /\ notices' = [notices EXCEPT ![a] = @ + 1]
    /\ EndStep(a)
    /\ UNCHANGED <<table, runtime, section, sweep, runs, bounds>>

\* #notifySafely returned; the slot is given to a waiting agent.
StepNotify(a) ==
    /\ step[a].pc = "notify"
    /\ notices' = [notices EXCEPT ![a] = @ + 1]
    /\ EndStep(a)
    /\ SchedulePump
    /\ UNCHANGED <<table, runtime, cs, sweep, runs, bounds>>

-----------------------------------------------------------------------------
(* The critical section: spawn *)

\* Leave the critical section; the next one in the FIFO starts.
Leave == lock' = Tail(lock) /\ cs' = NoSection

Spawn(p) ==
    /\ requests < MaxRequests
    /\ requests' = requests + 1
    /\ lock' = Append(lock, [kind |-> "spawn", parent |-> p])
    /\ UNCHANGED <<table, runtime, chains, cs, sweep, runs, notices, sweeps, restarts>>

\* UpIn(par)[n][q]: the length of the chain of parents above q, looked up for n
\* steps; n + 1 stands for "longer".
UpIn(par) ==
    LET up[n \in 0..MaxDepth] ==
            [q \in Agents \union {Main} |->
                IF q = Main THEN 0 ELSE IF n = 0 THEN 1 ELSE 1 + up[n - 1][par[q]]]
    IN  up

Depth(p) == UpIn(parent)[MaxDepth][p]

Children(p) == {a \in Rows : parent[a] = p}

\* Slip: the children are not counted.
DepthOnly(p) == (p \in Rows /\ Depth(p) < MaxDepth) \/ p = Main

TreeAllows(p) ==
    /\ p = Main \/ (p \in Rows /\ Depth(p) < MaxDepth)
    /\ Cardinality(Children(p)) < MaxChildren

\* Slip: a limit one too high.
FreeSlotsOffByOne == MaxConcurrent + 1 - Cardinality(With("running"))

\* store.list({status: 'running'}) against maxConcurrent (0 when exceeded).
FreeSlots ==
    IF Cardinality(With("running")) >= MaxConcurrent THEN 0
    ELSE MaxConcurrent - Cardinality(With("running"))

\* The checks of the tree and the count of the running rows.  Rows are inserted
\* only inside this section and never deleted, so the reads of the parent and
\* of its children are taken together with the count.
SpawnCount ==
    /\ lock # <<>> /\ cs.pc = "idle" /\ Head(lock).kind = "spawn"
    /\ IF TreeAllows(Head(lock).parent) /\ created < N
         THEN cs' = [cs EXCEPT !.pc = "create", !.slots = FreeSlots] /\ UNCHANGED lock
         ELSE Leave
    /\ UNCHANGED <<table, runtime, chains, sweep, runs, notices, bounds>>

SpawnCreate ==
    LET a == created + 1 IN
    /\ cs.pc = "create"
    /\ created' = a
    /\ parent' = [parent EXCEPT ![a] = Head(lock).parent]
    /\ IF cs.slots > 0
         THEN status' = [status EXCEPT ![a] = "running"] /\ Execute(a)
         ELSE status' = [status EXCEPT ![a] = "queued"] /\ UNCHANGED <<runtime, runs>>
    /\ Leave
    /\ UNCHANGED <<overdue, chains, sweep, notices, bounds>>

(* The critical section: pump *)

PumpCount ==
    /\ lock # <<>> /\ cs.pc = "idle" /\ Head(lock).kind = "pump"
    /\ IF FreeSlots = 0
         THEN Leave
         ELSE cs' = [cs EXCEPT !.pc = "list", !.slots = FreeSlots] /\ UNCHANGED lock
    /\ UNCHANGED <<table, runtime, chains, sweep, runs, notices, bounds>>

\* The loop over the snapshot of the waiting list.
PumpNext(slots, todo) ==
    IF slots = 0 \/ todo = {}
      THEN Leave
      ELSE cs' = [pc |-> "get", slots |-> slots, todo |-> todo] /\ UNCHANGED lock

PumpList ==
    /\ cs.pc = "list"
    /\ PumpNext(cs.slots, With("queued"))
    /\ UNCHANGED <<table, runtime, chains, sweep, runs, notices, bounds>>

\* Slip: newest first.
Newest(a, todo) == a \in todo /\ \A b \in todo : b <= a

Oldest(a, todo) == a \in todo /\ \A b \in todo : a <= b

\* store.get again: the entry of the snapshot may have been cancelled.
PumpGet(a) ==
    /\ cs.pc = "get" /\ Oldest(a, cs.todo)
    /\ IF status[a] = "queued"
         THEN cs' = [cs EXCEPT !.pc = "start"] /\ UNCHANGED lock
         ELSE PumpNext(cs.slots, cs.todo \ {a})
    /\ UNCHANGED <<table, runtime, chains, sweep, runs, notices, bounds>>

\* Slip: the slot is not taken.
PumpStartKeepSlot(a) ==
    /\ cs.pc = "start" /\ Oldest(a, cs.todo)
    /\ status' = [status EXCEPT ![a] = "running"]
    /\ Execute(a)
    /\ PumpNext(cs.slots, cs.todo \ {a})
    /\ UNCHANGED <<created, parent, overdue, chains, sweep, notices, bounds>>

\* store.update: unconditional, and the agent runs.
PumpStart(a) ==
    /\ cs.pc = "start" /\ Oldest(a, cs.todo)
    /\ status' = [status EXCEPT ![a] = "running"]
    /\ Execute(a)
    /\ PumpNext(cs.slots - 1, cs.todo \ {a})
    /\ UNCHANGED <<created, parent, overdue, chains, sweep, notices, bounds>>

-----------------------------------------------------------------------------
(* sweepTimeouts: on neither chain.  Nothing in src/ calls it on a timer.   *)

SweepList ==
    /\ sweeps < MaxSweeps /\ sweep.pc = "idle"
    /\ sweeps' = sweeps + 1
    /\ LET late == With("running") \intersect overdue IN
       sweep' = IF late = {} THEN NoSweep ELSE [pc |-> "update", todo |-> late]
    /\ UNCHANGED <<table, runtime, chains, section, runs, notices, requests, restarts>>

SweepUpdate(a) ==
    /\ sweep.pc = "update" /\ Oldest(a, sweep.todo)
    /\ status' = [status EXCEPT ![a] = "failed"]
    /\ overdue' = overdue \ {a}
    /\ Teardown(a)
    /\ sweep' = [sweep EXCEPT !.pc = "notify"]
    /\ UNCHANGED <<created, parent, chains, section, runs, notices, bounds>>

SweepNotify(a) ==
    /\ sweep.pc = "notify" /\ Oldest(a, sweep.todo)
    /\ notices' = [notices EXCEPT ![a] = @ + 1]
    /\ LET rest == sweep.todo \ {a} IN
       IF rest = {} THEN sweep' = NoSweep /\ SchedulePump
       ELSE sweep' = [pc |-> "update", todo |-> rest] /\ UNCHANGED lock
    /\ UNCHANGED <<table, runtime, chains, cs, runs, bounds>>

-----------------------------------------------------------------------------
\* The process stops at any point and starts again: only the table survives.
Restart ==
    /\ restarts < MaxRestarts
    /\ restarts' = restarts + 1
    /\ registered' = {} /\ timers' = {}
    /\ runner' = [a \in Agents |-> "off"]
    /\ events' = [a \in Agents |-> <<>>]
    /\ step' = [a \in Agents |-> NoStep]
    /\ lock' = <<>> /\ cs' = NoSection
    /\ sweep' = NoSweep
    /\ UNCHANGED <<table, runs, notices, requests, sweeps>>

ChainStep(a)   == StepGet(a) \/ StepUpdate(a) \/ StepNotify(a)
SpawnStep      == SpawnCount \/ SpawnCreate
PumpStep       == PumpCount \/ PumpList \/ \E a \in Agents : PumpGet(a) \/ PumpStart(a)
SweepStep      == \E a \in Agents : SweepUpdate(a) \/ SweepNotify(a)

Next ==
    \/ \E p \in Callers : Spawn(p)
    \/ \E a \in Agents :
         \/ Cancel(a) \/ RunnerEnds(a) \/ TimePasses(a) \/ TimerFires(a) \/ ChainStep(a)
    \/ SpawnStep
    \/ PumpStep
    \/ SweepList
    \/ SweepStep
    \/ Restart

Spec == Init /\ [][Next]_vars

(* Time passes, timers fire and promises that can continue do.  Clients,    *)
(* the runner (it may block on a child) and a sweep owe nothing.            *)
Fairness ==
    /\ \A a \in Agents : WF_vars(TimePasses(a)) /\ WF_vars(TimerFires(a)) /\ WF_vars(ChainStep(a))
    /\ WF_vars(SpawnStep) /\ WF_vars(PumpStep) /\ WF_vars(SweepStep)

LiveSpec == Spec /\ Fairness

-----------------------------------------------------------------------------
(* Properties *)

TableOK ==
    /\ created \in 0..N
    /\ status \in [Agents -> Statuses]
    /\ \A a \in Agents : a \in Rows <=> status[a] # "none"
    /\ parent \in [Agents -> Agents \union {Main}]
    /\ overdue \subseteq With("running")

RuntimeOK ==
    /\ registered \subseteq Agents /\ timers \subseteq registered
    /\ runner \in [Agents -> {"off", "live", "aborted"}]

ChainsOK ==
    /\ events \in [Agents -> Seq({"done", "error", "cancel"})]
    /\ step \in [Agents -> [pc : {"idle", "update", "notify"}, from : {"none", "queued", "running"}]]
    /\ \A a \in Agents : step[a].pc # "idle" => events[a] # <<>>

SectionOK ==
    /\ lock \in Seq([kind : {"spawn", "pump"}, parent : Agents \union {Main}])
    /\ cs \in [pc : {"idle", "create", "list", "get", "start"},
              slots : 0..MaxConcurrent, todo : SUBSET Agents]
    /\ cs.pc # "idle" => lock # <<>>
    /\ cs.pc = "create" => created < N
    /\ cs.pc \in {"get", "start"} => cs.slots > 0

SweepOK == sweep \in [pc : {"idle", "update", "notify"}, todo : SUBSET Agents]

\* Activities work on rows that exist.
RefersOK ==
    /\ \A a \in Agents : step[a].pc # "idle" => a \in Rows
    /\ cs.todo \subseteq Rows
    /\ sweep.todo \subseteq Rows

CountsOK ==
    /\ runs \in [Agents -> Nat] /\ notices \in [Agents -> Nat]
    /\ requests \in Nat /\ sweeps \in Nat /\ restarts \in Nat

\* The shape of the state: the progress of an activity fits its queue, and only
\* a running row can be overdue.
TypeOK == TableOK /\ RuntimeOK /\ ChainsOK /\ SectionOK /\ SweepOK /\ RefersOK /\ CountsOK

\* Never more rows run than maxConcurrent: between the count of the running
\* rows and the rows started from it, events, cancels, sweeps and a restart
\* come and go, and no other start does.
WithinCapacity == Cardinality(With("running")) <= MaxConcurrent

\* The tree keeps its limits when spawns of one parent, or of a parent that
\* is being cancelled, arrive together.  (A child of the root is let in without
\* a look at maxDepth: manager.ts:276.)
TreeBounds ==
    /\ \A a \in Rows : parent[a] = Main \/ Depth(a) <= MaxDepth
    /\ \A p \in Rows \union {Main} : Cardinality(Children(p)) <= MaxChildren

\* The memory of the manager and the table agree at every await: a row that is
\* not running has neither controller nor live runner, and a running row of
\* this process has a controller, so a cancel or a timeout reaches its runner.
SlotsAccounted ==
    /\ registered \subseteq With("running")
    /\ restarts = 0 => With("running") \subseteq registered
    /\ \A a \in Agents : runner[a] = "live" => a \in registered

\* The first outcome of an executed agent stands: timer, runner and cancel
\* race, and the ones that come later change nothing.  (Until somebody calls
\* sweepTimeouts: it is not on the chain of the agent it fails, and each may
\* overwrite the outcome of the other.)
OutcomeIsFinal ==
    [][sweeps = 0 =>
          \A a \in Agents : runs[a] > 0 /\ status[a] \in Terminal => status'[a] = status[a]]_vars

\* An agent that waited starts only when no older one still waits.
PumpIsFifo ==
    [][\A a \in Rows : status[a] # "running" /\ status'[a] = "running" =>
          \A b \in Agents : b < a => status[b] # "queued"]_vars

\* A waiting agent starts (nobody cancels, the process stays up).
QueueDrains == \A a \in Agents : status[a] = "queued" ~> status[a] # "queued"

\* A running agent ends, whatever its runner does.
RunningEnds == \A a \in Agents : status[a] = "running" ~> status[a] \in Terminal

\* What the code says of a cancel: a waiting agent that was cancelled is not
\* started any more.
CancelledStaysCancelled ==
    [][\A a \in Agents : status[a] = "cancelled" => status'[a] = "cancelled"]_vars

=============================================================================
