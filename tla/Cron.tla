-------------------------------- MODULE Cron --------------------------------
(***************************************************************************)
(* The cron scheduler (src/kernel/cron/scheduler.ts) over its store        *)
(* (store.ts): one timer for all jobs, ticks that may wait for the store,  *)
(* fires in flight, and what extensions and the API ask for meanwhile.     *)
(*                                                                         *)
(* The database has one connection: store calls queue up and are carried   *)
(* out in order, each together with the code that was waiting for it.      *)
(* Time counts in units of the finest expression; a job comes round every  *)
(* Period[j] units.  Requests come once start() is over, every expression  *)
(* has a next run, and the store does not fail.                            *)
(***************************************************************************)
EXTENDS Integers, SequencesExt

CONSTANTS
    N,            \* the jobs are 1..N, in the order of their creation
    Old,          \* those that an earlier process has left in the store
    Period,       \* expr
    QueueJobs,    \* overlap = 'queue', else 'skip'
    RunOnceJobs,  \* misfire = 'runOnce', else 'skip'
    MaxDelay,     \* the longest delay that setTimeout takes
    MaxTime, MaxRequests, MaxRestarts  \* bounds

Jobs == 1..N

ASSUME JobsAssumption ==
    /\ N \in Nat /\ Old \subseteq Jobs /\ Period \in [Jobs -> Nat \ {0}]
    /\ QueueJobs \subseteq Jobs /\ RunOnceJobs \subseteq Jobs
ASSUME CronBounds ==
    MaxDelay \in Nat /\ MaxTime \in Nat /\ MaxRequests \in Nat /\ MaxRestarts \in Nat

VARIABLES
    now,      \* the clock
    rows,     \* table cron_jobs: a function on the jobs it holds
    used,     \* the ids given out
    (* the scheduler *)
    phase,    \* "down", "starting", "up" (#started) or "stopped"
    mem,      \* #jobs
    timer,    \* when #timer goes off, as a set of at most one time
    tick,     \* the tick in progress: what is left of its list, #tickQueued
    fire,     \* fire[j]: "none", "touch" or "run" (#running)
    queued,   \* #queued
    calls,    \* store calls under way, oldest first
    (* history *)
    rounds,   \* rounds[j]: the times for which the clock has fired j
    stalled,  \* a tick has had to wait for the store
    requests, restarts  \* bounds

scheduler == <<phase, mem, timer, tick, fire, queued, calls>>
cronVars == <<now, rows, used, scheduler, rounds, stalled, requests, restarts>>

NoTick == [pc |-> "idle", todo |-> <<>>, at |-> 0, again |-> FALSE]
None   == <<>>

CronInit ==
    /\ now      = 0
    /\ rows     = [j \in Old |-> [enabled |-> TRUE, nextRun |-> Period[j]]]
    /\ used     = Old
    /\ phase    = "down"
    /\ mem      = None
    /\ timer    = {}
    /\ tick     = NoTick
    /\ fire     = [j \in Jobs |-> "none"]
    /\ queued   = {}
    /\ calls    = <<>>
    /\ rounds   = [j \in Jobs |-> <<>>]
    /\ stalled  = FALSE
    /\ requests = 0
    /\ restarts = 0

TimePasses ==
    /\ now < MaxTime
    /\ now' = now + 1
    /\ UNCHANGED <<rows, used, scheduler, rounds, stalled, requests, restarts>>

-----------------------------------------------------------------------------
(* Helpers *)

\* nextCronRun: the first time of the job that is later than t.
NextRun(j, t) == t - (t % Period[j]) + Period[j]

Has(m, j)     == j \in DOMAIN m
Enabled(m, j) == Has(m, j) /\ m[j].enabled
Put(m, j, nextRun) ==
    [k \in DOMAIN m |-> IF k = j THEN [m[k] EXCEPT !.nextRun = nextRun] ELSE m[k]]
With(m, j, record) == [k \in DOMAIN m \union {j} |-> IF k = j THEN record ELSE m[k]]
Without(m, j)      == [k \in DOMAIN m \ {j} |-> m[k]]

\* #rearm: one timer for the nearest run.  setTimeout goes off at once when the
\* delay does not fit.
Armed(m) ==
    {m[j].nextRun : j \in {k \in DOMAIN m : /\ m[k].enabled
                           /\ \A i \in DOMAIN m : m[i].enabled => m[k].nextRun <= m[i].nextRun}}
Timer(m) == {IF t - now > MaxDelay THEN now ELSE t : t \in Armed(m)}

Rearm(m) == timer' = IF phase = "up" THEN Timer(m) ELSE timer

\* executeFire up to touchRun; round is the time it is for, or -1 for runNow.
Touch(j, round) == [op |-> "touch", job |-> j, next |-> NextRun(j, now), round |-> round]

Advance(j, t, by) == [op |-> "advance", job |-> j, next |-> NextRun(j, t), by |-> by]

Call(c) == calls' = Append(calls, c)

\* The numbers of a set in their order.
Ascending(S) == CHOOSE q \in SetToSeqs(S) : \A i, k \in DOMAIN q : i < k => q[i] < q[k]

-----------------------------------------------------------------------------
(* Start and stop *)

\* start: store.list(), then by each job's misfire policy what was missed.
Start ==
    /\ phase = "down"
    /\ phase' = "starting"
    /\ mem' = rows
    /\ LET missed == Ascending({j \in DOMAIN rows : rows[j].enabled /\ rows[j].nextRun < now})
           Late(j) == IF j \in RunOnceJobs THEN Touch(j, rows[j].nextRun) ELSE Advance(j, now, "start")
       IN calls' = [i \in DOMAIN missed |-> Late(missed[i])]
    /\ fire' = [j \in Jobs |-> IF \E i \in DOMAIN calls' : calls'[i].job = j /\ calls'[i].op = "touch"
                               THEN "touch" ELSE "none"]
    /\ UNCHANGED <<now, rows, used, timer, tick, queued, rounds, stalled, requests, restarts>>

Started ==
    /\ phase = "starting"
    /\ \A i \in DOMAIN calls : calls[i].op # "advance"
    /\ phase' = "up"
    /\ timer' = Timer(mem)
    /\ UNCHANGED <<now, rows, used, mem, tick, fire, queued, calls, rounds, stalled, requests, restarts>>

\* stop, at shutdown: what is in flight goes on until the process ends.
Stop ==
    /\ phase = "up"
    /\ restarts < MaxRestarts
    /\ phase' = "stopped"
    /\ timer' = {}
    /\ UNCHANGED <<now, rows, used, mem, tick, fire, queued, calls, rounds, stalled, requests, restarts>>

\* The process ends, after stop or without.
ProcessEnds ==
    /\ phase # "down" /\ restarts < MaxRestarts
    /\ restarts' = restarts + 1
    /\ phase' = "down" /\ mem' = None /\ timer' = {} /\ tick' = NoTick
    /\ fire' = [j \in Jobs |-> "none"] /\ queued' = {} /\ calls' = <<>>
    /\ UNCHANGED <<now, rows, used, rounds, stalled, requests>>

-----------------------------------------------------------------------------
(* The clock *)

Earlier(a, b) == a.round < b.round \/ (a.round = b.round /\ a.job < b.job)

DueJobs(m) == {[job |-> j, round |-> m[j].nextRun] : j \in {k \in DOMAIN m : m[k].enabled /\ m[k].nextRun <= now}}

\* The jobs that are due, as they are when the tick looks, in the order of their times.
Due(m) == CHOOSE q \in SetToSeqs(DueJobs(m)) : \A i, k \in DOMAIN q : i < k => Earlier(q[i], q[k])

Skips(e) == fire[e.job] # "none" /\ e.job \notin QueueJobs

\* A tick fires what is due up to the first job whose turn it has to skip: it
\* waits for the store to put that one off.  A queue job in flight is left to
\* its end.
TickOn(todo, at, again, waiting) ==
    LET skip == SelectInSeq(todo, Skips)
        free     == Ascending({i \in 1..(IF skip = 0 THEN Len(todo) ELSE skip - 1) : fire[todo[i].job] = "none"})
        touches  == [i \in DOMAIN free |-> Touch(todo[free[i]].job, todo[free[i]].round)]
    IN  /\ fire' = [j \in Jobs |-> IF \E i \in DOMAIN touches : touches[i].job = j THEN "touch" ELSE fire[j]]
        /\ IF skip = 0
             THEN /\ calls' = waiting \o touches
                  /\ tick' = IF again THEN [NoTick EXCEPT !.pc = "again"] ELSE NoTick
                  /\ UNCHANGED stalled
             ELSE /\ calls' = waiting \o touches \o <<Advance(todo[skip].job, at, "tick")>>
                  /\ tick' = [pc |-> "wait", todo |-> SubSeq(todo, skip + 1, Len(todo)), at |-> at, again |-> again]
                  /\ stalled' = TRUE

\* The timer goes off; a tick in progress is asked for another round.
TimerFires ==
    /\ \E t \in timer : t <= now
    /\ timer' = {}
    /\ IF tick.pc # "idle"
         THEN tick' = [tick EXCEPT !.again = TRUE] /\ UNCHANGED <<fire, calls, stalled>>
         ELSE TickOn(Due(mem), now, FALSE, calls)
    /\ UNCHANGED <<now, rows, used, phase, mem, queued, rounds, requests, restarts>>

TickAgain ==
    /\ tick.pc = "again"
    /\ TickOn(Due(mem), now, FALSE, calls)
    /\ UNCHANGED <<now, rows, used, phase, mem, timer, queued, rounds, requests, restarts>>

\* Slip: only a job that runs again is looked after.
FireEndsOnly(j) ==
    /\ fire[j] = "run"
    /\ fire' = [fire EXCEPT ![j] = "none"]
    /\ queued' = queued \ {j}
    /\ UNCHANGED <<now, rows, used, phase, mem, timer, tick, calls, rounds, stalled, requests, restarts>>

\* onFire ends, well or not, and afterFire looks whether the job is due again.
FireEnds(j) ==
    /\ fire[j] = "run"
    /\ LET due == Enabled(mem, j) /\ mem[j].nextRun <= now
       IN  IF Enabled(mem, j) /\ j \in QueueJobs /\ (j \in queued \/ due)
             THEN /\ fire' = [fire EXCEPT ![j] = "touch"]
                  /\ Call(Touch(j, IF due THEN mem[j].nextRun ELSE -1))
                  /\ UNCHANGED timer
             ELSE /\ fire' = [fire EXCEPT ![j] = "none"]
                  /\ Rearm(mem)
                  /\ UNCHANGED calls
    /\ queued' = queued \ {j}
    /\ UNCHANGED <<now, rows, used, phase, mem, tick, rounds, stalled, requests, restarts>>

-----------------------------------------------------------------------------
(* Requests *)

Asked ==
    /\ phase \in {"up", "stopped"} /\ requests < MaxRequests
    /\ requests' = requests + 1
    /\ UNCHANGED <<now, rows, phase, mem, timer, tick, rounds, stalled, restarts>>

Schedule(j) ==
    /\ Asked
    /\ j \notin used
    /\ used' = used \union {j}
    /\ Call([op |-> "create", job |-> j, next |-> NextRun(j, now)])
    /\ UNCHANGED <<fire, queued>>

Unschedule(j) ==
    /\ Asked
    /\ j \in used
    /\ Call([op |-> "delete", job |-> j])
    /\ UNCHANGED <<used, fire, queued>>

SetEnabled(j, on) ==
    /\ Asked
    /\ j \in used
    /\ Call([op |-> "find", job |-> j, on |-> on])
    /\ UNCHANGED <<used, fire, queued>>

\* A new expression has its next run worked out at once.
Update(j) ==
    /\ Asked
    /\ Has(mem, j)
    /\ Call([op |-> "patch", job |-> j, next |-> NextRun(j, now)])
    /\ UNCHANGED <<used, fire, queued>>

\* Slip: every job in flight is queued.
RunNowQueues(j) ==
    /\ Asked
    /\ Has(mem, j) /\ fire[j] # "none"
    /\ queued' = queued \union {j}
    /\ UNCHANGED <<used, fire, calls>>

RunNow(j) ==
    /\ Asked
    /\ Has(mem, j)
    /\ IF fire[j] # "none"
         THEN /\ queued' = IF j \in QueueJobs THEN queued \union {j} ELSE queued
              /\ UNCHANGED <<fire, calls>>
         ELSE /\ fire' = [fire EXCEPT ![j] = "touch"]
              /\ Call(Touch(j, -1))
              /\ UNCHANGED queued
    /\ UNCHANGED used

-----------------------------------------------------------------------------
(* The store calls *)

Oldest == calls[1]
Pending(op) == calls # <<>> /\ Oldest.op = op
CallServed == calls' = Tail(calls)
Then(c) == calls' = Append(Tail(calls), c)

CreateDone ==
    /\ Pending("create")
    /\ LET record == [enabled |-> TRUE, nextRun |-> Oldest.next]
       IN  /\ rows' = With(rows, Oldest.job, record)
           /\ mem'  = With(mem, Oldest.job, record)
           /\ Rearm(mem')
    /\ CallServed
    /\ UNCHANGED <<now, used, phase, tick, fire, queued, rounds, stalled, requests, restarts>>

DeleteDone ==
    /\ Pending("delete")
    /\ IF Has(rows, Oldest.job)
         THEN /\ rows' = Without(rows, Oldest.job)
              /\ mem' = Without(mem, Oldest.job)
              /\ queued' = queued \ {Oldest.job}
              /\ Rearm(mem')
         ELSE UNCHANGED <<rows, mem, queued, timer>>
    /\ CallServed
    /\ UNCHANGED <<now, used, phase, tick, fire, rounds, stalled, requests, restarts>>

\* store.setEnabled looks for the row, writes it and reads it back.
FindDone ==
    /\ Pending("find")
    /\ IF Has(rows, Oldest.job) THEN Then([Oldest EXCEPT !.op = "flag"]) ELSE CallServed
    /\ UNCHANGED <<now, rows, used, phase, mem, timer, tick, fire, queued, rounds, stalled, requests, restarts>>

FlagDone ==
    /\ Pending("flag")
    /\ rows' = [k \in DOMAIN rows |-> IF k = Oldest.job THEN [rows[k] EXCEPT !.enabled = Oldest.on] ELSE rows[k]]
    /\ Then([op |-> "read", job |-> Oldest.job, enable |-> Oldest.on])
    /\ UNCHANGED <<now, used, phase, mem, timer, tick, fire, queued, rounds, stalled, requests, restarts>>

\* store.update writes the row and reads it back.
PatchDone ==
    /\ Pending("patch")
    /\ rows' = Put(rows, Oldest.job, Oldest.next)
    /\ Then([op |-> "read", job |-> Oldest.job, enable |-> FALSE])
    /\ UNCHANGED <<now, used, phase, mem, timer, tick, fire, queued, rounds, stalled, requests, restarts>>

\* The record read back goes to memory; enabling looks for a missed run.
ReadDone ==
    /\ Pending("read")
    /\ LET j == Oldest.job
           missed == /\ Oldest.enable /\ Enabled(rows, j) /\ phase = "up"
                     /\ fire[j] = "none" /\ rows[j].nextRun < now
       IN  /\ mem' = IF Has(rows, j) THEN With(mem, j, rows[j]) ELSE mem
           /\ IF missed /\ j \in RunOnceJobs
                THEN fire' = [fire EXCEPT ![j] = "touch"] /\ Then(Touch(j, rows[j].nextRun))
                ELSE UNCHANGED fire /\ IF missed THEN Then(Advance(j, now, "enable")) ELSE CallServed
           /\ IF Has(rows, j) /\ ~(missed /\ j \notin RunOnceJobs) THEN Rearm(mem') ELSE UNCHANGED timer
    /\ UNCHANGED <<now, rows, used, phase, tick, queued, rounds, stalled, requests, restarts>>

\* touchRun of a fire, then onFire.  The round is over before onFire begins.
TouchDone ==
    /\ Pending("touch")
    /\ rows' = Put(rows, Oldest.job, Oldest.next)
    /\ mem'  = Put(mem, Oldest.job, Oldest.next)
    /\ fire' = [fire EXCEPT ![Oldest.job] = "run"]
    /\ rounds' = IF Oldest.round = -1 THEN rounds
                 ELSE [rounds EXCEPT ![Oldest.job] = Append(@, Oldest.round)]
    /\ CallServed
    /\ UNCHANGED <<now, used, phase, timer, tick, queued, stalled, requests, restarts>>

\* touchRun of a run that is put off; the caller goes on.
AdvanceDone ==
    /\ Pending("advance")
    /\ rows' = Put(rows, Oldest.job, Oldest.next)
    /\ mem'  = Put(mem, Oldest.job, Oldest.next)
    /\ IF Oldest.by = "tick" THEN TickOn(tick.todo, tick.at, tick.again, Tail(calls))
                             ELSE CallServed /\ UNCHANGED <<tick, fire, stalled>>
    /\ IF Oldest.by = "enable" THEN Rearm(mem') ELSE UNCHANGED timer
    /\ UNCHANGED <<now, used, phase, queued, rounds, requests, restarts>>

StoreStep ==
    CreateDone \/ DeleteDone \/ FindDone \/ FlagDone \/ PatchDone \/ ReadDone \/ TouchDone \/ AdvanceDone

CronNext ==
    \/ TimePasses
    \/ Start \/ Started \/ Stop \/ ProcessEnds
    \/ TimerFires \/ TickAgain
    \/ StoreStep
    \/ \E j \in Jobs :
         \/ FireEnds(j)
         \/ Schedule(j) \/ Unschedule(j) \/ Update(j) \/ RunNow(j)
         \/ \E on \in BOOLEAN : SetEnabled(j, on)

CronSpec == CronInit /\ [][CronNext]_cronVars

-----------------------------------------------------------------------------
(* Properties *)

Records == [enabled : BOOLEAN, nextRun : Nat]

CronTypeOK ==
    /\ now \in 0..MaxTime
    /\ used \subseteq Jobs
    /\ DOMAIN rows \subseteq used /\ \A j \in DOMAIN rows : rows[j] \in Records
    /\ DOMAIN mem \subseteq used /\ \A j \in DOMAIN mem : mem[j] \in Records
    /\ phase \in {"down", "starting", "up", "stopped"}
    /\ timer \subseteq Nat /\ \A s, t \in timer : s = t
    /\ tick.pc \in {"idle", "wait", "again"}
    /\ fire \in [Jobs -> {"none", "touch", "run"}]
    /\ queued \subseteq QueueJobs

\* When no store call is under way the scheduler plans with what the store holds.
MemoryMirrorsStore == phase \in {"up", "stopped"} /\ calls = <<>> => mem = rows

\* The timer stands for the nearest run of all: while the scheduler runs, an
\* enabled job has something that will look at it, which is a timer, a tick, a
\* fire in flight or a call under way.
NoLostTimer ==
    phase = "up" /\ (\E j \in DOMAIN mem : mem[j].enabled) =>
        timer # {} \/ tick.pc # "idle" \/ calls # <<>> \/ \E j \in Jobs : fire[j] # "none"

\* ... as long as no tick has waited for the store: while it does, a fire that
\* ends sets the timer for the very run that the tick is about to put off.
StaysAwake == ~stalled => NoLostTimer

\* No round of a job is fired twice, across ticks, restarts and requests, as
\* long as no tick has waited: one that has goes on with a list that is old.
FiresOnce ==
    ~stalled => \A j \in Jobs : \A i \in 2..Len(rounds[j]) : rounds[j][i - 1] < rounds[j][i]

\* What the scheduler plans with, waits for and fires agrees with what the store holds.
CronInStep == MemoryMirrorsStore /\ StaysAwake /\ FiresOnce

=============================================================================
