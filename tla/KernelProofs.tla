----------------------------- MODULE KernelProofs -----------------------------
(***************************************************************************)
(* Proofs about the kernel as the host of extensions and of its services:  *)
(* with any extensions and dependencies and any number of crashes, loads   *)
(* and requests, the table, the memory of the manager, the routes and the  *)
(* worker agree whenever all has settled; and with any providers and       *)
(* callers of boot, abort and shutdown, nothing outlives the stop and      *)
(* everything is stopped in the order of the list.                         *)
(***************************************************************************)
EXTENDS ExtHost, Lifecycle, CountingTheorems, SequenceTheorems

-----------------------------------------------------------------------------
(* ExtHost: the invariant.  It says how far each extension is: whoever has it  *)
(* - the holder of its lock, or the crash handler, which is alone with the     *)
(* pool while it works - says which of row, memory and routes are already      *)
(* written; what nobody has agrees.  A step of an operation touches its own    *)
(* extension only (OperationStep); the other steps are those of the handler,   *)
(* of requests and of crashes.  The invariant holds as long as nothing that    *)
(* the property excludes has happened (Calm).                                  *)

\* Who has an operation of an extension under way holds its lock.
LocksHeld ==
    \A a \in Actors : job[a].pc # "idle" =>
        /\ job[a].ext \in Exts
        /\ a \in Exts => job[a].ext = a /\ lock[a] # <<>>

\* Nothing that the properties exclude has happened, and the manager is not being stopped.
Calm == ~disturbed /\ ~stopping

\* The crash handler and the spawn of a new worker are alone, and so is the handler's activation.
Alone ==
    /\ restart.pc # "idle" \/ respawn # {} => \A e \in Exts : lock[e] = <<>>
    /\ respawn # {} => /\ restart.pc = "idle" /\ running = {} /\ ~tripped
                       /\ \E e \in Exts : respawn = {e}
    /\ job[Restart].pc # "idle" => restart.pc = "enable" /\ job[Restart].ext \notin restart.todo

\* The one worker that runs is that of the bridge; when there is none, which phase this is.
OneWorker ==
    /\ running \subseteq {bridge}
    /\ running # {} => ~dead /\ ~tripped /\ restart.pc \in {"idle", "enable"}
    /\ exitQueued => restart.pc = "enable" /\ running = {}
    /\ restart.pc = "enable" => bridge # 0 /\ ~tripped /\ (exitQueued \/ running # {})
    /\ restart.pc \in {"tear", "backoff"} => ~tripped

\* Without a worker and a handler at work, nothing is on; the handler sees to what was.
NothingOn ==
    /\ restart.pc = "idle" /\ running = {} =>
         /\ \A e \in Exts : ~row[e] /\ activeOn[e] = 0 /\ e \notin routes
         /\ \A e \in Exts : job[e].pc \notin {"commit", "row"}
    /\ restart.pc \in {"tear", "trip", "backoff"} => \A e \in Exts : row[e] => e \in restart.todo
    /\ restart.pc = "tear" => \A e \in Exts :
         (activeOn[e] # 0 => e \in restart.tear) /\ (e \in routes => e \in restart.pool)
    /\ restart.pc \in {"trip", "backoff"} => \A e \in Exts : activeOn[e] = 0 /\ e \notin routes

\* How far the operation that has extension e is; off: the handler has not come to it yet.
At(e) ==
    IF restart.pc = "idle" THEN job[e].pc
    ELSE IF job[Restart].pc # "idle" /\ job[Restart].ext = e THEN job[Restart].pc
    ELSE IF e \in restart.todo THEN "off" ELSE "idle"

\* What no operation has in hand agrees; what one has is not active, and has routes just
\* before its row is written.
Agrees(e)   == row[e] = (activeOn[e] # 0) /\ (e \in routes) = (activeOn[e] # 0)
Wired ==
    restart.pc \in {"idle", "enable"} => \A e \in Exts :
        IF At(e) = "idle" THEN Agrees(e)
        ELSE activeOn[e] = 0 /\ (e \in routes) = (At(e) = "row")

\* What is active, or about to be, is loaded in the worker of the bridge.
InWorker ==
    /\ \A e \in Exts : activeOn[e] # 0 =>
         activeOn[e] = bridge /\ (bridge \in running => e \in loaded[bridge])
    /\ \A a \in Actors : job[a].pc \in {"load", "commit", "row"} => job[a].on = bridge /\ bridge # 0
    /\ \A a \in Actors : job[a].pc \in {"commit", "row"} /\ bridge \in running =>
         job[a].ext \in loaded[bridge]

Tidy == Alone /\ OneWorker /\ NothingOn /\ Wired /\ InWorker

HostInv == HostTypeOK /\ LocksHeld /\ (Calm => Tidy)

-----------------------------------------------------------------------------
(* ExtHost: types and locks *)

Pcs == {"idle", "load", "commit", "row", "fail", "unload", "off"}
JobType == [pc : Pcs, ext : Actors, on : 0..spawned, before : SUBSET Exts, reload : BOOLEAN]

LEMMA Distinct == Restart \in Actors /\ Exts \subseteq Actors /\ \A a \in Actors : a \in Exts \/ a = Restart
BY DEF Actors

LEMMA NoJobFields ==
    /\ NoJob.pc = "idle" /\ NoJob.ext = Restart /\ NoJob.on = 0 /\ NoJob.before = {}
    /\ NoJob.reload = FALSE /\ (spawned \in Nat => NoJob \in JobType)
<1>1. /\ NoJob.pc = "idle" /\ NoJob.ext = Restart /\ NoJob.on = 0 /\ NoJob.before = {}
      /\ NoJob.reload = FALSE
  BY DEF NoJob
<1>2. spawned \in Nat => NoJob \in JobType
  BY Distinct DEF NoJob, JobType, Pcs
<1> QED
  BY <1>1, <1>2

\* One field of a job, or several.
LEMMA JobWithPc ==
    ASSUME NEW r \in JobType, NEW p \in Pcs
    PROVE  [r EXCEPT !.pc = p] =
                [pc |-> p, ext |-> r.ext, on |-> r.on, before |-> r.before, reload |-> r.reload]
BY DEF JobType

LEMMA JobWithExt ==
    ASSUME NEW r \in JobType, NEW x \in Actors
    PROVE  [r EXCEPT !.ext = x] =
                [pc |-> r.pc, ext |-> x, on |-> r.on, before |-> r.before, reload |-> r.reload]
BY DEF JobType

LEMMA JobWithOn ==
    ASSUME NEW r \in JobType, NEW n \in 0..spawned
    PROVE  [r EXCEPT !.on = n] =
                [pc |-> r.pc, ext |-> r.ext, on |-> n, before |-> r.before, reload |-> r.reload]
BY DEF JobType

LEMMA JobWithBefore ==
    ASSUME NEW r \in JobType, NEW b \in SUBSET Exts
    PROVE  [r EXCEPT !.before = b] =
                [pc |-> r.pc, ext |-> r.ext, on |-> r.on, before |-> b, reload |-> r.reload]
BY DEF JobType

LEMMA JobWithReload ==
    ASSUME NEW r \in JobType, NEW l
    PROVE  [r EXCEPT !.reload = l] =
                [pc |-> r.pc, ext |-> r.ext, on |-> r.on, before |-> r.before, reload |-> l]
BY DEF JobType

LEMMA JobIs ==
    ASSUME NEW p \in Pcs, NEW x \in Actors, NEW n \in 0..spawned, NEW b \in SUBSET Exts, NEW l \in BOOLEAN
    PROVE  [pc |-> p, ext |-> x, on |-> n, before |-> b, reload |-> l] \in JobType
BY DEF JobType

LEMMA JobHas ==
    ASSUME NEW r \in JobType
    PROVE  /\ r.pc \in Pcs /\ r.ext \in Actors /\ r.on \in 0..spawned /\ r.before \in SUBSET Exts
           /\ r.reload \in BOOLEAN
BY DEF JobType

\* The job of one that starts with extension e.
LEMMA Starts ==
    ASSUME spawned \in Nat, NEW p \in Pcs, NEW e \in Actors, NEW n \in 0..spawned
    PROVE  /\ [NoJob EXCEPT !.pc = p, !.ext = e] =
                [pc |-> p, ext |-> e, on |-> 0, before |-> {}, reload |-> FALSE]
           /\ [NoJob EXCEPT !.pc = p, !.ext = e, !.on = n] =
                [pc |-> p, ext |-> e, on |-> n, before |-> {}, reload |-> FALSE]
<1>0. NoJob \in JobType /\ 0 \in 0..spawned /\ {} \in SUBSET Exts /\ FALSE \in BOOLEAN
  BY NoJobFields
<1>1. PICK j1 : j1 = [NoJob EXCEPT !.pc = p]
  OBVIOUS
<1>2. j1 = [pc |-> p, ext |-> Restart, on |-> 0, before |-> {}, reload |-> FALSE]
  <2>1. j1 = [pc |-> p, ext |-> NoJob.ext, on |-> NoJob.on, before |-> NoJob.before, reload |-> NoJob.reload]
    BY <1>0, <1>1, JobWithPc
  <2> QED
    BY <2>1, NoJobFields
<1>3. j1 \in JobType
  BY <1>0, <1>2, Distinct, JobIs
<1>4. PICK j2 : j2 = [j1 EXCEPT !.ext = e]
  OBVIOUS
<1>5. j2 = [pc |-> p, ext |-> e, on |-> 0, before |-> {}, reload |-> FALSE]
  <2>1. j2 = [pc |-> j1.pc, ext |-> e, on |-> j1.on, before |-> j1.before, reload |-> j1.reload]
    BY <1>3, <1>4, JobWithExt
  <2> QED
    BY <1>2, <2>1
<1>6. j2 \in JobType
  BY <1>0, <1>5, JobIs
<1>7. PICK j3 : j3 = [j2 EXCEPT !.on = n]
  OBVIOUS
<1>8. j3 = [pc |-> p, ext |-> e, on |-> n, before |-> {}, reload |-> FALSE]
  <2>1. j3 = [pc |-> j2.pc, ext |-> j2.ext, on |-> n, before |-> j2.before, reload |-> j2.reload]
    BY <1>6, <1>7, JobWithOn
  <2> QED
    BY <1>5, <2>1
<1>9. j3 \in JobType
  BY <1>0, <1>8, JobIs
<1>11. [NoJob EXCEPT !.pc = p, !.ext = e] = j2
  BY <1>1, <1>4
<1>12. [NoJob EXCEPT !.pc = p, !.ext = e, !.on = n] = j3
  BY <1>1, <1>4, <1>7
<1> QED
  BY <1>5, <1>8, <1>11, <1>12

LEMMA StartsReload ==
    ASSUME spawned \in Nat, NEW p \in Pcs, NEW e \in Actors, NEW n \in 0..spawned, NEW l
    PROVE  [NoJob EXCEPT !.pc = p, !.ext = e, !.on = n, !.reload = l] =
                [pc |-> p, ext |-> e, on |-> n, before |-> {}, reload |-> l]
<1>1. PICK j3 : j3 = [NoJob EXCEPT !.pc = p, !.ext = e, !.on = n]
  OBVIOUS
<1>2. j3 = [pc |-> p, ext |-> e, on |-> n, before |-> {}, reload |-> FALSE]
  BY <1>1, Starts
<1>3. j3 \in JobType
  <2>1. {} \in SUBSET Exts /\ FALSE \in BOOLEAN
    OBVIOUS
  <2> QED
    BY <1>2, <2>1, JobIs
<1>4. [j3 EXCEPT !.reload = l] = [pc |-> p, ext |-> e, on |-> n, before |-> {}, reload |-> l]
  <2>1. [j3 EXCEPT !.reload = l] =
            [pc |-> j3.pc, ext |-> j3.ext, on |-> j3.on, before |-> j3.before, reload |-> l]
    BY <1>3, JobWithReload
  <2> QED
    BY <1>2, <2>1
<1>5. [NoJob EXCEPT !.pc = p, !.ext = e, !.on = n, !.reload = l] = [j3 EXCEPT !.reload = l]
  BY <1>1
<1> QED
  BY <1>4, <1>5

\* The job of one actor changes, those of the others do not.
LEMMA JobSet ==
    ASSUME job \in [Actors -> JobType], NEW a \in Actors, NEW j \in JobType, Set(a, j)
    PROVE  /\ job' \in [Actors -> JobType] /\ job'[a] = j
           /\ \A b \in Actors : b # a => job'[b] = job[b]
BY DEF Set

\* The lock passes on: nothing else of the jobs and the locks changes.
LEMMA Finishes ==
    ASSUME HostTypeOK, NEW a \in Actors, a \in Exts => lock[a] # <<>>, Finish(a)
    PROVE  /\ job' \in [Actors -> JobType] /\ job'[a] = NoJob
           /\ \A b \in Actors : b # a => job'[b] = job[b]
           /\ lock' \in [Exts -> Seq({"enable", "disable", "reload"})]
           /\ \A e \in Exts : e # a => lock'[e] = lock[e]
           /\ a \notin Exts => lock' = lock
           /\ a \in Exts => lock'[a] = Tail(lock[a])
<1>1. spawned \in Nat /\ job \in [Actors -> JobType] /\ Set(a, NoJob)
  BY DEF HostTypeOK, JobType, Pcs, Workers, Finish
<1>2. /\ job' \in [Actors -> JobType] /\ job'[a] = NoJob
      /\ \A b \in Actors : b # a => job'[b] = job[b]
  BY <1>1, JobSet, NoJobFields
<1>3. CASE a \notin Exts
  <2>1. lock' = lock
    BY <1>3 DEF Finish
  <2> QED
    BY <1>2, <1>3, <2>1 DEF HostTypeOK
<1>4. CASE a \in Exts
  <2>1. lock' = [lock EXCEPT ![a] = Tail(@)] /\ lock \in [Exts -> Seq({"enable", "disable", "reload"})]
    BY <1>4 DEF Finish, HostTypeOK
  <2>2. Tail(lock[a]) \in Seq({"enable", "disable", "reload"})
    BY <1>4, <2>1
  <2> QED
    BY <1>2, <1>4, <2>1, <2>2
<1> QED
  BY <1>3, <1>4

\* What #enableLocked may do: nothing more, a refusal, or the call of host.load.
LEMMA EnableTakes ==
    ASSUME HostTypeOK, NEW a \in Actors, NEW e \in Exts, a \in Exts => lock[a] # <<>>, EnableLocked(a, e)
    PROVE  /\ job' \in [Actors -> JobType]
           /\ \A b \in Actors : b # a => job'[b] = job[b]
           /\ lock' \in [Exts -> Seq({"enable", "disable", "reload"})]
           /\ \A d \in Exts : d # a => lock'[d] = lock[d]
           /\ loading' \subseteq [on : running, ext : Exts, by : Actors, fresh : BOOLEAN]
           /\ \/ (bridge = 0 \/ IsActive(e)) /\ job'[a] = NoJob /\ (a \notin Exts => lock' = lock)
              \/ /\ bridge # 0 /\ ~IsActive(e) /\ lock' = lock /\ job'[a].ext = e
                 /\ \/ job'[a].pc = "fail"
                    \/ job'[a].pc = "load" /\ job'[a].on = bridge
<1>0. /\ spawned \in Nat /\ bridge \in 0..spawned /\ job \in [Actors -> JobType] /\ e \in Actors
      /\ lock \in [Exts -> Seq({"enable", "disable", "reload"})]
      /\ loading \subseteq [on : running, ext : Exts, by : Actors, fresh : BOOLEAN]
  BY Distinct DEF HostTypeOK, JobType, Pcs, Workers
<1>1. CASE bridge = 0 \/ IsActive(e)
  <2>1. Finish(a) /\ loading' = loading
    BY <1>1 DEF EnableLocked
  <2> QED
    BY <1>0, <1>1, <2>1, Finishes
<1>2. CASE ~(bridge = 0 \/ IsActive(e)) /\ Missing(e) # {}
  <2> DEFINE j == [NoJob EXCEPT !.pc = "fail", !.ext = e]
  <2>1. Set(a, j) /\ loading' = loading /\ lock' = lock
    BY <1>2 DEF EnableLocked
  <2>2. j = [pc |-> "fail", ext |-> e, on |-> 0, before |-> {}, reload |-> FALSE]
    BY <1>0, Starts DEF Pcs
  <2> HIDE DEF j
  <2>3. j \in JobType /\ j.pc = "fail" /\ j.ext = e
    <3>1. 0 \in 0..spawned /\ {} \in SUBSET Exts /\ FALSE \in BOOLEAN /\ "fail" \in Pcs
      BY <1>0 DEF Pcs
    <3>2. j \in JobType
      BY <1>0, <2>2, <3>1, JobIs
    <3> QED
      BY <2>2, <3>2
  <2>4. job' \in [Actors -> JobType] /\ job'[a] = j /\ \A b \in Actors : b # a => job'[b] = job[b]
    BY <1>0, <2>1, <2>3, JobSet
  <2> QED
    BY <1>0, <1>2, <2>1, <2>3, <2>4
<1>3. CASE ~(bridge = 0 \/ IsActive(e)) /\ Missing(e) = {}
  <2> DEFINE j == [NoJob EXCEPT !.pc = "load", !.ext = e, !.on = bridge]
             c == [on |-> bridge, ext |-> e, by |-> a, fresh |-> e \notin loaded[bridge]]
  <2>1. Set(a, j) /\ lock' = lock /\ loading' = IF bridge \in running THEN loading \union {c} ELSE loading
    BY <1>3 DEF EnableLocked
  <2>2. j = [pc |-> "load", ext |-> e, on |-> bridge, before |-> {}, reload |-> FALSE]
    BY <1>0, Starts DEF Pcs
  <2> HIDE DEF j
  <2>6. j \in JobType /\ j.pc = "load" /\ j.ext = e /\ j.on = bridge
    BY <1>0, <2>2 DEF JobType, Pcs
  <2>3. bridge \in running => c \in [on : running, ext : Exts, by : Actors, fresh : BOOLEAN]
    OBVIOUS
  <2> HIDE DEF c
  <2>4. job' \in [Actors -> JobType] /\ job'[a] = j /\ \A b \in Actors : b # a => job'[b] = job[b]
    BY <1>0, <2>1, <2>6, JobSet
  <2>5. loading' \subseteq [on : running, ext : Exts, by : Actors, fresh : BOOLEAN]
    BY <1>0, <2>1, <2>3
  <2> QED
    BY <1>0, <1>3, <2>1, <2>6, <2>4, <2>5
<1> QED
  BY <1>1, <1>2, <1>3

\* The type invariant in parts.
ThreadTypes ==
    /\ bridge \in 0..spawned /\ spawned \in Workers /\ running \subseteq 1..spawned
    /\ dead \in BOOLEAN
    /\ loaded \in [Workers -> SUBSET Exts]
    /\ loading \subseteq [on : running, ext : Exts, by : Actors, fresh : BOOLEAN]
WiringTypes ==
    row \in [Exts -> BOOLEAN] /\ activeOn \in [Exts -> 0..spawned] /\ routes \in SUBSET Exts
HealingTypes ==
    /\ tripped \in BOOLEAN /\ exitQueued \in BOOLEAN /\ crashes \in Nat
    /\ restart \in [pc : {"idle", "tear", "trip", "backoff", "enable"},
                    todo : SUBSET Exts, pool : SUBSET Exts, tear : SUBSET Exts]
WorkTypes ==
    /\ lock \in [Exts -> Seq({"enable", "disable", "reload"})]
    /\ job \in [Actors -> JobType]
RestTypes ==
    respawn \in SUBSET Exts /\ stopping \in BOOLEAN /\ disturbed \in BOOLEAN /\ admin \in 0..MaxAdmin

LEMMA TypeParts ==
    /\ HostTypeOK <=> ThreadTypes /\ WiringTypes /\ HealingTypes /\ WorkTypes /\ RestTypes
    /\ HostTypeOK' <=> ThreadTypes' /\ WiringTypes' /\ HealingTypes' /\ WorkTypes' /\ RestTypes'
<1>1. HostTypeOK <=> ThreadTypes /\ WiringTypes /\ HealingTypes /\ WorkTypes /\ RestTypes
  BY DEF HostTypeOK, ThreadTypes, WiringTypes, HealingTypes, WorkTypes, RestTypes, JobType, Pcs
<1>2. HostTypeOK' <=> ThreadTypes' /\ WiringTypes' /\ HealingTypes' /\ WorkTypes' /\ RestTypes'
  BY DEF HostTypeOK, ThreadTypes, WiringTypes, HealingTypes, WorkTypes, RestTypes, JobType, Pcs
<1> QED
  BY <1>1, <1>2

LEMMA TypesKept ==
    /\ ThreadTypes /\ UNCHANGED threads => ThreadTypes'
    /\ WiringTypes /\ UNCHANGED <<wiring, spawned>> => WiringTypes'
    /\ HealingTypes /\ UNCHANGED healing => HealingTypes'
    /\ WorkTypes /\ UNCHANGED <<spawned, lock, job>> => WorkTypes'
    /\ LocksHeld /\ UNCHANGED <<lock, job>> => LocksHeld'
<1>1. ThreadTypes /\ UNCHANGED threads => ThreadTypes'
  BY DEF ThreadTypes, threads
<1>2. WiringTypes /\ UNCHANGED <<wiring, spawned>> => WiringTypes'
  BY DEF WiringTypes, wiring
<1>3. HealingTypes /\ UNCHANGED healing => HealingTypes'
  BY DEF HealingTypes, healing
<1>4. WorkTypes /\ UNCHANGED <<spawned, lock, job>> => WorkTypes'
  BY DEF WorkTypes, JobType
<1>5. LocksHeld /\ UNCHANGED <<lock, job>> => LocksHeld'
  BY DEF LocksHeld
<1> QED
  BY <1>1, <1>2, <1>3, <1>4, <1>5

LEMMA SpawnTypes ==
    ASSUME HostTypeOK, SpawnBridge
    PROVE  /\ ThreadTypes' /\ spawned' = spawned + 1 /\ bridge' = spawned' /\ ~dead'
           /\ UNCHANGED <<row, activeOn, routes>> => WiringTypes'
           /\ job \in [Actors -> JobType']
<1>1. /\ spawned \in Nat /\ spawned' = spawned + 1 /\ spawned' \in Workers /\ bridge' = spawned'
      /\ dead' = FALSE /\ running' = running \union {spawned'} /\ loaded' = loaded /\ loading' = loading
      /\ running \subseteq 1..spawned /\ 0..spawned \subseteq 0..spawned'
  BY HostBounds DEF SpawnBridge, HostTypeOK, Workers
<1>2. running' \subseteq 1..spawned'
  BY <1>1
<1>3. loading' \subseteq [on : running', ext : Exts, by : Actors, fresh : BOOLEAN]
  BY <1>1 DEF HostTypeOK
<1>4. ThreadTypes'
  <2>0. spawned' \in Nat /\ bridge' = spawned' /\ dead' = FALSE
    BY <1>1
  <2>1. bridge' \in 0..spawned'
    BY <2>0
  <2>3. dead' \in BOOLEAN
    BY <2>0
  <2>2. loaded' \in [Workers -> SUBSET Exts]
    BY <1>1 DEF HostTypeOK
  <2> QED
    BY <1>1, <1>2, <1>3, <2>1, <2>2, <2>3 DEF ThreadTypes
<1>5. JobType \subseteq JobType'
  BY <1>1 DEF JobType
<1>6. job \in [Actors -> JobType']
  BY <1>5, TypeParts DEF WorkTypes
<1>7. UNCHANGED <<row, activeOn, routes>> => WiringTypes'
  BY <1>1, TypeParts DEF WiringTypes
<1> QED
  BY <1>1, <1>4, <1>6, <1>7

LEMMA GoneTypes ==
    ASSUME HostTypeOK, NEW w \in running, Gone(w), bridge' \in {0, bridge}, dead' \in BOOLEAN, spawned' = spawned
    PROVE  ThreadTypes'
<1>1. /\ running' = running \ {w} /\ loading' = {c \in loading : c.on # w}
      /\ loaded' = [loaded EXCEPT ![w] = {}]
  BY DEF Gone
<1>2. loading' \subseteq [on : running', ext : Exts, by : Actors, fresh : BOOLEAN]
  <2> SUFFICES ASSUME NEW c \in loading, c.on # w
               PROVE  c \in [on : running', ext : Exts, by : Actors, fresh : BOOLEAN]
    BY <1>1
  <2> QED
    BY <1>1 DEF HostTypeOK
<1>3. loaded' \in [Workers -> SUBSET Exts]
  BY <1>1 DEF HostTypeOK
<1>4. bridge' \in 0..spawned' /\ spawned' \in Workers /\ running' \subseteq 1..spawned'
  BY <1>1 DEF HostTypeOK, Workers
<1> QED
  BY <1>2, <1>3, <1>4 DEF ThreadTypes

LEMMA StopTypes ==
    ASSUME HostTypeOK, StopBridge
    PROVE  ThreadTypes' /\ spawned' = spawned /\ running' = running \ {bridge}
<1>1. bridge' = 0 /\ dead' = dead /\ spawned' = spawned /\ dead' \in BOOLEAN
      /\ bridge \in 0..spawned /\ spawned \in Nat /\ running \subseteq 1..spawned
  BY DEF StopBridge, HostTypeOK, Workers
<1>2. CASE bridge = 0
  <2>1. running' = running /\ loaded' = loaded /\ loading' = loading /\ bridge \notin running
    BY <1>1, <1>2 DEF StopBridge
  <2> QED
    BY <1>1, <1>2, <2>1 DEF HostTypeOK, ThreadTypes
<1>3. CASE bridge # 0
  <2>1. Gone(bridge) /\ running' = running \ {bridge}
    BY <1>3 DEF StopBridge, Gone
  <2>2. CASE bridge \in running
    BY <1>1, <2>1, <2>2, GoneTypes
  <2>3. CASE bridge \notin running
    <3>1. running' = running /\ loading' = {c \in loading : c.on # bridge} /\ loaded' = [loaded EXCEPT ![bridge] = {}]
      BY <2>1, <2>3 DEF Gone
    <3>2. loading' \subseteq [on : running', ext : Exts, by : Actors, fresh : BOOLEAN]
      BY <3>1 DEF HostTypeOK
    <3>3. loaded' \in [Workers -> SUBSET Exts]
      BY <3>1 DEF HostTypeOK
    <3> QED
      BY <1>1, <2>1, <3>1, <3>2, <3>3 DEF HostTypeOK, ThreadTypes
  <2> QED
    BY <2>2, <2>3
<1> QED
  BY <1>2, <1>3

\* What an operation of actor a does to the jobs and the locks: it stays under way with the
\* lock it holds, or it is over and the lock passes on.
Proceeds(a) ==
    /\ job' \in [Actors -> JobType]
    /\ \A b \in Actors : b # a => job'[b] = job[b]
    /\ lock' \in [Exts -> Seq({"enable", "disable", "reload"})]
    /\ \A d \in Exts : d # a => lock'[d] = lock[d]
    /\ \/ job'[a].pc = "idle"
       \/ /\ job'[a].ext \in Exts /\ lock' = lock
          /\ a \in Exts => job'[a].ext = a /\ lock[a] # <<>>

LEMMA ProceedsTypes ==
    ASSUME HostTypeOK, LocksHeld, NEW a \in Actors, Proceeds(a), spawned' = spawned
    PROVE  WorkTypes' /\ LocksHeld'
<1>1. WorkTypes'
  BY DEF Proceeds, WorkTypes, JobType
<1>2. ASSUME NEW b \in Actors, job'[b].pc # "idle"
      PROVE  job'[b].ext \in Exts /\ (b \in Exts => job'[b].ext = b /\ lock'[b] # <<>>)
  <2>1. CASE b = a
    BY <1>2, <2>1 DEF Proceeds
  <2>2. CASE b # a
    BY <1>2, <2>2 DEF Proceeds, LocksHeld
  <2> QED
    BY <2>1, <2>2
<1> QED
  BY <1>1, <1>2 DEF LocksHeld

LEMMA EnableProceeds ==
    ASSUME HostTypeOK, NEW a \in Actors, NEW e \in Exts, a \in Exts => a = e /\ lock[a] # <<>>,
           EnableLocked(a, e)
    PROVE  Proceeds(a)
<1>1. PICK l \in SUBSET [on : running, ext : Exts, by : Actors, fresh : BOOLEAN] : l = loading'
  BY EnableTakes
<1> QED
  BY EnableTakes, NoJobFields DEF Proceeds

\* An actor whose operation is under way: it may step to another pc, or finish.
LEMMA JobHeld ==
    ASSUME HostTypeOK, LocksHeld, NEW a \in Actors, job[a].pc # "idle"
    PROVE  /\ job[a] \in JobType /\ job[a].ext \in Exts /\ job[a].before \in SUBSET Exts
           /\ job[a].on \in 0..spawned /\ (a \in Exts => job[a].ext = a /\ lock[a] # <<>>)
<1>1. job[a] \in JobType
  BY TypeParts DEF WorkTypes
<1> QED
  BY <1>1, JobHas DEF LocksHeld

LEMMA FinishProceeds ==
    ASSUME HostTypeOK, NEW a \in Actors, a \in Exts => lock[a] # <<>>, Finish(a)
    PROVE  Proceeds(a)
BY Finishes, NoJobFields DEF Proceeds

LEMMA PcProceeds ==
    ASSUME HostTypeOK, LocksHeld, NEW a \in Actors, job[a].pc # "idle", NEW p \in Pcs,
           Set(a, [job[a] EXCEPT !.pc = p]), lock' = lock
    PROVE  /\ Proceeds(a)
           /\ job'[a] = [pc |-> p, ext |-> job[a].ext, on |-> job[a].on,
                         before |-> job[a].before, reload |-> job[a].reload]
           /\ job'[a].pc = p /\ job'[a].ext = job[a].ext /\ job'[a].on = job[a].on
           /\ job'[a].before = job[a].before
<1>1. job[a] \in JobType /\ job[a].ext \in Exts /\ (a \in Exts => job[a].ext = a /\ lock[a] # <<>>)
  BY JobHeld
<1>2. PICK j : j = [job[a] EXCEPT !.pc = p]
  OBVIOUS
<1>3. j = [pc |-> p, ext |-> job[a].ext, on |-> job[a].on,
           before |-> job[a].before, reload |-> job[a].reload]
  BY <1>1, <1>2, JobWithPc
<1>4. j \in JobType
  BY <1>1, <1>3, JobHas, JobIs
<1>5. /\ job' \in [Actors -> JobType] /\ job'[a] = j
      /\ \A b \in Actors : b # a => job'[b] = job[b]
  <2>1. job \in [Actors -> JobType] /\ Set(a, j)
    BY <1>2, TypeParts DEF WorkTypes
  <2> QED
    BY <1>4, <2>1, JobSet
<1>6. lock' \in [Exts -> Seq({"enable", "disable", "reload"})]
  BY DEF HostTypeOK
<1> QED
  BY <1>1, <1>3, <1>5, <1>6 DEF Proceeds

\* The answer of the worker reaches the actor only if its call still waits.
LEMMA LoadedProceeds ==
    ASSUME HostTypeOK, LocksHeld, NEW a \in Actors, job[a].pc # "idle", NEW p \in Pcs,
           Set(a, [job[a] EXCEPT !.pc = p, !.before = routes]), lock' = lock
    PROVE  /\ Proceeds(a)
           /\ job'[a].pc = p /\ job'[a].ext = job[a].ext /\ job'[a].on = job[a].on
           /\ job'[a].before = routes
<1>1. job[a] \in JobType /\ job[a].ext \in Exts /\ (a \in Exts => job[a].ext = a /\ lock[a] # <<>>)
      /\ routes \in SUBSET Exts
  BY JobHeld DEF HostTypeOK
<1>2. PICK j : j = [job[a] EXCEPT !.pc = p]
  OBVIOUS
<1>3. j = [pc |-> p, ext |-> job[a].ext, on |-> job[a].on,
           before |-> job[a].before, reload |-> job[a].reload]
  BY <1>1, <1>2, JobWithPc
<1>4. j \in JobType
  BY <1>1, <1>3, JobHas, JobIs
<1>5. PICK k : k = [j EXCEPT !.before = routes]
  OBVIOUS
<1>6. k = [pc |-> p, ext |-> job[a].ext, on |-> job[a].on, before |-> routes, reload |-> job[a].reload]
  <2>1. k = [pc |-> j.pc, ext |-> j.ext, on |-> j.on, before |-> routes, reload |-> j.reload]
    BY <1>1, <1>4, <1>5, JobWithBefore
  <2> QED
    BY <1>3, <2>1
<1>7. k \in JobType
  BY <1>1, <1>6, JobHas, JobIs
<1>8. /\ job' \in [Actors -> JobType] /\ job'[a] = k
      /\ \A b \in Actors : b # a => job'[b] = job[b]
  <2>1. [job[a] EXCEPT !.pc = p, !.before = routes] = k
    BY <1>2, <1>5
  <2>2. job \in [Actors -> JobType] /\ Set(a, k)
    BY <2>1, TypeParts DEF WorkTypes
  <2> QED
    BY <1>7, <2>2, JobSet
<1>9. lock' \in [Exts -> Seq({"enable", "disable", "reload"})]
  BY DEF HostTypeOK
<1> QED
  BY <1>1, <1>6, <1>8, <1>9 DEF Proceeds

LEMMA DisableProceeds ==
    ASSUME HostTypeOK, LocksHeld, NEW e \in Exts, lock[e] # <<>>, NEW l \in BOOLEAN,
           DisableLocked(e, l), lock' = lock
    PROVE  /\ Proceeds(e) /\ job'[e].pc \in {"unload", "off"} /\ job'[e].ext = e
           /\ activeOn' = [activeOn EXCEPT ![e] = 0] /\ routes' = routes \ {e}
           /\ activeOn' \in [Exts -> 0..spawned] /\ routes' \in SUBSET Exts
<1> DEFINE next == IF IsActive(e) /\ bridge # 0 THEN "unload" ELSE "off"
<1>1. /\ spawned \in Nat /\ bridge \in 0..spawned /\ e \in Actors
      /\ activeOn \in [Exts -> 0..spawned] /\ routes \in SUBSET Exts
  BY Distinct DEF HostTypeOK, Workers
<1>2. next \in Pcs /\ next \in {"unload", "off"}
  BY DEF Pcs
<1>3. /\ activeOn' = [activeOn EXCEPT ![e] = 0] /\ routes' = routes \ {e}
      /\ Set(e, [NoJob EXCEPT !.pc = next, !.ext = e, !.on = bridge, !.reload = l])
  BY DEF DisableLocked
<1> HIDE DEF next
<1>4. PICK j : j = [NoJob EXCEPT !.pc = next, !.ext = e, !.on = bridge, !.reload = l]
  OBVIOUS
<1>5. j = [pc |-> next, ext |-> e, on |-> bridge, before |-> {}, reload |-> l]
  BY <1>1, <1>2, <1>4, StartsReload
<1>6. j \in JobType
  BY <1>1, <1>2, <1>5, JobIs
<1>7. /\ job' \in [Actors -> JobType] /\ job'[e] = j
      /\ \A b \in Actors : b # e => job'[b] = job[b]
  <2>1. job \in [Actors -> JobType] /\ Set(e, j)
    BY <1>3, <1>4, TypeParts DEF WorkTypes
  <2> QED
    BY <1>1, <1>6, <2>1, JobSet
<1>8. lock' \in [Exts -> Seq({"enable", "disable", "reload"})]
  BY DEF HostTypeOK
<1>9. activeOn' \in [Exts -> 0..spawned] /\ routes' \in SUBSET Exts
  BY <1>1, <1>3
<1> QED
  BY <1>2, <1>3, <1>5, <1>7, <1>8, <1>9 DEF Proceeds

\* What the actions of an actor on a job keep, given that it proceeds.
LEMMA WorkStep ==
    ASSUME HostTypeOK, LocksHeld, NEW a \in Actors, Proceeds(a), ThreadTypes', spawned' = spawned,
           WiringTypes', UNCHANGED <<respawn, stopping, admin>>, disturbed' \in BOOLEAN, HealingTypes'
    PROVE  HostTypeOK' /\ LocksHeld'
<1>1. WorkTypes' /\ LocksHeld'
  BY ProceedsTypes
<1>2. RestTypes'
  BY TypeParts DEF RestTypes
<1> QED
  BY <1>1, <1>2, TypeParts

LEMMA JobTypes ==
    ASSUME HostTypeOK, LocksHeld, NEW a \in Actors, JobStep(a)
    PROVE  HostTypeOK' /\ LocksHeld'
<1>0. ThreadTypes /\ WiringTypes /\ HealingTypes /\ "fail" \in Pcs /\ "row" \in Pcs
  BY TypeParts DEF Pcs
<1>1. CASE LoadFails(a)
  <2>1. Proceeds(a)
    BY <1>0, <1>1, PcProceeds DEF LoadFails
  <2> QED
    BY <1>0, <1>1, <2>1, WorkStep, TypesKept, TypeParts DEF LoadFails, RestTypes, threads
<1>2. CASE AddRoutes(a)
  <2>1. Proceeds(a)
    BY <1>0, <1>2, PcProceeds DEF AddRoutes
  <2>2. job[a].ext \in Exts
    BY <1>2, JobHeld DEF AddRoutes
  <2>3. WiringTypes'
    BY <1>0, <1>2, <2>2 DEF AddRoutes, WiringTypes, threads
  <2> QED
    BY <1>0, <1>2, <2>1, <2>3, WorkStep, TypesKept, TypeParts DEF AddRoutes, RestTypes, threads
<1>3. CASE Activated(a)
  <2>1. job[a].ext \in Exts /\ job[a].on \in 0..spawned /\ (a \in Exts => lock[a] # <<>>)
    BY <1>3, JobHeld DEF Activated
  <2>2. Proceeds(a)
    BY <1>3, <2>1, FinishProceeds DEF Activated
  <2>3. WiringTypes'
    BY <1>0, <1>3, <2>1 DEF Activated, WiringTypes, threads
  <2> QED
    BY <1>0, <1>3, <2>2, <2>3, WorkStep, TypesKept, TypeParts DEF Activated, RestTypes, threads
<1>4. CASE CommitFails(a)
  <2>1. Proceeds(a)
    BY <1>0, <1>4, PcProceeds DEF CommitFails
  <2>2. job[a].before \in SUBSET Exts
    BY <1>4, JobHeld DEF CommitFails
  <2>3. WiringTypes'
    BY <1>0, <1>4, <2>2 DEF CommitFails, WiringTypes, threads
  <2>4. disturbed' \in BOOLEAN
    BY <1>4 DEF CommitFails
  <2> QED
    BY <1>0, <1>4, <2>1, <2>3, <2>4, WorkStep, TypesKept DEF CommitFails, threads
<1>5. CASE RecordFailure(a)
  <2>1. job[a].ext \in Exts /\ (a \in Exts => lock[a] # <<>>)
    BY <1>5, JobHeld DEF RecordFailure
  <2>2. Proceeds(a)
    BY <1>5, <2>1, FinishProceeds DEF RecordFailure
  <2>3. WiringTypes'
    BY <1>0, <1>5, <2>1 DEF RecordFailure, WiringTypes, threads
  <2> QED
    BY <1>0, <1>5, <2>2, <2>3, WorkStep, TypesKept, TypeParts DEF RecordFailure, RestTypes, threads
<1> QED
  BY <1>1, <1>2, <1>3, <1>4, <1>5 DEF JobStep

\* The call of host.load that a worker has executed.
LEMMA CallHas ==
    ASSUME HostTypeOK, NEW c \in loading
    PROVE  c.on \in running /\ c.ext \in Exts /\ c.by \in Actors /\ c.on \in Workers
<1>1. c \in [on : running, ext : Exts, by : Actors, fresh : BOOLEAN]
  BY DEF HostTypeOK
<1>2. running \subseteq Workers
  BY HostBounds DEF HostTypeOK, Workers
<1> QED
  BY <1>1, <1>2

Waits(c) == job[c.by].pc = "load" /\ job[c.by].ext = c.ext /\ job[c.by].on = c.on

LEMMA WorkerTypes ==
    ASSUME HostTypeOK, LocksHeld, WorkerStep
    PROVE  HostTypeOK' /\ LocksHeld'
<1>0. ThreadTypes /\ WiringTypes /\ HealingTypes /\ WorkTypes /\ RestTypes
      /\ "fail" \in Pcs /\ "commit" \in Pcs
  BY TypeParts DEF Pcs
<1>1. ASSUME NEW c \in loading, WorkerRefuses(c) PROVE HostTypeOK' /\ LocksHeld'
  <2>1. ThreadTypes' /\ WiringTypes' /\ HealingTypes' /\ RestTypes' /\ disturbed' \in BOOLEAN
    BY <1>0, <1>1, TypesKept DEF WorkerRefuses, ThreadTypes, RestTypes
  <2>2. CASE Waits(c)
    <3>1. Proceeds(c.by)
      BY <1>0, <1>1, <2>2, CallHas, PcProceeds DEF WorkerRefuses, Waits
    <3> QED
      BY <1>1, <2>1, <3>1, CallHas, WorkStep DEF WorkerRefuses
  <2>3. CASE ~Waits(c)
    <3>1. UNCHANGED <<spawned, lock, job>>
      BY <1>1, <2>3 DEF WorkerRefuses, Waits
    <3> QED
      BY <1>0, <2>1, <3>1, TypesKept, TypeParts
  <2> QED
    BY <2>2, <2>3
<1>2. ASSUME NEW c \in loading, NEW accepted \in BOOLEAN, WorkerLoads(c, accepted) PROVE HostTypeOK' /\ LocksHeld'
  <2>1. WiringTypes' /\ HealingTypes' /\ RestTypes' /\ disturbed' \in BOOLEAN
    BY <1>0, <1>2, TypesKept DEF WorkerLoads, RestTypes
  <2>2. ThreadTypes'
    BY <1>0, <1>2, CallHas DEF WorkerLoads, ThreadTypes
  <2>3. CASE Waits(c)
    <3>1. PICK p \in Pcs : p = IF accepted THEN "commit" ELSE "fail"
      BY <1>0
    <3>2. Set(c.by, [job[c.by] EXCEPT !.pc = p, !.before = routes])
      BY <1>2, <2>3, <3>1 DEF WorkerLoads, Waits
    <3>3. Proceeds(c.by)
      BY <1>2, <2>3, <3>2, CallHas, LoadedProceeds DEF WorkerLoads, Waits
    <3> QED
      BY <1>2, <2>1, <2>2, <3>3, CallHas, WorkStep DEF WorkerLoads
  <2>4. CASE ~Waits(c)
    <3>1. UNCHANGED <<spawned, lock, job>>
      BY <1>2, <2>4 DEF WorkerLoads, Waits
    <3> QED
      BY <1>0, <2>1, <2>2, <3>1, TypesKept, TypeParts
  <2> QED
    BY <2>3, <2>4
<1>3. ASSUME NEW w \in running, Crash(w) PROVE HostTypeOK' /\ LocksHeld'
  <2>1. ThreadTypes'
    BY <1>3, GoneTypes DEF Crash
  <2>2. WiringTypes' /\ WorkTypes' /\ LocksHeld'
    BY <1>0, <1>3, TypesKept DEF Crash
  <2>3. RestTypes'
    BY <1>0, <1>3 DEF Crash, RestTypes
  <2>4. HealingTypes'
    <3>1. CASE UNCHANGED <<crashes, exitQueued, restart>>
      BY <1>0, <1>3, <3>1 DEF Crash, HealingTypes
    <3>2. CASE ExitDuringRestart
      BY <1>0, <1>3, <3>2 DEF Crash, HealingTypes, ExitDuringRestart
    <3>3. CASE BeginRestart /\ UNCHANGED exitQueued
      <4>1. crashes' \in Nat
        BY <1>0, <3>3 DEF BeginRestart, HealingTypes
      <4>2. restart' \in [pc : {"idle", "tear", "trip", "backoff", "enable"},
                          todo : SUBSET Exts, pool : SUBSET Exts, tear : SUBSET Exts]
        BY <3>3 DEF BeginRestart, On, ActiveExts
      <4> QED
        BY <1>0, <1>3, <3>3, <4>1, <4>2 DEF Crash, HealingTypes
    <3> QED
      BY <1>3, <3>1, <3>2, <3>3 DEF Crash
  <2> QED
    BY <2>1, <2>2, <2>3, <2>4, TypeParts
<1> QED
  BY <1>1, <1>2, <1>3 DEF WorkerStep

LEMMA BeginTypes ==
    ASSUME HealingTypes, BeginRestart
    PROVE  /\ crashes' \in Nat
           /\ restart' \in [pc : {"idle", "tear", "trip", "backoff", "enable"},
                            todo : SUBSET Exts, pool : SUBSET Exts, tear : SUBSET Exts]
<1>1. crashes' \in Nat
  BY DEF BeginRestart, HealingTypes
<1> QED
  BY <1>1 DEF BeginRestart, On, ActiveExts

LEMMA EndTypes ==
    ASSUME HealingTypes, EndRestart, tripped' = tripped
    PROVE  HealingTypes'
<1>1. CASE exitQueued /\ ~stopping
  BY <1>1, BeginTypes DEF EndRestart, HealingTypes
<1>2. CASE ~(exitQueued /\ ~stopping)
  BY <1>2 DEF EndRestart, HealingTypes, NoRestart
<1> QED
  BY <1>1, <1>2

LEMMA RestartTypes ==
    ASSUME HostTypeOK, LocksHeld, RestartStep
    PROVE  HostTypeOK' /\ LocksHeld'
<1>0. ThreadTypes /\ WiringTypes /\ HealingTypes /\ WorkTypes /\ RestTypes
      /\ spawned \in Nat
  BY TypeParts DEF ThreadTypes, Workers
<1>1. ASSUME NEW e \in Exts, TearDown(e) PROVE HostTypeOK' /\ LocksHeld'
  <2>1. ThreadTypes' /\ WorkTypes' /\ LocksHeld' /\ RestTypes'
    BY <1>0, <1>1, TypesKept DEF TearDown, threads, RestTypes
  <2>2. WiringTypes'
    BY <1>0, <1>1 DEF TearDown, WiringTypes, threads
  <2>3. HealingTypes'
    BY <1>0, <1>1 DEF TearDown, HealingTypes
  <2> QED
    BY <2>1, <2>2, <2>3, TypeParts
<1>2. ASSUME NEW e \in Exts, TripRow(e) PROVE HostTypeOK' /\ LocksHeld'
  <2>1. ThreadTypes' /\ WorkTypes' /\ LocksHeld' /\ RestTypes'
    BY <1>0, <1>2, TypesKept DEF TripRow, threads, RestTypes
  <2>2. WiringTypes'
    BY <1>0, <1>2 DEF TripRow, WiringTypes, threads
  <2>3. HealingTypes'
    BY <1>0, <1>2 DEF TripRow, HealingTypes
  <2> QED
    BY <2>1, <2>2, <2>3, TypeParts
<1>3. ASSUME NEW e \in Exts, EnableAgain(e) PROVE HostTypeOK' /\ LocksHeld'
  <2>1. Restart \in Actors /\ Restart \notin Exts
    BY Distinct, RestartAssumption
  <2>2. Proceeds(Restart)
    BY <1>3, <2>1, EnableProceeds DEF EnableAgain
  <2>3. loading' \subseteq [on : running, ext : Exts, by : Actors, fresh : BOOLEAN]
    BY <1>3, <2>1, EnableTakes DEF EnableAgain
  <2>4. ThreadTypes'
    BY <1>0, <1>3, <2>3 DEF EnableAgain, ThreadTypes
  <2>5. WiringTypes' /\ disturbed' \in BOOLEAN
    BY <1>0, <1>3, TypesKept DEF EnableAgain, RestTypes
  <2>6. HealingTypes'
    BY <1>0, <1>3 DEF EnableAgain, HealingTypes
  <2> QED
    BY <1>3, <2>1, <2>2, <2>4, <2>5, <2>6, WorkStep DEF EnableAgain
<1>4. CASE TornDown
  <2>1. ThreadTypes' /\ WorkTypes' /\ LocksHeld' /\ RestTypes'
    BY <1>0, <1>4, TypesKept DEF TornDown, threads, RestTypes
  <2>2. WiringTypes'
    BY <1>0, <1>4 DEF TornDown, WiringTypes, threads
  <2>3. HealingTypes'
    BY <1>0, <1>4 DEF TornDown, HealingTypes
  <2> QED
    BY <2>1, <2>2, <2>3, TypeParts
<1>5. CASE Backoff
  <2>1. LocksHeld' /\ RestTypes'
    BY <1>0, <1>5, TypesKept DEF Backoff, RestTypes
  <2>2. CASE stopping \/ tripped
    <3>1. ThreadTypes' /\ WiringTypes' /\ WorkTypes'
      BY <1>0, <1>5, <2>2, TypesKept DEF Backoff, threads
    <3>2. HealingTypes'
      BY <1>0, <1>5, <2>2, EndTypes DEF Backoff
    <3> QED
      BY <2>1, <3>1, <3>2, TypeParts
  <2>3. CASE ~(stopping \/ tripped)
    <3>1. SpawnBridge
      BY <1>5, <2>3 DEF Backoff
    <3>2. ThreadTypes' /\ WiringTypes' /\ WorkTypes'
      BY <1>0, <1>5, <3>1, SpawnTypes DEF Backoff, WorkTypes, wiring
    <3>3. HealingTypes'
      BY <1>0, <1>5, <2>3 DEF Backoff, HealingTypes
    <3> QED
      BY <2>1, <3>2, <3>3, TypeParts
  <2> QED
    BY <2>2, <2>3
<1>6. CASE Restarted
  <2>1. ThreadTypes' /\ WiringTypes' /\ WorkTypes' /\ LocksHeld' /\ RestTypes'
    BY <1>0, <1>6, TypesKept DEF Restarted, threads, RestTypes
  <2>2. HealingTypes'
    BY <1>0, <1>6, EndTypes DEF Restarted
  <2> QED
    BY <2>1, <2>2, TypeParts
<1> QED
  BY <1>1, <1>2, <1>3, <1>4, <1>5, <1>6 DEF RestartStep

\* A request waits for its turn.
LEMMA Queues ==
    ASSUME HostTypeOK, LocksHeld, NEW e \in Exts, NEW op \in {"enable", "disable", "reload"},
           lock' = [lock EXCEPT ![e] = Append(@, op)]
    PROVE  /\ lock' \in [Exts -> Seq({"enable", "disable", "reload"})]
           /\ \A d \in Exts : lock[d] # <<>> => lock'[d] # <<>>
           /\ job' = job => LocksHeld'
<1>1. lock \in [Exts -> Seq({"enable", "disable", "reload"})]
  BY DEF HostTypeOK
<1>2. Append(lock[e], op) \in Seq({"enable", "disable", "reload"}) /\ Append(lock[e], op) # <<>>
  BY <1>1
<1>3. lock' \in [Exts -> Seq({"enable", "disable", "reload"})]
  BY <1>1, <1>2
<1>4. \A d \in Exts : lock[d] # <<>> => lock'[d] # <<>>
  BY <1>1, <1>2
<1> QED
  BY <1>3, <1>4 DEF LocksHeld

LEMMA RequestTypes ==
    ASSUME HostTypeOK, LocksHeld, Request, respawn' \in SUBSET Exts, stopping' = stopping
    PROVE  RestTypes'
<1>1. disturbed' \in BOOLEAN
  BY DEF Request
<1>2. admin' \in 0..MaxAdmin
  BY HostBounds DEF Request, HostTypeOK
<1> QED
  BY <1>1, <1>2, TypeParts DEF RestTypes

LEMMA LockTypes ==
    ASSUME HostTypeOK, LocksHeld, NEW e \in Exts,
           LockAcquired(e) \/ Unloaded(e) \/ Disabled(e)
    PROVE  HostTypeOK' /\ LocksHeld'
<1>0. ThreadTypes /\ WiringTypes /\ HealingTypes /\ WorkTypes /\ RestTypes /\ e \in Actors /\ "off" \in Pcs
  BY TypeParts, Distinct DEF Pcs
<1>1. CASE LockAcquired(e)
  <2>0. lock[e] # <<>> /\ job[e].pc = "idle"
    BY <1>1 DEF LockAcquired
  <2>1. CASE EnableLocked(e, e) /\ UNCHANGED <<activeOn, routes>>
    <3>1. Proceeds(e)
      BY <1>0, <2>0, <2>1, EnableProceeds
    <3>2. loading' \subseteq [on : running, ext : Exts, by : Actors, fresh : BOOLEAN]
      BY <1>0, <2>0, <2>1, EnableTakes
    <3>3. ThreadTypes' /\ WiringTypes' /\ HealingTypes' /\ disturbed' \in BOOLEAN
      BY <1>0, <1>1, <2>1, <3>2, TypesKept DEF LockAcquired, ThreadTypes, WiringTypes, RestTypes
    <3> QED
      BY <1>0, <1>1, <3>1, <3>3, WorkStep DEF LockAcquired
  <2>2. ASSUME NEW l \in BOOLEAN, DisableLocked(e, l), UNCHANGED <<loading, lock>>
        PROVE  HostTypeOK' /\ LocksHeld'
    <3>1. Proceeds(e) /\ activeOn' \in [Exts -> 0..spawned] /\ routes' \in SUBSET Exts
      BY <2>0, <2>2, DisableProceeds
    <3>2. ThreadTypes' /\ WiringTypes' /\ HealingTypes' /\ disturbed' \in BOOLEAN
      BY <1>0, <1>1, <2>2, <3>1, TypesKept DEF LockAcquired, ThreadTypes, WiringTypes, RestTypes
    <3> QED
      BY <1>0, <1>1, <3>1, <3>2, WorkStep DEF LockAcquired
  <2>3. CASE Finish(e) /\ UNCHANGED <<loading, activeOn, routes>>
    <3>1. Proceeds(e)
      BY <1>0, <2>0, <2>3, FinishProceeds
    <3>2. ThreadTypes' /\ WiringTypes' /\ HealingTypes' /\ disturbed' \in BOOLEAN
      BY <1>0, <1>1, <2>3, TypesKept DEF LockAcquired, ThreadTypes, WiringTypes, RestTypes
    <3> QED
      BY <1>0, <1>1, <3>1, <3>2, WorkStep DEF LockAcquired
  <2>4. PICK l \in BOOLEAN : l = (Head(lock[e]) = "reload")
    OBVIOUS
  <2> QED
    BY <1>1, <2>1, <2>2, <2>3, <2>4 DEF LockAcquired
<1>2. CASE Unloaded(e)
  <2>1. Proceeds(e)
    BY <1>0, <1>2, PcProceeds DEF Unloaded
  <2>2. ThreadTypes' /\ WiringTypes' /\ HealingTypes' /\ disturbed' \in BOOLEAN
    BY <1>0, <1>2, TypesKept DEF Unloaded, ThreadTypes, RestTypes
  <2> QED
    BY <1>0, <1>2, <2>1, <2>2, WorkStep DEF Unloaded
<1>3. CASE Disabled(e)
  <2>1. lock[e] # <<>>
    BY <1>0, <1>3, JobHeld DEF Disabled
  <2>2. Proceeds(e) /\ loading' \subseteq [on : running, ext : Exts, by : Actors, fresh : BOOLEAN]
    <3>1. CASE job[e].reload
      BY <1>0, <1>3, <2>1, <3>1, EnableProceeds, EnableTakes DEF Disabled
    <3>2. CASE ~job[e].reload
      BY <1>0, <1>3, <2>1, <3>2, FinishProceeds DEF Disabled, ThreadTypes
    <3> QED
      BY <3>1, <3>2
  <2>3. ThreadTypes' /\ WiringTypes' /\ HealingTypes' /\ disturbed' \in BOOLEAN
    BY <1>0, <1>3, <2>2, TypesKept DEF Disabled, ThreadTypes, WiringTypes, RestTypes
  <2> QED
    BY <1>0, <1>3, <2>2, <2>3, WorkStep DEF Disabled
<1> QED
  BY <1>1, <1>2, <1>3

LEMMA AskTypes ==
    ASSUME HostTypeOK, LocksHeld, NEW e \in Exts,
           Enable(e) \/ Respawned(e) \/ \E op \in {"disable", "reload"} : Ask(e, op)
    PROVE  HostTypeOK' /\ LocksHeld'
<1>0. ThreadTypes /\ WiringTypes /\ HealingTypes /\ WorkTypes /\ RestTypes
  BY TypeParts
<1>1. CASE Enable(e)
  <2>1. HealingTypes' /\ WiringTypes' /\ RestTypes' /\ ThreadTypes' /\ spawned' = spawned
    <3>1. respawn' \in SUBSET Exts /\ ThreadTypes' /\ spawned' = spawned
      BY <1>0, <1>1, StopTypes, TypesKept DEF Enable, RestTypes, threads
    <3>2. HealingTypes'
      <4>1. crashes' \in Nat /\ exitQueued' = exitQueued /\ restart' = restart
        BY <1>0, <1>1 DEF Enable, HealingTypes
      <4>2. tripped' \in BOOLEAN
        BY <1>1 DEF Enable
      <4> QED
        BY <1>0, <4>1, <4>2 DEF HealingTypes
    <3> QED
      BY <1>0, <1>1, <3>1, <3>2, RequestTypes, TypesKept DEF Enable
  <2>2. CASE NeedsBridge
    <3>1. UNCHANGED <<spawned, lock, job>>
      BY <1>1, <2>1, <2>2 DEF Enable
    <3> QED
      BY <1>0, <2>1, <3>1, TypesKept, TypeParts
  <2>3. CASE ~NeedsBridge
    <3>1. lock' = [lock EXCEPT ![e] = Append(@, "enable")] /\ job' = job
      BY <1>1, <2>3 DEF Enable
    <3>2. lock' \in [Exts -> Seq({"enable", "disable", "reload"})] /\ LocksHeld'
      BY <3>1, Queues
    <3>3. WorkTypes'
      BY <1>0, <2>1, <3>1, <3>2 DEF WorkTypes, JobType
    <3> QED
      BY <2>1, <3>2, <3>3, TypeParts
  <2> QED
    BY <2>2, <2>3
<1>2. CASE Respawned(e)
  <2>1. SpawnBridge /\ lock' = [lock EXCEPT ![e] = Append(@, "enable")] /\ job' = job
    BY <1>2 DEF Respawned
  <2>2. ThreadTypes' /\ WiringTypes' /\ job \in [Actors -> JobType']
    BY <1>2, <2>1, SpawnTypes DEF Respawned, wiring
  <2>3. HealingTypes' /\ RestTypes'
    BY <1>0, <1>2, TypesKept DEF Respawned, RestTypes
  <2>4. lock' \in [Exts -> Seq({"enable", "disable", "reload"})] /\ LocksHeld'
    BY <2>1, Queues
  <2> QED
    BY <2>1, <2>2, <2>3, <2>4, TypeParts DEF WorkTypes
<1>3. ASSUME NEW op \in {"disable", "reload"}, Ask(e, op) PROVE HostTypeOK' /\ LocksHeld'
  <2>1. lock' = [lock EXCEPT ![e] = Append(@, op)] /\ job' = job
    BY <1>3 DEF Ask
  <2>2. lock' \in [Exts -> Seq({"enable", "disable", "reload"})] /\ LocksHeld'
    BY <2>1, Queues
  <2>3. ThreadTypes' /\ WiringTypes' /\ HealingTypes'
    BY <1>0, <1>3, TypesKept DEF Ask, threads
  <2>4. RestTypes'
    BY <1>0, <1>3, RequestTypes DEF Ask, RestTypes
  <2>5. WorkTypes'
    BY <1>0, <1>3, <2>1, <2>2 DEF WorkTypes, JobType, Ask, threads
  <2> QED
    BY <2>2, <2>3, <2>4, <2>5, TypeParts
<1> QED
  BY <1>1, <1>2, <1>3

LEMMA StopManagerTypes ==
    ASSUME HostTypeOK, LocksHeld, StopManager
    PROVE  HostTypeOK' /\ LocksHeld'
<1>0. ThreadTypes /\ WiringTypes /\ HealingTypes /\ WorkTypes /\ RestTypes
  BY TypeParts
<1>1. ThreadTypes' /\ spawned' = spawned
  BY StopTypes DEF StopManager
<1>2. WiringTypes' /\ HealingTypes' /\ WorkTypes' /\ LocksHeld'
  BY <1>0, <1>1, TypesKept DEF StopManager
<1>3. RestTypes'
  BY <1>0 DEF StopManager, RestTypes
<1> QED
  BY <1>1, <1>2, <1>3, TypeParts

LEMMA InitTypes == HostInit => HostTypeOK /\ LocksHeld
<1> SUFFICES ASSUME HostInit PROVE HostTypeOK /\ LocksHeld
  OBVIOUS
<1>1. bridge = 1 /\ spawned = 1 /\ running = {1} /\ spawned \in Workers /\ spawned \in Nat /\ 1 \in 0..1
  BY HostBounds DEF HostInit, Workers
<1>2. On \in SUBSET Exts
  BY DEF On
<1>3. ThreadTypes
  <2>1. loaded = [w \in Workers |-> IF w = 1 THEN On ELSE {}] /\ loading = {} /\ dead = FALSE
    BY DEF HostInit, Workers
  <2>2. loaded \in [Workers -> SUBSET Exts]
    BY <1>2, <2>1
  <2>3. bridge \in 0..spawned /\ running \subseteq 1..spawned
    BY <1>1
  <2>4. dead \in BOOLEAN
    BY <2>1
  <2> QED
    BY <1>1, <2>1, <2>2, <2>3, <2>4 DEF ThreadTypes
<1>4. WiringTypes
  BY <1>1, <1>2 DEF HostInit, WiringTypes
<1>5. HealingTypes
  BY DEF HostInit, HealingTypes, NoRestart
<1>6. WorkTypes
  <2>1. <<>> \in Seq({"enable", "disable", "reload"})
    OBVIOUS
  <2> QED
    BY <1>1, <2>1, NoJobFields DEF HostInit, WorkTypes
<1>7. RestTypes
  <2>1. admin \in 0..MaxAdmin /\ respawn \in SUBSET Exts
    BY HostBounds DEF HostInit
  <2>2. stopping \in BOOLEAN /\ disturbed \in BOOLEAN
    BY DEF HostInit
  <2> QED
    BY <2>1, <2>2 DEF RestTypes
<1>8. LocksHeld
  BY NoJobFields DEF HostInit, LocksHeld
<1> QED
  BY <1>3, <1>4, <1>5, <1>6, <1>7, <1>8, TypeParts

LEMMA StepTypes == HostTypeOK /\ LocksHeld /\ [HostNext]_hostVars => HostTypeOK' /\ LocksHeld'
<1> SUFFICES ASSUME HostTypeOK, LocksHeld, [HostNext]_hostVars PROVE HostTypeOK' /\ LocksHeld'
  OBVIOUS
<1>1. ASSUME NEW e \in Exts, Enable(e) \/ Respawned(e) \/ LockAcquired(e) \/ Unloaded(e) \/ Disabled(e)
      PROVE  HostTypeOK' /\ LocksHeld'
  BY <1>1, AskTypes, LockTypes
<1>2. ASSUME NEW e \in Exts, NEW op \in {"disable", "reload"}, Ask(e, op) PROVE HostTypeOK' /\ LocksHeld'
  BY <1>2, AskTypes
<1>3. CASE UNCHANGED hostVars
  <2>1. UNCHANGED <<threads, wiring, healing, lock, job, respawn, stopping, disturbed, admin, spawned>>
    BY <1>3 DEF hostVars, threads
  <2>2. RestTypes'
    BY <2>1, TypeParts DEF RestTypes
  <2> QED
    BY <2>1, <2>2, TypesKept, TypeParts
<1> QED
  BY <1>1, <1>2, <1>3, JobTypes, WorkerTypes, RestartTypes, StopManagerTypes DEF HostNext

\* Every variable of the host keeps its type, whatever the extensions depend on, however
\* often the worker crashes and whatever is asked of the manager (ExtensionManager).
THEOREM HostTyped == HostSpec => []HostTypeOK
<1>1. HostInit => HostTypeOK /\ LocksHeld
  BY InitTypes
<1>2. HostTypeOK /\ LocksHeld /\ [HostNext]_hostVars => HostTypeOK' /\ LocksHeld'
  BY StepTypes
<1> QED
  BY <1>1, <1>2, PTL DEF HostSpec

-----------------------------------------------------------------------------
(* ExtHost: agreement *)

\* The operation of actor a has extension x: the lock says so, or the crash handler.
Has(a, x) ==
    \/ a \in Exts /\ a = x /\ lock[a] # <<>>
    \/ a = Restart /\ restart.pc = "enable" /\ (job[Restart].pc # "idle" => job[Restart].ext = x)

LEMMA Holder ==
    ASSUME HostTypeOK, LocksHeld, Tidy, NEW a \in Actors, job[a].pc # "idle"
    PROVE  Has(a, job[a].ext) /\ job[a].ext \in Exts
<1>1. job[a].ext \in Exts /\ (a \in Exts => job[a].ext = a /\ lock[a] # <<>>)
  BY JobHeld
<1>2. a \notin Exts => a = Restart /\ restart.pc = "enable"
  BY Distinct DEF Tidy, Alone
<1> QED
  BY <1>1, <1>2 DEF Has

\* While one has it, no other operation touches it, and its progress is what At says.
LEMMA HasAlone ==
    ASSUME HostTypeOK, LocksHeld, Tidy, NEW a \in Actors, NEW x \in Exts, Has(a, x)
    PROVE  /\ restart.pc \in {"idle", "enable"} /\ respawn = {}
           /\ a \in Exts => restart.pc = "idle" /\ job[Restart].pc = "idle" /\ At(x) = job[x].pc
           /\ a \notin Exts => restart.pc = "enable" /\ \A e \in Exts : lock[e] = <<>> /\ job[e].pc = "idle"
           /\ job[a].pc # "idle" => At(x) = job[a].pc /\ job[a].ext = x
           /\ \A b \in Actors : b # a /\ job[b].pc # "idle" => job[b].ext # x
<1>1. CASE a \in Exts
  <2>1. a = x /\ lock[a] # <<>> /\ a # Restart
    BY <1>1, RestartAssumption DEF Has
  <2>2. restart.pc = "idle" /\ respawn = {}
    BY <1>1, <2>1 DEF Tidy, Alone
  <2>3. job[Restart].pc = "idle"
    BY <2>2 DEF Tidy, Alone
  <2>4. \A b \in Actors : b # a /\ job[b].pc # "idle" => job[b].ext = b
    BY <2>3, Distinct DEF LocksHeld
  <2> QED
    BY <1>1, <2>1, <2>2, <2>3, <2>4 DEF At, LocksHeld
<1>2. CASE a \notin Exts
  <2>1. a = Restart /\ restart.pc = "enable" /\ (job[Restart].pc # "idle" => job[Restart].ext = x)
    BY <1>2 DEF Has
  <2>2. \A e \in Exts : lock[e] = <<>>
    BY <2>1 DEF Tidy, Alone
  <2>3. \A e \in Exts : job[e].pc = "idle"
    BY <2>2, Distinct DEF LocksHeld
  <2>4. respawn = {}
    BY <2>1 DEF Tidy, Alone
  <2> QED
    BY <1>2, <2>1, <2>2, <2>3, <2>4, Distinct DEF At
<1> QED
  BY <1>1, <1>2

\* A step of the operation that has extension x.
LEMMA OperationStep ==
    ASSUME HostTypeOK, LocksHeld, Tidy, NEW a \in Actors, NEW x \in Exts, Has(a, x),
           Proceeds(a), job'[a].pc = "idle" \/ job'[a].ext = x,
           restart'.pc = restart.pc, \A e \in Exts : e # x => (e \in restart'.todo) = (e \in restart.todo),
           a \notin Exts => x \notin restart'.todo,
           UNCHANGED <<bridge, dead, running, tripped, exitQueued, respawn>>,
           \A e \in Exts : e # x =>
              /\ row'[e] = row[e] /\ activeOn'[e] = activeOn[e] /\ (e \in routes') = (e \in routes)
              /\ e \in loaded[bridge] => e \in loaded'[bridge],
           IF job'[a].pc = "idle" THEN Agrees(x)'
           ELSE activeOn'[x] = 0 /\ (x \in routes') = (job'[a].pc = "row"),
           activeOn'[x] # 0 => activeOn'[x] = bridge /\ (bridge \in running => x \in loaded'[bridge]),
           job'[a].pc \in {"load", "commit", "row"} => job'[a].on = bridge /\ bridge # 0,
           job'[a].pc \in {"commit", "row"} /\ bridge \in running => x \in loaded'[bridge],
           restart.pc = "idle" /\ running = {} =>
              ~row'[x] /\ activeOn'[x] = 0 /\ x \notin routes' /\ job'[a].pc \notin {"commit", "row"}
    PROVE  Tidy'
<1>1. /\ restart.pc \in {"idle", "enable"} /\ respawn = {}
      /\ a \in Exts => restart.pc = "idle" /\ job[Restart].pc = "idle" /\ a # Restart /\ a = x
      /\ a \notin Exts => restart.pc = "enable" /\ a = Restart /\ \A e \in Exts : lock[e] = <<>> /\ job[e].pc = "idle"
      /\ \A b \in Actors : b # a /\ job[b].pc # "idle" => job[b].ext # x /\ job[b].ext \in Exts
  BY HasAlone, Distinct, RestartAssumption DEF Has, LocksHeld
<1>2. /\ \A b \in Actors : b # a => job'[b] = job[b]
      /\ \A d \in Exts : d # a => lock'[d] = lock[d]
  BY DEF Proceeds
<1>3. Alone'
  <2>1. restart'.pc # "idle" \/ respawn' # {} => \A e \in Exts : lock'[e] = <<>>
    BY <1>1, <1>2
  <2>2. job'[Restart].pc # "idle" => restart'.pc = "enable" /\ job'[Restart].ext \notin restart'.todo
    BY <1>1, <1>2, Distinct
  <2> QED
    BY <1>1, <2>1, <2>2 DEF Alone
<1>4. OneWorker'
  BY DEF Tidy, OneWorker
<1>5. NothingOn'
  <2>1. restart'.pc \notin {"tear", "trip", "backoff"}
    BY <1>1
  <2>2. ASSUME restart'.pc = "idle", running' = {}, NEW e \in Exts
        PROVE  ~row'[e] /\ activeOn'[e] = 0 /\ e \notin routes' /\ job'[e].pc \notin {"commit", "row"}
    <3>1. restart.pc = "idle" /\ running = {} /\ a = x
      BY <1>1, <2>2
    <3>2. CASE e = x
      BY <3>1, <3>2
    <3>3. CASE e # x
      <4>1. job'[e] = job[e]
        BY <1>2, <3>1, <3>3, Distinct
      <4>2. ~row[e] /\ activeOn[e] = 0 /\ e \notin routes /\ job[e].pc \notin {"commit", "row"}
        BY <3>1 DEF Tidy, NothingOn
      <4> QED
        BY <3>3, <4>1, <4>2
    <3> QED
      BY <3>2, <3>3
  <2> QED
    BY <2>1, <2>2 DEF NothingOn
<1>6. Wired'
  <2> SUFFICES ASSUME NEW e \in Exts
               PROVE  IF At(e)' = "idle" THEN Agrees(e)'
                      ELSE activeOn'[e] = 0 /\ (e \in routes') = (At(e)' = "row")
    BY DEF Wired
  <2>1. CASE e = x
    <3>1. At(e)' = job'[a].pc
      BY <1>1, <2>1 DEF At
    <3> QED
      BY <2>1, <3>1
  <2>2. CASE e # x
    <3>1. At(e)' = At(e)
      <4>1. CASE a \in Exts
        <5>1. job'[e] = job[e]
          BY <1>1, <1>2, <2>2, <4>1, Distinct
        <5> QED
          BY <1>1, <4>1, <5>1 DEF At
      <4>2. CASE a \notin Exts
        <5>1. job'[Restart].pc # "idle" => job'[Restart].ext # e
          BY <1>1, <2>2, <4>2
        <5>2. job[Restart].pc # "idle" => job[Restart].ext # e
          BY <1>1, <2>2, <4>2, HasAlone
        <5> QED
          BY <1>1, <2>2, <4>2, <5>1, <5>2 DEF At
      <4> QED
        BY <4>1, <4>2
    <3>2. IF At(e) = "idle" THEN Agrees(e) ELSE activeOn[e] = 0 /\ (e \in routes) = (At(e) = "row")
      BY <1>1 DEF Tidy, Wired
    <3>3. row'[e] = row[e] /\ activeOn'[e] = activeOn[e] /\ (e \in routes') = (e \in routes)
      BY <2>2
    <3> QED
      BY <3>1, <3>2, <3>3 DEF Agrees
  <2> QED
    BY <2>1, <2>2
<1>7. InWorker'
  <2>1. ASSUME NEW e \in Exts, activeOn'[e] # 0
        PROVE  activeOn'[e] = bridge' /\ (bridge' \in running' => e \in loaded'[bridge'])
    <3>1. CASE e = x
      BY <2>1, <3>1
    <3>2. CASE e # x
      BY <2>1, <3>2 DEF Tidy, InWorker
    <3> QED
      BY <3>1, <3>2
  <2>2. ASSUME NEW b \in Actors, job'[b].pc \in {"load", "commit", "row"}
        PROVE  /\ job'[b].on = bridge' /\ bridge' # 0
               /\ job'[b].pc \in {"commit", "row"} /\ bridge' \in running' => job'[b].ext \in loaded'[bridge']
    <3>1. CASE b = a
      BY <2>2, <3>1
    <3>2. CASE b # a
      <4>1. job'[b] = job[b] /\ job[b].ext # x /\ job[b].ext \in Exts
        BY <1>1, <1>2, <2>2, <3>2
      <4>2. /\ job[b].on = bridge /\ bridge # 0
            /\ job[b].pc \in {"commit", "row"} /\ bridge \in running => job[b].ext \in loaded[bridge]
        BY <2>2, <4>1 DEF Tidy, InWorker
      <4> QED
        BY <4>1, <4>2
    <3> QED
      BY <3>1, <3>2
  <2> QED
    BY <2>1, <2>2 DEF InWorker
<1> QED
  BY <1>3, <1>4, <1>5, <1>6, <1>7 DEF Tidy

\* The facts about an operation under way that its next step rests on.
LEMMA UnderWay ==
    ASSUME HostTypeOK, LocksHeld, Tidy, NEW a \in Actors, NEW x \in Exts, job[a].pc # "idle", job[a].ext = x
    PROVE  /\ Has(a, x) /\ activeOn[x] = 0 /\ (x \in routes) = (job[a].pc = "row")
           /\ a \notin Exts => x \notin restart.todo
           /\ job[a].pc \in {"load", "commit", "row"} => job[a].on = bridge /\ bridge # 0
           /\ job[a].pc \in {"commit", "row"} /\ bridge \in running => x \in loaded[bridge]
           /\ restart.pc = "idle" /\ running = {} =>
                ~row[x] /\ activeOn[x] = 0 /\ x \notin routes /\ job[a].pc \notin {"commit", "row"}
<1>1. Has(a, x)
  BY Holder
<1>2. restart.pc \in {"idle", "enable"} /\ At(x) = job[a].pc
  BY <1>1, HasAlone
<1>3. activeOn[x] = 0 /\ (x \in routes) = (job[a].pc = "row")
  BY <1>2 DEF Tidy, Wired
<1>4. a \notin Exts => x \notin restart.todo
  BY Distinct DEF Tidy, Alone
<1>5. a \in Exts => a = x
  BY <1>1, RestartAssumption DEF Has
<1>6. a \notin Exts => restart.pc = "enable"
  BY <1>1, HasAlone
<1> QED
  BY <1>1, <1>3, <1>4, <1>5, <1>6 DEF Tidy, InWorker, NothingOn

LEMMA JobTidy ==
    ASSUME HostTypeOK, LocksHeld, Tidy, NEW a \in Actors, JobStep(a), Calm'
    PROVE  Tidy'
<1>0. job[a].pc # "idle" /\ "fail" \in Pcs /\ "row" \in Pcs
  BY DEF JobStep, LoadFails, AddRoutes, Activated, CommitFails, RecordFailure, Pcs
<1>1. PICK x \in Exts : x = job[a].ext
  BY <1>0, Holder
<1>2. /\ Has(a, x) /\ activeOn[x] = 0 /\ (x \in routes) = (job[a].pc = "row")
      /\ a \notin Exts => x \notin restart.todo
      /\ job[a].pc \in {"load", "commit", "row"} => job[a].on = bridge /\ bridge # 0
      /\ job[a].pc \in {"commit", "row"} /\ bridge \in running => x \in loaded[bridge]
      /\ restart.pc = "idle" /\ running = {} =>
            ~row[x] /\ activeOn[x] = 0 /\ x \notin routes /\ job[a].pc \notin {"commit", "row"}
  BY <1>0, <1>1, UnderWay
<1>3. a \in Exts => lock[a] # <<>>
  BY <1>0, JobHeld
<1>4. row \in [Exts -> BOOLEAN] /\ activeOn \in [Exts -> 0..spawned] /\ x \in Exts /\ routes \in SUBSET Exts
  BY DEF HostTypeOK
<1>5. CASE LoadFails(a)
  <2>1. /\ UNCHANGED <<threads, wiring, healing, lock, respawn>>
        /\ UNCHANGED <<bridge, dead, running, tripped, exitQueued, respawn, loaded, row, activeOn, routes, restart>>
    BY <1>5 DEF LoadFails, threads, wiring, healing
  <2>2. Proceeds(a) /\ job'[a].pc = "fail" /\ job'[a].ext = x
    BY <1>0, <1>1, <1>5, <2>1, PcProceeds DEF LoadFails
  <2>3. activeOn'[x] = 0 /\ (x \in routes') = (job'[a].pc = "row")
    BY <1>2, <1>5, <2>1, <2>2 DEF LoadFails
  <2> QED
    BY <1>2, <2>1, <2>2, <2>3, OperationStep
<1>6. CASE AddRoutes(a)
  <2>1. /\ UNCHANGED <<bridge, dead, running, tripped, exitQueued, respawn, loaded, row, activeOn, restart>>
        /\ lock' = lock /\ routes' = routes \union {x}
    BY <1>1, <1>6 DEF AddRoutes, threads, healing
  <2>2. Proceeds(a) /\ job'[a].pc = "row" /\ job'[a].ext = x /\ job'[a].on = job[a].on
    BY <1>0, <1>1, <1>6, <2>1, PcProceeds DEF AddRoutes
  <2>3. activeOn'[x] = 0 /\ (x \in routes') = (job'[a].pc = "row")
    BY <1>2, <2>1, <2>2
  <2>4. job[a].pc = "commit"
    BY <1>6 DEF AddRoutes
  <2>5. ~(restart.pc = "idle" /\ running = {})
    BY <1>2, <2>4
  <2>6. job'[a].on = bridge /\ bridge # 0 /\ (bridge \in running => x \in loaded'[bridge])
    BY <1>2, <2>1, <2>2, <2>4
  <2>7. \A e \in Exts : e # x =>
              /\ row'[e] = row[e] /\ activeOn'[e] = activeOn[e] /\ (e \in routes') = (e \in routes)
              /\ e \in loaded[bridge] => e \in loaded'[bridge]
    BY <2>1
  <2> QED
    BY <1>2, <2>1, <2>2, <2>3, <2>5, <2>6, <2>7, OperationStep
<1>7. CASE Activated(a)
  <2>1. /\ UNCHANGED <<bridge, dead, running, tripped, exitQueued, respawn, loaded, routes, restart>>
        /\ row' = [row EXCEPT ![x] = TRUE] /\ activeOn' = [activeOn EXCEPT ![x] = job[a].on]
        /\ Finish(a) /\ job[a].pc = "row"
    BY <1>1, <1>7 DEF Activated, threads, healing
  <2>2. Proceeds(a) /\ job'[a].pc = "idle"
    BY <1>3, <2>1, FinishProceeds, Finishes, NoJobFields
  <2>3. job[a].on = bridge /\ bridge # 0 /\ (bridge \in running => x \in loaded'[bridge]) /\ x \in routes
    BY <1>2, <2>1
  <2>4. row'[x] = TRUE /\ activeOn'[x] = bridge /\ x \in routes'
    BY <1>4, <2>1, <2>3
  <2>5. Agrees(x)'
    BY <2>3, <2>4 DEF Agrees
  <2>6. ~(restart.pc = "idle" /\ running = {})
    BY <1>2, <2>1
  <2>7. \A e \in Exts : e # x =>
              /\ row'[e] = row[e] /\ activeOn'[e] = activeOn[e] /\ (e \in routes') = (e \in routes)
              /\ e \in loaded[bridge] => e \in loaded'[bridge]
    BY <1>4, <2>1
  <2> QED
    BY <1>2, <2>1, <2>2, <2>3, <2>4, <2>5, <2>6, <2>7, OperationStep
<1>8. CASE CommitFails(a)
  <2>1. /\ UNCHANGED <<bridge, dead, running, tripped, exitQueued, respawn, loaded, row, activeOn, restart>>
        /\ lock' = lock /\ routes' = job[a].before /\ job[a].pc \in {"commit", "row"}
    BY <1>1, <1>8 DEF CommitFails, threads, healing
  <2>2. routes \ {x} = job[a].before
    BY <1>1, <1>8 DEF CommitFails, Calm
  <2>3. Proceeds(a) /\ job'[a].pc = "fail" /\ job'[a].ext = x
    BY <1>0, <1>1, <1>8, <2>1, PcProceeds DEF CommitFails
  <2>4. activeOn'[x] = 0 /\ (x \in routes') = (job'[a].pc = "row")
    BY <1>2, <2>1, <2>2, <2>3
  <2>5. ~(restart.pc = "idle" /\ running = {})
    BY <1>2, <2>1
  <2>6. \A e \in Exts : e # x =>
              /\ row'[e] = row[e] /\ activeOn'[e] = activeOn[e] /\ (e \in routes') = (e \in routes)
              /\ e \in loaded[bridge] => e \in loaded'[bridge]
    BY <2>1, <2>2
  <2> QED
    BY <1>2, <2>1, <2>3, <2>4, <2>5, <2>6, OperationStep
<1>9. CASE RecordFailure(a)
  <2>1. /\ UNCHANGED <<bridge, dead, running, tripped, exitQueued, respawn, loaded, activeOn, routes, restart>>
        /\ row' = [row EXCEPT ![x] = FALSE] /\ Finish(a) /\ job[a].pc = "fail"
    BY <1>1, <1>9 DEF RecordFailure, threads, healing
  <2>2. Proceeds(a) /\ job'[a].pc = "idle"
    BY <1>3, <2>1, FinishProceeds, Finishes, NoJobFields
  <2>3. row'[x] = FALSE /\ activeOn'[x] = 0 /\ x \notin routes'
    BY <1>2, <1>4, <2>1
  <2>4. Agrees(x)'
    <3>1. (activeOn'[x] # 0) = FALSE /\ (x \in routes') = FALSE
      BY <2>3
    <3> QED
      BY <2>3, <3>1, Zenon DEF Agrees
  <2>5. \A e \in Exts : e # x =>
              /\ row'[e] = row[e] /\ activeOn'[e] = activeOn[e] /\ (e \in routes') = (e \in routes)
              /\ e \in loaded[bridge] => e \in loaded'[bridge]
    BY <1>4, <2>1
  <2> QED
    BY <1>2, <2>1, <2>2, <2>3, <2>4, <2>5, OperationStep
<1> QED
  BY <1>5, <1>6, <1>7, <1>8, <1>9 DEF JobStep

\* A call that nobody waits for leaves more in the registry of its worker, and nothing else.
LEMMA LoadedMore ==
    ASSUME HostTypeOK, LocksHeld, Tidy, UNCHANGED <<bridge, dead, running, wiring, healing, lock, job, respawn>>,
           \A e \in Exts : e \in loaded[bridge] => e \in loaded'[bridge]
    PROVE  Tidy'
<1>1. Alone'
  BY DEF Tidy, Alone, healing
<1>2. OneWorker'
  BY DEF Tidy, OneWorker, healing
<1>3. NothingOn'
  BY DEF Tidy, NothingOn, healing, wiring
<1>4. Wired'
  BY DEF Tidy, Wired, At, Agrees, healing, wiring
<1>5. InWorker'
  <2>1. activeOn' = activeOn /\ \A a \in Actors : job'[a] = job[a]
    BY DEF wiring
  <2>2. ASSUME NEW a \in Actors, job[a].pc \in {"commit", "row"} PROVE job[a].ext \in Exts
    BY <2>2, JobHeld
  <2> QED
    BY <2>1, <2>2 DEF Tidy, InWorker
<1> QED
  BY <1>1, <1>2, <1>3, <1>4, <1>5 DEF Tidy

LEMMA WorkerTidy ==
    ASSUME HostTypeOK, LocksHeld, Tidy, Calm, WorkerStep, Calm'
    PROVE  Tidy'
<1>1. ASSUME NEW c \in loading, WorkerRefuses(c) PROVE Tidy'
  <2>1. UNCHANGED <<bridge, dead, running, loaded, wiring, healing, lock, respawn,
                    row, activeOn, routes, restart, tripped, exitQueued>>
    BY <1>1 DEF WorkerRefuses, wiring, healing
  <2>2. CASE Waits(c)
    <3> DEFINE a == c.by
               x == c.ext
    <3>1. a \in Actors /\ x \in Exts /\ job[a].pc = "load" /\ job[a].ext = x /\ job[a].pc # "idle" /\ "fail" \in Pcs
      BY <2>2, CallHas DEF Waits, Pcs
    <3>2. Set(a, [job[a] EXCEPT !.pc = "fail"])
      BY <1>1, <2>2 DEF WorkerRefuses, Waits
    <3> HIDE DEF a, x
    <3>3. Proceeds(a) /\ job'[a].pc = "fail" /\ job'[a].ext = x
      BY <2>1, <3>1, <3>2, PcProceeds
    <3>4. /\ Has(a, x) /\ activeOn[x] = 0 /\ (x \in routes) = (job[a].pc = "row")
          /\ a \notin Exts => x \notin restart.todo
          /\ restart.pc = "idle" /\ running = {} => ~row[x] /\ activeOn[x] = 0 /\ x \notin routes
      BY <3>1, UnderWay
    <3>5. activeOn'[x] = 0 /\ (x \in routes') = (job'[a].pc = "row")
      BY <2>1, <3>1, <3>3, <3>4
    <3> QED
      BY <2>1, <3>1, <3>3, <3>4, <3>5, OperationStep
  <2>3. CASE ~Waits(c)
    <3>1. job' = job
      BY <1>1, <2>3 DEF WorkerRefuses, Waits
    <3> QED
      BY <2>1, <3>1, LoadedMore
  <2> QED
    BY <2>2, <2>3
<1>2. ASSUME NEW c \in loading, NEW accepted \in BOOLEAN, WorkerLoads(c, accepted) PROVE Tidy'
  <2>1. UNCHANGED <<bridge, dead, running, wiring, healing, lock, respawn,
                    row, activeOn, routes, restart, tripped, exitQueued>>
    BY <1>2 DEF WorkerLoads, wiring, healing
  <2>2. /\ loaded \in [Workers -> SUBSET Exts] /\ loaded' = [loaded EXCEPT ![c.on] = @ \union {c.ext}]
        /\ c.on \in Workers /\ c.ext \in Exts /\ c.on = bridge
    <3>1. c.on \in running /\ c.ext \in Exts /\ c.on \in Workers
      BY CallHas
    <3> QED
      BY <1>2, <3>1 DEF WorkerLoads, HostTypeOK, Tidy, OneWorker
  <2>3. \A e \in Exts : e \in loaded[bridge] => e \in loaded'[bridge]
    BY <2>2
  <2>4. CASE Waits(c)
    <3>0. PICK p \in Pcs : p = IF accepted THEN "commit" ELSE "fail"
      BY DEF Pcs
    <3> DEFINE a == c.by
               x == c.ext
    <3>1. a \in Actors /\ x \in Exts /\ job[a].pc = "load" /\ job[a].ext = x /\ job[a].pc # "idle"
      BY <2>4, CallHas DEF Waits
    <3>2. Set(a, [job[a] EXCEPT !.pc = p, !.before = routes])
      BY <1>2, <2>4, <3>0 DEF WorkerLoads, Waits
    <3>3. x \in loaded'[bridge] /\ bridge \in running
      BY <2>2, CallHas
    <3> HIDE DEF a, x
    <3>4. Proceeds(a) /\ job'[a].pc = p /\ job'[a].ext = x /\ job'[a].on = job[a].on
      BY <2>1, <3>1, <3>2, LoadedProceeds
    <3>5. /\ Has(a, x) /\ activeOn[x] = 0 /\ (x \in routes) = (job[a].pc = "row")
          /\ a \notin Exts => x \notin restart.todo
          /\ job[a].on = bridge /\ bridge # 0
      BY <3>1, UnderWay
    <3>6. p \in {"commit", "fail"}
      BY <3>0
    <3>7. activeOn'[x] = 0 /\ (x \in routes') = (job'[a].pc = "row")
      BY <2>1, <3>1, <3>4, <3>5, <3>6
    <3>8. \A e \in Exts : e # x =>
              /\ row'[e] = row[e] /\ activeOn'[e] = activeOn[e] /\ (e \in routes') = (e \in routes)
              /\ e \in loaded[bridge] => e \in loaded'[bridge]
      BY <2>1, <2>3
    <3> QED
      BY <2>1, <3>1, <3>3, <3>4, <3>5, <3>6, <3>7, <3>8, OperationStep
  <2>5. CASE ~Waits(c)
    <3>1. job' = job
      BY <1>2, <2>5 DEF WorkerLoads, Waits
    <3> QED
      BY <2>1, <2>3, <3>1, LoadedMore
  <2> QED
    BY <2>4, <2>5
<1>3. ASSUME NEW w \in running, Crash(w) PROVE Tidy'
  <2>1. /\ running' = {} /\ ~Busy /\ bridge' = bridge
        /\ UNCHANGED <<wiring, row, activeOn, routes, tripped, lock, job, respawn>>
        /\ running # {} /\ dead' = TRUE
    <3>1. running' = running \ {w} /\ running \subseteq {bridge}
      BY <1>3 DEF Crash, Gone, Tidy, OneWorker
    <3> QED
      BY <1>3, <3>1 DEF Crash, Calm, wiring
  <2>2. /\ respawn = {} /\ \A e \in Exts : lock[e] = <<>>
        /\ \A e \in Exts : job[e].pc = "idle"
    BY <2>1, Distinct DEF Busy, LocksHeld
  <2>3. ~tripped /\ restart.pc \in {"idle", "enable"} /\ ~exitQueued
    BY <2>1 DEF Tidy, OneWorker
  <2>4. InWorker'
    BY <2>1 DEF Tidy, InWorker
  <2>5. CASE restart.pc = "idle"
    <3>1. /\ restart' = [pc |-> "tear", todo |-> On, pool |-> ActiveExts, tear |-> ActiveExts]
          /\ exitQueued' = exitQueued
      BY <1>3, <2>5 DEF Crash, Calm, ExitDuringRestart, BeginRestart
    <3>2. job[Restart].pc = "idle"
      BY <2>5 DEF Tidy, Alone
    <3>3. Alone'
      BY <2>1, <2>2, <3>1, <3>2 DEF Alone
    <3>4. OneWorker'
      BY <2>1, <2>3, <3>1 DEF OneWorker
    <3>5. \A e \in Exts : Agrees(e)
      BY <2>2, <2>5 DEF Tidy, Wired, At
    <3>6. NothingOn'
      BY <2>1, <3>1, <3>5 DEF NothingOn, On, ActiveExts, IsActive, Agrees
    <3>7. Wired'
      BY <3>1 DEF Wired
    <3> QED
      BY <2>4, <3>3, <3>4, <3>6, <3>7 DEF Tidy
  <2>6. CASE restart.pc = "enable"
    <3>1. exitQueued' = TRUE /\ restart' = restart
      BY <1>3, <2>6 DEF Crash, Calm, ExitDuringRestart, BeginRestart
    <3>2. Alone'
      BY <2>1, <2>2, <2>6, <3>1 DEF Tidy, Alone
    <3>3. OneWorker'
      BY <2>1, <2>3, <2>6, <3>1 DEF Tidy, OneWorker
    <3>4. NothingOn'
      BY <2>6, <3>1 DEF NothingOn
    <3>5. Wired'
      BY <2>1, <2>6, <3>1 DEF Tidy, Wired, At, Agrees
    <3> QED
      BY <2>4, <3>2, <3>3, <3>4, <3>5 DEF Tidy
  <2> QED
    BY <2>3, <2>5, <2>6
<1> QED
  BY <1>1, <1>2, <1>3 DEF WorkerStep

\* An operation begins under the lock.
LEMMA LockTidy ==
    ASSUME HostTypeOK, LocksHeld, Tidy, NEW e \in Exts, LockAcquired(e)
    PROVE  Tidy'
<1>1. /\ lock[e] # <<>> /\ job[e].pc = "idle" /\ e \in Actors /\ Has(e, e)
      /\ UNCHANGED <<bridge, dead, running, tripped, exitQueued, respawn, loaded, row, restart>>
  BY Distinct DEF LockAcquired, Has, healing
<1>2. restart.pc = "idle" /\ At(e) = "idle"
  BY <1>1, HasAlone
<1>3. /\ Agrees(e) /\ activeOn \in [Exts -> 0..spawned]
      /\ activeOn[e] # 0 => activeOn[e] = bridge /\ (bridge \in running => e \in loaded[bridge])
      /\ restart.pc = "idle" /\ running = {} => ~row[e] /\ activeOn[e] = 0 /\ e \notin routes
  BY <1>2 DEF Tidy, Wired, InWorker, NothingOn, HostTypeOK
<1>4. CASE EnableLocked(e, e) /\ UNCHANGED <<activeOn, routes>>
  <2>1. Proceeds(e)
    BY <1>1, <1>4, EnableProceeds
  <2>2. CASE job'[e] = NoJob
    <3>1. job'[e].pc = "idle" /\ Agrees(e)'
      BY <1>1, <1>3, <1>4, <2>2, NoJobFields DEF Agrees
    <3> QED
      BY <1>1, <1>3, <1>4, <2>1, <3>1, OperationStep
  <2>3. CASE /\ bridge # 0 /\ ~IsActive(e) /\ job'[e].ext = e
             /\ \/ job'[e].pc = "fail"
                \/ job'[e].pc = "load" /\ job'[e].on = bridge
    <3>1. activeOn'[e] = 0 /\ (e \in routes') = (job'[e].pc = "row")
      BY <1>3, <1>4, <2>3 DEF Agrees, IsActive
    <3>2. job'[e].pc \in {"fail", "load"}
      BY <2>3
    <3> QED
      BY <1>1, <1>3, <1>4, <2>1, <2>3, <3>1, <3>2, OperationStep
  <2> QED
    BY <1>1, <1>4, <2>2, <2>3, EnableTakes
<1>5. ASSUME NEW l \in BOOLEAN, DisableLocked(e, l), UNCHANGED <<loading, lock>> PROVE Tidy'
  <2>1. /\ Proceeds(e) /\ job'[e].pc \in {"unload", "off"} /\ job'[e].ext = e
        /\ activeOn' = [activeOn EXCEPT ![e] = 0] /\ routes' = routes \ {e}
    BY <1>1, <1>5, DisableProceeds
  <2>2. activeOn'[e] = 0 /\ (e \in routes') = (job'[e].pc = "row")
    BY <1>3, <2>1
  <2>3. \A d \in Exts : d # e =>
              /\ row'[d] = row[d] /\ activeOn'[d] = activeOn[d] /\ (d \in routes') = (d \in routes)
              /\ d \in loaded[bridge] => d \in loaded'[bridge]
    BY <1>1, <1>3, <2>1
  <2> QED
    BY <1>1, <1>3, <2>1, <2>2, <2>3, OperationStep
<1>6. CASE Finish(e) /\ UNCHANGED <<loading, activeOn, routes>>
  <2>1. Proceeds(e) /\ job'[e].pc = "idle"
    BY <1>1, <1>6, FinishProceeds, Finishes, NoJobFields
  <2>2. Agrees(e)'
    BY <1>1, <1>3, <1>6 DEF Agrees
  <2> QED
    BY <1>1, <1>3, <1>6, <2>1, <2>2, OperationStep
<1>7. PICK l \in BOOLEAN : l = (Head(lock[e]) = "reload")
  OBVIOUS
<1> QED
  BY <1>4, <1>5, <1>6, <1>7 DEF LockAcquired

LEMMA UnloadTidy ==
    ASSUME HostTypeOK, LocksHeld, Tidy, NEW e \in Exts, Unloaded(e)
    PROVE  Tidy'
<1>1. /\ job[e].pc = "unload" /\ job[e].pc # "idle" /\ e \in Actors /\ "off" \in Pcs
      /\ UNCHANGED <<bridge, dead, running, tripped, exitQueued, respawn, lock, row, activeOn, routes, restart>>
      /\ loaded' = [loaded EXCEPT ![job[e].on] = @ \ {e}] /\ Set(e, [job[e] EXCEPT !.pc = "off"])
  BY Distinct DEF Unloaded, healing, wiring, Pcs
<1>2. job[e].ext = e
  BY <1>1, JobHeld
<1>3. /\ Has(e, e) /\ activeOn[e] = 0 /\ (e \in routes) = (job[e].pc = "row")
      /\ restart.pc = "idle" /\ running = {} => ~row[e] /\ activeOn[e] = 0 /\ e \notin routes
  BY <1>1, <1>2, UnderWay
<1>4. Proceeds(e) /\ job'[e].pc = "off" /\ job'[e].ext = e
  BY <1>1, <1>2, PcProceeds
<1>5. activeOn'[e] = 0 /\ (e \in routes') = (job'[e].pc = "row")
  BY <1>1, <1>3, <1>4
<1>6. \A d \in Exts : d # e => (d \in loaded[bridge] => d \in loaded'[bridge])
  BY <1>1 DEF HostTypeOK
<1> QED
  BY <1>1, <1>3, <1>4, <1>5, <1>6, OperationStep

LEMMA DisabledTidy ==
    ASSUME HostTypeOK, LocksHeld, Tidy, NEW e \in Exts, Disabled(e)
    PROVE  Tidy'
<1>1. /\ job[e].pc = "off" /\ job[e].pc # "idle" /\ e \in Actors
      /\ UNCHANGED <<bridge, dead, running, tripped, exitQueued, respawn, loaded, activeOn, routes, restart>>
      /\ row' = [row EXCEPT ![e] = FALSE] /\ row \in [Exts -> BOOLEAN]
  BY Distinct DEF Disabled, healing, HostTypeOK
<1>2. job[e].ext = e /\ lock[e] # <<>>
  BY <1>1, JobHeld
<1>3. /\ Has(e, e) /\ activeOn[e] = 0 /\ (e \in routes) = (job[e].pc = "row")
  BY <1>1, <1>2, UnderWay
<1>4. row'[e] = FALSE /\ activeOn'[e] = 0 /\ e \notin routes'
  BY <1>1, <1>3
<1>5. Agrees(e)'
  <2>1. (activeOn'[e] # 0) = FALSE /\ (e \in routes') = FALSE
    BY <1>4
  <2> QED
    BY <1>4, <2>1, Zenon DEF Agrees
<1>6. \A d \in Exts : d # e =>
              /\ row'[d] = row[d] /\ activeOn'[d] = activeOn[d] /\ (d \in routes') = (d \in routes)
              /\ d \in loaded[bridge] => d \in loaded'[bridge]
  BY <1>1
<1>7. CASE ~job[e].reload
  <2>1. Proceeds(e) /\ job'[e].pc = "idle"
    BY <1>1, <1>2, <1>7, FinishProceeds, Finishes, NoJobFields DEF Disabled
  <2> QED
    BY <1>1, <1>3, <1>4, <1>5, <1>6, <2>1, OperationStep
<1>8. CASE job[e].reload
  <2>1. Proceeds(e) /\ EnableLocked(e, e)
    BY <1>1, <1>2, <1>8, EnableProceeds DEF Disabled
  <2>2. CASE job'[e] = NoJob
    <3>1. job'[e].pc = "idle"
      BY <2>2, NoJobFields
    <3> QED
      BY <1>1, <1>3, <1>4, <1>5, <1>6, <2>1, <3>1, OperationStep
  <2>3. CASE /\ bridge # 0 /\ ~IsActive(e) /\ job'[e].ext = e
             /\ \/ job'[e].pc = "fail"
                \/ job'[e].pc = "load" /\ job'[e].on = bridge
    <3>1. job'[e].pc \in {"fail", "load"}
      BY <2>3
    <3>2. activeOn'[e] = 0 /\ (e \in routes') = (job'[e].pc = "row")
      BY <1>4, <3>1
    <3> QED
      BY <1>1, <1>3, <1>4, <1>6, <2>1, <2>3, <3>1, <3>2, OperationStep
  <2> QED
    BY <1>1, <1>2, <2>1, <2>2, <2>3, EnableTakes
<1> QED
  BY <1>7, <1>8

LEMMA EnableAgainTidy ==
    ASSUME HostTypeOK, LocksHeld, Tidy, NEW e \in Exts, EnableAgain(e)
    PROVE  Tidy'
<1>1. /\ restart.pc = "enable" /\ job[Restart].pc = "idle" /\ e \in restart.todo
      /\ restart' = [restart EXCEPT !.todo = @ \ {e}] /\ EnableLocked(Restart, e)
      /\ UNCHANGED <<bridge, dead, running, loaded, tripped, exitQueued, respawn, row, activeOn, routes>>
  BY DEF EnableAgain, wiring
<1>2. Restart \in Actors /\ Restart \notin Exts /\ Has(Restart, e)
  BY <1>1, Distinct, RestartAssumption DEF Has
<1>3. restart'.pc = restart.pc /\ restart'.todo = restart.todo \ {e}
  BY <1>1 DEF HostTypeOK
<1>4. activeOn[e] = 0 /\ e \notin routes /\ bridge # 0
  <2>1. At(e) = "off"
    BY <1>1 DEF At
  <2> QED
    BY <1>1, <2>1 DEF Tidy, Wired, OneWorker
<1>5. Proceeds(Restart)
  BY <1>1, <1>2, EnableProceeds
<1>6. /\ job'[Restart].ext = e
      /\ \/ job'[Restart].pc = "fail"
         \/ job'[Restart].pc = "load" /\ job'[Restart].on = bridge
  BY <1>1, <1>2, <1>4, EnableTakes DEF IsActive
<1>7. job'[Restart].pc \in {"fail", "load"}
  BY <1>6
<1>8. activeOn'[e] = 0 /\ (e \in routes') = (job'[Restart].pc = "row")
  BY <1>1, <1>4, <1>7
<1>9. \A d \in Exts : d # e => (d \in restart'.todo) = (d \in restart.todo)
  BY <1>3
<1>10. e \notin restart'.todo
  BY <1>3
<1> QED
  BY <1>1, <1>2, <1>3, <1>4, <1>5, <1>6, <1>7, <1>8, <1>9, <1>10, OperationStep

\* A request that only waits for a lock, when neither the handler nor a spawn is at work.
LEMMA QueueTidy ==
    ASSUME HostTypeOK, Tidy, restart.pc = "idle", respawn = {}, respawn' = respawn, tripped' = tripped,
           UNCHANGED <<threads, wiring, exitQueued, restart, job>>
    PROVE  Tidy'
<1>1. Alone'
  BY DEF Tidy, Alone
<1>2. OneWorker'
  BY DEF Tidy, OneWorker, threads
<1>3. NothingOn'
  BY DEF Tidy, NothingOn, threads, wiring
<1>4. Wired'
  BY DEF Tidy, Wired, At, Agrees, wiring
<1>5. InWorker'
  BY DEF Tidy, InWorker, threads, wiring
<1> QED
  BY <1>1, <1>2, <1>3, <1>4, <1>5 DEF Tidy

\* When nothing runs and all locks are free, no operation is under way.
LEMMA AllIdle ==
    ASSUME LocksHeld, Tidy, restart.pc # "enable", \A e \in Exts : lock[e] = <<>>
    PROVE  \A a \in Actors : job[a].pc = "idle"
BY Distinct DEF LocksHeld, Tidy, Alone

LEMMA AskTidy ==
    ASSUME HostTypeOK, LocksHeld, Tidy, Calm, Calm', NEW e \in Exts,
           Enable(e) \/ \E op \in {"disable", "reload"} : Ask(e, op)
    PROVE  Tidy'
<1>1. restart.pc = "idle" /\ respawn = {} /\ ~(NeedsBridge /\ Busy)
  <2>1. Request
    BY DEF Enable, Ask
  <2> QED
    BY <2>1 DEF Request, Calm
<1>2. CASE \E op \in {"disable", "reload"} : Ask(e, op)
  BY <1>1, <1>2, QueueTidy DEF Ask, healing
<1>3. CASE Enable(e) /\ ~NeedsBridge
  <2>1. tripped' = tripped
    BY <1>3 DEF Enable, NeedsBridge, HostTypeOK
  <2> QED
    BY <1>1, <1>3, <2>1, QueueTidy DEF Enable
<1>4. CASE Enable(e) /\ NeedsBridge
  <2>1. running = {}
    BY <1>4 DEF Tidy, OneWorker, NeedsBridge, HostTypeOK
  <2>2. \A d \in Exts : lock[d] = <<>>
    BY <1>1, <1>4 DEF Busy
  <2>3. \A a \in Actors : job[a].pc = "idle"
    BY <1>1, <2>2, AllIdle
  <2>4. \A d \in Exts : ~row[d] /\ activeOn[d] = 0 /\ d \notin routes
    BY <1>1, <2>1 DEF Tidy, NothingOn
  <2>5. /\ UNCHANGED <<wiring, row, activeOn, routes, exitQueued, restart, job>> /\ tripped' = FALSE
        /\ respawn' = {e} /\ running' = {} /\ lock' = lock
    <3>1. running' = running \ {bridge}
      BY <1>4, StopTypes DEF Enable
    <3> QED
      BY <1>1, <1>4, <2>1, <3>1 DEF Enable, wiring
  <2>6. Alone'
    BY <1>1, <2>2, <2>3, <2>5, Distinct DEF Alone
  <2>7. OneWorker'
    BY <1>1, <2>5 DEF Tidy, OneWorker
  <2>8. NothingOn'
    BY <1>1, <2>3, <2>4, <2>5, Distinct DEF NothingOn
  <2>9. Wired'
    BY <1>1, <2>5 DEF Tidy, Wired, At, Agrees
  <2>10. InWorker'
    BY <2>3, <2>4, <2>5 DEF InWorker
  <2> QED
    BY <2>6, <2>7, <2>8, <2>9, <2>10 DEF Tidy
<1> QED
  BY <1>2, <1>3, <1>4

LEMMA RespawnTidy ==
    ASSUME HostTypeOK, LocksHeld, Tidy, NEW e \in Exts, Respawned(e)
    PROVE  Tidy'
<1>1. /\ restart.pc = "idle" /\ running = {} /\ ~tripped /\ respawn' = {}
      /\ UNCHANGED <<row, activeOn, routes, tripped, exitQueued, restart, job>>
  BY DEF Respawned, Tidy, Alone, wiring, healing
<1>2. \A d \in Exts : lock[d] = <<>>
  BY DEF Respawned, Tidy, Alone
<1>3. \A a \in Actors : job[a].pc = "idle"
  BY <1>1, <1>2, AllIdle
<1>4. \A d \in Exts : ~row[d] /\ activeOn[d] = 0 /\ d \notin routes
  BY <1>1 DEF Tidy, NothingOn
<1>5. running' = {bridge'} /\ ~dead' /\ bridge' # 0
  <2>1. SpawnBridge /\ bridge' = spawned' /\ spawned' = spawned + 1 /\ ~dead' /\ spawned \in Nat
    BY SpawnTypes DEF Respawned, HostTypeOK, Workers
  <2> QED
    BY <1>1, <2>1 DEF SpawnBridge
<1>6. Alone'
  BY <1>1, <1>3, Distinct DEF Alone
<1>7. OneWorker'
  BY <1>1, <1>5 DEF Tidy, OneWorker
<1>8. NothingOn'
  BY <1>1, <1>5 DEF NothingOn
<1>9. Wired'
  BY <1>1 DEF Tidy, Wired, At, Agrees
<1>10. InWorker'
  BY <1>1, <1>3, <1>4 DEF InWorker
<1> QED
  BY <1>6, <1>7, <1>8, <1>9, <1>10 DEF Tidy

LEMMA RestartTidy ==
    ASSUME HostTypeOK, LocksHeld, Tidy, Calm, RestartStep
    PROVE  Tidy'
<1>0. /\ restart.pc # "idle" => \A d \in Exts : lock[d] = <<>>
      /\ restart.pc # "idle" => \A d \in Exts : job[d].pc = "idle"
      /\ restart.pc # "idle" => respawn = {}
      /\ restart.pc \notin {"idle", "enable"} => running = {} /\ ~exitQueued /\ job[Restart].pc = "idle"
      /\ restart \in [pc : {"idle", "tear", "trip", "backoff", "enable"},
                      todo : SUBSET Exts, pool : SUBSET Exts, tear : SUBSET Exts]
  <2>1. restart.pc # "idle" => \A d \in Exts : lock[d] = <<>>
    BY DEF Tidy, Alone
  <2>2. restart.pc # "idle" => \A d \in Exts : job[d].pc = "idle"
    BY <2>1, Distinct DEF LocksHeld
  <2> QED
    BY <2>1, <2>2 DEF Tidy, Alone, OneWorker, HostTypeOK
<1>1. ASSUME NEW e \in Exts, TearDown(e) PROVE Tidy'
  <2>1. /\ restart.pc = "tear" /\ restart'.pc = "tear" /\ restart'.tear = restart.tear \ {e}
        /\ restart'.todo = restart.todo /\ restart'.pool = restart.pool
        /\ activeOn' = [activeOn EXCEPT ![e] = 0] /\ activeOn \in [Exts -> 0..spawned] /\ routes' = routes \ {e}
        /\ UNCHANGED <<bridge, dead, running, loaded, row, tripped, exitQueued, lock, job, respawn>>
    BY <1>0, <1>1 DEF TearDown, threads, HostTypeOK
  <2>2. Alone'
    BY <1>0, <2>1 DEF Alone
  <2>3. OneWorker'
    BY <1>0, <2>1 DEF Tidy, OneWorker
  <2>4. NothingOn'
    BY <1>0, <2>1 DEF Tidy, NothingOn
  <2>5. Wired'
    BY <2>1 DEF Wired
  <2>6. InWorker'
    BY <2>1 DEF Tidy, InWorker
  <2> QED
    BY <2>2, <2>3, <2>4, <2>5, <2>6 DEF Tidy
<1>2. ASSUME NEW e \in Exts, TripRow(e) PROVE Tidy'
  <2>1. /\ restart.pc = "trip" /\ restart'.pc = "trip" /\ restart'.todo = restart.todo \ {e}
        /\ row' = [row EXCEPT ![e] = FALSE] /\ row \in [Exts -> BOOLEAN]
        /\ UNCHANGED <<bridge, dead, running, loaded, activeOn, routes, tripped, exitQueued, lock, job, respawn>>
    BY <1>0, <1>2 DEF TripRow, threads, HostTypeOK
  <2>2. Alone'
    BY <1>0, <2>1 DEF Alone
  <2>3. OneWorker'
    BY <1>0, <2>1 DEF Tidy, OneWorker
  <2>4. NothingOn'
    BY <1>0, <2>1 DEF Tidy, NothingOn
  <2>5. Wired'
    BY <2>1 DEF Wired
  <2>6. InWorker'
    BY <2>1 DEF Tidy, InWorker
  <2> QED
    BY <2>2, <2>3, <2>4, <2>5, <2>6 DEF Tidy
<1>3. ASSUME NEW e \in Exts, EnableAgain(e) PROVE Tidy'
  BY <1>3, EnableAgainTidy
<1>4. CASE TornDown
  <2>1. /\ restart.pc = "tear" /\ restart.tear = {} /\ restart'.todo = restart.todo /\ routes' = routes \ restart.pool
        /\ \/ restart'.pc = "trip"
           \/ restart'.pc = "backoff" /\ tripped' = tripped
        /\ UNCHANGED <<bridge, dead, running, loaded, row, activeOn, exitQueued, lock, job, respawn>>
    BY <1>0, <1>4 DEF TornDown, threads
  <2>2. Alone'
    BY <1>0, <2>1 DEF Alone
  <2>3. OneWorker'
    BY <1>0, <2>1 DEF Tidy, OneWorker
  <2>4. NothingOn'
    BY <1>0, <2>1 DEF Tidy, NothingOn
  <2>5. Wired'
    BY <2>1 DEF Wired
  <2>6. InWorker'
    BY <2>1 DEF Tidy, InWorker
  <2> QED
    BY <2>2, <2>3, <2>4, <2>5, <2>6 DEF Tidy
<1>5. CASE Backoff
  <2>1. restart.pc = "backoff" /\ ~stopping /\ ~tripped
    BY <1>5 DEF Backoff, Calm, Tidy, OneWorker
  <2>2. /\ SpawnBridge /\ restart'.pc = "enable" /\ restart'.todo = restart.todo
        /\ UNCHANGED <<row, activeOn, routes, tripped, exitQueued, lock, job, respawn>>
    BY <1>0, <1>5, <2>1 DEF Backoff, wiring
  <2>3. running' = {bridge'} /\ ~dead' /\ bridge' # 0
    <3>1. bridge' = spawned' /\ spawned' = spawned + 1 /\ ~dead' /\ spawned \in Nat /\ running = {}
      BY <1>0, <2>1, <2>2, SpawnTypes DEF HostTypeOK, Workers
    <3> QED
      BY <2>2, <3>1 DEF SpawnBridge
  <2>4. \A d \in Exts : activeOn[d] = 0 /\ d \notin routes /\ (row[d] => d \in restart.todo)
    BY <2>1 DEF Tidy, NothingOn
  <2>5. Alone'
    BY <1>0, <2>1, <2>2 DEF Alone
  <2>6. OneWorker'
    BY <1>0, <2>1, <2>2, <2>3 DEF OneWorker
  <2>7. NothingOn'
    BY <2>2 DEF NothingOn
  <2>8. Wired'
    <3> SUFFICES ASSUME NEW d \in Exts
                 PROVE  IF At(d)' = "idle" THEN Agrees(d)'
                        ELSE activeOn'[d] = 0 /\ (d \in routes') = (At(d)' = "row")
      BY DEF Wired
    <3>1. At(d)' = IF d \in restart.todo THEN "off" ELSE "idle"
      BY <1>0, <2>1, <2>2 DEF At
    <3>2. CASE d \in restart.todo
      BY <2>2, <2>4, <3>1, <3>2
    <3>3. CASE d \notin restart.todo
      <4>1. row'[d] = FALSE /\ (activeOn'[d] # 0) = FALSE /\ (d \in routes') = FALSE
        BY <2>2, <2>4, <3>3 DEF HostTypeOK
      <4>2. Agrees(d)'
        BY <4>1, Zenon DEF Agrees
      <4> QED
        BY <3>1, <3>3, <4>2
    <3> QED
      BY <3>2, <3>3
  <2>9. InWorker'
    <3>1. \A a \in Actors : job'[a].pc = "idle"
      BY <1>0, <2>1, <2>2, Distinct
    <3> QED
      BY <2>2, <2>4, <3>1 DEF InWorker
  <2> QED
    BY <2>5, <2>6, <2>7, <2>8, <2>9 DEF Tidy
<1>6. CASE Restarted
  <2>1. /\ restart.pc \in {"trip", "enable"} /\ restart.todo = {} /\ \A a \in Actors : job[a].pc = "idle"
        /\ UNCHANGED <<bridge, dead, running, loaded, row, activeOn, routes, tripped, lock, job, respawn>>
    BY <1>0, <1>6, Distinct DEF Restarted, threads, wiring
  <2>2. \A d \in Exts : Agrees(d)
    <3>1. CASE restart.pc = "enable"
      BY <2>1, <3>1, Distinct DEF Tidy, Wired, At
    <3>2. CASE restart.pc = "trip"
      <4> SUFFICES ASSUME NEW d \in Exts PROVE Agrees(d)
        OBVIOUS
      <4>1. row[d] = FALSE /\ (activeOn[d] # 0) = FALSE /\ (d \in routes) = FALSE
        BY <2>1, <3>2 DEF Tidy, NothingOn, HostTypeOK
      <4> QED
        BY <4>1, Zenon DEF Agrees
    <3> QED
      BY <2>1, <3>1, <3>2
  <2>3. InWorker'
    BY <2>1 DEF Tidy, InWorker
  <2>4. CASE exitQueued /\ ~stopping
    <3>1. /\ restart' = [pc |-> "tear", todo |-> On, pool |-> ActiveExts, tear |-> ActiveExts]
          /\ exitQueued' = FALSE
      BY <1>6, <2>4 DEF Restarted, EndRestart, BeginRestart
    <3>2. running = {} /\ restart.pc = "enable" /\ ~tripped
      BY <2>4 DEF Tidy, OneWorker
    <3>3. Alone'
      BY <1>0, <2>1, <3>1, Distinct DEF Alone
    <3>4. OneWorker'
      BY <2>1, <3>1, <3>2 DEF OneWorker
    <3>5. NothingOn'
      BY <2>1, <2>2, <3>1 DEF NothingOn, On, ActiveExts, IsActive, Agrees
    <3>6. Wired'
      BY <3>1 DEF Wired
    <3> QED
      BY <2>3, <3>3, <3>4, <3>5, <3>6 DEF Tidy
  <2>5. CASE ~(exitQueued /\ ~stopping)
    <3>1. restart'.pc = "idle" /\ exitQueued' = exitQueued /\ ~exitQueued
      BY <1>6, <2>5 DEF Restarted, EndRestart, NoRestart, Calm
    <3>2. Alone'
      BY <1>0, <2>1, <3>1, Distinct DEF Alone
    <3>3. OneWorker'
      BY <2>1, <3>1 DEF Tidy, OneWorker
    <3>4. NothingOn'
      <4>1. CASE restart.pc = "enable"
        <5>1. running # {}
          BY <3>1, <4>1 DEF Tidy, OneWorker
        <5> QED
          BY <2>1, <3>1, <5>1 DEF NothingOn
      <4>2. CASE restart.pc = "trip"
        <5>1. \A d \in Exts : ~row[d] /\ activeOn[d] = 0 /\ d \notin routes
          BY <2>1, <4>2 DEF Tidy, NothingOn
        <5> QED
          BY <2>1, <3>1, <5>1, Distinct DEF NothingOn
      <4> QED
        BY <2>1, <4>1, <4>2
    <3>5. Wired'
      <4>1. \A d \in Exts : At(d)' = "idle"
        BY <2>1, <3>1, Distinct DEF At
      <4> QED
        BY <2>1, <2>2, <4>1 DEF Wired, Agrees
    <3> QED
      BY <2>3, <3>2, <3>3, <3>4, <3>5 DEF Tidy
  <2> QED
    BY <2>4, <2>5
<1> QED
  BY <1>1, <1>2, <1>3, <1>4, <1>5, <1>6 DEF RestartStep

-----------------------------------------------------------------------------
LEMMA HostInvInit == HostInit => HostInv
<1> SUFFICES ASSUME HostInit PROVE HostInv
  OBVIOUS
<1>1. HostTypeOK /\ LocksHeld
  BY InitTypes
<1>2. /\ bridge = 1 /\ running = {1} /\ ~dead /\ ~tripped /\ ~exitQueued /\ respawn = {}
      /\ restart.pc = "idle" /\ routes = On
  BY DEF HostInit, NoRestart
<1>3. /\ \A a \in Actors : job[a].pc = "idle"
      /\ \A e \in Exts : lock[e] = <<>> /\ activeOn[e] = IF row[e] THEN 1 ELSE 0
      /\ \A e \in Exts : (e \in routes) = row[e]
  BY <1>2, NoJobFields DEF HostInit, On
<1>4. loaded[1] = On
  BY HostBounds DEF HostInit
<1>5. Alone /\ OneWorker /\ NothingOn
  BY <1>2, <1>3, Distinct DEF Alone, OneWorker, NothingOn
<1>6. ASSUME NEW e \in Exts PROVE (activeOn[e] # 0) = row[e]
  <2>1. CASE row[e] = TRUE
    <3>1. activeOn[e] = 1
      BY <1>3, <2>1
    <3>2. (activeOn[e] # 0) = TRUE
      BY <3>1
    <3> QED
      BY <2>1, <3>2, Zenon
  <2>2. CASE row[e] = FALSE
    <3>1. activeOn[e] = 0
      BY <1>3, <2>2
    <3>2. (activeOn[e] # 0) = FALSE
      BY <3>1
    <3> QED
      BY <2>2, <3>2, Zenon
  <2> QED
    BY <1>1, <2>1, <2>2 DEF HostTypeOK
<1>7. Wired
  <2>1. \A e \in Exts : Agrees(e)
    BY <1>3, <1>6, Zenon DEF Agrees
  <2>2. \A e \in Exts : At(e) = "idle"
    BY <1>2, <1>3, Distinct DEF At
  <2> QED
    BY <2>1, <2>2 DEF Wired
<1>8. InWorker
  BY <1>2, <1>3, <1>4 DEF InWorker, On
<1> QED
  BY <1>1, <1>5, <1>7, <1>8 DEF HostInv, Tidy

LEMMA HostInvStep == HostInv /\ [HostNext]_hostVars => HostInv'
<1> SUFFICES ASSUME HostInv, [HostNext]_hostVars PROVE HostInv'
  OBVIOUS
<1>1. HostTypeOK /\ LocksHeld /\ HostTypeOK' /\ LocksHeld'
  BY StepTypes DEF HostInv
<1>2. SUFFICES ASSUME Calm' PROVE Tidy'
  BY <1>1 DEF HostInv
<1>3. ASSUME HostNext PROVE Calm
  <2>0. ASSUME \/ UNCHANGED <<stopping, disturbed>>
               \/ \E more \in BOOLEAN : disturbed' = (disturbed \/ more) /\ UNCHANGED stopping
        PROVE  Calm
    <3>1. CASE UNCHANGED <<stopping, disturbed>>
      BY <1>2, <3>1 DEF Calm
    <3>2. ASSUME NEW more \in BOOLEAN, disturbed' = (disturbed \/ more), stopping' = stopping
          PROVE  Calm
      <4>1. ~disturbed' /\ ~stopping
        BY <1>2, <3>2 DEF Calm
      <4>2. ~(disturbed \/ more)
        BY <3>2, <4>1, Zenon
      <4> QED
        BY <4>1, <4>2 DEF Calm
    <3> QED
      BY <2>0, <3>1, <3>2
  <2>1. ASSUME NEW e \in Exts, Enable(e) \/ Respawned(e) \/ LockAcquired(e) \/ Unloaded(e) \/ Disabled(e)
        PROVE  Calm
    <3>1. CASE Enable(e)
      BY <2>0, <3>1 DEF Enable, Request
    <3>2. CASE Respawned(e) \/ LockAcquired(e) \/ Unloaded(e) \/ Disabled(e)
      BY <2>0, <3>2 DEF Respawned, LockAcquired, Unloaded, Disabled
    <3> QED
      BY <2>1, <3>1, <3>2
  <2>2. ASSUME NEW e \in Exts, NEW op \in {"disable", "reload"}, Ask(e, op) PROVE Calm
    BY <2>0, <2>2 DEF Ask, Request
  <2>3. ASSUME NEW a \in Actors, JobStep(a) PROVE Calm
    <3>1. CASE CommitFails(a)
      BY <2>0, <3>1 DEF CommitFails
    <3>2. CASE LoadFails(a) \/ AddRoutes(a) \/ Activated(a) \/ RecordFailure(a)
      BY <2>0, <3>2 DEF LoadFails, AddRoutes, Activated, RecordFailure
    <3> QED
      BY <2>3, <3>1, <3>2 DEF JobStep
  <2>4. CASE WorkerStep
    <3>1. ASSUME NEW w \in running, Crash(w) PROVE Calm
      BY <2>0, <3>1 DEF Crash
    <3>2. ASSUME NEW c \in loading, WorkerRefuses(c) \/ \E accepted \in BOOLEAN : WorkerLoads(c, accepted)
          PROVE  Calm
      BY <2>0, <3>2 DEF WorkerRefuses, WorkerLoads
    <3> QED
      BY <2>4, <3>1, <3>2 DEF WorkerStep
  <2>5. CASE RestartStep
    BY <1>2, <2>5 DEF Calm, RestartStep, TearDown, TripRow, EnableAgain, TornDown, Backoff, Restarted
  <2>6. CASE StopManager
    BY <1>2, <2>6 DEF Calm, StopManager
  <2> QED
    BY <1>3, <2>1, <2>2, <2>3, <2>4, <2>5, <2>6 DEF HostNext
<1>4. ASSUME HostNext PROVE Tidy'
  <2>0. Calm /\ Tidy
    BY <1>3, <1>4 DEF HostInv
  <2>1. ASSUME NEW e \in Exts, Enable(e) \/ Respawned(e) \/ LockAcquired(e) \/ Unloaded(e) \/ Disabled(e)
        PROVE  Tidy'
    BY <1>1, <1>2, <2>0, <2>1, AskTidy, RespawnTidy, LockTidy, UnloadTidy, DisabledTidy
  <2>2. ASSUME NEW e \in Exts, NEW op \in {"disable", "reload"}, Ask(e, op) PROVE Tidy'
    BY <1>1, <1>2, <2>0, <2>2, AskTidy
  <2>3. ASSUME NEW a \in Actors, JobStep(a) PROVE Tidy'
    BY <1>1, <1>2, <2>0, <2>3, JobTidy
  <2>4. CASE WorkerStep
    BY <1>1, <1>2, <2>0, <2>4, WorkerTidy
  <2>5. CASE RestartStep
    BY <1>1, <2>0, <2>5, RestartTidy
  <2>6. CASE StopManager
    BY <1>2, <2>6 DEF Calm, StopManager
  <2> QED
    BY <1>4, <2>1, <2>2, <2>3, <2>4, <2>5, <2>6 DEF HostNext
<1>5. CASE UNCHANGED hostVars
  <2>1. UNCHANGED <<bridge, dead, running, loaded, wiring, healing, lock, job, respawn, stopping, disturbed>>
    BY <1>5 DEF hostVars, threads
  <2>2. Tidy
    BY <1>2, <2>1 DEF HostInv, Calm
  <2> QED
    BY <1>1, <2>1, <2>2, LoadedMore
<1> QED
  BY <1>4, <1>5

\* Once everything has settled, table, memory, routes and worker agree on which extensions
\* are active: with any extensions and dependencies, through any number of crashes, failed
\* loads and requests, as long as no operation met a crash or its handler (ExtensionManager).
THEOREM HostAgrees == HostSpec => []SettledAgrees
<1>1. HostInv => SettledAgrees
  <2> SUFFICES ASSUME HostInv, Quiet, ~disturbed
               PROVE  /\ ActiveExts = On /\ routes = On /\ running \subseteq {bridge}
                      /\ \A e \in On : activeOn[e] = bridge /\ bridge \in running /\ e \in loaded[bridge]
    BY DEF SettledAgrees
  <2>1. Tidy /\ restart.pc = "idle" /\ (\A e \in Exts : At(e) = "idle") /\ routes \subseteq Exts
    BY Distinct DEF HostInv, Quiet, Calm, At, HostTypeOK
  <2>2. \A e \in Exts : row[e] = (activeOn[e] # 0) /\ (e \in routes) = (activeOn[e] # 0)
    BY <2>1 DEF Tidy, Wired, Agrees
  <2>3. ActiveExts = On /\ routes = On
    BY <2>1, <2>2 DEF ActiveExts, On, IsActive
  <2>4. running \subseteq {bridge}
    BY <2>1 DEF Tidy, OneWorker
  <2>5. ASSUME NEW e \in On PROVE activeOn[e] = bridge /\ bridge \in running /\ e \in loaded[bridge]
    <3>1. e \in Exts /\ row[e] /\ activeOn[e] # 0
      BY <2>2 DEF On
    <3>2. bridge \in running
      BY <2>1, <2>4, <3>1 DEF Tidy, NothingOn
    <3> QED
      BY <2>1, <3>1, <3>2 DEF Tidy, InWorker
  <2> QED
    BY <2>3, <2>4, <2>5
<1>2. HostSpec => []HostInv
  BY HostInvInit, HostInvStep, PTL DEF HostSpec
<1> QED
  BY <1>1, <1>2, PTL

-----------------------------------------------------------------------------
(* Lifecycle: the steps of boot.  The list of them is made of the providers,   *)
(* so what step comes when is a lemma of its own (BootPlan).                   *)

LEMMA ProvidersAre ==
    /\ Len(Providers) \in Nat /\ DOMAIN Providers = 1..Len(Providers)
    /\ \A i \in 1..Len(Providers) :
         /\ Providers[i] \in ToSet(Providers)
         /\ Providers[i] \notin ToSet(StopOrder) /\ Providers[i] # "nothing" /\ Providers[i] # "hooks"
    /\ \A x \in ToSet(Providers) : \E i \in 1..Len(Providers) : x = Providers[i]
    /\ \A i, j \in 1..Len(Providers) : Providers[i] = Providers[j] => i = j
<1>1. Len(Providers) \in Nat /\ DOMAIN Providers = 1..Len(Providers)
  BY ProvidersAssumption
<1>2. \A i \in 1..Len(Providers) : Providers[i] \in ToSet(Providers)
  BY <1>1 DEF ToSet
<1>3. \A x \in ToSet(Providers) : \E i \in 1..Len(Providers) : x = Providers[i]
  BY <1>1 DEF ToSet
<1>4. \A x \in ToSet(Providers) : x \notin ToSet(StopOrder) /\ x # "nothing" /\ x # "hooks"
  BY ProvidersAssumption
<1>5. \A i, j \in 1..Len(Providers) : Providers[i] = Providers[j] => i = j
  BY <1>1, ProvidersAssumption DEF IsInjective
<1> QED
  BY <1>1, <1>2, <1>3, <1>4, <1>5

LEMMA FieldsAre ==
    /\ ToSet(StopOrder) = {"extManager", "core", "sandbox", "cron", "http", "hub", "logSink", "db"}
    /\ Len(StopOrder) = 8
    /\ StopOrder[1] = "extManager" /\ StopOrder[2] = "core" /\ StopOrder[3] = "sandbox"
    /\ StopOrder[4] = "cron" /\ StopOrder[5] = "http" /\ StopOrder[6] = "hub"
    /\ StopOrder[7] = "logSink" /\ StopOrder[8] = "db"
    /\ \A i \in 1..8 : StopOrder[i] \in ToSet(StopOrder)
    /\ \A x \in ToSet(StopOrder) : \E i \in 1..8 : x = StopOrder[i]
    /\ \A i, j \in 1..8 : StopOrder[i] = StopOrder[j] => i = j
    /\ "nothing" \notin ToSet(StopOrder) /\ "hooks" \notin ToSet(StopOrder)
<1>1. /\ Len(StopOrder) = 8 /\ DOMAIN StopOrder = 1..8
      /\ StopOrder[1] = "extManager" /\ StopOrder[2] = "core" /\ StopOrder[3] = "sandbox"
      /\ StopOrder[4] = "cron" /\ StopOrder[5] = "http" /\ StopOrder[6] = "hub"
      /\ StopOrder[7] = "logSink" /\ StopOrder[8] = "db"
  BY DEF StopOrder
<1>2. \A i \in 1..8 : i = 1 \/ i = 2 \/ i = 3 \/ i = 4 \/ i = 5 \/ i = 6 \/ i = 7 \/ i = 8
  OBVIOUS
<1>3. \A x : x \in ToSet(StopOrder) <=> \E i \in 1..8 : x = StopOrder[i]
  BY <1>1 DEF ToSet
<1>4. ToSet(StopOrder) = {"extManager", "core", "sandbox", "cron", "http", "hub", "logSink", "db"}
  BY <1>1, <1>2, <1>3
<1>5. \A i, j \in 1..8 : StopOrder[i] = StopOrder[j] => i = j
  BY <1>1, <1>2
<1> QED
  BY <1>1, <1>3, <1>4, <1>5

LEMMA ConcatAt ==
    ASSUME NEW S, NEW s \in Seq(S), NEW t \in Seq(S)
    PROVE  /\ Len(s \o t) = Len(s) + Len(t)
           /\ \A i \in 1..Len(s) : (s \o t)[i] = s[i]
           /\ \A i \in 1..Len(t) : (s \o t)[Len(s) + i] = t[i]
<1>1. /\ Len(s \o t) = Len(s) + Len(t)
      /\ \A i \in 1..(Len(s) + Len(t)) : (s \o t)[i] = IF i <= Len(s) THEN s[i] ELSE t[i - Len(s)]
  BY ConcatProperties
<1>2. Len(s) \in Nat /\ Len(t) \in Nat
  BY LenProperties
<1>3. ASSUME NEW i \in 1..Len(t) PROVE (s \o t)[Len(s) + i] = t[i]
  <2>1. Len(s) + i \in 1..(Len(s) + Len(t)) /\ ~(Len(s) + i <= Len(s)) /\ (Len(s) + i) - Len(s) = i
    BY <1>2
  <2> QED
    BY <1>1, <2>1
<1>4. \A i \in 1..Len(s) : i \in 1..(Len(s) + Len(t)) /\ i <= Len(s)
  BY <1>2
<1> QED
  BY <1>1, <1>3, <1>4

\* Where each step is in the list.
LEMMA BootPlan ==
    /\ Len(BootSteps) = 2 * Len(Providers) + 15
    /\ BootSteps[1] = Do("open", "hub") /\ BootSteps[2] = Do("open", "db")
    /\ BootSteps[3] = Do("make", "cron") /\ BootSteps[4] = Do("make", "core")
    /\ BootSteps[5] = Do("make", "sandbox") /\ BootSteps[6] = Do("make", "extManager")
    /\ BootSteps[7] = Do("open", "logSink") /\ BootSteps[8] = Do("hook", "kernel.boot")
    /\ \A i \in 1..Len(Providers) :
         /\ BootSteps[8 + i] = Do("register", Providers[i])
         /\ BootSteps[8 + Len(Providers) + i] = Do("boot", Providers[i])
    /\ BootSteps[2 * Len(Providers) + 9] = Do("make", "http")
    /\ BootSteps[2 * Len(Providers) + 10] = Do("start", "core")
    /\ BootSteps[2 * Len(Providers) + 11] = Do("start", "sandbox")
    /\ BootSteps[2 * Len(Providers) + 12] = Do("start", "extManager")
    /\ BootSteps[2 * Len(Providers) + 13] = Do("start", "cron")
    /\ BootSteps[2 * Len(Providers) + 14] = Do("listen", "http")
    /\ BootSteps[2 * Len(Providers) + 15] = Do("hook", "kernel.ready")
<1>0. PICK S : S = ToSet(FirstSteps) \union ToSet(ProviderSteps("register"))
                        \union ToSet(ProviderSteps("boot")) \union ToSet(LastSteps)
  OBVIOUS
<1>1. /\ FirstSteps \in Seq(S) /\ Len(FirstSteps) = 8
      /\ FirstSteps[1] = Do("open", "hub") /\ FirstSteps[2] = Do("open", "db")
      /\ FirstSteps[3] = Do("make", "cron") /\ FirstSteps[4] = Do("make", "core")
      /\ FirstSteps[5] = Do("make", "sandbox") /\ FirstSteps[6] = Do("make", "extManager")
      /\ FirstSteps[7] = Do("open", "logSink") /\ FirstSteps[8] = Do("hook", "kernel.boot")
  <2>1. Len(FirstSteps) = 8 /\ DOMAIN FirstSteps = 1..8 /\ FirstSteps = [i \in 1..8 |-> FirstSteps[i]]
    BY DEF FirstSteps
  <2>2. \A i \in 1..8 : FirstSteps[i] \in S
    BY <1>0, <2>1 DEF ToSet
  <2>3. FirstSteps \in Seq(S)
    BY <2>1, <2>2, IsASeq
  <2> QED
    BY <2>1, <2>3 DEF FirstSteps
<1>2. /\ LastSteps \in Seq(S) /\ Len(LastSteps) = 7
      /\ LastSteps[1] = Do("make", "http") /\ LastSteps[2] = Do("start", "core")
      /\ LastSteps[3] = Do("start", "sandbox") /\ LastSteps[4] = Do("start", "extManager")
      /\ LastSteps[5] = Do("start", "cron") /\ LastSteps[6] = Do("listen", "http")
      /\ LastSteps[7] = Do("hook", "kernel.ready")
  <2>1. Len(LastSteps) = 7 /\ DOMAIN LastSteps = 1..7 /\ LastSteps = [i \in 1..7 |-> LastSteps[i]]
    BY DEF LastSteps
  <2>2. \A i \in 1..7 : LastSteps[i] \in S
    BY <1>0, <2>1 DEF ToSet
  <2>3. LastSteps \in Seq(S)
    BY <2>1, <2>2, IsASeq
  <2> QED
    BY <2>1, <2>3 DEF LastSteps
<1>3. ASSUME NEW op \in {"register", "boot"}
      PROVE  /\ ProviderSteps(op) \in Seq(S) /\ Len(ProviderSteps(op)) = Len(Providers)
             /\ \A i \in 1..Len(Providers) : ProviderSteps(op)[i] = Do(op, Providers[i])
  <2>1. DOMAIN ProviderSteps(op) = 1..Len(Providers) /\ Len(Providers) \in Nat
    BY ProvidersAre DEF ProviderSteps
  <2>2. \A i \in 1..Len(Providers) : ProviderSteps(op)[i] = Do(op, Providers[i])
    BY ProvidersAre DEF ProviderSteps
  <2>3. \A i \in 1..Len(Providers) : ProviderSteps(op)[i] \in S
    BY <1>0, <2>1 DEF ToSet
  <2>4. ProviderSteps(op) = [i \in 1..Len(Providers) |-> ProviderSteps(op)[i]]
    BY <2>1, <2>2 DEF ProviderSteps
  <2>5. ProviderSteps(op) \in Seq(S) /\ Len(ProviderSteps(op)) = Len(Providers)
    BY <2>1, <2>3, <2>4, IsASeq
  <2> QED
    BY <2>2, <2>5
<1>4. PICK P \in Nat : P = Len(Providers)
  BY ProvidersAre
<1>5. PICK F \in Seq(S), R \in Seq(S), B \in Seq(S), L \in Seq(S) :
        F = FirstSteps /\ R = ProviderSteps("register") /\ B = ProviderSteps("boot") /\ L = LastSteps
  BY <1>1, <1>2, <1>3
<1>6. /\ Len(F) = 8 /\ Len(L) = 7
      /\ Len(R) = P /\ \A i \in 1..P : R[i] = Do("register", Providers[i])
      /\ Len(B) = P /\ \A i \in 1..P : B[i] = Do("boot", Providers[i])
  BY <1>1, <1>2, <1>3, <1>4, <1>5
<1>7. PICK X \in Seq(S) : X = F \o R
  BY ConcatProperties
<1>8. PICK Y \in Seq(S) : Y = X \o B
  BY ConcatProperties
<1>9. Len(X) = 8 + P /\ (\A i \in 1..8 : X[i] = F[i]) /\ (\A i \in 1..P : X[8 + i] = R[i])
  <2>1. /\ Len(F \o R) = Len(F) + Len(R)
        /\ \A i \in 1..Len(F) : (F \o R)[i] = F[i]
        /\ \A i \in 1..Len(R) : (F \o R)[Len(F) + i] = R[i]
    BY ConcatAt
  <2> QED
    BY <1>6, <1>7, <2>1
<1>10. Len(Y) = 8 + P + P /\ (\A i \in 1..(8 + P) : Y[i] = X[i]) /\ (\A i \in 1..P : Y[8 + P + i] = B[i])
  <2>1. /\ Len(X \o B) = Len(X) + Len(B)
        /\ \A i \in 1..Len(X) : (X \o B)[i] = X[i]
        /\ \A i \in 1..Len(B) : (X \o B)[Len(X) + i] = B[i]
    BY ConcatAt
  <2> QED
    BY <1>6, <1>9, <1>8, <2>1
<1>11. BootSteps = Y \o L
  BY <1>5, <1>7, <1>8 DEF BootSteps
<1>12. /\ Len(BootSteps) = 8 + P + P + 7 /\ (\A i \in 1..(8 + P + P) : BootSteps[i] = Y[i])
       /\ (\A i \in 1..7 : BootSteps[8 + P + P + i] = L[i])
  <2>1. /\ Len(Y \o L) = Len(Y) + Len(L)
        /\ \A i \in 1..Len(Y) : (Y \o L)[i] = Y[i]
        /\ \A i \in 1..Len(L) : (Y \o L)[Len(Y) + i] = L[i]
    BY ConcatAt
  <2> QED
    BY <1>6, <1>10, <1>11, <2>1
<1>13. /\ \A i \in 1..8 : BootSteps[i] = F[i]
       /\ \A i \in 1..P : BootSteps[8 + i] = R[i] /\ BootSteps[8 + P + i] = B[i]
  <2>1. \A i \in 1..8 : i \in 1..(8 + P) /\ i \in 1..(8 + P + P)
    OBVIOUS
  <2>2. \A i \in 1..P : 8 + i \in 1..(8 + P) /\ 8 + i \in 1..(8 + P + P) /\ 8 + P + i \in 1..(8 + P + P)
    OBVIOUS
  <2> QED
    BY <1>9, <1>10, <1>12, <2>1, <2>2
<1>14. /\ BootSteps[2 * P + 9] = L[1] /\ BootSteps[2 * P + 10] = L[2]
       /\ BootSteps[2 * P + 11] = L[3] /\ BootSteps[2 * P + 12] = L[4]
       /\ BootSteps[2 * P + 13] = L[5] /\ BootSteps[2 * P + 14] = L[6]
       /\ BootSteps[2 * P + 15] = L[7]
  <2>1. /\ 8 + P + P + 1 = 2 * P + 9 /\ 8 + P + P + 2 = 2 * P + 10 /\ 8 + P + P + 3 = 2 * P + 11
        /\ 8 + P + P + 4 = 2 * P + 12 /\ 8 + P + P + 5 = 2 * P + 13 /\ 8 + P + P + 6 = 2 * P + 14
        /\ 8 + P + P + 7 = 2 * P + 15
    OBVIOUS
  <2> QED
    BY <1>12, <2>1
<1>15. Len(BootSteps) = 2 * P + 15
  BY <1>12
<1>16. /\ BootSteps[1] = Do("open", "hub") /\ BootSteps[2] = Do("open", "db")
       /\ BootSteps[3] = Do("make", "cron") /\ BootSteps[4] = Do("make", "core")
       /\ BootSteps[5] = Do("make", "sandbox") /\ BootSteps[6] = Do("make", "extManager")
       /\ BootSteps[7] = Do("open", "logSink") /\ BootSteps[8] = Do("hook", "kernel.boot")
  BY <1>1, <1>5, <1>13
<1>17. \A i \in 1..P : /\ BootSteps[8 + i] = Do("register", Providers[i])
                       /\ BootSteps[8 + P + i] = Do("boot", Providers[i])
  BY <1>6, <1>13
<1> QED
  BY <1>2, <1>4, <1>5, <1>14, <1>15, <1>16, <1>17

\* What the steps are about, and where.
LEMMA BootStepIs ==
    ASSUME NEW i \in 1..Len(BootSteps), NEW P \in Nat, P = Len(Providers)
    PROVE  /\ BootSteps[i].op \in {"open", "make"} => BootSteps[i].what \in ToSet(StopOrder)
           /\ BootSteps[i].op \in {"start", "listen"} =>
                BootSteps[i].what \in {"core", "sandbox", "extManager", "cron", "http"} /\ i > 2 * P + 9
           /\ BootSteps[i].op = "boot" =>
                /\ i - (P + 8) \in 1..P
                /\ BootSteps[i].what = Providers[i - (P + 8)]
           /\ P + 9 <= i /\ i <= 2 * P + 8 => BootSteps[i].op = "boot"
           /\ BootSteps[i].op = "listen" <=> i = 2 * P + 14
           /\ i = 2 * P + 15 => BootSteps[i].op = "hook"
           /\ i = 3 => BootSteps[i].op = "make" /\ BootSteps[i].what = "cron"
           /\ i = 4 => BootSteps[i].op = "make" /\ BootSteps[i].what = "core"
           /\ i = 5 => BootSteps[i].op = "make" /\ BootSteps[i].what = "sandbox"
           /\ i = 6 => BootSteps[i].op = "make" /\ BootSteps[i].what = "extManager"
           /\ i = 2 * P + 9 => BootSteps[i].op = "make" /\ BootSteps[i].what = "http"
<1>1. /\ ToSet(StopOrder) = {"extManager", "core", "sandbox", "cron", "http", "hub", "logSink", "db"}
      /\ \A op, what : Do(op, what).op = op /\ Do(op, what).what = what
  BY FieldsAre DEF Do
<1>0. Len(BootSteps) = 2 * P + 15 /\ i \in Nat /\ i <= 2 * P + 15 /\ i >= 1
  BY BootPlan
<1>2. i <= 8 \/ i - 8 \in 1..P \/ i - (P + 8) \in 1..P \/ i >= 2 * P + 9
  BY <1>0
<1>3. CASE i <= 8
  <2>1. i = 1 \/ i = 2 \/ i = 3 \/ i = 4 \/ i = 5 \/ i = 6 \/ i = 7 \/ i = 8
    BY <1>3
  <2> QED
    BY <1>1, <2>1, BootPlan
<1>4. CASE i - 8 \in 1..P
  <2>1. PICK j \in 1..P : i = 8 + j
    BY <1>4
  <2>2. BootSteps[i].op = "register"
    BY <1>1, <2>1, BootPlan
  <2>3. 8 < i /\ i < P + 9
    BY <2>1
  <2> QED
    BY <2>2, <2>3
<1>5. CASE i - (P + 8) \in 1..P
  <2>0. PICK j \in 1..P : j = i - (P + 8)
    BY <1>5
  <2>1. i = 8 + P + j /\ j = i - (P + 8)
    BY <2>0, <1>0
  <2>2. BootSteps[i].op = "boot" /\ BootSteps[i].what = Providers[j]
    <3>1. BootSteps[8 + P + j] = Do("boot", Providers[j])
      BY <2>0, BootPlan
    <3>2. BootSteps[i] = Do("boot", Providers[j])
      BY <2>1, <3>1
    <3> QED
      BY <1>1, <3>2
  <2>3. 8 < i /\ i <= 2 * P + 8
    BY <2>1
  <2>4. /\ i \notin {3, 4, 5, 6, 2 * P + 9, 2 * P + 14, 2 * P + 15}
        /\ i - (P + 8) \in 1..P
    BY <1>5, <2>3
  <2>5. BootSteps[i].what = Providers[i - (P + 8)]
    BY <2>1, <2>2
  <2>6. BootSteps[i].op \notin {"open", "make", "start", "listen", "hook"}
    BY <2>2
  <2> QED
    BY <2>2, <2>4, <2>5, <2>6
<1>6. CASE i >= 2 * P + 9
  <2>1. \/ i = 2 * P + 9 \/ i = 2 * P + 10 \/ i = 2 * P + 11 \/ i = 2 * P + 12
        \/ i = 2 * P + 13 \/ i = 2 * P + 14 \/ i = 2 * P + 15
    BY <1>0, <1>6
  <2>2. i > 8
    BY <1>6
  <2>3. /\ i = 2 * P + 9 => BootSteps[i].op = "make" /\ BootSteps[i].what = "http"
        /\ i = 2 * P + 10 => BootSteps[i].op = "start" /\ BootSteps[i].what = "core"
        /\ i = 2 * P + 11 => BootSteps[i].op = "start" /\ BootSteps[i].what = "sandbox"
        /\ i = 2 * P + 12 => BootSteps[i].op = "start" /\ BootSteps[i].what = "extManager"
        /\ i = 2 * P + 13 => BootSteps[i].op = "start" /\ BootSteps[i].what = "cron"
        /\ i = 2 * P + 14 => BootSteps[i].op = "listen" /\ BootSteps[i].what = "http"
        /\ i = 2 * P + 15 => BootSteps[i].op = "hook"
    <3>1. /\ BootSteps[2 * P + 9] = Do("make", "http")
          /\ BootSteps[2 * P + 10] = Do("start", "core")
          /\ BootSteps[2 * P + 11] = Do("start", "sandbox")
          /\ BootSteps[2 * P + 12] = Do("start", "extManager")
          /\ BootSteps[2 * P + 13] = Do("start", "cron")
          /\ BootSteps[2 * P + 14] = Do("listen", "http")
          /\ BootSteps[2 * P + 15] = Do("hook", "kernel.ready")
      BY BootPlan
    <3> QED
      BY <1>1, <3>1
  <2>4. /\ BootSteps[i].op \in {"make", "start", "listen", "hook"}
        /\ BootSteps[i].op = "make" => BootSteps[i].what = "http"
        /\ BootSteps[i].op \in {"start", "listen"} =>
             BootSteps[i].what \in {"core", "sandbox", "extManager", "cron", "http"} /\ i # 2 * P + 9
        /\ BootSteps[i].op = "listen" <=> i = 2 * P + 14
    BY <2>1, <2>3
  <2>5. /\ i = 2 * P + 15 => BootSteps[i].op = "hook"
        /\ i = 2 * P + 9 => BootSteps[i].op = "make" /\ BootSteps[i].what = "http"
    BY <2>3
  <2>6. i \notin 1..8 /\ ~(i <= 2 * P + 8) /\ (i # 2 * P + 9 => i > 2 * P + 9)
    BY <1>0, <1>6, <2>2
  <2> QED
    BY <1>1, <2>4, <2>5, <2>6
<1> QED
  BY <1>2, <1>3, <1>4, <1>5, <1>6

-----------------------------------------------------------------------------
(* Lifecycle: the invariant.  Everything in it holds as long as boot has not   *)
(* given up beside a shutdown: then one stops at a time, and where it is in    *)
(* the list says what is left; boot has made what it starts, and what lives    *)
(* is held or is a provider that has booted.                                   *)

StopRecords ==
    [at : Things \union {"nothing", "hooks"}, next : 0..9, first : BOOLEAN, providers : Seq(ToSet(Providers))]
Stops(s) == stopper[s].at # "nothing"

LifeTypes ==
    /\ kernel \in {"created", "registering", "booting", "ready", "stopping", "stopped"}
    /\ bootStep \in 0..BootEnd
    /\ booted \in Seq(ToSet(Providers))
    /\ held \subseteq ToSet(StopOrder) /\ live \subseteq Things
    /\ stopper \in [Stoppers -> StopRecords]

\* How far boot is, as the state of the kernel has it.
BootPhase ==
    /\ kernel = "created" => bootStep = 0
    /\ kernel \in {"registering", "booting"} => bootStep \in 1..(BootEnd - 2)
    /\ kernel \in {"ready", "stopping"} => bootStep \in {BootEnd - 1, BootEnd}
    /\ kernel = "stopped" => bootStep \in {0, BootEnd - 1, BootEnd}

\* What is to be started has been made.
MadeByThen ==
    kernel \in {"registering", "booting"} /\ ~Stops(Boot) =>
        /\ bootStep > 3 => "cron" \in held
        /\ bootStep > 4 => "core" \in held
        /\ bootStep > 5 => "sandbox" \in held
        /\ bootStep > 6 => "extManager" \in held
        /\ bootStep > 2 * Len(Providers) + 9 => "http" \in held

\* One stops at a time, and is the one that the state of the kernel speaks of.
OneStops ==
    /\ \A r, s \in Stoppers : Stops(r) /\ Stops(s) => r = s
    /\ \A c \in Callers : Stops(c) => kernel = "stopping"
    /\ Stops(Boot) => kernel \in {"registering", "booting", "ready"} /\ bootStep \in 1..(BootEnd - 1)
    /\ \A s \in Stoppers : stopper[s].first = TRUE /\ (~Stops(s) => stopper[s] = NotStopping)
    /\ stopper[Boot].at # "hooks"

\* The providers that have booted are the first ones, in their order.
BootedSoFar ==
    /\ kernel # "stopped" =>
         /\ bootStep < Len(Providers) + 9 => Len(booted) = 0
         /\ bootStep \in (Len(Providers) + 9)..(2 * Len(Providers) + 9) =>
              Len(booted) = bootStep - (Len(Providers) + 9)
    /\ kernel = "stopped" => booted = <<>>
    /\ Len(booted) <= Len(Providers)
    /\ \A i \in 1..Len(booted) : booted[i] = Providers[i]

\* What lives is held, or is a provider that has booted and is not stopped yet.
FieldsHeld == \A x \in ToSet(StopOrder) : x \in live => x \in held
ProvidersBooted == \A i \in 1..Len(Providers) : Providers[i] \in live => i <= Len(booted)

\* Where a stopper is in the list.
FieldPlace ==
    \A s \in Stoppers : stopper[s].at \in ToSet(StopOrder) =>
        /\ stopper[s].next \in 2..9 /\ stopper[s].at = StopOrder[stopper[s].next - 1]
        /\ \A i \in 1..(stopper[s].next - 2) : StopOrder[i] \notin held
ProviderPlace ==
    \A s \in Stoppers : stopper[s].at \in ToSet(Providers) =>
        /\ held = {}
        /\ Len(stopper[s].providers) < Len(booted)
        /\ stopper[s].at = Providers[Len(stopper[s].providers) + 1]
        /\ \A i \in 1..Len(stopper[s].providers) : stopper[s].providers[i] = Providers[i]
        /\ \A i \in 1..Len(Providers) : Providers[i] \in live => i <= Len(stopper[s].providers) + 1
NothingHeld == kernel \in {"created", "stopped"} => held = {}

LifeAsItShould ==
    /\ LifeTypes /\ BootPhase /\ MadeByThen /\ OneStops /\ BootedSoFar
    /\ FieldsHeld /\ ProvidersBooted /\ FieldPlace /\ ProviderPlace /\ NothingHeld

KernelStates == {"created", "registering", "booting", "ready", "stopping", "stopped"}
LifeInv == kernel \in KernelStates /\ (beside = TRUE \/ (beside = FALSE /\ LifeAsItShould))

\* Nobody stops a kernel that is not there.
LEMMA LifeStart == LifeInit => LifeInv
<1> SUFFICES ASSUME LifeInit PROVE LifeAsItShould
  BY DEF LifeInv, LifeInit, KernelStates
<1>1. /\ kernel = "created" /\ bootStep = 0 /\ booted = <<>> /\ held = {} /\ live = {}
      /\ stopper = [s \in Stoppers |-> NotStopping]
  BY DEF LifeInit
<1>2. PICK r \in StopRecords : r = NotStopping
  <2>1. <<>> \in Seq(ToSet(Providers)) /\ 0 \in 0..9 /\ "nothing" \in Things \union {"nothing", "hooks"}
    OBVIOUS
  <2>2. NotStopping \in StopRecords
    BY <2>1 DEF NotStopping, StopRecords
  <2> QED
    BY <2>2
<1>3. r.at = "nothing" /\ r.next = 0 /\ r.first = TRUE
  BY <1>2 DEF NotStopping
<1>4. \A s \in Stoppers : stopper[s] = r
  BY <1>1, <1>2
<1>5. /\ "nothing" \notin ToSet(StopOrder) /\ "nothing" \notin ToSet(Providers)
      /\ Len(Providers) \in Nat /\ BootEnd \in Nat /\ Boot \in Stoppers
  BY FieldsAre, ProvidersAre, BootPlan DEF BootEnd, Stoppers
<1>6. LifeTypes
  BY <1>1, <1>2, <1>5 DEF LifeTypes
<1>7. BootPhase /\ MadeByThen /\ FieldsHeld /\ ProvidersBooted /\ NothingHeld
  BY <1>1 DEF BootPhase, MadeByThen, FieldsHeld, ProvidersBooted, NothingHeld
<1>8. OneStops
  BY <1>1, <1>2, <1>3, <1>4, <1>5 DEF OneStops, Stops, Stoppers
<1>9. BootedSoFar
  BY <1>1, <1>5 DEF BootedSoFar
<1>10. FieldPlace /\ ProviderPlace
  BY <1>3, <1>4, <1>5 DEF FieldPlace, ProviderPlace
<1> QED
  BY <1>6, <1>7, <1>8, <1>9, <1>10 DEF LifeAsItShould

\* A stopper goes on: with the first field that is left, with the last provider, or it is done.
LEMMA StopNext ==
    ASSUME NEW s \in Stoppers, NEW n \in 1..9, NEW fields \in SUBSET ToSet(StopOrder),
           \A j \in 1..(n - 1) : StopOrder[j] \notin fields,
           StopFrom(s, n, fields)
    PROVE  \/ /\ \E i \in n..8 :
                   /\ StopOrder[i] \in fields /\ \A j \in 1..(i - 1) : StopOrder[j] \notin fields
                   /\ Stop1(s, [at |-> StopOrder[i], next |-> i + 1, first |-> ~IsStopped(StopOrder[i]), providers |-> <<>>])
              /\ UNCHANGED <<kernel, booted, bootStep>>
           \/ /\ fields = {} /\ booted # <<>>
              /\ Stop1(s, [at |-> Last(booted), next |-> n, first |-> ~IsStopped(Last(booted)), providers |-> Front(booted)])
              /\ UNCHANGED <<kernel, booted, bootStep>>
           \/ /\ fields = {} /\ booted = <<>>
              /\ Stop1(s, NotStopping) /\ kernel' = "stopped" /\ UNCHANGED booted
              /\ bootStep' = IF s = Boot THEN BootEnd ELSE bootStep
<1> DEFINE rest == {i \in n..Len(StopOrder) : StopOrder[i] \in fields}
           first == CHOOSE j \in rest : \A k \in rest : j <= k
<1>1. CASE rest # {}
  <2>1. rest \in SUBSET Nat /\ rest \subseteq n..8
    BY FieldsAre
  <2>2. PICK m \in rest : \A k \in rest : m <= k
    BY <1>1, <2>1, LeastNat
  <2>3. first \in rest /\ \A k \in rest : first <= k
    BY <2>2
  <2>4. PICK i \in n..8 : i = first
    BY <2>1, <2>3
  <2>5. StopOrder[i] \in fields /\ \A k \in rest : i <= k
    BY <2>3, <2>4
  <2>6. ASSUME NEW j \in 1..(i - 1) PROVE StopOrder[j] \notin fields
    <3>1. CASE j < n
      BY <3>1
    <3>2. CASE j >= n
      <4>1. j \in n..Len(StopOrder)
        BY <3>2, FieldsAre
      <4>2. j \in rest => i <= j
        BY <2>5
      <4> QED
        BY <4>1, <4>2
    <3> QED
      BY <3>1, <3>2
  <2>7. /\ Stop1(s, [at |-> StopOrder[i], next |-> i + 1, first |-> ~IsStopped(StopOrder[i]), providers |-> <<>>])
        /\ UNCHANGED <<kernel, booted, call, bootStep>>
    BY <1>1, <2>4 DEF StopFrom
  <2> QED
    BY <2>5, <2>6, <2>7
<1>2. CASE rest = {}
  <2>1. fields = {}
    <3>1. \A i \in 1..8 : StopOrder[i] \notin fields
      BY <1>2, FieldsAre
    <3> QED
      BY <3>1, FieldsAre
  <2> QED
    BY <1>2, <2>1 DEF StopFrom
<1> QED
  BY <1>1, <1>2

LEMMA StoppersAre ==
    /\ BootEnd = 2 * Len(Providers) + 16 /\ BootEnd \in Nat
    /\ "nothing" \notin ToSet(StopOrder) /\ "nothing" \notin ToSet(Providers)
    /\ \A x \in ToSet(StopOrder) : x \notin ToSet(Providers) /\ x # "hooks"
    /\ \A x \in ToSet(Providers) : x # "hooks"
    /\ ToSet(StopOrder) \subseteq Things /\ ToSet(Providers) \subseteq Things
    /\ Boot \in Stoppers /\ Boot \notin Callers
    /\ \A c \in Callers : c \in Stoppers
    /\ \A r \in Stoppers : r = Boot \/ r \in Callers
  BY ProvidersAre, BootPlan, FieldsAre, ProvidersAssumption, CallersAssumption DEF BootEnd, Things, Boot, Stoppers

\* Where a stopper that goes on finds itself, all stays as it should.
LEMMA StopKeeps ==
    ASSUME LifeAsItShould,
           NEW s \in Stoppers, NEW n \in 1..9, NEW fields \in SUBSET ToSet(StopOrder),
           fields \subseteq held, held' = fields,
           \A j \in 1..(n - 1) : StopOrder[j] \notin fields,
           StopFrom(s, n, fields),
           \A r \in Stoppers : r # s => ~Stops(r),
           stopper[s].at \notin fields, stopper[s].at \notin ToSet(Providers),
           s = Boot => kernel \in {"registering", "booting", "ready", "stopped"} /\ bootStep \in 1..(BootEnd - 1),
           s \in Callers => kernel = "stopping",
           live' \subseteq Things, FieldsHeld',
           \A i \in 1..Len(Providers) : Providers[i] \in live' => Providers[i] \in live
    PROVE  LifeAsItShould'
<1>1. /\ LifeTypes /\ BootPhase /\ MadeByThen /\ OneStops /\ BootedSoFar
      /\ FieldsHeld /\ ProvidersBooted /\ FieldPlace /\ ProviderPlace /\ NothingHeld
  BY DEF LifeAsItShould
<1>2. PICK P \in Nat : P = Len(Providers)
  BY ProvidersAre
<1>3. /\ BootEnd = 2 * P + 16 /\ BootEnd \in Nat
      /\ "nothing" \notin ToSet(StopOrder) /\ "nothing" \notin ToSet(Providers)
      /\ \A x \in ToSet(StopOrder) : x \notin ToSet(Providers) /\ x # "hooks"
      /\ \A x \in ToSet(Providers) : x # "hooks"
      /\ ToSet(StopOrder) \subseteq Things /\ ToSet(Providers) \subseteq Things
      /\ Boot \in Stoppers /\ Boot \notin Callers
      /\ \A c \in Callers : c \in Stoppers
      /\ \A r \in Stoppers : r = Boot \/ r \in Callers
  BY <1>2, StoppersAre
<1>4. \A r \in Stoppers : r # s => stopper[r] = NotStopping /\ stopper[r].at = "nothing"
  BY <1>1 DEF OneStops, Stops
<1>5. \A x : x \in fields \/ x \in ToSet(Providers) => IsStopped(x) = FALSE
  BY <1>3, <1>4 DEF IsStopped
<1>6. stopper \in [Stoppers -> StopRecords] /\ stopper[s] \in StopRecords
  BY <1>1 DEF LifeTypes
<1>7. FieldsHeld'
  OBVIOUS
<1>8. booted \in Seq(ToSet(Providers)) /\ Len(booted) \in Nat
  BY <1>1, LenProperties DEF LifeTypes
<1>9. ASSUME NEW r1 \in StopRecords, Stop1(s, r1)
      PROVE  /\ stopper' \in [Stoppers -> StopRecords] /\ stopper'[s] = r1
             /\ \A r \in Stoppers : r # s => stopper'[r] = NotStopping /\ stopper'[r].at = "nothing"
  BY <1>4, <1>6, <1>9 DEF Stop1
<1>10. ASSUME NEW i \in n..8,
              StopOrder[i] \in fields, \A j \in 1..(i - 1) : StopOrder[j] \notin fields,
              Stop1(s, [at |-> StopOrder[i], next |-> i + 1, first |-> ~IsStopped(StopOrder[i]), providers |-> <<>>]),
              UNCHANGED <<kernel, booted, bootStep>>
       PROVE  LifeAsItShould'
  <2>1. PICK r1 : r1 = [at |-> StopOrder[i], next |-> i + 1, first |-> ~IsStopped(StopOrder[i]), providers |-> <<>>]
    OBVIOUS
  <2>2. r1.at = StopOrder[i] /\ r1.next = i + 1 /\ r1.first = TRUE /\ r1.providers = <<>>
    <3>1. IsStopped(StopOrder[i]) = FALSE
      BY <1>5, <1>10
    <3>2. r1.first = ~IsStopped(StopOrder[i])
      BY <2>1
    <3>3. r1.first = TRUE
      BY <3>1, <3>2
    <3> QED
      BY <2>1, <3>3
  <2>3. r1 \in StopRecords
    <3>1. /\ StopOrder[i] \in Things \union {"nothing", "hooks"} /\ i + 1 \in 0..9 /\ <<>> \in Seq(ToSet(Providers))
      BY <1>3, <1>10
    <3>2. r1 = [at |-> StopOrder[i], next |-> i + 1, first |-> TRUE, providers |-> <<>>]
      BY <2>1, <2>2
    <3> QED
      BY <3>1, <3>2 DEF StopRecords
  <2>4. /\ stopper' \in [Stoppers -> StopRecords] /\ stopper'[s] = r1
        /\ \A r \in Stoppers : r # s => stopper'[r] = NotStopping /\ stopper'[r].at = "nothing"
    BY <1>9, <1>10, <2>1, <2>3
  <2>5. kernel' = kernel /\ booted' = booted /\ bootStep' = bootStep /\ kernel # "stopped" /\ r1.at # "nothing" /\ r1.at \notin ToSet(Providers)
    BY <1>1, <1>3, <1>10, <2>2 DEF NothingHeld
  <2>6. LifeTypes' /\ BootPhase'
    BY <1>1, <2>4, <2>5 DEF LifeTypes, BootPhase, BootEnd
  <2>7. MadeByThen'
    <3>1. CASE s = Boot
      BY <2>4, <2>5, <3>1 DEF MadeByThen, Stops
    <3>2. CASE s \in Callers
      BY <2>5, <3>2 DEF MadeByThen
    <3> QED
      BY <1>3, <3>1, <3>2
  <2>8. OneStops'
    <3>1. \A q \in Stoppers : Stops(q)' => q = s
      BY <2>4 DEF Stops
    <3>2. Stops(Boot)' => kernel \in {"registering", "booting", "ready"} /\ bootStep \in 1..(BootEnd - 1)
      BY <3>1, <1>3, <2>5
    <3>3. \A q \in Stoppers : stopper'[q].first = TRUE /\ (~Stops(q)' => stopper'[q] = NotStopping)
      BY <2>2, <2>4, <2>5 DEF Stops, NotStopping
    <3>4. stopper'[Boot].at # "hooks"
      BY <1>3, <1>10, <2>2, <2>4
    <3>5. \A c \in Callers : Stops(c)' => kernel = "stopping"
      BY <3>1, <1>3
    <3> QED
      BY <3>1, <3>2, <3>3, <3>4, <3>5, <2>5 DEF OneStops, BootEnd
  <2>9. BootedSoFar' /\ ProvidersBooted' /\ NothingHeld'
    BY <1>1, <2>5 DEF BootedSoFar, ProvidersBooted, NothingHeld
  <2>10. FieldPlace'
    <3>1. i + 1 \in 2..9 /\ i = (i + 1) - 1 /\ i - 1 = (i + 1) - 2
      OBVIOUS
    <3>2. /\ r1.next \in 2..9 /\ r1.at = StopOrder[r1.next - 1]
          /\ \A j \in 1..(r1.next - 2) : StopOrder[j] \notin held'
      BY <1>10, <2>2, <3>1
    <3> QED
      BY <1>3, <2>4, <3>2 DEF FieldPlace
  <2>11. ProviderPlace'
    BY <1>3, <2>4, <2>5 DEF ProviderPlace
  <2> QED
    BY <1>7, <2>6, <2>7, <2>8, <2>9, <2>10, <2>11 DEF LifeAsItShould
<1>11. ASSUME fields = {}, booted # <<>>,
              Stop1(s, [at |-> Last(booted), next |-> n, first |-> ~IsStopped(Last(booted)), providers |-> Front(booted)]),
              UNCHANGED <<kernel, booted, bootStep>>
       PROVE  LifeAsItShould'
  <2>0. PICK b \in Seq(ToSet(Providers)) : b = booted
    BY <1>8
  <2>1. /\ Front(b) \in Seq(ToSet(Providers)) /\ Len(Front(b)) = Len(b) - 1
        /\ \A i \in 1..Len(Front(b)) : Front(b)[i] = b[i]
        /\ Last(b) = b[Len(b)] /\ Len(b) \in Nat \ {0}
    <3>1. Len(b) \in Nat \ {0}
      BY <1>11, <2>0, EmptySeq, LenProperties
    <3>2. /\ Front(b) \in Seq(ToSet(Providers)) /\ Len(Front(b)) = Len(b) - 1
          /\ \A i \in 1..Len(Front(b)) : Front(b)[i] = b[i]
      <4>1. Front(b) = [i \in 1..(Len(b) - 1) |-> b[i]]
        BY <3>1 DEF Front
      <4>2. \A i \in 1..(Len(b) - 1) : b[i] \in ToSet(Providers)
        BY <3>1, ElementOfSeq
      <4>3. Front(b) \in Seq(ToSet(Providers)) /\ Len(Front(b)) = Len(b) - 1
        BY <3>1, <4>1, <4>2, IsASeq
      <4> QED
        BY <4>1, <4>3
    <3> QED
      BY <3>1, <3>2 DEF Last
  <2>2. /\ Len(b) \in 1..P /\ Last(b) = Providers[Len(b)] /\ Last(b) \in ToSet(Providers)
        /\ \A i \in 1..Len(Front(b)) : Front(b)[i] = Providers[i]
    BY <1>1, <1>2, <2>0, <2>1, ProvidersAre DEF BootedSoFar
  <2>3. PICK r1 : r1 = [at |-> Last(b), next |-> n, first |-> ~IsStopped(Last(b)), providers |-> Front(b)]
    OBVIOUS
  <2>4. IsStopped(Last(b)) = FALSE
    BY <1>5, <2>2
  <2>5. r1.at = Last(b) /\ r1.first = TRUE /\ r1.providers = Front(b)
    <3>1. r1.first = ~IsStopped(Last(b))
      BY <2>3
    <3>2. r1.first = TRUE
      BY <3>1, <2>4
    <3> QED
      BY <2>3, <3>2
  <2>6. r1 \in StopRecords
    <3>1. Last(b) \in Things \union {"nothing", "hooks"} /\ n \in 0..9
      BY <1>3, <2>2
    <3>2. r1 = [at |-> Last(b), next |-> n, first |-> TRUE, providers |-> Front(b)]
      BY <2>3, <2>5
    <3> QED
      BY <2>1, <3>1, <3>2 DEF StopRecords
  <2>7. /\ stopper' \in [Stoppers -> StopRecords] /\ stopper'[s] = r1
        /\ \A r \in Stoppers : r # s => stopper'[r] = NotStopping /\ stopper'[r].at = "nothing"
    BY <1>9, <1>11, <2>0, <2>3, <2>6
  <2>8. kernel' = kernel /\ booted' = booted /\ bootStep' = bootStep /\ kernel # "stopped" /\ r1.at # "nothing" /\ r1.at \notin ToSet(StopOrder)
    BY <1>1, <1>3, <1>11, <2>2, <2>5 DEF BootedSoFar
  <2>9. LifeTypes' /\ BootPhase'
    BY <1>1, <2>7, <2>8 DEF LifeTypes, BootPhase, BootEnd
  <2>10. MadeByThen'
    <3>1. CASE s = Boot
      BY <2>7, <2>8, <3>1 DEF MadeByThen, Stops
    <3>2. CASE s \in Callers
      BY <2>8, <3>2 DEF MadeByThen
    <3> QED
      BY <1>3, <3>1, <3>2
  <2>11. OneStops'
    <3>1. \A q \in Stoppers : Stops(q)' => q = s
      BY <2>7 DEF Stops
    <3>2. Stops(Boot)' => kernel \in {"registering", "booting", "ready"} /\ bootStep \in 1..(BootEnd - 1)
      BY <3>1, <1>3, <2>8
    <3>3. \A q \in Stoppers : stopper'[q].first = TRUE /\ (~Stops(q)' => stopper'[q] = NotStopping)
      BY <2>5, <2>7, <2>8 DEF Stops, NotStopping
    <3>4. stopper'[Boot].at # "hooks"
      BY <1>3, <2>2, <2>5, <2>7
    <3>5. \A c \in Callers : Stops(c)' => kernel = "stopping"
      BY <3>1, <1>3
    <3> QED
      BY <3>1, <3>2, <3>3, <3>4, <3>5, <2>8 DEF OneStops, BootEnd
  <2>12. BootedSoFar' /\ ProvidersBooted' /\ NothingHeld'
    BY <1>1, <2>8 DEF BootedSoFar, ProvidersBooted, NothingHeld
  <2>13. FieldPlace'
    BY <1>3, <2>7, <2>8 DEF FieldPlace
  <2>14. ProviderPlace'
    <3>1. /\ held' = {} /\ Len(r1.providers) < Len(booted') /\ r1.at = Providers[Len(r1.providers) + 1]
          /\ \A i \in 1..Len(r1.providers) : r1.providers[i] = Providers[i]
      <4>1. (Len(b) - 1) + 1 = Len(b) /\ Len(b) - 1 < Len(b)
        BY <2>1
      <4> QED
        BY <1>11, <2>0, <2>1, <2>2, <2>5, <2>8, <4>1
    <3>2. \A i \in 1..Len(Providers) : Providers[i] \in live' => i <= Len(r1.providers) + 1
      <4>1. (Len(b) - 1) + 1 = Len(b)
        BY <2>1
      <4> QED
        BY <1>1, <2>0, <2>1, <2>5, <4>1 DEF ProvidersBooted
    <3> QED
      BY <1>3, <2>7, <3>1, <3>2 DEF ProviderPlace
  <2> QED
    BY <1>7, <2>9, <2>10, <2>11, <2>12, <2>13, <2>14 DEF LifeAsItShould
<1>12. ASSUME fields = {}, booted = <<>>, Stop1(s, NotStopping), kernel' = "stopped", UNCHANGED booted,
              bootStep' = IF s = Boot THEN BootEnd ELSE bootStep
       PROVE  LifeAsItShould'
  <2>1. PICK r1 \in StopRecords : r1 = NotStopping
    <3>1. <<>> \in Seq(ToSet(Providers)) /\ 0 \in 0..9 /\ "nothing" \in Things \union {"nothing", "hooks"}
      OBVIOUS
    <3>2. NotStopping \in StopRecords
      BY <3>1 DEF NotStopping, StopRecords
    <3> QED
      BY <3>2
  <2>2. /\ stopper' \in [Stoppers -> StopRecords]
        /\ \A r \in Stoppers : stopper'[r] = NotStopping /\ stopper'[r].at = "nothing" /\ stopper'[r].first = TRUE
    <3>1. /\ stopper' \in [Stoppers -> StopRecords] /\ stopper'[s] = r1
          /\ \A r \in Stoppers : r # s => stopper'[r] = NotStopping /\ stopper'[r].at = "nothing"
      BY <1>9, <1>12, <2>1
    <3> QED
      BY <2>1, <3>1 DEF NotStopping
  <2>3. kernel' = "stopped" /\ booted' = booted /\ booted' = <<>> /\ Len(booted') = 0 /\ held' = {}
    BY <1>12, EmptySeq
  <2>4. bootStep' \in {BootEnd - 1, BootEnd} /\ bootStep' \in 0..BootEnd
    <3>1. CASE s = Boot
      BY <1>3, <1>12, <3>1
    <3>2. CASE s \in Callers
      <4>1. kernel = "stopping" /\ s # Boot
        BY <1>3, <3>2
      <4>2. bootStep \in {BootEnd - 1, BootEnd}
        BY <1>1, <4>1 DEF BootPhase
      <4>3. bootStep' = bootStep
        BY <1>12, <4>1
      <4> QED
        BY <1>3, <4>2, <4>3
    <3> QED
      BY <1>3, <3>1, <3>2
  <2>5. LifeTypes'
    BY <1>1, <2>2, <2>3, <2>4 DEF LifeTypes, BootEnd
  <2>6. BootPhase' /\ MadeByThen' /\ NothingHeld'
    BY <2>3, <2>4 DEF BootPhase, MadeByThen, NothingHeld, BootEnd
  <2>7. OneStops'
    BY <1>3, <2>2 DEF OneStops, Stops
  <2>8. BootedSoFar'
    BY <1>2, <2>3 DEF BootedSoFar
  <2>9. ProvidersBooted'
    BY <1>1, <2>3 DEF ProvidersBooted
  <2>10. FieldPlace' /\ ProviderPlace'
    BY <1>3, <2>2 DEF FieldPlace, ProviderPlace
  <2> QED
    BY <1>7, <2>5, <2>6, <2>7, <2>8, <2>9, <2>10 DEF LifeAsItShould
<1> QED
  BY <1>10, <1>11, <1>12, StopNext

\* The steps of the stop.
LEMMA BootFailsKeeps ==
    ASSUME LifeInv, NEW part \in BOOLEAN, BootFails(part), beside' = FALSE
    PROVE  LifeAsItShould'
<1>1. /\ bootStep \in 1..Len(BootSteps) /\ stopper[Boot] = NotStopping
      /\ part => Step.op \in {"start", "listen"}
      /\ live' = IF part THEN live \union {Step.what} ELSE live
      /\ StopFrom(Boot, 1, held) /\ held' = held
  BY DEF BootFails, Booting
<1>2. beside = FALSE /\ kernel # "stopping" /\ LifeAsItShould
  <2>1. beside' = (beside \/ kernel = "stopping")
    BY DEF BootFails
  <2>2. ~(beside \/ kernel = "stopping")
    BY <2>1, Zenon
  <2>3. ~beside /\ kernel # "stopping"
    BY <2>2, Zenon
  <2>4. beside = FALSE /\ LifeAsItShould
    BY <2>3, Zenon DEF LifeInv
  <2> QED
    BY <2>3, <2>4
<1>3. /\ LifeTypes /\ BootPhase /\ MadeByThen /\ OneStops /\ FieldsHeld
  BY <1>2 DEF LifeAsItShould
<1>4. PICK P \in Nat : P = Len(Providers)
  BY ProvidersAre
<1>5. BootEnd = 2 * P + 16 /\ Len(BootSteps) = 2 * P + 15
  BY <1>4, StoppersAre, BootPlan
<1>6. kernel \in {"registering", "booting", "ready", "stopped"} /\ bootStep \in 1..(BootEnd - 1)
  <2>1. kernel # "created"
    BY <1>1, <1>3, <1>5 DEF BootPhase
  <2> QED
    BY <1>1, <1>2, <1>3, <1>5, <2>1 DEF LifeTypes
<1>7. stopper[Boot].at = "nothing" /\ ~Stops(Boot)
  BY <1>1 DEF NotStopping, Stops
<1>8. \A r \in Stoppers : ~Stops(r)
  BY <1>2, <1>3, <1>7, StoppersAre DEF OneStops
<1>9. part => Step.what \in held /\ Step.what \in ToSet(StopOrder)
  <2>1. SUFFICES ASSUME part PROVE Step.what \in held /\ Step.what \in ToSet(StopOrder)
    OBVIOUS
  <2>2. PICK i \in 1..Len(BootSteps) : i = bootStep
    BY <1>1
  <2>3. BootSteps[i].op \in {"start", "listen"}
    BY <1>1, <2>1, <2>2 DEF Step
  <2>4. /\ BootSteps[i].what \in {"core", "sandbox", "extManager", "cron", "http"} /\ i > 2 * P + 9
        /\ i # 2 * P + 15
    BY <1>4, <2>3, BootStepIs
  <2>5. bootStep > 2 * P + 9 /\ bootStep # 2 * P + 15 /\ bootStep > 6 /\ bootStep > 5 /\ bootStep > 4 /\ bootStep > 3 /\ bootStep # 2 * P + 16
    BY <1>5, <2>2, <2>4
  <2>6. kernel \in {"registering", "booting"}
    BY <1>3, <1>5, <1>6, <2>5 DEF BootPhase
  <2>7. /\ "cron" \in held /\ "core" \in held /\ "sandbox" \in held /\ "extManager" \in held /\ "http" \in held
    BY <1>3, <1>4, <1>7, <2>5, <2>6 DEF MadeByThen
  <2>8. BootSteps[i].what \in held /\ BootSteps[i].what \in ToSet(StopOrder)
    BY <2>4, <2>7, FieldsAre
  <2> QED
    BY <2>2, <2>8 DEF Step
<1>10. /\ live' \subseteq Things /\ FieldsHeld'
       /\ \A i \in 1..Len(Providers) : Providers[i] \in live' => Providers[i] \in live
  <2>1. live \subseteq Things
    BY <1>3 DEF LifeTypes
  <2>2. CASE part
    BY <1>1, <1>3, <1>9, <2>1, <2>2, StoppersAre, ProvidersAre DEF FieldsHeld
  <2>3. CASE ~part
    BY <1>1, <1>3, <2>1, <2>3 DEF FieldsHeld
  <2> QED
    BY <2>2, <2>3
<1>11. PICK fields \in SUBSET ToSet(StopOrder) : fields = held
  BY <1>3 DEF LifeTypes
<1>12. StopFrom(Boot, 1, fields)
  BY <1>1, <1>11
<1>13. stopper[Boot].at \notin fields /\ stopper[Boot].at \notin ToSet(Providers)
  BY <1>7, StoppersAre
<1>14. Boot \in Stoppers /\ Boot \notin Callers /\ 1 \in 1..9 /\ \A j \in 1..(1 - 1) : StopOrder[j] \notin fields
  BY StoppersAre
<1> QED
  BY <1>1, <1>2, <1>6, <1>8, <1>10, <1>11, <1>12, <1>13, <1>14, StopKeeps

LEMMA DrainHookedKeeps ==
    ASSUME LifeAsItShould, NEW c \in Callers, DrainHooked(c)
    PROVE  LifeAsItShould'
<1>1. stopper[c].at = "hooks" /\ StopFrom(c, 1, held) /\ held' = held /\ live' = live
  BY DEF DrainHooked
<1>2. LifeTypes /\ OneStops /\ FieldsHeld
  BY DEF LifeAsItShould
<1>3. c \in Stoppers /\ c # Boot /\ Stops(c)
  BY <1>1, StoppersAre DEF Stops
<1>4. kernel = "stopping" /\ \A r \in Stoppers : r # c => ~Stops(r)
  BY <1>2, <1>3 DEF OneStops
<1>5. PICK fields \in SUBSET ToSet(StopOrder) : fields = held
  BY <1>2 DEF LifeTypes
<1>6. StopFrom(c, 1, fields)
  BY <1>1, <1>5
<1>7. live' \subseteq Things /\ FieldsHeld'
  BY <1>1, <1>2 DEF LifeTypes, FieldsHeld
<1>8. stopper[c].at \notin fields /\ stopper[c].at \notin ToSet(Providers)
  BY <1>1, StoppersAre
<1>9. 1 \in 1..9 /\ \A j \in 1..(1 - 1) : StopOrder[j] \notin fields
  OBVIOUS
<1> QED
  BY <1>1, <1>3, <1>4, <1>5, <1>6, <1>7, <1>8, <1>9, StopKeeps

LEMMA FieldStoppedKeeps ==
    ASSUME LifeAsItShould, NEW s \in Stoppers, NEW ok \in BOOLEAN, FieldStopped(s, ok)
    PROVE  LifeAsItShould'
<1>1. LifeTypes /\ OneStops /\ FieldsHeld /\ FieldPlace
  BY DEF LifeAsItShould
<1>2. PICK x : x = stopper[s].at
  OBVIOUS
<1>3. stopper[s].first = TRUE
  BY <1>1 DEF OneStops
<1>4. x \in ToSet(StopOrder) /\ held' = held \ {x} /\ live' = live \ {x} /\ StopFrom(s, stopper[s].next, held')
  BY <1>2, <1>3 DEF FieldStopped
<1>5. PICK n \in 1..9 : n = stopper[s].next /\ n \in 2..9
  BY <1>1, <1>2, <1>4 DEF FieldPlace
<1>6. PICK fields \in SUBSET ToSet(StopOrder) : fields = held' /\ fields = held \ {x}
  BY <1>1, <1>4 DEF LifeTypes
<1>7. StopFrom(s, n, fields)
  BY <1>4, <1>5, <1>6
<1>8. x = StopOrder[n - 1] /\ \A i \in 1..(n - 2) : StopOrder[i] \notin held
  BY <1>1, <1>2, <1>4, <1>5 DEF FieldPlace
<1>9. ASSUME NEW j \in 1..(n - 1) PROVE StopOrder[j] \notin fields
  <2>1. j = n - 1 \/ j \in 1..(n - 2)
    BY <1>5
  <2> QED
    BY <1>6, <1>8, <2>1
<1>10. Stops(s)
  BY <1>2, <1>4, StoppersAre DEF Stops
<1>11. \A r \in Stoppers : r # s => ~Stops(r)
  BY <1>1, <1>10 DEF OneStops
<1>12. stopper[s].at \notin fields /\ stopper[s].at \notin ToSet(Providers)
  BY <1>2, <1>4, <1>6, StoppersAre
<1>13. live' \subseteq Things /\ FieldsHeld'
  BY <1>1, <1>4 DEF LifeTypes, FieldsHeld
<1>14. \A i \in 1..Len(Providers) : Providers[i] \in live' => Providers[i] \in live
  BY <1>4
<1>15. /\ s = Boot => kernel \in {"registering", "booting", "ready", "stopped"} /\ bootStep \in 1..(BootEnd - 1)
       /\ s \in Callers => kernel = "stopping"
  BY <1>1, <1>10 DEF OneStops
<1>16. fields \subseteq held
  BY <1>6
<1> QED
  BY <1>6, <1>7, <1>9, <1>11, <1>12, <1>13, <1>14, <1>15, <1>16, StopKeeps

LEMMA ProviderStoppedKeeps ==
    ASSUME LifeAsItShould, NEW s \in Stoppers, NEW ok \in BOOLEAN, ProviderStopped(s, ok)
    PROVE  LifeAsItShould'
<1>1. /\ LifeTypes /\ BootPhase /\ MadeByThen /\ OneStops /\ BootedSoFar
      /\ FieldsHeld /\ ProvidersBooted /\ FieldPlace /\ ProviderPlace /\ NothingHeld
  BY DEF LifeAsItShould
<1>2. PICK x, todo : x = stopper[s].at /\ todo = stopper[s].providers
  OBVIOUS
<1>3. PICK P \in Nat : P = Len(Providers)
  BY ProvidersAre
<1>4. x \in ToSet(Providers) /\ x # "nothing" /\ x # "hooks" /\ x \notin ToSet(StopOrder)
  BY <1>2, StoppersAre DEF ProviderStopped
<1>5. stopper[s].first = TRUE /\ Stops(s) /\ (\A r \in Stoppers : r # s => ~Stops(r))
  BY <1>1, <1>2, <1>4 DEF OneStops, Stops
<1>6. live' = live \ {x} /\ held' = held
  BY <1>2, <1>5 DEF ProviderStopped
<1>7. stopper \in [Stoppers -> StopRecords] /\ stopper[s] \in StopRecords /\ todo \in Seq(ToSet(Providers))
  <2>1. stopper[s] \in StopRecords
    BY <1>1 DEF LifeTypes
  <2> QED
    BY <1>1, <1>2, <2>1 DEF LifeTypes, StopRecords
<1>8. /\ held = {} /\ Len(todo) < Len(booted) /\ x = Providers[Len(todo) + 1]
      /\ \A i \in 1..Len(todo) : todo[i] = Providers[i]
      /\ \A i \in 1..P : Providers[i] \in live => i <= Len(todo) + 1
  BY <1>1, <1>2, <1>3, <1>4 DEF ProviderPlace
<1>9. Len(todo) \in Nat /\ Len(booted) \in Nat /\ Len(booted) <= P
  BY <1>1, <1>3, <1>7, LenProperties DEF LifeTypes, BootedSoFar
<1>10. ASSUME NEW i \in 1..P, Providers[i] \in live' PROVE i <= Len(todo)
  <2>1. i <= Len(todo) + 1 /\ Providers[i] # x
    BY <1>6, <1>8, <1>10
  <2>2. i # Len(todo) + 1
    BY <1>8, <2>1
  <2> QED
    BY <1>9, <2>1, <2>2
<1>11. live' \subseteq Things /\ FieldsHeld'
  BY <1>1, <1>6 DEF LifeTypes, FieldsHeld
<1>12. \A r \in Stoppers : r # s => stopper[r] = NotStopping /\ stopper[r].at = "nothing"
  BY <1>1, <1>5 DEF OneStops, Stops
<1>13. ASSUME NEW r1 \in StopRecords, Stop1(s, r1)
       PROVE  /\ stopper' \in [Stoppers -> StopRecords] /\ stopper'[s] = r1
              /\ \A r \in Stoppers : r # s => stopper'[r] = NotStopping /\ stopper'[r].at = "nothing"
  BY <1>7, <1>12, <1>13 DEF Stop1
<1>14. /\ s = Boot => kernel \in {"registering", "booting", "ready"} /\ bootStep \in 1..(BootEnd - 1)
       /\ s \in Callers => kernel = "stopping"
       /\ s = Boot \/ s \in Callers
  BY <1>1, <1>5, StoppersAre DEF OneStops
<1>15. CASE todo # <<>>
  <2>1. /\ Stop1(s, [stopper[s] EXCEPT !.at = Last(todo), !.first = ~IsStopped(Last(todo)), !.providers = Front(todo)])
        /\ kernel' = kernel /\ booted' = booted /\ bootStep' = bootStep
    BY <1>2, <1>15 DEF ProviderStopped
  <2>2. Len(todo) \in Nat \ {0}
    BY <1>7, <1>9, <1>15, EmptySeq
  <2>3. /\ Front(todo) \in Seq(ToSet(Providers)) /\ Len(Front(todo)) = Len(todo) - 1
        /\ \A i \in 1..Len(Front(todo)) : Front(todo)[i] = todo[i]
    <3>1. Front(todo) = [i \in 1..(Len(todo) - 1) |-> todo[i]]
      BY <2>2 DEF Front
    <3>2. \A i \in 1..(Len(todo) - 1) : todo[i] \in ToSet(Providers)
      BY <1>7, <2>2, ElementOfSeq
    <3>3. Front(todo) \in Seq(ToSet(Providers)) /\ Len(Front(todo)) = Len(todo) - 1
      BY <2>2, <3>1, <3>2, IsASeq
    <3> QED
      BY <3>1, <3>3
  <2>4. Last(todo) = Providers[Len(todo)] /\ Last(todo) \in ToSet(Providers)
    <3>1. Last(todo) = todo[Len(todo)]
      BY DEF Last
    <3>2. Len(todo) \in 1..Len(todo) /\ Len(todo) \in 1..P
      BY <1>9, <1>8, <2>2
    <3> QED
      BY <1>3, <1>8, <3>1, <3>2, ProvidersAre
  <2>5. IsStopped(Last(todo)) = FALSE
    <3>1. x # Last(todo)
      <4>1. Len(todo) \in 1..P /\ Len(todo) + 1 \in 1..P /\ Len(todo) # Len(todo) + 1
        BY <1>8, <1>9, <2>2
      <4> QED
        BY <1>3, <1>8, <2>4, <4>1, ProvidersAre
    <3>2. \A r \in Stoppers : stopper[r].at # Last(todo)
      BY <1>2, <1>12, <2>4, <3>1, StoppersAre
    <3> QED
      BY <3>2 DEF IsStopped
  <2>6. PICK r1 : r1 = [stopper[s] EXCEPT !.at = Last(todo), !.first = ~IsStopped(Last(todo)), !.providers = Front(todo)]
    OBVIOUS
  <2>7. r1.first = TRUE
    <3>1. r1.first = ~IsStopped(Last(todo))
      BY <1>7, <2>6 DEF StopRecords
    <3> QED
      BY <2>5, <3>1
  <2>8. r1.at = Last(todo) /\ r1.providers = Front(todo) /\ r1.next = stopper[s].next
    BY <1>7, <2>6 DEF StopRecords
  <2>9. r1 \in StopRecords
    <3>1. r1 = [at |-> Last(todo), next |-> stopper[s].next, first |-> r1.first, providers |-> Front(todo)]
      BY <1>7, <2>6 DEF StopRecords
    <3>2. r1 = [at |-> Last(todo), next |-> stopper[s].next, first |-> TRUE, providers |-> Front(todo)]
      BY <2>7, <3>1
    <3>3. stopper[s].next \in 0..9 /\ Last(todo) \in Things \union {"nothing", "hooks"}
      BY <1>7, <2>4, StoppersAre DEF StopRecords
    <3> QED
      BY <2>3, <3>2, <3>3 DEF StopRecords
  <2>10. /\ stopper' \in [Stoppers -> StopRecords] /\ stopper'[s] = r1
         /\ \A r \in Stoppers : r # s => stopper'[r] = NotStopping /\ stopper'[r].at = "nothing"
    BY <1>13, <2>1, <2>6, <2>9
  <2>11. r1.at # "nothing" /\ r1.at # "hooks" /\ r1.at \notin ToSet(StopOrder)
    BY <2>4, <2>8, StoppersAre
  <2>12. LifeTypes' /\ BootPhase'
    BY <1>1, <1>6, <1>11, <2>1, <2>10 DEF LifeTypes, BootPhase, BootEnd
  <2>13. MadeByThen'
    <3>1. CASE s = Boot
      BY <2>10, <2>11, <3>1 DEF MadeByThen, Stops
    <3>2. CASE s \in Callers
      BY <1>14, <2>1, <3>2 DEF MadeByThen
    <3> QED
      BY <1>14, <3>1, <3>2
  <2>14. OneStops'
    <3>1. \A q \in Stoppers : Stops(q)' => q = s
      BY <2>10 DEF Stops
    <3>2. Stops(Boot)' => kernel \in {"registering", "booting", "ready"} /\ bootStep \in 1..(BootEnd - 1)
      BY <3>1, <1>14, StoppersAre
    <3>3. \A q \in Stoppers : stopper'[q].first = TRUE /\ (~Stops(q)' => stopper'[q] = NotStopping)
      BY <2>7, <2>10, <2>11 DEF Stops, NotStopping
    <3>4. stopper'[Boot].at # "hooks"
      BY <2>10, <2>11, StoppersAre
    <3>5. \A c \in Callers : Stops(c)' => kernel = "stopping"
      BY <3>1, <1>14, StoppersAre
    <3> QED
      BY <3>1, <3>2, <3>3, <3>4, <3>5, <2>1 DEF OneStops, BootEnd
  <2>15. BootedSoFar' /\ NothingHeld'
    BY <1>1, <1>6, <2>1 DEF BootedSoFar, NothingHeld
  <2>16. ProvidersBooted'
    BY <1>1, <1>6, <2>1 DEF ProvidersBooted
  <2>17. FieldPlace'
    BY <2>10, <2>11, StoppersAre DEF FieldPlace
  <2>18. ProviderPlace'
    <3>1. (Len(todo) - 1) + 1 = Len(todo) /\ Len(todo) - 1 < Len(booted) /\ \A i \in 1..(Len(todo) - 1) : i \in 1..Len(todo)
      BY <1>8, <1>9
    <3>2. /\ held' = {} /\ Len(r1.providers) < Len(booted') /\ r1.at = Providers[Len(r1.providers) + 1]
          /\ \A i \in 1..Len(r1.providers) : r1.providers[i] = Providers[i]
      BY <1>6, <1>8, <2>1, <2>3, <2>4, <2>8, <3>1
    <3>3. \A i \in 1..P : Providers[i] \in live' => i <= Len(r1.providers) + 1
      BY <1>10, <2>3, <2>8, <3>1
    <3> QED
      BY <1>3, <2>10, <3>2, <3>3, StoppersAre DEF ProviderPlace
  <2> QED
    BY <1>11, <2>12, <2>13, <2>14, <2>15, <2>16, <2>17, <2>18 DEF LifeAsItShould
<1>16. CASE todo = <<>>
  <2>1. /\ Stop1(s, NotStopping) /\ kernel' = "stopped" /\ booted' = <<>>
        /\ bootStep' = IF s = Boot THEN BootEnd ELSE bootStep
    BY <1>2, <1>16 DEF ProviderStopped
  <2>2. PICK r1 \in StopRecords : r1 = NotStopping
    <3>1. <<>> \in Seq(ToSet(Providers)) /\ 0 \in 0..9 /\ "nothing" \in Things \union {"nothing", "hooks"}
      OBVIOUS
    <3>2. NotStopping \in StopRecords
      BY <3>1 DEF NotStopping, StopRecords
    <3> QED
      BY <3>2
  <2>3. /\ stopper' \in [Stoppers -> StopRecords]
        /\ \A r \in Stoppers : stopper'[r] = NotStopping /\ stopper'[r].at = "nothing" /\ stopper'[r].first = TRUE
    <3>1. /\ stopper' \in [Stoppers -> StopRecords] /\ stopper'[s] = r1
          /\ \A r \in Stoppers : r # s => stopper'[r] = NotStopping /\ stopper'[r].at = "nothing"
      BY <1>13, <2>1, <2>2
    <3> QED
      BY <2>2, <3>1 DEF NotStopping
  <2>4. bootStep' \in {BootEnd - 1, BootEnd} /\ bootStep' \in 0..BootEnd
    <3>1. CASE s = Boot
      BY <2>1, <3>1, StoppersAre
    <3>2. CASE s \in Callers
      <4>1. kernel = "stopping" /\ s # Boot
        BY <1>14, <3>2, StoppersAre
      <4>2. bootStep \in {BootEnd - 1, BootEnd} /\ bootStep \in 0..BootEnd
        BY <1>1, <4>1 DEF BootPhase, LifeTypes
      <4>3. bootStep' = bootStep
        BY <2>1, <4>1
      <4> QED
        BY <4>2, <4>3
    <3> QED
      BY <1>14, <3>1, <3>2
  <2>5. Len(todo) = 0 /\ Len(booted') = 0 /\ <<>> \in Seq(ToSet(Providers)) /\ held' = {}
    BY <1>6, <1>8, <1>16, <2>1, EmptySeq
  <2>6. LifeTypes'
    BY <1>1, <1>6, <1>11, <2>1, <2>3, <2>4, <2>5 DEF LifeTypes, BootEnd
  <2>7. BootPhase' /\ MadeByThen' /\ NothingHeld'
    BY <2>1, <2>4, <2>5 DEF BootPhase, MadeByThen, NothingHeld, BootEnd
  <2>8. OneStops'
    BY <2>3, StoppersAre DEF OneStops, Stops
  <2>9. BootedSoFar'
    BY <1>3, <2>1, <2>5 DEF BootedSoFar
  <2>10. ProvidersBooted'
    BY <1>3, <1>10, <2>5 DEF ProvidersBooted
  <2>11. FieldPlace' /\ ProviderPlace'
    BY <2>3, StoppersAre DEF FieldPlace, ProviderPlace
  <2> QED
    BY <1>11, <2>6, <2>7, <2>8, <2>9, <2>10, <2>11 DEF LifeAsItShould
<1> QED
  BY <1>15, <1>16

\* The steps of boot, and the callers of shutdown.
LEMMA BootBeginsKeeps ==
    ASSUME LifeAsItShould, BootBegins
    PROVE  LifeAsItShould'
<1>1. /\ LifeTypes /\ BootPhase /\ MadeByThen /\ OneStops /\ BootedSoFar
      /\ FieldsHeld /\ ProvidersBooted /\ FieldPlace /\ ProviderPlace /\ NothingHeld
  BY DEF LifeAsItShould
<1>2. PICK P \in Nat : P = Len(Providers)
  BY ProvidersAre
<1>3. /\ kernel = "created" /\ bootStep = 0 /\ kernel' = "registering" /\ bootStep' = 1
      /\ booted' = booted /\ held' = held /\ stopper' = stopper /\ live' = live
  BY DEF BootBegins
<1>4. BootEnd = 2 * P + 16
  BY <1>2, StoppersAre
<1>5. \A s \in Stoppers : ~Stops(s)
  BY <1>1, <1>3, StoppersAre DEF OneStops
<1>6. LifeTypes'
  BY <1>1, <1>3, <1>4 DEF LifeTypes, BootEnd
<1>7. BootPhase'
  <2>1. BootEnd' = BootEnd /\ 1 \in 1..(BootEnd - 2)
    BY <1>4 DEF BootEnd
  <2> QED
    BY <1>3, <2>1 DEF BootPhase
<1>8. MadeByThen'
  <2>1. ~(1 > 3) /\ ~(1 > 4) /\ ~(1 > 5) /\ ~(1 > 6) /\ ~(1 > 2 * Len(Providers) + 9)
    BY ProvidersAre
  <2> QED
    BY <1>3, <2>1 DEF MadeByThen
<1>9. OneStops'
  BY <1>1, <1>3, <1>5, StoppersAre DEF OneStops, Stops
<1>10. BootedSoFar'
  <2>1. Len(booted) = 0 /\ Len(booted') = 0
    BY <1>1, <1>2, <1>3 DEF BootedSoFar
  <2> QED
    BY <1>2, <1>3, <2>1 DEF BootedSoFar
<1>11. FieldsHeld' /\ ProvidersBooted' /\ FieldPlace' /\ ProviderPlace' /\ NothingHeld'
  BY <1>1, <1>3 DEF FieldsHeld, ProvidersBooted, FieldPlace, ProviderPlace, NothingHeld
<1> QED
  BY <1>6, <1>7, <1>8, <1>9, <1>10, <1>11 DEF LifeAsItShould

LEMMA BootStepKeeps ==
    ASSUME LifeAsItShould, BootStep
    PROVE  LifeAsItShould'
<1>1. /\ LifeTypes /\ BootPhase /\ MadeByThen /\ OneStops /\ BootedSoFar
      /\ FieldsHeld /\ ProvidersBooted /\ FieldPlace /\ ProviderPlace /\ NothingHeld
  BY DEF LifeAsItShould
<1>2. PICK P \in Nat : P = Len(Providers)
  BY ProvidersAre
<1>3. BootEnd = 2 * P + 16 /\ Len(BootSteps) = 2 * P + 15 /\ BootEnd' = BootEnd
  BY <1>2, StoppersAre, BootPlan DEF BootEnd
<1>4. PICK i \in 1..Len(BootSteps) : i = bootStep
  BY DEF BootStep, Booting
<1>5. PICK op, what : op = BootSteps[i].op /\ what = BootSteps[i].what
  OBVIOUS
<1>6. /\ stopper[Boot] = NotStopping /\ stopper[Boot].at = "nothing" /\ ~Stops(Boot)
  BY DEF BootStep, Booting, NotStopping, Stops
<1>7. /\ bootStep' = i + 1
      /\ held' = IF op \in {"open", "make"} THEN held \union {what} ELSE held
      /\ live' = IF op \in {"open", "start", "listen", "boot"} THEN live \union {what} ELSE live
      /\ booted' = IF op = "boot" THEN Append(booted, what) ELSE booted
      /\ kernel' = IF op = "boot" THEN "booting" ELSE IF op = "listen" THEN "ready" ELSE kernel
      /\ stopper' = stopper
  BY <1>4, <1>5 DEF BootStep, Step
<1>8. i \in Nat /\ 1 <= i /\ i <= 2 * P + 15
  BY <1>3
<1>9. /\ op \in {"open", "make"} => what \in ToSet(StopOrder)
      /\ op \in {"start", "listen"} =>
           what \in {"core", "sandbox", "extManager", "cron", "http"} /\ i > 2 * P + 9
      /\ op = "boot" => i - (P + 8) \in 1..P /\ what = Providers[i - (P + 8)]
      /\ P + 9 <= i /\ i <= 2 * P + 8 => op = "boot"
      /\ op = "listen" <=> i = 2 * P + 14
      /\ i = 2 * P + 15 => op = "hook"
      /\ i = 3 => op = "make" /\ what = "cron"
      /\ i = 4 => op = "make" /\ what = "core"
      /\ i = 5 => op = "make" /\ what = "sandbox"
      /\ i = 6 => op = "make" /\ what = "extManager"
      /\ i = 2 * P + 9 => op = "make" /\ what = "http"
  <2>1. BootSteps[i].op \in {"open", "make"} => BootSteps[i].what \in ToSet(StopOrder)
    BY <1>2, BootStepIs
  <2>2. BootSteps[i].op \in {"start", "listen"} =>
          BootSteps[i].what \in {"core", "sandbox", "extManager", "cron", "http"} /\ i > 2 * P + 9
    BY <1>2, BootStepIs
  <2>3. BootSteps[i].op = "boot" => i - (P + 8) \in 1..P /\ BootSteps[i].what = Providers[i - (P + 8)]
    BY <1>2, BootStepIs
  <2>4. P + 9 <= i /\ i <= 2 * P + 8 => BootSteps[i].op = "boot"
    BY <1>2, BootStepIs
  <2>6. BootSteps[i].op = "listen" <=> i = 2 * P + 14
    BY <1>2, BootStepIs
  <2>7. i = 2 * P + 15 => BootSteps[i].op = "hook"
    BY <1>2, BootStepIs
  <2>5. /\ i = 3 => BootSteps[i].op = "make" /\ BootSteps[i].what = "cron"
        /\ i = 4 => BootSteps[i].op = "make" /\ BootSteps[i].what = "core"
        /\ i = 5 => BootSteps[i].op = "make" /\ BootSteps[i].what = "sandbox"
        /\ i = 6 => BootSteps[i].op = "make" /\ BootSteps[i].what = "extManager"
        /\ i = 2 * P + 9 => BootSteps[i].op = "make" /\ BootSteps[i].what = "http"
    BY <1>2, BootStepIs
  <2> QED
    BY <1>5, <2>1, <2>2, <2>3, <2>4, <2>5, <2>6, <2>7
<1>10. CASE i = 2 * P + 15
  <2>1. /\ held' = held /\ live' = live /\ booted' = booted /\ kernel' = kernel /\ stopper' = stopper
        /\ bootStep' = BootEnd /\ bootStep = BootEnd - 1
    BY <1>3, <1>4, <1>7, <1>9, <1>10
  <2>2. kernel \in {"ready", "stopping", "stopped"}
    <3>1. bootStep # 0 /\ bootStep \notin 1..(BootEnd - 2)
      BY <1>3, <2>1
    <3> QED
      BY <1>1, <3>1 DEF LifeTypes, BootPhase
  <2>3. LifeTypes' /\ BootPhase'
    BY <1>1, <1>3, <2>1, <2>2 DEF LifeTypes, BootPhase
  <2>4. MadeByThen' /\ FieldsHeld' /\ ProvidersBooted' /\ FieldPlace' /\ ProviderPlace' /\ NothingHeld'
    BY <1>1, <2>1, <2>2 DEF MadeByThen, FieldsHeld, ProvidersBooted, FieldPlace, ProviderPlace, NothingHeld
  <2>5. OneStops'
    BY <1>1, <1>6, <2>1 DEF OneStops, Stops
  <2>6. BootedSoFar'
    <3>1. ~(BootEnd < P + 9) /\ BootEnd \notin (P + 9)..(2 * P + 9)
      BY <1>3
    <3> QED
      BY <1>1, <1>2, <2>1, <3>1 DEF BootedSoFar
  <2> QED
    BY <2>3, <2>4, <2>5, <2>6 DEF LifeAsItShould
<1>11. CASE i # 2 * P + 15
  <2>0. i <= 2 * P + 14 /\ i + 1 <= 2 * P + 15
    BY <1>8, <1>11
  <2>1. kernel \in {"registering", "booting"}
    <3>1. bootStep # 0 /\ bootStep # BootEnd - 1 /\ bootStep # BootEnd
      BY <1>3, <1>4, <2>0, <1>8
    <3> QED
      BY <1>1, <3>1 DEF LifeTypes, BootPhase
  <2>2. \A s \in Stoppers : ~Stops(s) /\ stopper[s].at = "nothing"
    BY <1>1, <1>6, <2>1, StoppersAre DEF OneStops, Stops
  <2>3. /\ i > 3 => "cron" \in held
        /\ i > 4 => "core" \in held
        /\ i > 5 => "sandbox" \in held
        /\ i > 6 => "extManager" \in held
        /\ i > 2 * P + 9 => "http" \in held
    BY <1>1, <1>2, <1>4, <1>6, <2>1 DEF MadeByThen
  <2>4. held \subseteq held' /\ held' \subseteq ToSet(StopOrder)
    BY <1>1, <1>7, <1>9 DEF LifeTypes
  <2>5. op \in {"start", "listen"} => what \in held' /\ what \in ToSet(StopOrder)
    <3>1. SUFFICES ASSUME op \in {"start", "listen"} PROVE what \in held' /\ what \in ToSet(StopOrder)
      OBVIOUS
    <3>2. i > 2 * P + 9 /\ i > 3 /\ i > 4 /\ i > 5 /\ i > 6
      BY <1>9, <3>1
    <3> QED
      BY <1>9, <2>3, <2>4, <3>1, <3>2, FieldsAre
  <2>6. op = "boot" =>
          /\ i - (P + 8) \in 1..P /\ what = Providers[i - (P + 8)] /\ what \in ToSet(Providers)
          /\ Len(booted) = i - (P + 9) /\ Len(booted) + 1 = i - (P + 8)
          /\ P + 9 <= i /\ i <= 2 * P + 8
    <3>1. SUFFICES ASSUME op = "boot"
                   PROVE  /\ i - (P + 8) \in 1..P /\ what = Providers[i - (P + 8)] /\ what \in ToSet(Providers)
                          /\ Len(booted) = i - (P + 9) /\ Len(booted) + 1 = i - (P + 8)
                          /\ P + 9 <= i /\ i <= 2 * P + 8
      OBVIOUS
    <3>2. i - (P + 8) \in 1..P /\ what = Providers[i - (P + 8)]
      BY <1>9, <3>1
    <3>3. what \in ToSet(Providers)
      BY <1>2, <3>2, ProvidersAre
    <3>4. i \in (P + 9)..(2 * P + 9) /\ P + 9 <= i /\ i <= 2 * P + 8
      BY <3>2, <1>8
    <3>5. Len(booted) = i - (P + 9)
      BY <1>1, <1>2, <1>4, <2>1, <3>4 DEF BootedSoFar
    <3>6. (i - (P + 9)) + 1 = i - (P + 8)
      BY <1>8
    <3> QED
      BY <3>2, <3>3, <3>4, <3>5, <3>6
  <2>7. live' \subseteq Things
    BY <1>1, <1>7, <1>9, <2>5, <2>6, StoppersAre DEF LifeTypes
  <2>8. booted' \in Seq(ToSet(Providers))
    <3>1. booted \in Seq(ToSet(Providers))
      BY <1>1 DEF LifeTypes
    <3>2. CASE op = "boot"
      BY <1>7, <2>6, <3>1, <3>2, AppendProperties
    <3>3. CASE op # "boot"
      BY <1>7, <3>1, <3>3
    <3> QED
      BY <3>2, <3>3
  <2>9. kernel' \in {"registering", "booting", "ready"} /\ (kernel' = "ready" <=> i = 2 * P + 14)
    BY <1>7, <1>9, <2>1
  <2>10. LifeTypes'
    <3>1. bootStep' \in 0..BootEnd
      BY <1>3, <1>7, <1>8
    <3> QED
      BY <1>1, <1>3, <1>7, <2>4, <2>7, <2>8, <2>9, <3>1 DEF LifeTypes
  <2>11. BootPhase'
    <3>1. /\ i = 2 * P + 14 => i + 1 = BootEnd - 1
          /\ i # 2 * P + 14 => i + 1 \in 1..(BootEnd - 2)
      BY <1>3, <1>8, <2>0
    <3> QED
      BY <1>3, <1>7, <2>9, <3>1 DEF BootPhase
  <2>12. MadeByThen'
    <3>1. /\ i + 1 > 3 => i = 3 \/ i > 3
          /\ i + 1 > 4 => i = 4 \/ i > 4
          /\ i + 1 > 5 => i = 5 \/ i > 5
          /\ i + 1 > 6 => i = 6 \/ i > 6
          /\ i + 1 > 2 * P + 9 => i = 2 * P + 9 \/ i > 2 * P + 9
      BY <1>8
    <3>2. /\ i + 1 > 3 => "cron" \in held'
          /\ i + 1 > 4 => "core" \in held'
          /\ i + 1 > 5 => "sandbox" \in held'
          /\ i + 1 > 6 => "extManager" \in held'
          /\ i + 1 > 2 * P + 9 => "http" \in held'
      BY <1>7, <1>9, <2>3, <2>4, <3>1
    <3> QED
      BY <1>2, <1>7, <3>2 DEF MadeByThen
  <2>13. OneStops'
    BY <1>1, <1>7, <2>2, StoppersAre DEF OneStops, Stops
  <2>14. BootedSoFar'
    <3>1. CASE op = "boot"
      <4>1. PICK b \in Seq(ToSet(Providers)) : b = booted
        BY <1>1 DEF LifeTypes
      <4>2. PICK w \in ToSet(Providers) : w = what
        BY <2>6, <3>1
      <4>3. /\ Len(Append(b, w)) = Len(b) + 1 /\ Append(b, w)[Len(b) + 1] = w
            /\ \A j \in 1..Len(b) : Append(b, w)[j] = b[j]
        BY AppendProperties
      <4>4. booted' = Append(b, w)
        BY <1>7, <3>1, <4>1, <4>2
      <4>5. Len(booted') = i - (P + 8) /\ Len(b) \in Nat /\ Len(b) = i - (P + 9)
        BY <2>6, <3>1, <4>1, <4>3, <4>4, LenProperties
      <4>6. \A j \in 1..Len(booted') : booted'[j] = Providers[j]
        <5>1. TAKE j \in 1..Len(booted')
        <5>2. j \in 1..Len(b) \/ j = Len(b) + 1
          BY <4>3, <4>4, <4>5
        <5>3. CASE j \in 1..Len(b)
          BY <1>1, <4>1, <4>3, <4>4, <5>3 DEF BootedSoFar
        <5>4. CASE j = Len(b) + 1
          BY <2>6, <3>1, <4>1, <4>2, <4>3, <4>4, <5>4
        <5> QED
          BY <5>2, <5>3, <5>4
      <4>7. ~(i + 1 < P + 9) /\ i - (P + 8) = (i + 1) - (P + 9) /\ i - (P + 8) <= P
        BY <1>8, <2>6, <3>1
      <4> QED
        BY <1>2, <1>7, <2>9, <4>5, <4>6, <4>7 DEF BootedSoFar
    <3>2. CASE op # "boot"
      <4>1. booted' = booted /\ kernel # "stopped" /\ kernel' # "stopped"
        BY <1>7, <2>1, <2>9, <3>2
      <4>2. i < P + 9 \/ i > 2 * P + 8
        BY <1>8, <1>9, <3>2
      <4>3. i + 1 < P + 9 => i < P + 9
        BY <1>8
      <4>4. i + 1 \in (P + 9)..(2 * P + 9) => i < P + 9 /\ (i + 1) - (P + 9) = 0
        BY <1>8, <4>2
      <4>5. i < P + 9 => Len(booted) = 0
        BY <1>1, <1>2, <1>4, <4>1 DEF BootedSoFar
      <4> QED
        BY <1>1, <1>2, <1>7, <4>1, <4>3, <4>4, <4>5 DEF BootedSoFar
    <3> QED
      BY <3>1, <3>2
  <2>15. FieldsHeld'
    <3>1. SUFFICES ASSUME NEW x \in ToSet(StopOrder), x \in live' PROVE x \in held'
      BY DEF FieldsHeld
    <3>2. x \in live => x \in held'
      BY <1>1, <2>4 DEF FieldsHeld
    <3>3. x \notin live => x = what /\ op \in {"open", "start", "listen"}
      BY <1>7, <2>6, <3>1, StoppersAre
    <3>4. op = "open" => what \in held'
      BY <1>7
    <3> QED
      BY <2>5, <3>2, <3>3, <3>4
  <2>16. ProvidersBooted'
    <3>1. SUFFICES ASSUME NEW j \in 1..P, Providers[j] \in live' PROVE j <= Len(booted')
      BY <1>2 DEF ProvidersBooted
    <3>2. booted \in Seq(ToSet(Providers)) /\ Len(booted) \in Nat
      BY <1>1, LenProperties DEF LifeTypes
    <3>3. /\ op = "boot" => Len(booted') = Len(booted) + 1
          /\ op # "boot" => booted' = booted
      BY <1>7, <2>6, <3>2, AppendProperties
    <3>4. CASE Providers[j] \in live
      BY <1>1, <1>2, <3>2, <3>3, <3>4 DEF ProvidersBooted
    <3>5. CASE Providers[j] \notin live
      <4>1. Providers[j] = what
        BY <1>7, <3>1, <3>5
      <4>2. op = "boot"
        BY <1>2, <1>7, <1>9, <2>5, <3>1, <3>5, <4>1, ProvidersAre
      <4>3. j = i - (P + 8)
        BY <1>2, <2>6, <4>1, <4>2, ProvidersAre
      <4> QED
        BY <2>6, <3>2, <3>3, <4>2, <4>3
    <3> QED
      BY <3>4, <3>5
  <2>17. FieldPlace' /\ ProviderPlace'
    BY <1>7, <2>2, StoppersAre DEF FieldPlace, ProviderPlace
  <2>18. NothingHeld'
    BY <2>9 DEF NothingHeld
  <2> QED
    BY <2>10, <2>11, <2>12, <2>13, <2>14, <2>15, <2>16, <2>17, <2>18 DEF LifeAsItShould
<1> QED
  BY <1>10, <1>11

LEMMA SameKeeps ==
    ASSUME LifeAsItShould, UNCHANGED <<kernel, bootStep, booted, held, stopper, live>>
    PROVE  LifeAsItShould'
<1>1. /\ kernel' = kernel /\ bootStep' = bootStep /\ booted' = booted /\ held' = held
      /\ stopper' = stopper /\ live' = live
  OBVIOUS
<1>2. LifeTypes' /\ BootPhase' /\ MadeByThen' /\ OneStops' /\ BootedSoFar'
  BY <1>1 DEF LifeAsItShould, LifeTypes, BootPhase, MadeByThen, OneStops, BootedSoFar, BootEnd, Stops
<1>3. FieldsHeld' /\ ProvidersBooted' /\ FieldPlace' /\ ProviderPlace' /\ NothingHeld'
  BY <1>1 DEF LifeAsItShould, FieldsHeld, ProvidersBooted, FieldPlace, ProviderPlace, NothingHeld
<1> QED
  BY <1>2, <1>3 DEF LifeAsItShould

LEMMA DrainBeginsKeeps ==
    ASSUME LifeAsItShould, beside = FALSE, NEW c \in Callers, kernel = "ready", DrainBegins(c), beside' = FALSE,
           UNCHANGED <<bootStep, booted, held, live>>
    PROVE  LifeAsItShould'
<1>1. /\ LifeTypes /\ BootPhase /\ MadeByThen /\ OneStops /\ BootedSoFar
      /\ FieldsHeld /\ ProvidersBooted /\ FieldPlace /\ ProviderPlace /\ NothingHeld
  BY DEF LifeAsItShould
<1>2. stopper[Boot] = NotStopping
  <2>1. beside' = (beside \/ stopper[Boot] # NotStopping)
    BY DEF DrainBegins
  <2>2. ~(beside \/ stopper[Boot] # NotStopping)
    BY <2>1, Zenon
  <2> QED
    BY <2>2, Zenon
<1>3. /\ kernel' = "stopping" /\ bootStep' = bootStep /\ booted' = booted /\ held' = held /\ live' = live
      /\ Stop1(c, [NotStopping EXCEPT !.at = "hooks", !.next = 1])
  BY DEF DrainBegins
<1>4. PICK r1 : r1 = [NotStopping EXCEPT !.at = "hooks", !.next = 1]
  OBVIOUS
<1>5. r1 = [at |-> "hooks", next |-> 1, first |-> TRUE, providers |-> <<>>]
  BY <1>4 DEF NotStopping
<1>6. r1 \in StopRecords /\ r1.at = "hooks" /\ r1.first = TRUE
  <2>1. <<>> \in Seq(ToSet(Providers)) /\ 1 \in 0..9 /\ "hooks" \in Things \union {"nothing", "hooks"}
    OBVIOUS
  <2>2. r1 \in StopRecords
    BY <1>5, <2>1 DEF StopRecords
  <2> QED
    BY <1>5, <2>2
<1>7. c \in Stoppers /\ c # Boot /\ "hooks" \notin ToSet(StopOrder) /\ "hooks" \notin ToSet(Providers)
  BY StoppersAre
<1>8. \A r \in Stoppers : ~Stops(r) /\ stopper[r] = NotStopping /\ stopper[r].at = "nothing"
  <2>1. ~Stops(Boot)
    BY <1>2 DEF Stops, NotStopping
  <2>2. \A r \in Stoppers : ~Stops(r)
    BY <1>1, <2>1, StoppersAre DEF OneStops
  <2> QED
    BY <1>1, <2>2 DEF OneStops, Stops
<1>9. /\ stopper' \in [Stoppers -> StopRecords] /\ stopper'[c] = r1
      /\ \A r \in Stoppers : r # c => stopper'[r] = NotStopping /\ stopper'[r].at = "nothing"
  BY <1>1, <1>3, <1>4, <1>6, <1>7, <1>8 DEF Stop1, LifeTypes
<1>10. LifeTypes' /\ BootPhase'
  BY <1>1, <1>3, <1>9 DEF LifeTypes, BootPhase, BootEnd
<1>11. MadeByThen' /\ FieldsHeld' /\ ProvidersBooted' /\ NothingHeld'
  BY <1>1, <1>3 DEF MadeByThen, FieldsHeld, ProvidersBooted, NothingHeld
<1>12. OneStops'
  <2>1. \A q \in Stoppers : Stops(q)' => q = c
    BY <1>9 DEF Stops
  <2>2. \A q \in Stoppers : stopper'[q].first = TRUE /\ (~Stops(q)' => stopper'[q] = NotStopping)
    BY <1>6, <1>9 DEF Stops, NotStopping
  <2>3. stopper'[Boot].at # "hooks" /\ ~Stops(Boot)'
    BY <1>7, <1>9, <2>1, StoppersAre
  <2> QED
    BY <1>3, <2>1, <2>2, <2>3 DEF OneStops
<1>13. BootedSoFar'
  BY <1>1, <1>3 DEF BootedSoFar
<1>14. FieldPlace' /\ ProviderPlace'
  BY <1>6, <1>7, <1>9, StoppersAre DEF FieldPlace, ProviderPlace
<1> QED
  BY <1>10, <1>11, <1>12, <1>13, <1>14 DEF LifeAsItShould

LEMMA ShutdownKeeps ==
    ASSUME LifeAsItShould, beside = FALSE, NEW c \in Callers, Shutdown(c) \/ ShutdownGoesOn(c), beside' = FALSE
    PROVE  LifeAsItShould'
<1>1. /\ LifeTypes /\ BootPhase /\ MadeByThen /\ OneStops /\ BootedSoFar
      /\ FieldsHeld /\ ProvidersBooted /\ FieldPlace /\ ProviderPlace /\ NothingHeld
  BY DEF LifeAsItShould
<1>2. bootStep' = bootStep /\ booted' = booted /\ held' = held /\ live' = live
  BY DEF Shutdown, ShutdownGoesOn
<1>3. PICK P \in Nat : P = Len(Providers)
  BY ProvidersAre
<1>4. BootEnd = 2 * P + 16
  BY <1>3, StoppersAre
<1>5. CASE kernel' = kernel /\ stopper' = stopper
  BY <1>2, <1>5, SameKeeps
<1>6. CASE kernel = "created" /\ kernel' = "stopped" /\ stopper' = stopper
  <2>1. bootStep = 0 /\ held = {}
    BY <1>1, <1>6 DEF BootPhase, NothingHeld
  <2>2. Len(booted) = 0 /\ booted' = <<>> /\ Len(booted') = 0
    <3>1. Len(booted) = 0
      BY <1>1, <1>3, <1>6, <2>1 DEF BootedSoFar
    <3>2. booted \in Seq(ToSet(Providers))
      BY <1>1 DEF LifeTypes
    <3> QED
      BY <1>2, <3>1, <3>2, EmptySeq
  <2>3. \A s \in Stoppers : ~Stops(s) /\ stopper[s].at = "nothing"
    BY <1>1, <1>6, StoppersAre DEF OneStops, Stops
  <2>4. LifeTypes' /\ BootPhase' /\ MadeByThen' /\ NothingHeld' /\ FieldsHeld' /\ ProvidersBooted'
    BY <1>1, <1>2, <1>6, <2>1
       DEF LifeTypes, BootPhase, MadeByThen, NothingHeld, FieldsHeld, ProvidersBooted, BootEnd
  <2>5. OneStops'
    BY <1>1, <1>6, <2>3, StoppersAre DEF OneStops, Stops
  <2>6. BootedSoFar'
    BY <1>3, <1>6, <2>2 DEF BootedSoFar
  <2>7. FieldPlace' /\ ProviderPlace'
    BY <1>6, <2>3, StoppersAre DEF FieldPlace, ProviderPlace
  <2> QED
    BY <2>4, <2>5, <2>6, <2>7 DEF LifeAsItShould
<1>7. CASE kernel = "ready" /\ DrainBegins(c)
  BY <1>2, <1>7, DrainBeginsKeeps
<1>8. CASE Shutdown(c)
  <2>1. kernel \in {"created", "registering", "booting", "ready", "stopping", "stopped"}
    BY <1>1 DEF LifeTypes
  <2>2. /\ kernel \in {"stopping", "stopped"} => kernel' = kernel /\ stopper' = stopper
        /\ kernel \in {"registering", "booting"} => kernel' = kernel /\ stopper' = stopper
        /\ kernel = "created" => kernel' = "stopped" /\ stopper' = stopper
        /\ kernel = "ready" => DrainBegins(c)
    BY <1>8 DEF Shutdown
  <2> QED
    BY <1>5, <1>6, <1>7, <2>1, <2>2
<1>9. CASE ShutdownGoesOn(c)
  <2>1. CASE kernel \in {"stopping", "stopped"}
    BY <1>5, <1>9, <2>1 DEF ShutdownGoesOn
  <2>2. CASE kernel \notin {"stopping", "stopped"}
    <3>1. bootStep = BootEnd /\ BootEnd # 0 /\ BootEnd \notin 1..(BootEnd - 2) /\ DrainBegins(c)
      BY <1>4, <1>9, <2>2 DEF ShutdownGoesOn
    <3>2. kernel = "ready"
      BY <1>1, <2>2, <3>1 DEF LifeTypes, BootPhase
    <3> QED
      BY <1>7, <3>1, <3>2
  <2> QED
    BY <2>1, <2>2
<1> QED
  BY <1>8, <1>9

\* Who gives up beside a shutdown, and who shuts down beside a boot that gives up.
LEMMA BesideStep ==
    ASSUME kernel \in KernelStates, [LifeNext]_lifeVars
    PROVE  \/ beside' = beside
           \/ beside' = (beside \/ kernel = "stopping")
           \/ beside' = (beside \/ stopper[Boot] # NotStopping)
<1>1. ASSUME BootBegins \/ BootStep PROVE beside' = beside
  BY <1>1 DEF BootBegins, BootStep
<1>2. ASSUME NEW part \in BOOLEAN, BootFails(part) PROVE beside' = (beside \/ kernel = "stopping")
  BY <1>2 DEF BootFails
<1>3. ASSUME NEW c \in Callers, DrainBegins(c) PROVE beside' = (beside \/ stopper[Boot] # NotStopping)
  BY <1>3 DEF DrainBegins
<1>4. ASSUME NEW c \in Callers, Shutdown(c) PROVE beside' = beside \/ DrainBegins(c)
  <2>1. CASE kernel \in {"stopping", "stopped"}
    BY <1>4, <2>1 DEF Shutdown
  <2>2. CASE kernel \in {"registering", "booting"}
    BY <1>4, <2>2 DEF Shutdown
  <2>3. CASE kernel = "created"
    BY <1>4, <2>3 DEF Shutdown
  <2>4. CASE kernel = "ready"
    BY <1>4, <2>4 DEF Shutdown
  <2> QED
    BY <2>1, <2>2, <2>3, <2>4 DEF KernelStates
<1>5. ASSUME NEW c \in Callers, ShutdownGoesOn(c) PROVE beside' = beside \/ DrainBegins(c)
  BY <1>5 DEF ShutdownGoesOn
<1>6. ASSUME NEW c \in Callers, DrainHooked(c) PROVE beside' = beside
  BY <1>6 DEF DrainHooked
<1>7. ASSUME NEW s \in Stoppers, NEW ok \in BOOLEAN, FieldStopped(s, ok) \/ ProviderStopped(s, ok)
      PROVE  beside' = beside
  BY <1>7 DEF FieldStopped, ProviderStopped
<1>8. ASSUME UNCHANGED lifeVars PROVE beside' = beside
  BY <1>8 DEF lifeVars
<1> QED
  BY <1>1, <1>2, <1>3, <1>4, <1>5, <1>6, <1>7, <1>8 DEF LifeNext

LEMMA KernelStep ==
    ASSUME kernel \in KernelStates, [LifeNext]_lifeVars
    PROVE  kernel' \in KernelStates
<1>1. ASSUME BootBegins \/ BootStep PROVE kernel' \in KernelStates
  BY <1>1 DEF BootBegins, BootStep, KernelStates
<1>2. ASSUME NEW s, NEW n, NEW fields, StopFrom(s, n, fields) PROVE kernel' \in KernelStates
  BY <1>2 DEF StopFrom, KernelStates
<1>3. ASSUME NEW part \in BOOLEAN, BootFails(part) PROVE kernel' \in KernelStates
  <2>1. PICK h : h = held
    OBVIOUS
  <2> QED
    BY <1>2, <1>3, <2>1 DEF BootFails
<1>4. ASSUME NEW c \in Callers, DrainBegins(c) PROVE kernel' \in KernelStates
  BY <1>4 DEF DrainBegins, KernelStates
<1>5. ASSUME NEW c \in Callers, Shutdown(c) PROVE kernel' \in KernelStates
  <2>1. CASE kernel \in {"registering", "booting", "stopping", "stopped"}
    BY <1>5, <2>1 DEF Shutdown
  <2>2. CASE kernel = "created"
    BY <1>5, <2>2 DEF Shutdown, KernelStates
  <2>3. CASE kernel = "ready"
    BY <1>4, <1>5, <2>3 DEF Shutdown
  <2> QED
    BY <2>1, <2>2, <2>3 DEF KernelStates
<1>6. ASSUME NEW c \in Callers, ShutdownGoesOn(c) PROVE kernel' \in KernelStates
  BY <1>4, <1>6 DEF ShutdownGoesOn
<1>7. ASSUME NEW c \in Callers, DrainHooked(c) PROVE kernel' \in KernelStates
  <2>1. PICK h : h = held
    OBVIOUS
  <2> QED
    BY <1>2, <1>7, <2>1 DEF DrainHooked
<1>8. ASSUME NEW s \in Stoppers, NEW ok \in BOOLEAN, FieldStopped(s, ok) PROVE kernel' \in KernelStates
  <2>1. PICK n, h : n = stopper[s].next /\ h = held'
    OBVIOUS
  <2> QED
    BY <1>2, <1>8, <2>1 DEF FieldStopped
<1>9. ASSUME NEW s \in Stoppers, NEW ok \in BOOLEAN, ProviderStopped(s, ok) PROVE kernel' \in KernelStates
  BY <1>9 DEF ProviderStopped, KernelStates
<1>10. ASSUME UNCHANGED lifeVars PROVE kernel' \in KernelStates
  BY <1>10 DEF lifeVars
<1> QED
  BY <1>1, <1>3, <1>5, <1>6, <1>7, <1>8, <1>9, <1>10 DEF LifeNext

LEMMA LifeStep == LifeInv /\ [LifeNext]_lifeVars => LifeInv'
<1> SUFFICES ASSUME LifeInv, [LifeNext]_lifeVars PROVE LifeInv'
  OBVIOUS
<1>0. kernel \in KernelStates
  BY DEF LifeInv
<1>b. kernel' \in KernelStates
  BY <1>0, KernelStep
<1>1. CASE beside = TRUE
  <2>1. beside' = TRUE
    <3>1. \/ beside' = beside
          \/ beside' = (beside \/ kernel = "stopping")
          \/ beside' = (beside \/ stopper[Boot] # NotStopping)
      BY <1>0, BesideStep
    <3> QED
      BY <1>1, <3>1, Zenon
  <2> QED
    BY <1>b, <2>1 DEF LifeInv, KernelStates
<1>2. CASE beside = FALSE /\ LifeAsItShould
  <2>1. beside' = TRUE \/ beside' = FALSE
    <3>1. \/ beside' = beside
          \/ beside' = (beside \/ kernel = "stopping")
          \/ beside' = (beside \/ stopper[Boot] # NotStopping)
      BY <1>0, BesideStep
    <3> QED
      BY <1>2, <3>1, Zenon
  <2>2. CASE beside' = FALSE
    <3>1. ASSUME BootBegins PROVE LifeAsItShould'
      BY <1>2, <3>1, BootBeginsKeeps
    <3>2. ASSUME BootStep PROVE LifeAsItShould'
      BY <1>2, <3>2, BootStepKeeps
    <3>3. ASSUME NEW part \in BOOLEAN, BootFails(part) PROVE LifeAsItShould'
      BY <2>2, <3>3, BootFailsKeeps
    <3>4. ASSUME NEW c \in Callers, Shutdown(c) \/ ShutdownGoesOn(c) PROVE LifeAsItShould'
      BY <1>2, <2>2, <3>4, ShutdownKeeps
    <3>5. ASSUME NEW c \in Callers, DrainHooked(c) PROVE LifeAsItShould'
      BY <1>2, <3>5, DrainHookedKeeps
    <3>6. ASSUME NEW s \in Stoppers, NEW ok \in BOOLEAN, FieldStopped(s, ok) PROVE LifeAsItShould'
      BY <1>2, <3>6, FieldStoppedKeeps
    <3>7. ASSUME NEW s \in Stoppers, NEW ok \in BOOLEAN, ProviderStopped(s, ok) PROVE LifeAsItShould'
      BY <1>2, <3>7, ProviderStoppedKeeps
    <3>8. ASSUME UNCHANGED lifeVars PROVE LifeAsItShould'
      BY <1>2, <3>8, SameKeeps DEF lifeVars
    <3>9. LifeAsItShould'
      BY <3>1, <3>2, <3>3, <3>4, <3>5, <3>6, <3>7, <3>8 DEF LifeNext
    <3> QED
      BY <1>b, <2>2, <3>9 DEF LifeInv, KernelStates
  <2>3. CASE beside' = TRUE
    BY <1>b, <2>3 DEF LifeInv, KernelStates
  <2> QED
    BY <2>1, <2>2, <2>3
<1> QED
  BY <1>1, <1>2 DEF LifeInv

\* What lives is in the order in which it is stopped.
LEMMA OrderFollows == LifeInv => StopsInOrder
<1> SUFFICES ASSUME LifeInv, ~beside PROVE
        /\ kernel = "stopped" => \A x \in Things : ~Remains(x)
        /\ \A s \in Stoppers : \A i \in DOMAIN StopOrder :
             stopper[s].at \notin {"nothing", "hooks"} /\ Remains(StopOrder[i]) =>
                 i >= stopper[s].next - 1 /\ stopper[s].at \notin ToSet(Providers)
        /\ \A s \in Stoppers : \A i, j \in DOMAIN Providers :
             stopper[s].at = Providers[i] /\ i < j => ~Remains(Providers[j])
  BY DEF StopsInOrder
<1>1. LifeAsItShould
  BY Zenon DEF LifeInv
<1>2. /\ LifeTypes /\ BootedSoFar /\ FieldsHeld /\ ProvidersBooted /\ FieldPlace /\ ProviderPlace /\ NothingHeld
  BY <1>1 DEF LifeAsItShould
<1>3. PICK P \in Nat : P = Len(Providers)
  BY ProvidersAre
<1>4. DOMAIN StopOrder = 1..8 /\ DOMAIN Providers = 1..P
  BY <1>3, FieldsAre, ProvidersAre DEF StopOrder
<1>5. \A x : Remains(x) => x \in live
  BY DEF Remains
<1>6. kernel = "stopped" => \A x \in Things : ~Remains(x)
  <2>1. SUFFICES ASSUME kernel = "stopped" PROVE \A x \in Things : x \notin live
    BY <1>5
  <2>2. held = {} /\ booted = <<>> /\ Len(booted) = 0
    BY <1>2, <2>1, EmptySeq DEF NothingHeld, BootedSoFar
  <2>3. \A x \in ToSet(StopOrder) : x \notin live
    BY <1>2, <2>2 DEF FieldsHeld
  <2>4. \A i \in 1..P : Providers[i] \notin live
    BY <1>2, <1>3, <2>2 DEF ProvidersBooted
  <2>5. \A x \in ToSet(Providers) : x \notin live
    BY <1>3, <2>4, ProvidersAre
  <2> QED
    BY <2>3, <2>5 DEF Things
<1>7. ASSUME NEW s \in Stoppers, NEW i \in 1..8,
             stopper[s].at \notin {"nothing", "hooks"}, Remains(StopOrder[i])
      PROVE  i >= stopper[s].next - 1 /\ stopper[s].at \notin ToSet(Providers)
  <2>1. StopOrder[i] \in held
    BY <1>2, <1>5, <1>7, FieldsAre DEF FieldsHeld
  <2>2. stopper[s].at \notin ToSet(Providers)
    BY <1>2, <2>1 DEF ProviderPlace
  <2>3. stopper[s].at \in ToSet(StopOrder)
    BY <1>2, <1>7, <2>2 DEF LifeTypes, StopRecords, Things
  <2>4. stopper[s].next \in 2..9 /\ i \notin 1..(stopper[s].next - 2)
    BY <1>2, <2>1, <2>3 DEF FieldPlace
  <2> QED
    BY <2>2, <2>4
<1>8. ASSUME NEW s \in Stoppers, NEW i \in 1..P, NEW j \in 1..P, stopper[s].at = Providers[i], i < j
      PROVE  ~Remains(Providers[j])
  <2>1. SUFFICES ASSUME Providers[j] \in live PROVE FALSE
    BY <1>5
  <2>2. stopper[s].at \in ToSet(Providers)
    BY <1>3, <1>8, ProvidersAre
  <2>3. PICK t : t = stopper[s].providers
    OBVIOUS
  <2>4. /\ Len(t) < Len(booted) /\ stopper[s].at = Providers[Len(t) + 1] /\ j <= Len(t) + 1
    BY <1>2, <1>3, <2>1, <2>2, <2>3 DEF ProviderPlace
  <2>5. t \in Seq(ToSet(Providers)) /\ booted \in Seq(ToSet(Providers))
    BY <1>2, <2>3 DEF LifeTypes, StopRecords
  <2>6. Len(t) \in Nat /\ Len(booted) \in Nat /\ Len(booted) <= P
    BY <1>2, <1>3, <2>5, LenProperties DEF BootedSoFar
  <2>7. Len(t) + 1 \in 1..P
    BY <2>4, <2>6
  <2>8. i = Len(t) + 1
    BY <1>3, <1>8, <2>4, <2>7, ProvidersAre
  <2> QED
    BY <1>8, <2>4, <2>8
<1> QED
  BY <1>4, <1>6, <1>7, <1>8

\* Nothing that was started outlives a stop that succeeds, and nothing is stopped
\* before all those ahead of it, however far boot has come and whoever stops it,
\* with any number of providers and of callers (#drain, #gracefulAbort).
THEOREM StopsAsListed == LifeSpec => []StopsInOrder
<1>1. LifeSpec => []LifeInv
  BY LifeStart, LifeStep, PTL DEF LifeSpec
<1> QED
  BY <1>1, OrderFollows, PTL

===============================================================================
