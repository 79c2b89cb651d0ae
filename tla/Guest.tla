------------------------------- MODULE Guest --------------------------------
(***************************************************************************)
(* One extension in the thread of its pool (src/extension-host/worker.ts): *)
(* host.load runs the migrations of the extension and then its setup, each *)
(* against a timeout that ends the load and not the code; host.unload      *)
(* clears its timers.  The manager's side of both calls gives up after the *)
(* timeout of the bridge, so a load can outlive the call it was made for   *)
(* and overlap the next one.  The ledger of migrations and the rows of     *)
(* cron jobs are in databases and survive the thread.  The manager with    *)
(* its locks, rows and restarts is in ExtHost.                             *)
(***************************************************************************)
EXTENDS Naturals, FiniteSets

CONSTANTS
    LastFile,    \* the migrations are files 1..LastFile, in the order of their names
    MaxGuests,   \* bound: calls of host.load
    MaxTroubles  \* bound: failures, timeouts and deaths of the thread

VARIABLES
    kernel,    \* what the manager holds of the extension
    call,      \* the load its call of host.load waits for
    pc,        \* pc[l]: how far load l is in the worker
    seen,      \* seen[l]: the files l takes for applied
    booked,    \* rows of migrations_log
    done,      \* files whose up() has run to its end
    loaded,    \* the load whose entry is in `loaded`, 0 when there is none
    code,      \* code[l]: what code of l runs that no load waits for
    timers,    \* loads with a timer in their registry
    stray,     \* loads cleaned up while code of theirs ran, or whose entry was replaced
    abandoned, \* loads whose call timed out, or whose answer the manager turned down
    rows,      \* rows of cron_jobs under the name of the extension's job
    troubles

guestVars == <<kernel, call, pc, seen, booked, done, loaded, code, timers, stray,
               abandoned, rows, troubles>>

GuestAssumption == {LastFile, MaxGuests, MaxTroubles} \subseteq Nat

Loads     == 1..MaxGuests
Files     == 1..LastFile
Pending(l) == Files \ seen[l]
NextFile(l) == CHOOSE f \in Pending(l) : \A g \in Pending(l) : f <= g

GuestInit ==
    /\ kernel = "off" /\ call = 0
    /\ pc = [l \in Loads |-> "none"] /\ seen = [l \in Loads |-> {}]
    /\ booked = {} /\ done = {}
    /\ loaded = 0 /\ code = [l \in Loads |-> "none"]
    /\ timers = {} /\ stray = {} /\ abandoned = {}
    /\ rows = 0 /\ troubles = 0

Database == <<booked, done, rows>>
Inside   == <<seen, loaded, code, timers, stray>>

GoTo(l, where) == pc' = [pc EXCEPT ![l] = where]
Trouble == troubles < MaxTroubles /\ troubles' = troubles + 1

\* vm.cleanup() and timers.clearAll(): what runs on can set timers again.
CleanUp(l, rest) ==
    /\ timers' = timers \ {l}
    /\ code' = [code EXCEPT ![l] = rest]
    /\ stray' = IF rest = "none" THEN stray ELSE stray \union {l}

\* The catch of handleLoadExt.
LoadFails(l, rest) ==
    /\ Trouble
    /\ GoTo(l, "failed")
    /\ CleanUp(l, rest)
    /\ UNCHANGED <<kernel, call, seen, loaded, abandoned, rows>>

-----------------------------------------------------------------------------
(* The manager *)

Enable ==
    /\ kernel = "off"
    /\ \E l \in Loads :
          /\ pc[l] = "none" /\ \A m \in 1..(l - 1) : pc[m] # "none"
          /\ call' = l /\ GoTo(l, "sent")
    /\ kernel' = "loading"
    /\ UNCHANGED <<Inside, Database, abandoned, troubles>>

Committed ==
    /\ kernel = "loading" /\ pc[call] = "loaded"
    /\ kernel' = "on" /\ call' = 0
    /\ UNCHANGED <<pc, Inside, Database, abandoned, troubles>>

LoadRefused ==
    /\ kernel = "loading" /\ pc[call] = "failed"
    /\ kernel' = "off" /\ call' = 0
    /\ UNCHANGED <<pc, Inside, Database, abandoned, troubles>>

\* The call times out; or the contributions are not valid, not permitted, or not
\* stored: none of these unloads the extension in the worker.
GiveUp ==
    /\ kernel = "loading" /\ pc[call] # "failed"
    /\ Trouble
    /\ kernel' = "off" /\ call' = 0 /\ abandoned' = abandoned \union {call}
    /\ UNCHANGED <<pc, Inside, Database>>

\* #disableLocked tears down what the contributions hold: cron jobs are none of it.
Disable ==
    /\ kernel = "on"
    /\ kernel' = "unloading"
    /\ UNCHANGED <<call, pc, Inside, Database, abandoned, troubles>>

\* handleUnloadExt, and the answer; an extension that is not loaded is a warning.
Unload ==
    /\ kernel = "unloading"
    /\ kernel' = "off"
    /\ IF loaded = 0
         THEN UNCHANGED <<pc, loaded, code, timers, stray>>
         ELSE /\ CleanUp(loaded, code[loaded])
              /\ GoTo(loaded, "over") /\ loaded' = 0
    /\ UNCHANGED <<call, seen, Database, abandoned, troubles>>

\* The thread ends: nothing but the databases is left.
ThreadDies ==
    /\ Trouble
    /\ kernel' = "off" /\ call' = 0
    /\ pc' = [l \in Loads |-> IF pc[l] = "none" THEN "none" ELSE "over"]
    /\ loaded' = 0 /\ code' = [l \in Loads |-> "none"]
    /\ timers' = {} /\ stray' = {} /\ abandoned' = {}
    /\ UNCHANGED <<seen, Database>>

-----------------------------------------------------------------------------
(* host.load: the migrations *)

Arrive(l) ==
    /\ pc[l] = "sent"
    /\ GoTo(l, IF loaded = 0 THEN "ledger" ELSE "failed")
    /\ UNCHANGED <<kernel, call, Inside, Database, abandoned, troubles>>

AfterFile(l, applied) == IF applied = Files THEN "setup" ELSE "up"

ReadLedger(l) ==
    /\ pc[l] = "ledger"
    /\ seen' = [seen EXCEPT ![l] = booked]
    /\ GoTo(l, AfterFile(l, booked))
    /\ UNCHANGED <<kernel, call, loaded, code, timers, stray, Database, abandoned, troubles>>

UpBegins(l) ==
    /\ pc[l] = "up"
    /\ GoTo(l, "upRuns")
    /\ UNCHANGED <<kernel, call, Inside, Database, abandoned, troubles>>

UpEnds(l) ==
    /\ pc[l] = "upRuns"
    /\ done' = done \union {NextFile(l)}
    /\ GoTo(l, "book")
    /\ UNCHANGED <<kernel, call, Inside, booked, rows, abandoned, troubles>>

\* Slip: an up() that takes too long is booked all the same.
UpFailsBooked(l, rest) ==
    /\ pc[l] = "upRuns" /\ rest \in {"none", "up"}
    /\ LoadFails(l, rest)
    /\ booked' = booked \union {NextFile(l)} /\ UNCHANGED done
\* It throws, or the 30 seconds are over and it runs on.
UpFails(l, rest) ==
    /\ pc[l] = "upRuns" /\ rest \in {"none", "up"}
    /\ LoadFails(l, rest)
    /\ UNCHANGED <<booked, done>>

\* name is the primary key: the row of another load is a conflict.
Book(l) ==
    /\ pc[l] = "book" /\ NextFile(l) \notin booked
    /\ booked' = booked \union {NextFile(l)}
    /\ seen' = [seen EXCEPT ![l] = @ \union {NextFile(l)}]
    /\ GoTo(l, AfterFile(l, seen[l] \union {NextFile(l)}))
    /\ UNCHANGED <<kernel, call, done, loaded, code, timers, stray, abandoned, rows, troubles>>

BookConflict(l) ==
    /\ pc[l] = "book" /\ NextFile(l) \in booked
    /\ GoTo(l, "failed")
    /\ CleanUp(l, "none")
    /\ UNCHANGED <<kernel, call, seen, loaded, Database, abandoned, troubles>>

\* A statement of the ledger fails, or its answer comes too late: the row may be there.
LedgerFails(l) ==
    /\ pc[l] \in {"ledger", "book"}
    /\ LoadFails(l, "none")
    /\ booked' \in {booked} \union
                   (IF pc[l] = "book" THEN {booked \union {NextFile(l)}} ELSE {})
    /\ UNCHANGED done

-----------------------------------------------------------------------------
(* host.load: the main module and its setup *)

SetupBegins(l) ==
    /\ pc[l] = "setup"
    /\ GoTo(l, "setupRuns")
    /\ UNCHANGED <<kernel, call, Inside, Database, abandoned, troubles>>

\* h.cron.schedule passes the gate of the activation and inserts a row, whether or
\* not an earlier setup has inserted one under the name.
ScheduleJob(l) ==
    /\ pc[l] = "setupRuns"
    /\ rows' = rows + 1
    /\ GoTo(l, "scheduled")
    /\ UNCHANGED <<kernel, call, Inside, booked, done, abandoned, troubles>>

\* loaded.set() asks nothing: the entry of an overlapping load is replaced.
SetupEnds(l) ==
    /\ pc[l] \in {"setupRuns", "scheduled"}
    /\ pc' = [m \in Loads |-> IF m = l THEN "loaded" ELSE IF m = loaded THEN "over" ELSE pc[m]]
    /\ loaded' = l
    /\ stray' = stray \union ({loaded} \ {0})
    /\ UNCHANGED <<kernel, call, seen, code, timers, Database, abandoned, troubles>>

SetupFails(l, rest) ==
    /\ pc[l] \in {"setup", "setupRuns", "scheduled"}
    /\ rest \in {"none"} \union (IF pc[l] = "setup" THEN {} ELSE {"setup"})
    /\ LoadFails(l, rest)
    /\ UNCHANGED <<booked, done>>

-----------------------------------------------------------------------------
(* Code of the extension *)

Runs(l) == code[l] # "none" \/ pc[l] \in {"upRuns", "setupRuns", "scheduled"}

\* setTimeout is there at any time, not only while setup runs.
SetTimer(l) ==
    /\ Runs(l)
    /\ timers' = timers \union {l}
    /\ UNCHANGED <<kernel, call, pc, seen, loaded, code, stray, Database, abandoned, troubles>>

HandlerBegins(l) ==
    /\ loaded = l /\ code[l] = "none"
    /\ code' = [code EXCEPT ![l] = "handler"]
    /\ UNCHANGED <<kernel, call, pc, seen, loaded, timers, stray, Database, abandoned, troubles>>

\* What runs on comes to its end, or meets the gate of the activation; an up()
\* that ends after its time has done its work and is not booked.
CodeEnds(l) ==
    /\ code[l] # "none"
    /\ code' = [code EXCEPT ![l] = "none"]
    /\ done' = IF code[l] = "up" THEN done \union {NextFile(l)} ELSE done
    /\ UNCHANGED <<kernel, call, pc, seen, loaded, timers, stray, booked, rows, abandoned, troubles>>

GuestNext ==
    \/ Enable \/ Committed \/ LoadRefused \/ GiveUp \/ Disable \/ Unload \/ ThreadDies
    \/ \E l \in Loads :
          \/ Arrive(l) \/ ReadLedger(l) \/ UpBegins(l) \/ UpEnds(l) \/ Book(l)
          \/ BookConflict(l) \/ LedgerFails(l) \/ SetupBegins(l) \/ ScheduleJob(l)
          \/ SetupEnds(l) \/ SetTimer(l) \/ HandlerBegins(l) \/ CodeEnds(l)
          \/ \E rest \in {"none", "up", "setup"} : UpFails(l, rest) \/ SetupFails(l, rest)

GuestSpec == GuestInit /\ [][GuestNext]_guestVars

-----------------------------------------------------------------------------

GuestTypeOK ==
    /\ kernel \in {"off", "loading", "on", "unloading"} /\ call \in 0..MaxGuests
    /\ pc \in [Loads -> {"none", "sent", "ledger", "up", "upRuns", "book", "setup",
                         "setupRuns", "scheduled", "loaded", "failed", "over"}]
    /\ seen \in [Loads -> SUBSET Files]
    /\ booked \subseteq Files /\ done \subseteq Files
    /\ loaded \in 0..MaxGuests
    /\ code \in [Loads -> {"none", "up", "setup", "handler"}]
    /\ timers \subseteq Loads /\ stray \subseteq Loads /\ abandoned \subseteq Loads
    /\ rows \in 0..MaxGuests /\ troubles \in 0..MaxTroubles

\* Whatever loads fail, overlap or go on after their time: the ledger names only
\* migrations that have run to their end, without a gap.
LedgerTrue ==
    /\ booked \subseteq done
    /\ \A f \in booked : 1..f \subseteq booked

\* An extension that is loaded has all its migrations; one the manager holds is
\* loaded; and one the manager does not hold is loaded only by a load it gave up.
LifeAgrees ==
    /\ loaded # 0 => booked = Files /\ pc[loaded] = "loaded"
    /\ kernel = "on" => loaded # 0
    /\ kernel = "off" /\ loaded # 0 => loaded \in abandoned

\* A timer outlives its load only where code ran on through the clean-up, or where
\* the entry that would have found the timer was replaced.
TimersOwned ==
    \A l \in timers : l = loaded \/ l \in stray \/ pc[l] \in {"upRuns", "book", "up", "setup",
                                                            "setupRuns", "scheduled"}

GuestKept == LedgerTrue /\ LifeAgrees /\ TimersOwned

\* The name of a cron job is unique within its extension (types/harness.d.ts:199).
OneJobPerName == rows <= 1

=============================================================================
