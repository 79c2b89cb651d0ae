------------------------------ MODULE Upgrade -------------------------------
(***************************************************************************)
(* A/B upgrades: the two slots and slots.json (src/kernel/update/slots.ts),*)
(* the Updater of the running kernel (src/kernel/update/updater.ts), the   *)
(* settlement at boot, and the supervising process (bootstrap.mjs) that    *)
(* restarts the kernel and rolls back.  slots.json is shared by the two    *)
(* processes, and each of them reads it some awaits before it writes it.   *)
(*                                                                         *)
(* Assumed: a kernel that the watchdog has given up does not crash by      *)
(* itself before the watchdog has stopped it, and a release that does not  *)
(* work fails soon enough for its failures to fall into one window.        *)
(***************************************************************************)
EXTENDS Naturals

CONSTANTS
    Releases,    \* the releases, one version each
    Broken,      \* those that never get ready on the real data
    Seeded,      \* the release in slot-a at first, or "none"
    Embedded,    \* the release in the image, or "none"
    Threshold,   \* FAILURE_THRESHOLD
    MaxApplies,  \* bound: apply calls
    MaxFaults,   \* bound: failures of kernels that work
    MaxCuts      \* bound: times the machine stops

ASSUME ReleasesAssumption ==
    /\ {"none", "torn", "null"} \intersect Releases = {}
    /\ Broken \subseteq Releases
    /\ {Seeded, Embedded} \subseteq Releases \union {"none"}
ASSUME BoundsAssumption ==
    Threshold \in Nat \ {0} /\ MaxApplies \in Nat /\ MaxFaults \in Nat /\ MaxCuts \in Nat

VARIABLES
    (* the disk *)
    slots,       \* slots.json
    disk,        \* disk[s]: the release in slot s, "torn" or "none"
    (* the kernel process *)
    kernel,      \* where its code came from, the code, how far it has come
    seen,        \* slots.json as the kernel read it last
    updater,     \* progress of apply
    (* bootstrap *)
    supervisor,  \* "boot", "watch" or "exited"
    failures,    \* consecutiveFailures
    watchdog,    \* "on", "off" or progress of a rollback, and what it read
    (* bounds *)
    applies, faults, cuts

process == <<kernel, seen, updater>>
parent  == <<supervisor, failures, watchdog>>
bounds  == <<applies, faults, cuts>>
vars    == <<slots, disk, process, parent, bounds>>

Slots     == {"slot-a", "slot-b"}
Versions  == Releases \union {"null"}
SlotsFile == [current : Slots, previous : Slots, version : Versions,
              previousVersion : Versions, updateInFlight : BOOLEAN]

Other(s) == IF s = "slot-a" THEN "slot-b" ELSE "slot-a"

Initial == [current |-> "slot-a", previous |-> "slot-b", version |-> "null",
            previousVersion |-> "null", updateInFlight |-> FALSE]
NoKernel == [at |-> "none", code |-> "none", phase |-> "down"]
Idle     == [pc |-> "idle", slot |-> "slot-a", release |-> "null"]

Init ==
    /\ slots      = Initial
    /\ disk       = [s \in Slots |-> IF s = "slot-a" THEN Seeded ELSE "none"]
    /\ kernel     = NoKernel
    /\ seen       = Initial
    /\ updater    = Idle
    /\ supervisor = "boot"
    /\ failures   = 0
    /\ watchdog   = [pc |-> "off", seen |-> Initial]
    /\ applies    = 0
    /\ faults     = 0
    /\ cuts       = 0

Works(code)  == code \in Releases \ Broken
Alive        == kernel.phase # "down"
Phase(p)     == kernel' = [kernel EXCEPT !.phase = p]
KernelGone   == kernel' = NoKernel /\ updater' = Idle /\ UNCHANGED seen

-----------------------------------------------------------------------------
(* bootstrap.mjs: boot *)

HasMain(s) == disk[s] # "none"

\* resolveBootSlotMinimal: current, previous, any.
BootSlot ==
    IF HasMain(slots.current) THEN slots.current
    ELSE IF HasMain(slots.previous) THEN slots.previous
    ELSE IF HasMain("slot-a") THEN "slot-a" ELSE "slot-b"

\* ... and the embedded copy when there is none.
Boot ==
    /\ supervisor = "boot"
    /\ \/ /\ \E s \in Slots : HasMain(s)
          /\ kernel' = [at |-> BootSlot, code |-> disk[BootSlot], phase |-> "booting"]
          /\ supervisor' = "watch"
          /\ watchdog' = [watchdog EXCEPT !.pc = "on"]
       \/ /\ \A s \in Slots : ~HasMain(s)
          /\ Embedded # "none"
          /\ kernel' = [at |-> "embedded", code |-> Embedded, phase |-> "booting"]
          /\ supervisor' = "watch"
          /\ watchdog' = [watchdog EXCEPT !.pc = "on"]
       \/ /\ \A s \in Slots : ~HasMain(s)
          /\ Embedded = "none"
          /\ supervisor' = "exited"
          /\ UNCHANGED <<kernel, watchdog>>
    /\ UNCHANGED <<slots, disk, seen, updater, failures, bounds>>

\* The container's restart policy.
ContainerRestarts ==
    /\ supervisor = "exited"
    /\ supervisor' = "boot"
    /\ failures' = 0
    /\ UNCHANGED <<slots, disk, process, watchdog, bounds>>

-----------------------------------------------------------------------------
(* The kernel: boot and settlePendingUpdate *)

\* Slip: the window is left to the next start.
SettleLater ==
    /\ kernel.phase = "booting" /\ kernel.code \in Releases
    /\ Phase("settled")
    /\ UNCHANGED <<slots, disk, seen, updater, parent, bounds>>

SettleRead ==
    /\ kernel.phase = "booting" /\ kernel.code \in Releases
    /\ IF slots.updateInFlight
         THEN Phase("settling") /\ seen' = slots
         ELSE Phase("settled") /\ UNCHANGED seen
    /\ UNCHANGED <<slots, disk, updater, parent, bounds>>

\* markUpdateSettled({ok: true, version}) reads again; the version is of the
\* first read.
SettleReread ==
    /\ kernel.phase = "settling"
    /\ seen' = [slots EXCEPT !.version = seen.version]
    /\ Phase("writing")
    /\ UNCHANGED <<slots, disk, updater, parent, bounds>>

SettleWrite ==
    /\ kernel.phase = "writing"
    /\ slots' = [seen EXCEPT !.updateInFlight = FALSE]
    /\ Phase("settled")
    /\ UNCHANGED <<disk, seen, updater, parent, bounds>>

\* HTTP and the extensions start after the settlement.
BecomeReady ==
    /\ kernel.phase = "settled" /\ Works(kernel.code)
    /\ Phase("ready")
    /\ UNCHANGED <<slots, disk, seen, updater, parent, bounds>>

-----------------------------------------------------------------------------
(* Updater.apply *)

Advance(pc) == updater' = [updater EXCEPT !.pc = pc]
At(pc)      == kernel.phase = "ready" /\ updater.pc = pc

\* Slip: always the second slot.
ApplyToB(release) ==
    /\ At("idle") /\ applies < MaxApplies
    /\ applies' = applies + 1
    /\ ~slots.updateInFlight
    /\ updater' = [pc |-> "download", slot |-> "slot-b", release |-> release]
    /\ UNCHANGED <<slots, disk, kernel, seen, parent, faults, cuts>>

\* The target is what the feed offers or what the caller names.
Apply(release) ==
    /\ At("idle") /\ applies < MaxApplies
    /\ applies' = applies + 1
    /\ ~slots.updateInFlight
    /\ updater' = [pc |-> "download", slot |-> Other(slots.current), release |-> release]
    /\ UNCHANGED <<slots, disk, kernel, seen, parent, faults, cuts>>

\* The download fails or its checksum is wrong; or the slot is emptied.
Download ==
    /\ At("download")
    /\ \/ updater' = Idle /\ UNCHANGED disk
       \/ disk' = [disk EXCEPT ![updater.slot] = "none"] /\ Advance("extract")
    /\ UNCHANGED <<slots, kernel, seen, parent, bounds>>

\* The archive may be refused at once; else dist/main.js is there before the rest.
ExtractBegins ==
    /\ At("extract")
    /\ \/ updater' = Idle /\ UNCHANGED disk
       \/ disk' = [disk EXCEPT ![updater.slot] = "torn"] /\ Advance("unpack")
    /\ UNCHANGED <<slots, kernel, seen, parent, bounds>>

\* Slip: a failed extraction goes on.
ExtractAnyway ==
    /\ At("unpack")
    /\ \/ UNCHANGED disk
       \/ disk' = [disk EXCEPT ![updater.slot] = updater.release]
    /\ Advance("preflight")
    /\ UNCHANGED <<slots, kernel, seen, parent, bounds>>

\* A failed extraction leaves what it wrote.
ExtractEnds ==
    /\ At("unpack")
    /\ \/ updater' = Idle /\ UNCHANGED disk
       \/ disk' = [disk EXCEPT ![updater.slot] = updater.release] /\ Advance("preflight")
    /\ UNCHANGED <<slots, kernel, seen, parent, bounds>>

\* On an empty data directory any release may pass or fail; a release that
\* fails stays in its slot.
Preflight ==
    /\ At("preflight")
    /\ updater' = Idle \/ Advance("commit")
    /\ UNCHANGED <<slots, disk, kernel, seen, parent, bounds>>

\* commitNewSlot reads and throws, or writes from what it read.
CommitRead ==
    /\ At("commit")
    /\ seen' = slots
    /\ IF slots.updateInFlight \/ slots.current = updater.slot
         THEN updater' = Idle
         ELSE Advance("write")
    /\ UNCHANGED <<slots, disk, kernel, parent, bounds>>

CommitWrite ==
    /\ At("write")
    /\ slots' = [current |-> updater.slot, previous |-> seen.current,
                 version |-> updater.release, previousVersion |-> seen.version,
                 updateInFlight |-> TRUE]
    /\ Advance("restart")
    /\ UNCHANGED <<disk, kernel, seen, parent, bounds>>

\* requestRestart: the kernel ends with exit code 0, and bootstrap with it.
RequestRestart ==
    /\ At("restart")
    /\ KernelGone
    /\ supervisor' = "exited"
    /\ watchdog' = [watchdog EXCEPT !.pc = "off"]
    /\ UNCHANGED <<slots, disk, failures, bounds>>

ApplyStep == Download \/ ExtractBegins \/ ExtractEnds \/ Preflight \/ CommitRead \/ CommitWrite

-----------------------------------------------------------------------------
(* bootstrap.mjs: failures and rollback *)

\* Slip: a settled update is never suspected.
InFlightOnly(file) == file.updateInFlight

Suspicious(file) == file.updateInFlight \/ file.version # file.previousVersion

\* Slip: the new slot stays the rollback target of itself.
RolledHalf(file) ==
    [file EXCEPT !.current = file.previous, !.version = file.previousVersion,
                 !.updateInFlight = FALSE]

Rolled(file) ==
    [current |-> file.previous, previous |-> file.current,
     version |-> file.previousVersion, previousVersion |-> file.version,
     updateInFlight |-> FALSE]

\* scheduleRestart: the failures in the window (one of a kernel that ran long
\* enough starts anew); at the threshold maybeRollback.  Nobody else writes
\* slots.json meanwhile.
ScheduleRestart(count) ==
    /\ supervisor' = "boot"
    /\ watchdog' = [watchdog EXCEPT !.pc = "off"]
    /\ IF count >= Threshold /\ Suspicious(slots)
         THEN slots' = Rolled(slots) /\ failures' = 0
         ELSE /\ failures' = IF count > Threshold THEN Threshold ELSE count
              /\ UNCHANGED slots

\* A kernel that does not work ends with an exit code that is not 0.
BrokenExits ==
    /\ Alive /\ ~Works(kernel.code)
    /\ watchdog.pc \in {"on", "off"}
    /\ KernelGone
    /\ ScheduleRestart(failures + 1)
    /\ UNCHANGED <<disk, bounds>>

\* So may one that does.
WorkingExits ==
    /\ Alive /\ Works(kernel.code)
    /\ watchdog.pc \in {"on", "off"}
    /\ faults < MaxFaults
    /\ faults' = faults + 1
    /\ KernelGone
    /\ \/ ScheduleRestart(failures + 1)
       \/ kernel.phase = "ready" /\ ScheduleRestart(1)
    /\ UNCHANGED <<disk, applies, cuts>>

\* checkHealth: too many failed probes in a row.  What it does next depends on
\* slots.json; when nothing is suspicious the watchdog stays off.
Unhealthy ==
    /\ watchdog.pc = "on" /\ Alive
    /\ \/ ~Works(kernel.code) /\ UNCHANGED faults
       \/ Works(kernel.code) /\ faults < MaxFaults /\ faults' = faults + 1
    /\ watchdog' = IF Suspicious(slots) THEN [pc |-> "write", seen |-> slots]
                   ELSE [watchdog EXCEPT !.pc = "off"]
    /\ UNCHANGED <<slots, disk, process, supervisor, failures, applies, cuts>>

RollbackWrite ==
    /\ watchdog.pc = "write"
    /\ slots' = Rolled(watchdog.seen)
    /\ watchdog' = [watchdog EXCEPT !.pc = "stop"]
    /\ UNCHANGED <<disk, process, supervisor, failures, bounds>>

\* stopChildGracefully, then boot.
StopUnhealthy ==
    /\ watchdog.pc = "stop"
    /\ KernelGone
    /\ supervisor' = "boot"
    /\ failures' = 0
    /\ watchdog' = [watchdog EXCEPT !.pc = "off"]
    /\ UNCHANGED <<slots, disk, bounds>>

\* Everything stops but the disk.
PowerCut ==
    /\ cuts < MaxCuts
    /\ cuts' = cuts + 1
    /\ KernelGone
    /\ supervisor' = "exited"
    /\ watchdog' = [watchdog EXCEPT !.pc = "off"]
    /\ UNCHANGED <<slots, disk, failures, applies, faults>>

Next ==
    \/ Boot
    \/ ContainerRestarts
    \/ SettleRead
    \/ SettleReread
    \/ SettleWrite
    \/ BecomeReady
    \/ \E release \in Releases : Apply(release)
    \/ ApplyStep
    \/ RequestRestart
    \/ BrokenExits
    \/ WorkingExits
    \/ Unhealthy
    \/ RollbackWrite
    \/ StopUnhealthy
    \/ PowerCut

Spec == Init /\ [][Next]_vars

(* Processes that can go on do, a kernel that does not work is noticed, and *)
(* the container restarts.  Nobody owes an upgrade, and a download may hang.*)
Fairness ==
    /\ WF_vars(Boot) /\ WF_vars(ContainerRestarts)
    /\ WF_vars(SettleRead \/ SettleReread \/ SettleWrite \/ BecomeReady)
    /\ WF_vars(RequestRestart)
    /\ WF_vars(BrokenExits) /\ WF_vars(RollbackWrite \/ StopUnhealthy)

LiveSpec == Spec /\ Fairness

-----------------------------------------------------------------------------
(* Properties *)

\* The shape of the state; the two slots never collapse into one.
TypeOK ==
    /\ slots \in SlotsFile /\ slots.current # slots.previous
    /\ disk \in [Slots -> Releases \union {"none", "torn"}]
    /\ kernel \in [at : Slots \union {"embedded", "none"}, code : Releases \union {"none", "torn"},
                   phase : {"down", "booting", "settling", "writing", "settled", "ready"}]
    /\ seen \in SlotsFile
    /\ updater \in [pc : {"idle", "download", "extract", "unpack", "preflight", "commit", "write", "restart"},
                    slot : Slots, release : Versions]
    /\ supervisor \in {"boot", "watch", "exited"}
    /\ failures \in 0..Threshold
    /\ watchdog \in [pc : {"on", "off", "write", "stop"}, seen : SlotsFile]
    /\ applies \in Nat /\ faults \in Nat /\ cuts \in Nat

\* While an update waits for its settlement, the slot that boots next holds all
\* of the release that slots.json names: no torn release is ever committed.
WindowIsBootable ==
    slots.updateInFlight => disk[slots.current] = slots.version /\ slots.version \in Releases

\* Nothing changes the slot that boots next, neither an apply that is behind the
\* times nor one that a restart has cut short (the kernel is still up for some
\* seconds while a rollback stops it, and that time is excepted).
CurrentIsKept ==
    [][watchdog.pc # "stop" => disk'[slots.current] = disk[slots.current]]_vars

\* Whatever release is applied and wherever the machine stops, the system gets
\* ready again: a release that does not work is rolled back.
AutomaticRollback == kernel.phase # "ready" ~> kernel.phase = "ready"

\* ... as long as no kernel that works gives cause for a rollback, and none
\* overlaps with a settlement: a rollback to a slot that an apply has left half
\* written can end with no slot to boot, and a settlement that reads on both
\* sides of one gives the old release the version of the new.
ComesBack ==
    [](faults = 0 /\ (watchdog.pc \in {"write", "stop"} => kernel.phase \notin {"settling", "writing"}))
        => AutomaticRollback

\* Every update is settled or rolled back, so that the next is not refused.
WindowCloses == slots.updateInFlight ~> ~slots.updateInFlight

=============================================================================
