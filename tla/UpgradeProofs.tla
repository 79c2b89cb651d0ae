--------------------------- MODULE UpgradeProofs ----------------------------
(***************************************************************************)
(* Proofs about Upgrade: type correctness with the slots apart, that a     *)
(* window is only ever opened on a complete release, and that the slot     *)
(* which boots next is left alone, for every set of releases, every        *)
(* threshold and every bound.                                              *)
(***************************************************************************)
EXTENDS Upgrade, TLAPS

\* What is read of slots.json keeps the slots apart, and an apply belongs to a
\* kernel that is ready and does not commit the slot that it read as current.
ReadersOK ==
    /\ seen.current # seen.previous
    /\ watchdog.seen.current # watchdog.seen.previous
    /\ updater.pc # "idle" => kernel.phase = "ready" /\ updater.release \in Releases
    /\ updater.pc = "write" => seen.current # updater.slot
    /\ supervisor # "watch" => kernel.phase = "down"

\* No apply works on a slot while a window is open, nor, unless a rollback has
\* just changed it, on the current slot; what is about to be committed is complete.
CommitsOK ==
    /\ slots.updateInFlight => updater.pc \in {"idle", "restart"}
    /\ updater.pc \in {"preflight", "commit", "write"} => disk[updater.slot] = updater.release
    /\ updater.pc \in {"download", "extract", "unpack"} /\ watchdog.pc # "stop"
         => updater.slot # slots.current

IInv == TypeOK /\ ReadersOK /\ CommitsOK /\ WindowIsBootable

-----------------------------------------------------------------------------

\* A file that has the slots apart still has them apart after a rollback.
LEMMA RolledType ==
    ASSUME NEW file \in SlotsFile, file.current # file.previous
    PROVE  /\ Rolled(file) \in SlotsFile
           /\ Rolled(file).current # Rolled(file).previous
           /\ Rolled(file).updateInFlight = FALSE
BY DEF Rolled, SlotsFile

\* The slot that is chosen at boot has a main.js.
LEMMA BootSlotHasMain ==
    ASSUME TypeOK, NEW t \in Slots, HasMain(t)
    PROVE  BootSlot \in Slots /\ disk[BootSlot] # "none"
BY DEF TypeOK, SlotsFile, BootSlot, HasMain, Slots

\* The kernel is gone and its apply with it.
LEMMA GoneType ==
    ASSUME IInv, KernelGone
    PROVE  /\ kernel' \in [at : Slots \union {"embedded", "none"}, code : Releases \union {"none", "torn"},
                           phase : {"down", "booting", "settling", "writing", "settled", "ready"}]
           /\ updater' \in [pc : {"idle", "download", "extract", "unpack", "preflight", "commit", "write", "restart"},
                            slot : Slots, release : Versions]
           /\ updater'.pc = "idle" /\ kernel'.phase = "down"
           /\ seen' \in SlotsFile /\ seen'.current # seen'.previous
BY DEF IInv, TypeOK, ReadersOK, KernelGone, NoKernel, Idle, Slots, Versions

\* The restart of a kernel that has failed.
LEMMA RestartType ==
    ASSUME IInv, KernelGone, UNCHANGED disk, NEW count \in Nat \ {0}, ScheduleRestart(count),
           watchdog.pc \in {"on", "off"}, UNCHANGED <<applies, cuts>>, faults' \in Nat
    PROVE  IInv'
<1>1. /\ slots' \in SlotsFile /\ slots'.current # slots'.previous
      /\ slots'.updateInFlight => slots' = slots
  BY RolledType DEF IInv, TypeOK, ScheduleRestart
<1>2. failures' \in 0..Threshold
  BY BoundsAssumption DEF ScheduleRestart
<1>3. watchdog' \in [pc : {"on", "off", "write", "stop"}, seen : SlotsFile]
      /\ watchdog'.seen.current # watchdog'.seen.previous
  BY DEF IInv, TypeOK, ReadersOK, ScheduleRestart
<1>4. TypeOK'
  BY <1>1, <1>2, <1>3, GoneType DEF IInv, TypeOK, ScheduleRestart
<1>5. ReadersOK' /\ CommitsOK'
  BY <1>3, GoneType DEF ReadersOK, CommitsOK
<1>6. WindowIsBootable'
  BY <1>1 DEF IInv, WindowIsBootable
<1> QED
  BY <1>4, <1>5, <1>6 DEF IInv

LEMMA InitHolds == Init => IInv
<1> SUFFICES ASSUME Init PROVE IInv
  OBVIOUS
<1>1. Initial \in SlotsFile /\ Initial.current # Initial.previous /\ Initial.updateInFlight = FALSE
  BY DEF Initial, SlotsFile, Slots, Versions
<1>2. Idle \in [pc : {"idle", "download", "extract", "unpack", "preflight", "commit", "write", "restart"},
                slot : Slots, release : Versions] /\ Idle.pc = "idle"
  BY DEF Idle, Slots, Versions
<1>3. disk \in [Slots -> Releases \union {"none", "torn"}]
  BY ReleasesAssumption DEF Init
<1>4. TypeOK
  BY <1>1, <1>2, <1>3, BoundsAssumption DEF Init, TypeOK, NoKernel
<1>5. ReadersOK /\ CommitsOK /\ WindowIsBootable
  BY <1>1, <1>2 DEF Init, NoKernel, ReadersOK, CommitsOK, WindowIsBootable
<1> QED
  BY <1>4, <1>5 DEF IInv

LEMMA StepHolds == IInv /\ [Next]_vars => IInv'
<1> SUFFICES ASSUME IInv, [Next]_vars PROVE IInv'
  OBVIOUS
<1> USE DEF IInv
<1>1. CASE Boot
  <2>1. UNCHANGED <<slots, disk, seen, updater, failures, applies, faults, cuts>>
    BY <1>1 DEF Boot, bounds
  <2>2. watchdog' \in [pc : {"on", "off", "write", "stop"}, seen : SlotsFile]
        /\ watchdog'.seen = watchdog.seen /\ supervisor' \in {"boot", "watch", "exited"}
    BY <1>1 DEF Boot, TypeOK
  <2>3. kernel' \in [at : Slots \union {"embedded", "none"}, code : Releases \union {"none", "torn"},
                     phase : {"down", "booting", "settling", "writing", "settled", "ready"}]
    <3>1. CASE \E s \in Slots : HasMain(s)
      <4>1. kernel' = [at |-> BootSlot, code |-> disk[BootSlot], phase |-> "booting"]
        BY <1>1, <3>1 DEF Boot
      <4>2. BootSlot \in Slots /\ disk[BootSlot] \in Releases \union {"none", "torn"}
        BY <3>1, BootSlotHasMain DEF TypeOK
      <4> QED
        BY <4>1, <4>2
    <3>2. CASE ~(\E s \in Slots : HasMain(s)) /\ Embedded # "none"
      BY <1>1, <3>2, ReleasesAssumption DEF Boot
    <3>3. CASE ~(\E s \in Slots : HasMain(s)) /\ Embedded = "none"
      BY <1>1, <3>3 DEF Boot, TypeOK
    <3> QED
      BY <3>1, <3>2, <3>3
  <2>4. supervisor' # "watch" => kernel'.phase = "down"
    BY <1>1 DEF Boot, ReadersOK
  <2>5. updater.pc = "idle"
    BY <1>1 DEF Boot, ReadersOK
  <2> QED
    BY <2>1, <2>2, <2>3, <2>4, <2>5 DEF TypeOK, ReadersOK, CommitsOK, WindowIsBootable
<1>2. CASE ContainerRestarts
  BY <1>2, BoundsAssumption
     DEF ContainerRestarts, process, bounds, TypeOK, ReadersOK, CommitsOK, WindowIsBootable
<1>3. CASE SettleRead
  BY <1>3 DEF SettleRead, Phase, parent, bounds, TypeOK, ReadersOK, CommitsOK, WindowIsBootable
<1>4. CASE SettleReread
  BY <1>4 DEF SettleReread, Phase, parent, bounds, SlotsFile, TypeOK, ReadersOK, CommitsOK, WindowIsBootable
<1>5. CASE SettleWrite
  BY <1>5 DEF SettleWrite, Phase, parent, bounds, SlotsFile, TypeOK, ReadersOK, CommitsOK, WindowIsBootable
<1>6. CASE BecomeReady
  BY <1>6 DEF BecomeReady, Phase, parent, bounds, TypeOK, ReadersOK, CommitsOK, WindowIsBootable
<1>7. CASE \E release \in Releases : Apply(release)
  BY <1>7 DEF Apply, At, Other, Slots, Versions, parent, TypeOK, ReadersOK, CommitsOK, WindowIsBootable
<1>8. CASE ApplyStep
  <2>1. CASE Download
    BY <2>1, ReleasesAssumption
       DEF Download, At, Advance, Idle, Slots, Versions, parent, bounds,
           TypeOK, ReadersOK, CommitsOK, WindowIsBootable
  <2>2. CASE ExtractBegins
    BY <2>2, ReleasesAssumption
       DEF ExtractBegins, At, Advance, Idle, Slots, Versions, parent, bounds,
           TypeOK, ReadersOK, CommitsOK, WindowIsBootable
  <2>3. CASE ExtractEnds
    BY <2>3, ReleasesAssumption
       DEF ExtractEnds, At, Advance, Idle, Slots, Versions, parent, bounds,
           TypeOK, ReadersOK, CommitsOK, WindowIsBootable
  <2>4. CASE Preflight
    BY <2>4, ReleasesAssumption
       DEF Preflight, At, Advance, Idle, Slots, Versions, parent, bounds,
           TypeOK, ReadersOK, CommitsOK, WindowIsBootable
  <2>5. CASE CommitRead
    BY <2>5, ReleasesAssumption
       DEF CommitRead, At, Advance, Idle, Slots, Versions, parent, bounds,
           TypeOK, ReadersOK, CommitsOK, WindowIsBootable
  <2>6. CASE CommitWrite
    BY <2>6, ReleasesAssumption
       DEF CommitWrite, At, Advance, SlotsFile, Versions, parent, bounds,
           TypeOK, ReadersOK, CommitsOK, WindowIsBootable
  <2> QED
    BY <1>8, <2>1, <2>2, <2>3, <2>4, <2>5, <2>6 DEF ApplyStep
<1>9. CASE RequestRestart
  BY <1>9, GoneType DEF RequestRestart, bounds, TypeOK, ReadersOK, CommitsOK, WindowIsBootable
<1>10. CASE BrokenExits
  BY <1>10, RestartType DEF BrokenExits, bounds, TypeOK
<1>11. CASE WorkingExits
  BY <1>11, RestartType DEF WorkingExits, TypeOK
<1>12. CASE Unhealthy
  BY <1>12 DEF Unhealthy, process, TypeOK, ReadersOK, CommitsOK, WindowIsBootable
<1>13. CASE RollbackWrite
  BY <1>13, RolledType
     DEF RollbackWrite, process, bounds, TypeOK, ReadersOK, CommitsOK, WindowIsBootable
<1>14. CASE StopUnhealthy
  BY <1>14, GoneType, BoundsAssumption
     DEF StopUnhealthy, bounds, TypeOK, ReadersOK, CommitsOK, WindowIsBootable
<1>15. CASE PowerCut
  BY <1>15, GoneType DEF PowerCut, TypeOK, ReadersOK, CommitsOK, WindowIsBootable
<1>16. CASE UNCHANGED vars
  BY <1>16 DEF vars, process, parent, bounds, TypeOK, ReadersOK, CommitsOK, WindowIsBootable
<1> QED
  BY <1>1, <1>2, <1>3, <1>4, <1>5, <1>6, <1>7, <1>8, <1>9, <1>10,
     <1>11, <1>12, <1>13, <1>14, <1>15, <1>16
     DEF Next

\* The state keeps its shape, and slots.json never names one slot twice, though
\* both processes write it from what they have read earlier.
THEOREM TypeCorrect == Spec => []TypeOK
<1>1. IInv => TypeOK
  BY DEF IInv
<1> QED
  BY <1>1, InitHolds, StepHolds, PTL DEF Spec

\* While an update waits for its settlement, the slot that boots next holds the
\* whole of the release that slots.json names.
THEOREM WindowBootable == Spec => []WindowIsBootable
<1>1. IInv => WindowIsBootable
  BY DEF IInv
<1> QED
  BY <1>1, InitHolds, StepHolds, PTL DEF Spec

\* Nothing but an apply that a rollback overtakes touches the slot that boots next.
THEOREM CurrentKept == Spec => CurrentIsKept
<1> DEFINE Kept == watchdog.pc # "stop" => disk'[slots.current] = disk[slots.current]
<1>1. IInv /\ [Next]_vars => [Kept]_vars
  <2> SUFFICES ASSUME IInv, Next PROVE Kept
    BY DEF vars
  <2>1. CASE Download
    BY <2>1 DEF Download, At, IInv, TypeOK, SlotsFile, CommitsOK
  <2>2. CASE ExtractBegins
    BY <2>2 DEF ExtractBegins, At, IInv, TypeOK, SlotsFile, CommitsOK
  <2>3. CASE ExtractEnds
    BY <2>3 DEF ExtractEnds, At, IInv, TypeOK, SlotsFile, CommitsOK
  <2>4. CASE ~(Download \/ ExtractBegins \/ ExtractEnds)
    <3>1. UNCHANGED disk
      BY <2>4 DEF Next, Boot, ContainerRestarts, SettleRead, SettleReread, SettleWrite, BecomeReady, Apply,
         ApplyStep, Preflight, CommitRead, CommitWrite, RequestRestart, BrokenExits,
         WorkingExits, Unhealthy, RollbackWrite, StopUnhealthy, PowerCut
    <3> QED
      BY <3>1
  <2> QED
    BY <2>1, <2>2, <2>3, <2>4
<1> QED
  BY <1>1, InitHolds, StepHolds, PTL DEF Spec, CurrentIsKept

=============================================================================
