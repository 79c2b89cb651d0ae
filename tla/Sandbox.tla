------------------------------- MODULE Sandbox -------------------------------
(***************************************************************************)
(* The code sandbox (src/kernel/sandbox/manager.ts): workspaces, each with *)
(* a container of the Docker daemon, commands run in them, the sweep that  *)
(* stops idle ones, and what a restart of the process finds.               *)
(*                                                                         *)
(* A step is a method up to its next await, which is a call of the daemon. *)
(* The daemon refuses to start a container that runs, to stop one that     *)
(* does not, and, without force, to remove one that does; any other call   *)
(* may fail as well, and what fails has not been done.  A workspace        *)
(* that is removed and created again is a new object; the operations that  *)
(* hold the old one write to it in vain.                                   *)
(***************************************************************************)
EXTENDS Integers, FiniteSets

CONSTANTS
    Boxes,          \* workspace ids
    BoxOps,         \* requests under way at a time
    MaxWorkspaces,
    MaxContainers, MaxBoxLives  \* bounds: containers that are made, processes

ASSUME SandboxAssumption ==
    /\ IsFiniteSet(Boxes) /\ MaxWorkspaces \in Nat
    /\ MaxContainers \in Nat /\ MaxBoxLives \in Nat

Containers == 1..MaxContainers

VARIABLES
    box,     \* #workspaces: status, containerId (0 for null) and which object it is
    handle,  \* #containers (0 for none)
    fresh,   \* used within idleStopMs
    boxOp,   \* the requests
    sweep,   \* sweepIdleWorkspaces in progress
    docker,  \* the containers of the daemon
    kills,   \* kills on their way
    (* history *)
    strays,  \* containers that were given up
    boxLives \* bound

sandboxVars == <<box, handle, fresh, boxOp, sweep, docker, kills, strays, boxLives>>

NoBox   == [status |-> "absent", cont |-> 0, obj |-> 0]
NoBoxOp == [pc |-> "idle"]
NoSweep == [pc |-> "idle"]

SandboxInit ==
    /\ box      = [w \in Boxes |-> NoBox]
    /\ handle   = [w \in Boxes |-> 0]
    /\ fresh    = [w \in Boxes |-> FALSE]
    /\ boxOp    = [o \in BoxOps |-> NoBoxOp]
    /\ sweep    = NoSweep
    /\ docker   = [k \in Containers |-> "none"]
    /\ kills    = {}
    /\ strays   = {}
    /\ boxLives = 1

-----------------------------------------------------------------------------
(* Helpers *)

Present(w) == box[w].status # "absent"
ContainerOf(w) == IF handle[w] # 0 THEN handle[w] ELSE box[w].cont
AtRest(k) == docker[k] \in {"created", "exited", "killed"}
Exists(k) == docker[k] = "running" \/ AtRest(k)

\* The containers are made in the order of their numbers.
NewContainer == {k \in Containers : docker[k] = "none" /\ \A i \in 1..(k - 1) : docker[i] # "none"}

\* An operation or the sweep still holds the object.
Held(w, obj) ==
    \/ \E o \in BoxOps : boxOp[o].pc # "idle" /\ boxOp[o].w = w /\ boxOp[o].obj = obj
    \/ sweep.pc = "stop" /\ sweep.w = w /\ sweep.obj = obj

\* The object that an operation holds is still the one in the table.
Current(o) == box[o.w].obj = o.obj
Mark(o, status) ==
    box' = IF Current(o) THEN [box EXCEPT ![o.w].status = status] ELSE box

BoxGo(o, op) == boxOp' = [boxOp EXCEPT ![o] = op]
BoxDone(o)   == BoxGo(o, NoBoxOp)
At(o, pc)    == boxOp[o].pc = pc

-----------------------------------------------------------------------------
(* createWorkspace *)

CreateWorkspace(o, w) ==
    /\ At(o, "idle") /\ ~Present(w)
    /\ Cardinality({v \in Boxes : Present(v)}) < MaxWorkspaces
    /\ \E obj \in 1..(Cardinality(BoxOps) + 1) :
          /\ ~Held(w, obj) /\ \A i \in 1..(obj - 1) : Held(w, i)
          /\ box' = [box EXCEPT ![w] = [status |-> "creating", cont |-> 0, obj |-> obj]]
          /\ BoxGo(o, [pc |-> "make", w |-> w, obj |-> obj, k |-> 0])
    /\ fresh' = [fresh EXCEPT ![w] = TRUE]
    /\ UNCHANGED <<handle, sweep, docker, kills, strays, boxLives>>

ContainerMade(o) ==
    /\ At(o, "make")
    /\ \/ \E k \in NewContainer :
            /\ docker' = [docker EXCEPT ![k] = "created"]
            /\ BoxGo(o, [boxOp[o] EXCEPT !.pc = "boot", !.k = k])
            /\ UNCHANGED box
       \/ Mark(boxOp[o], "error") /\ BoxDone(o) /\ UNCHANGED docker
    /\ UNCHANGED <<handle, fresh, sweep, kills, strays, boxLives>>

\* A container that does not start is not removed; neither is the one of a
\* workspace that is gone, which even gets into the table of handles.
ContainerUp(o) ==
    /\ At(o, "boot")
    /\ LET op == boxOp[o] IN
       \/ /\ docker' = [docker EXCEPT ![op.k] = "running"]
          /\ box' = IF Current(op) THEN [box EXCEPT ![op.w].status = "running", ![op.w].cont = op.k] ELSE box
          /\ handle' = [handle EXCEPT ![op.w] = op.k]
          /\ strays' = (strays \union IF Current(op) THEN {} ELSE {op.k}) \union ({handle[op.w]} \ {0})
       \/ /\ Mark(op, "error")
          /\ strays' = strays \union {op.k}
          /\ UNCHANGED <<docker, handle>>
    /\ BoxDone(o)
    /\ UNCHANGED <<fresh, sweep, kills, boxLives>>

-----------------------------------------------------------------------------
(* removeWorkspace.  Nobody asks for force. *)

Drop(w) ==
    /\ box' = [box EXCEPT ![w] = NoBox]
    /\ handle' = [handle EXCEPT ![w] = 0]

RemoveWorkspace(o, w) ==
    /\ At(o, "idle") /\ Present(w)
    /\ IF ContainerOf(w) = 0
         THEN Drop(w) /\ UNCHANGED boxOp
         ELSE /\ BoxGo(o, [pc |-> "remove", w |-> w, obj |-> box[w].obj, k |-> ContainerOf(w)])
              /\ UNCHANGED <<box, handle>>
    /\ UNCHANGED <<fresh, sweep, docker, kills, strays, boxLives>>

\* Slip: what the daemon refuses is not noticed.
RemovedAnyway(o) ==
    /\ At(o, "remove")
    /\ Drop(boxOp[o].w)
    /\ docker' = [docker EXCEPT ![boxOp[o].k] = IF @ = "running" THEN @ ELSE "gone"]
    /\ BoxDone(o)
    /\ UNCHANGED <<fresh, sweep, kills, strays, boxLives>>

Removed(o) ==
    /\ At(o, "remove")
    /\ LET op == boxOp[o] IN
       \/ /\ AtRest(op.k)
          /\ docker' = [docker EXCEPT ![op.k] = "gone"]
          /\ strays' = strays \union ({box[op.w].cont, handle[op.w]} \ {0, op.k})
          /\ Drop(op.w)
       \/ UNCHANGED <<docker, strays, box, handle>>
    /\ BoxDone(o)
    /\ UNCHANGED <<fresh, sweep, kills, boxLives>>

-----------------------------------------------------------------------------
(* exec *)

Runnable(w) == box[w].cont # 0 /\ box[w].status \in {"running", "stopped"}

Exec(o, w) ==
    /\ At(o, "idle") /\ Runnable(w)
    /\ fresh' = [fresh EXCEPT ![w] = TRUE]
    /\ BoxGo(o, [pc |-> IF box[w].status = "stopped" THEN "start" ELSE "enter",
                 w |-> w, obj |-> box[w].obj, k |-> ContainerOf(w)])
    /\ UNCHANGED <<box, handle, sweep, docker, kills, strays, boxLives>>

\* An idle workspace is started again.
ExecStarted(o) ==
    /\ At(o, "start")
    /\ \/ /\ AtRest(boxOp[o].k)
          /\ docker' = [docker EXCEPT ![boxOp[o].k] = "running"]
          /\ Mark(boxOp[o], "running")
          /\ BoxGo(o, [boxOp[o] EXCEPT !.pc = "enter"])
       \/ BoxDone(o) /\ UNCHANGED <<docker, box>>
    /\ UNCHANGED <<handle, fresh, sweep, kills, strays, boxLives>>

ExecEntered(o) ==
    /\ At(o, "enter")
    /\ \/ docker[boxOp[o].k] = "running" /\ BoxGo(o, [boxOp[o] EXCEPT !.pc = "run"])
       \/ BoxDone(o)
    /\ UNCHANGED <<box, handle, fresh, sweep, docker, kills, strays, boxLives>>

\* The command ends, or its container does; or its time is over and the whole
\* container is killed, without waiting for it.
ExecOver(o) ==
    /\ At(o, "run")
    /\ \/ UNCHANGED kills
       \/ kills' = kills \union {boxOp[o].k}
    /\ BoxDone(o)
    /\ UNCHANGED <<box, handle, fresh, sweep, docker, strays, boxLives>>

KillArrives(k) ==
    /\ k \in kills
    /\ kills' = kills \ {k}
    /\ docker' = [docker EXCEPT ![k] = IF @ = "running" THEN "killed" ELSE @]
    /\ UNCHANGED <<box, handle, fresh, boxOp, sweep, strays, boxLives>>

\* An isolated command has a container of its own, which may fail to start.
ExecIsolated(o, w) ==
    /\ At(o, "idle") /\ Runnable(w)
    /\ fresh' = [fresh EXCEPT ![w] = TRUE]
    /\ \E k \in NewContainer, up \in {"created", "running"} :
          /\ docker' = [docker EXCEPT ![k] = up]
          /\ BoxGo(o, [pc |-> "alone", w |-> w, obj |-> box[w].obj, k |-> k])
    /\ UNCHANGED <<box, handle, sweep, kills, strays, boxLives>>

\* However the command ended, its container is removed by force; where the daemon
\* fails to, that is only logged, and nobody knows of the container any more.  The
\* kill of a command whose time is over may still be on its way.
IsolatedOver(o) ==
    /\ At(o, "alone")
    /\ LET k == boxOp[o].k IN
       /\ \/ docker' = [docker EXCEPT ![k] = "gone"] /\ UNCHANGED strays
          \/ strays' = strays \union {k} /\ UNCHANGED docker
       /\ \/ UNCHANGED kills
          \/ docker[k] = "running" /\ kills' = kills \union {k}
    /\ BoxDone(o)
    /\ UNCHANGED <<box, handle, fresh, sweep, boxLives>>

-----------------------------------------------------------------------------
(* The idle sweep *)

BecomesIdle(w) ==
    /\ fresh[w]
    /\ fresh' = [fresh EXCEPT ![w] = FALSE]
    /\ UNCHANGED <<box, handle, boxOp, sweep, docker, kills, strays, boxLives>>

Idle(w) == box[w].status = "running" /\ ~fresh[w]

\* Every 30 s, unless the last sweep is still under way.
SweepBegins ==
    /\ sweep.pc = "idle"
    /\ \E w \in Boxes : Idle(w)
    /\ sweep' = [pc |-> "scan", todo |-> {w \in Boxes : ~fresh[w]}]
    /\ UNCHANGED <<box, handle, fresh, boxOp, docker, kills, strays, boxLives>>

SweepLooks(w) ==
    /\ sweep.pc = "scan" /\ w \in sweep.todo
    /\ sweep' = IF Idle(w) /\ handle[w] # 0
                  THEN [pc |-> "stop", todo |-> sweep.todo \ {w}, w |-> w, obj |-> box[w].obj, k |-> handle[w]]
                  ELSE [sweep EXCEPT !.todo = @ \ {w}]
    /\ box' = IF Idle(w) /\ handle[w] = 0 THEN [box EXCEPT ![w].status = "stopped"] ELSE box
    /\ UNCHANGED <<handle, fresh, boxOp, docker, kills, strays, boxLives>>

SweepStopped ==
    /\ sweep.pc = "stop"
    /\ \/ /\ docker[sweep.k] = "running"
          /\ docker' = [docker EXCEPT ![sweep.k] = "exited"]
          /\ Mark(sweep, "stopped")
       \/ UNCHANGED <<docker, box>>
    /\ sweep' = [pc |-> "scan", todo |-> sweep.todo]
    /\ UNCHANGED <<handle, fresh, boxOp, kills, strays, boxLives>>

SweepEnds ==
    /\ sweep.pc = "scan" /\ sweep.todo = {}
    /\ sweep' = NoSweep
    /\ UNCHANGED <<box, handle, fresh, boxOp, docker, kills, strays, boxLives>>

-----------------------------------------------------------------------------
\* The process ends.  The next one finds the home directories and knows of no
\* container.
BoxesRecovered ==
    /\ boxLives < MaxBoxLives
    /\ boxLives' = boxLives + 1
    /\ box' = [w \in Boxes |-> IF Present(w) THEN [status |-> "stopped", cont |-> 0, obj |-> 0] ELSE NoBox]
    /\ handle' = [w \in Boxes |-> 0]
    /\ fresh' = [w \in Boxes |-> FALSE]
    /\ boxOp' = [o \in BoxOps |-> NoBoxOp]
    /\ sweep' = NoSweep /\ kills' = {}
    /\ strays' = {k \in Containers : Exists(k)}
    /\ UNCHANGED docker

SandboxNext ==
    \/ \E o \in BoxOps :
         \/ ContainerMade(o) \/ ContainerUp(o) \/ Removed(o)
         \/ ExecStarted(o) \/ ExecEntered(o) \/ ExecOver(o) \/ IsolatedOver(o)
         \/ \E w \in Boxes : CreateWorkspace(o, w) \/ RemoveWorkspace(o, w) \/ Exec(o, w) \/ ExecIsolated(o, w)
    \/ \E k \in Containers : KillArrives(k)
    \/ \E w \in Boxes : BecomesIdle(w) \/ SweepLooks(w)
    \/ SweepBegins \/ SweepStopped \/ SweepEnds
    \/ BoxesRecovered

SandboxSpec == SandboxInit /\ [][SandboxNext]_sandboxVars

-----------------------------------------------------------------------------
(* Properties *)

\* Every variable keeps its type, and there are no more workspaces than allowed.
SandboxTypeOK ==
    /\ \A w \in Boxes :
         /\ box[w].status \in {"absent", "creating", "running", "stopped", "error"}
         /\ box[w].cont \in Containers \union {0} /\ handle[w] \in Containers \union {0}
    /\ Cardinality({w \in Boxes : Present(w)}) <= MaxWorkspaces
    /\ docker \in [Containers -> {"none", "created", "running", "exited", "killed", "gone"}]
    /\ kills \subseteq Containers /\ strays \subseteq Containers

Settled(w) ==
    /\ \A o \in BoxOps : boxOp[o].pc # "idle" => boxOp[o].w # w
    /\ sweep.pc = "stop" => sweep.w # w

InHand(k) == \E o \in BoxOps : boxOp[o].pc # "idle" /\ boxOp[o].k = k

\* However creating, removing, running, timing out, sweeping and restarting
\* overlap: a workspace nobody works on says what its container does, unless a
\* timeout has killed it, and every container there is belongs to a workspace
\* or to a request, or is one of those that the code is known to give up.
BoxesMatch ==
    /\ \A w \in Boxes :
         Settled(w) /\ box[w].cont # 0 /\ ContainerOf(w) \notin strays =>
            /\ ContainerOf(w) = box[w].cont
            /\ box[w].status = "running" => docker[box[w].cont] \in {"running", "killed"}
            /\ box[w].status = "stopped" => docker[box[w].cont] = "exited"
    /\ \A k \in Containers :
         Exists(k) => k \in strays \/ InHand(k) \/ \E w \in Boxes : handle[w] = k

=============================================================================
