------------------------------ MODULE MCTasks ------------------------------
(* Instances of Tasks for TLC. *)
EXTENDS Tasks, TLC

CONSTANTS t1, t2, t3, w1, w2

\* Two pool tasks; an extraction; an echo; an extension task.
KindPool    == t1 :> "echo" @@ t2 :> "file-extract"
KindEcho    == t1 :> "echo"
KindAll     == KindPool @@ t3 :> "external"

\* The pool's tasks and the extension's task are asked for in runs of their own.
NoPoolTask == \A t \in {t1, t2} : dispatcher[t] = "idle"
OneParty   == dispatcher[t3] = "idle" \/ NoPoolTask

(* Liveness costs more than safety: a behaviour asks either for the pool    *)
(* tasks, in one start of the manager, or for the task of an extension,     *)
(* with a second start after a stop or a crash.                             *)

InCast == OneParty' /\ (starts' <= 1 \/ NoPoolTask')

CastSpec ==
    /\ Init /\ [][Next /\ InCast]_vars
    /\ KernelFairness /\ ThreadFairness

=============================================================================
