--------------------------- MODULE TaskLifecycle ---------------------------
(***************************************************************************)
(* What the task subsystem promises its clients, with no pool, no callback *)
(* and no database statement in sight: a task moves along TASK_TRANSITIONS *)
(* (kernel/tasks/store.ts), its result or error is attached only to the    *)
(* outcome it belongs to, and the outcome is announced at most once, after *)
(* it has been decided and recorded.  Tasks.tla is shown to implement it.  *)
(***************************************************************************)
EXTENDS Naturals, Sequences

CONSTANT Tasks

VARIABLES
    status,     \* status[t]: "none" until the row of t is inserted
    payload,    \* payload[t]: which of result / error the row carries
    announced   \* announced[t]: the task.completed / task.failed events of t

vars == <<status, payload, announced>>

Terminal == {"done", "failed", "cancelled"}

\* The edges of the state machine, with row creation as the edge out of "none".
Edges == {<<"none", "queued">>, <<"queued", "running">>, <<"queued", "cancelled">>,
          <<"running", "done">>, <<"running", "failed">>, <<"running", "cancelled">>}

\* The event and the payload that go with an outcome.
EventOf   == [done |-> "task.completed", failed |-> "task.failed"]
PayloadOf == [done |-> "result", failed |-> "error"]

Init ==
    /\ status    = [t \in Tasks |-> "none"]
    /\ payload   = [t \in Tasks |-> "none"]
    /\ announced = [t \in Tasks |-> <<>>]

Move(t, s) ==
    /\ <<status[t], s>> \in Edges
    /\ status' = [status EXCEPT ![t] = s]
    /\ UNCHANGED <<payload, announced>>

\* The outcome is decided first; its payload is written in a later statement.
Record(t) ==
    /\ status[t] \in {"done", "failed"}
    /\ payload[t] = "none"
    /\ payload' = [payload EXCEPT ![t] = PayloadOf[status[t]]]
    /\ UNCHANGED <<status, announced>>

Announce(t) ==
    /\ status[t] \in {"done", "failed"}
    /\ payload[t] = PayloadOf[status[t]]
    /\ announced[t] = <<>>
    /\ announced' = [announced EXCEPT ![t] = <<EventOf[status[t]]>>]
    /\ UNCHANGED <<status, payload>>

Next ==
    \E t \in Tasks : \/ \E s \in {"queued", "running"} \union Terminal : Move(t, s)
                     \/ Record(t)
                     \/ Announce(t)

Spec == Init /\ [][Next]_vars
=============================================================================
