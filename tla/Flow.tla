-------------------------------- MODULE Flow --------------------------------
(***************************************************************************)
(* One endpoint for incoming webhooks (src/kernel/flow/manager.ts and      *)
(* store.ts): its row, its key in the secrets store, and the events that   *)
(* arrive at it.  No transaction spans the three, and requests overlap     *)
(* between any two awaits.                                                 *)
(***************************************************************************)
EXTENDS Integers, FiniteSets

CONSTANTS
    FlowOps,      \* requests under way at a time
    MaxEvents,    \* bound: events ever received
    MaxKeys       \* bound: keys ever made

ASSUME FlowAssumption == IsFiniteSet(FlowOps) /\ MaxEvents \in Nat /\ MaxKeys \in Nat

NoEndpoint == [type |-> "none"]
Endpoints  == [type : {"log", "llm"}, prompt : BOOLEAN, enabled : BOOLEAN]

VARIABLES
    endpoint,   \* the row of flow_endpoints
    key,        \* the key in the secrets store, 0 when there is none
    lastKey,
    events,     \* flow_events: the status of each event, "none" before and after
    flowOp,     \* the requests
    (* history *)
    acted,      \* events whose dispatch succeeded
    unwritten,  \* events of which a status could not be written
    dropped,    \* events whose handler died with the process
    crossed,    \* two updates of the endpoint overlapped
    met         \* requests met a deletion, or a step of one or of the creation failed

flowVars ==
    <<endpoint, key, lastKey, events, flowOp, acted, unwritten, dropped, crossed, met>>

NoFlowOp == [pc |-> "idle"]

FlowInit ==
    /\ endpoint = NoEndpoint
    /\ key      = 0
    /\ lastKey  = 0
    /\ events   = [i \in 1..MaxEvents |-> "none"]
    /\ flowOp   = [o \in FlowOps |-> NoFlowOp]
    /\ acted = {} /\ unwritten = {} /\ dropped = {}
    /\ crossed = FALSE /\ met = FALSE

FlowGo(o, op)  == flowOp' = [flowOp EXCEPT ![o] = op]
FlowAt(o, pc)  == flowOp[o].pc = pc
FlowNextAt(o, pc) == FlowGo(o, [flowOp[o] EXCEPT !.pc = pc])
Deleting       == \E o \in FlowOps : flowOp[o].pc \in {"events", "key", "row"}
Handled(i)     == \E o \in FlowOps : flowOp[o].pc \in {"dispatch", "processed", "failed"} /\ flowOp[o].event = i

-----------------------------------------------------------------------------
(* the endpoint *)

\* What #assertFlowConfig and #assertLlmPrompt let pass.
Sound(e) == e.type = "llm" => e.prompt

NewKey == lastKey < MaxKeys /\ lastKey' = lastKey + 1 /\ key' = lastKey + 1

\* createEndpoint: the key is stored before a slug is found and the row is made.
CreateEndpoint(o, e) ==
    /\ FlowAt(o, "idle") /\ lastKey = 0 /\ Sound(e) /\ e.enabled
    /\ NewKey
    /\ FlowGo(o, [pc |-> "insert", new |-> e])
    /\ UNCHANGED <<endpoint, events, acted, unwritten, dropped, crossed, met>>

EndpointMade(o) ==
    /\ FlowAt(o, "insert")
    /\ FlowGo(o, NoFlowOp)
    /\ \/ endpoint' = flowOp[o].new /\ UNCHANGED met
       \/ UNCHANGED endpoint /\ met' = TRUE
    /\ UNCHANGED <<key, lastKey, events, acted, unwritten, dropped, crossed>>

\* Some of what a PATCH may bring, one field at a time.
Patches == {<<"type", "llm">>, <<"prompt", FALSE>>, <<"enabled", FALSE>>}

Patched(e, p) == [e EXCEPT ![p[1]] = p[2]]

\* Slip: what the patch makes of the row is not checked.
UpdateUnchecked(o) ==
    /\ FlowAt(o, "idle") /\ endpoint # NoEndpoint
    /\ \E p \in Patches : FlowGo(o, [pc |-> "patch", patch |-> p])
    /\ UNCHANGED <<endpoint, key, lastKey, events, acted, unwritten, dropped, crossed, met>>

\* updateEndpoint checks the row that it has read with the patch in it ...
UpdateEndpoint(o) ==
    /\ FlowAt(o, "idle") /\ endpoint # NoEndpoint
    /\ \E p \in Patches :
          Sound(Patched(endpoint, p)) /\ FlowGo(o, [pc |-> "patch", patch |-> p])
    /\ UNCHANGED <<endpoint, key, lastKey, events, acted, unwritten, dropped, crossed, met>>

\* ... and writes the patch alone into whatever row there is by then.
Patch(o) ==
    /\ FlowAt(o, "patch")
    /\ endpoint' = IF endpoint = NoEndpoint THEN NoEndpoint ELSE Patched(endpoint, flowOp[o].patch)
    /\ crossed' = (crossed \/ \E p \in FlowOps \ {o} : FlowAt(p, "patch"))
    /\ FlowGo(o, NoFlowOp)
    /\ UNCHANGED <<key, lastKey, events, acted, unwritten, dropped, met>>

\* deleteEndpoint: events, key, row.  A key that cannot be deleted is left.
DeleteEndpoint(o) ==
    /\ FlowAt(o, "idle") /\ endpoint # NoEndpoint
    /\ FlowGo(o, [pc |-> "events"])
    /\ met' = (met \/ \E p \in FlowOps \ {o} : flowOp[p].pc # "idle")
    /\ UNCHANGED <<endpoint, key, lastKey, events, acted, unwritten, dropped, crossed>>

EventsDeleted(o) ==
    /\ FlowAt(o, "events")
    /\ events' = [i \in DOMAIN events |-> "none"]
    /\ FlowNextAt(o, "key")
    /\ UNCHANGED <<endpoint, key, lastKey, acted, unwritten, dropped, crossed, met>>

KeyDeleted(o) ==
    /\ FlowAt(o, "key")
    /\ \/ key' = 0 /\ UNCHANGED met
       \/ UNCHANGED key /\ met' = TRUE
    /\ FlowNextAt(o, "row")
    /\ UNCHANGED <<endpoint, lastKey, events, acted, unwritten, dropped, crossed>>

EndpointDeleted(o) ==
    /\ FlowAt(o, "row")
    /\ endpoint' = NoEndpoint
    /\ FlowGo(o, NoFlowOp)
    /\ UNCHANGED <<key, lastKey, events, acted, unwritten, dropped, crossed, met>>

\* rotateSecret, from the read of the row ...
RotateSecret(o) ==
    /\ FlowAt(o, "idle") /\ endpoint # NoEndpoint /\ lastKey < MaxKeys
    /\ FlowGo(o, [pc |-> "rotate"])
    /\ met' = (met \/ Deleting)
    /\ UNCHANGED <<endpoint, key, lastKey, events, acted, unwritten, dropped, crossed>>

\* ... to the new key, which takes the place of the old one at once.
Rotated(o) ==
    /\ FlowAt(o, "rotate")
    /\ NewKey
    /\ FlowGo(o, NoFlowOp)
    /\ UNCHANGED <<endpoint, events, acted, unwritten, dropped, crossed, met>>

-----------------------------------------------------------------------------
(* handleInbound *)

Inbound(o, signedWith) ==
    /\ FlowAt(o, "idle") /\ endpoint # NoEndpoint /\ endpoint.enabled
    /\ FlowGo(o, [pc |-> "verify", signed |-> signedWith])
    /\ met' = (met \/ Deleting)
    /\ UNCHANGED <<endpoint, key, lastKey, events, acted, unwritten, dropped, crossed>>

\* #verifySignature: without a key nothing passes.
Verify(o) ==
    /\ FlowAt(o, "verify")
    /\ FlowGo(o, IF key # 0 /\ flowOp[o].signed = key THEN [pc |-> "enter"] ELSE NoFlowOp)
    /\ UNCHANGED <<endpoint, key, lastKey, events, acted, unwritten, dropped, crossed, met>>

\* The event is entered before anything is done with it, or refused.
EnterEvent(o) ==
    /\ FlowAt(o, "enter")
    /\ \/ FlowGo(o, NoFlowOp) /\ UNCHANGED events
       \/ \E i \in DOMAIN events :
            /\ events[i] = "none" /\ ~Handled(i) /\ i \notin acted
            /\ events' = [events EXCEPT ![i] = "received"]
            /\ FlowGo(o, [pc |-> "dispatch", event |-> i])
    /\ UNCHANGED <<endpoint, key, lastKey, acted, unwritten, dropped, crossed, met>>

\* #dispatch, with the endpoint as it was when the event came in.
Dispatched(o) ==
    /\ FlowAt(o, "dispatch")
    /\ \/ FlowNextAt(o, "processed") /\ acted' = acted \union {flowOp[o].event}
       \/ FlowNextAt(o, "failed") /\ UNCHANGED acted
    /\ UNCHANGED <<endpoint, key, lastKey, events, unwritten, dropped, crossed, met>>

\* Slip: the status is not written again as failed.
SettleOnce(o) ==
    /\ flowOp[o].pc \in {"processed", "failed"}
    /\ FlowGo(o, NoFlowOp)
    /\ LET i == flowOp[o].event
       IN  events' = [events EXCEPT ![i] = IF @ = "none" THEN @ ELSE "failed"]
    /\ UNCHANGED <<endpoint, key, lastKey, acted, unwritten, dropped, crossed, met>>

\* updateEventStatus.  When "processed" cannot be written the catch writes
\* "failed"; when that fails too the request ends and the event stays.
Settle(o) ==
    /\ flowOp[o].pc \in {"processed", "failed"}
    /\ LET i == flowOp[o].event
       IN  \/ /\ events' = [events EXCEPT ![i] = IF @ = "none" THEN @ ELSE flowOp[o].pc]
              /\ FlowGo(o, NoFlowOp)
              /\ UNCHANGED unwritten
           \/ /\ IF FlowAt(o, "processed") THEN FlowNextAt(o, "failed") ELSE FlowGo(o, NoFlowOp)
              /\ unwritten' = unwritten \union {i}
              /\ UNCHANGED events
    /\ UNCHANGED <<endpoint, key, lastKey, acted, dropped, crossed, met>>

\* The process ends; nothing is taken up again at the next start.
FlowCrash ==
    /\ \E o \in FlowOps : flowOp[o].pc # "idle"
    /\ dropped = {}  \* bound: one crash while an event is handled
    /\ dropped' = {i \in DOMAIN events : Handled(i)}
    /\ met'    = (met \/ Deleting \/ \E o \in FlowOps : FlowAt(o, "insert"))
    /\ flowOp' = [o \in FlowOps |-> NoFlowOp]
    /\ UNCHANGED <<endpoint, key, lastKey, events, acted, unwritten, crossed>>

FlowNext ==
    \/ \E o \in FlowOps :
          \/ \E e \in Endpoints : CreateEndpoint(o, e)
          \/ EndpointMade(o) \/ UpdateEndpoint(o) \/ Patch(o)
          \/ DeleteEndpoint(o) \/ EventsDeleted(o) \/ KeyDeleted(o) \/ EndpointDeleted(o)
          \/ RotateSecret(o) \/ Rotated(o)
          \/ \E k \in 1..lastKey : Inbound(o, k)
          \/ Verify(o) \/ EnterEvent(o) \/ Dispatched(o) \/ Settle(o)
    \/ FlowCrash

FlowSpec == FlowInit /\ [][FlowNext]_flowVars

-----------------------------------------------------------------------------
\* What a variable may hold.
FlowTypeOK ==
    /\ endpoint \in Endpoints \union {NoEndpoint}
    /\ key \in 0..lastKey /\ lastKey \in 0..MaxKeys
    /\ events \in [1..MaxEvents -> {"none", "received", "processed", "failed"}]
    /\ \A o \in FlowOps : "event" \in DOMAIN flowOp[o] => flowOp[o].event \in 1..MaxEvents
    /\ {acted, unwritten, dropped} \subseteq SUBSET (1..MaxEvents)
    /\ {crossed, met} \subseteq BOOLEAN

\* An event says what was done: processed was done, failed was not, unless a
\* status could not be written; received is being handled, unless its handler
\* died or could write nothing at all.  The endpoint is one its checks accept,
\* unless two updates crossed.  Row, key and events come and go together, unless a
\* request met the deletion or a step of it or of the creation failed: without
\* a row there is no key and no event, and with one there is a key.
\* (handleInbound, updateEndpoint, deleteEndpoint, rotateSecret)
FlowAgrees ==
    /\ \A i \in DOMAIN events :
         /\ events[i] = "processed" => i \in acted
         /\ events[i] = "failed" /\ i \in acted => i \in unwritten
         /\ events[i] = "received" => Handled(i) \/ i \in unwritten \union dropped
         /\ events[i] # "none" /\ endpoint = NoEndpoint => met
    /\ endpoint # NoEndpoint => Sound(endpoint) \/ crossed
    /\ endpoint = NoEndpoint /\ key # 0 =>
          met \/ \E o \in FlowOps : flowOp[o].pc = "insert"
    /\ endpoint # NoEndpoint /\ key = 0 => met \/ Deleting

=============================================================================
