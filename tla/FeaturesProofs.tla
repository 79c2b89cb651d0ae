--------------------------- MODULE FeaturesProofs ---------------------------
(***************************************************************************)
(* Proofs about five of the features that stand on the kernel: flows,      *)
(* notifications, the LLM gateway, accounts and conversations.  Each has   *)
(* an inductive invariant of its own, for any number of requests, and one  *)
(* lemma for every action that it survives.                                *)
(***************************************************************************)
EXTENDS Flow, Notify, LlmGateway, Accounts, Session,
        CountingTheorems, FiniteSetTheorems, SequenceTheorems, TLAPS

-----------------------------------------------------------------------------
(* Flow *)

Handlers == {"dispatch", "processed", "failed"}
Deleters == {"events", "key", "row"}

\* What a request carries with it.
FlowShape(r) ==
    /\ r.pc \in {"idle", "insert", "patch", "rotate", "verify", "enter"} \union Deleters \union Handlers
    /\ r.pc \in {"idle", "rotate", "enter"} \union Deleters => r = [pc |-> r.pc]
    /\ r.pc = "insert" => r = [pc |-> r.pc, new |-> r.new] /\ r.new \in Endpoints /\ Sound(r.new)
    /\ r.pc = "patch" => r = [pc |-> r.pc, patch |-> r.patch] /\ r.patch \in Patches
    /\ r.pc = "verify" => r = [pc |-> r.pc, signed |-> r.signed]
    /\ r.pc \in Handlers => r = [pc |-> r.pc, event |-> r.event] /\ r.event \in 1..MaxEvents

FlowTypes ==
    /\ FlowTypeOK
    /\ flowOp = [o \in FlowOps |-> flowOp[o]]
    /\ \A o \in FlowOps : FlowShape(flowOp[o])

\* An event is in the hands of one handler, who has not written its status.
EventsHandled ==
    /\ \A o \in FlowOps : flowOp[o].pc \in Handlers =>
         LET i == flowOp[o].event IN
         /\ events[i] \in {"none", "received"}
         /\ flowOp[o].pc = "dispatch" => i \notin acted
         /\ flowOp[o].pc = "processed" => i \in acted
         /\ flowOp[o].pc = "failed" /\ i \in acted => i \in unwritten
    /\ \A o, p \in FlowOps :
         /\ o # p /\ flowOp[o].pc \in Handlers /\ flowOp[p].pc \in Handlers
         => flowOp[o].event # flowOp[p].event

\* Before there is a row nothing else is under way.
BeforeTheRow ==
    /\ \A o \in FlowOps : flowOp[o].pc = "insert" =>
         /\ key # 0 /\ endpoint = NoEndpoint
         /\ \A p \in FlowOps \ {o} : flowOp[p].pc = "idle"
    /\ lastKey = 0 =>
         /\ endpoint = NoEndpoint /\ key = 0
         /\ \A i \in DOMAIN events : events[i] = "none"
         /\ \A o \in FlowOps : flowOp[o].pc = "idle"

\* As long as no two updates cross, a patch that was checked fits the row it will meet.
PatchChecked ==
    ~crossed /\ endpoint # NoEndpoint =>
        \A o \in FlowOps : flowOp[o].pc = "patch" => Sound(Patched(endpoint, flowOp[o].patch))

\* A deletion that meets no one is alone but for updates, and takes everything.
DeletedAlone ==
    ~met =>
        /\ \A o \in FlowOps : flowOp[o].pc \in Deleters =>
             \A p \in FlowOps \ {o} : flowOp[p].pc \in {"idle", "patch"}
        /\ endpoint = NoEndpoint =>
             \A o \in FlowOps : flowOp[o].pc \in {"idle", "patch", "insert"}
        /\ \A o \in FlowOps :
             /\ flowOp[o].pc \in {"key", "row"} => \A i \in DOMAIN events : events[i] = "none"
             /\ flowOp[o].pc = "row" => key = 0

FlowInv ==
    /\ FlowTypes /\ EventsHandled /\ BeforeTheRow /\ PatchChecked /\ DeletedAlone
    /\ FlowAgrees

\* The requests that begin, each with what it carries.
LEMMA FlowShapes ==
    /\ FlowShape(NoFlowOp)
    /\ \A e \in Endpoints : Sound(e) => FlowShape([pc |-> "insert", new |-> e])
    /\ \A p \in Patches : FlowShape([pc |-> "patch", patch |-> p])
    /\ \A k : FlowShape([pc |-> "verify", signed |-> k])
    /\ \A pc \in {"rotate", "enter"} \union Deleters : FlowShape([pc |-> pc])
    /\ \A pc \in Handlers, i \in 1..MaxEvents : FlowShape([pc |-> pc, event |-> i])
  BY DEF FlowShape, NoFlowOp, Handlers, Deleters

\* One request moves on, the others stay.
LEMMA FlowMoved ==
    ASSUME FlowTypes, NEW o \in FlowOps, NEW op, FlowGo(o, op), FlowShape(op)
    PROVE  /\ flowOp' = [p \in FlowOps |-> flowOp'[p]]
           /\ flowOp'[o] = op /\ \A p \in FlowOps : p # o => flowOp'[p] = flowOp[p]
           /\ \A p \in FlowOps : FlowShape(flowOp'[p])
<1>1. /\ flowOp' = [p \in FlowOps |-> flowOp'[p]]
      /\ flowOp'[o] = op /\ \A p \in FlowOps : p # o => flowOp'[p] = flowOp[p]
  BY DEF FlowTypes, FlowGo
<1> QED
  BY <1>1 DEF FlowTypes

\* What a request keeps when only its place changes.
LEMMA FlowCarries ==
    ASSUME FlowTypes, NEW o \in FlowOps
    PROVE  /\ flowOp[o].pc \in {"events", "key"} => \A pc : [flowOp[o] EXCEPT !.pc = pc] = [pc |-> pc]
           /\ flowOp[o].pc \in Handlers =>
                /\ flowOp[o].event \in 1..MaxEvents
                /\ \A pc : [flowOp[o] EXCEPT !.pc = pc] = [pc |-> pc, event |-> flowOp[o].event]
<1>1. FlowShape(flowOp[o])
  BY DEF FlowTypes
<1>2. CASE flowOp[o].pc \in {"events", "key"}
  BY <1>1, <1>2 DEF FlowShape, Deleters, Handlers
<1>3. CASE flowOp[o].pc \in Handlers
  BY <1>1, <1>3 DEF FlowShape, Handlers
<1> QED
  BY <1>2, <1>3 DEF Handlers

\* One request moves at a time, to a record of a known shape, and the rest is as
\* the action says.
FlowStep(o, op) ==
    /\ FlowShape(op) /\ flowOp'[o] = op /\ \A p \in FlowOps : p # o => flowOp'[p] = flowOp[p]
    /\ flowOp' = [p \in FlowOps |-> flowOp'[p]]

\* The steps of a request but those of a handler, each as a move.
LEMMA FlowSteps ==
    ASSUME FlowTypes, NEW o \in FlowOps
    PROVE  /\ \A e \in Endpoints : CreateEndpoint(o, e) => FlowStep(o, [pc |-> "insert", new |-> e])
           /\ EndpointMade(o) => FlowStep(o, NoFlowOp)
           /\ UpdateEndpoint(o) => \E p \in Patches : FlowStep(o, [pc |-> "patch", patch |-> p]) /\ Sound(Patched(endpoint, p))
           /\ Patch(o) => FlowStep(o, NoFlowOp)
           /\ DeleteEndpoint(o) => FlowStep(o, [pc |-> "events"])
           /\ EventsDeleted(o) => FlowStep(o, [pc |-> "key"])
           /\ KeyDeleted(o) => FlowStep(o, [pc |-> "row"])
           /\ EndpointDeleted(o) => FlowStep(o, NoFlowOp)
           /\ RotateSecret(o) => FlowStep(o, [pc |-> "rotate"])
           /\ Rotated(o) => FlowStep(o, NoFlowOp)
           /\ \A k : Inbound(o, k) => FlowStep(o, [pc |-> "verify", signed |-> k])
           /\ Verify(o) => FlowStep(o, [pc |-> "enter"]) \/ FlowStep(o, NoFlowOp)
<1> USE DEF FlowAt, FlowNextAt
<1>1. \A op : FlowGo(o, op) /\ FlowShape(op) => FlowStep(o, op)
  BY FlowMoved DEF FlowStep
<1>2. \A pc \in {"rotate", "enter"} \union Deleters : FlowGo(o, [pc |-> pc]) => FlowStep(o, [pc |-> pc])
  BY <1>1, FlowShapes
<1>3. FlowGo(o, NoFlowOp) => FlowStep(o, NoFlowOp)
  BY <1>1, FlowShapes
<1>4. ASSUME NEW e \in Endpoints, CreateEndpoint(o, e) PROVE FlowStep(o, [pc |-> "insert", new |-> e])
  BY <1>4, <1>1, FlowShapes DEF CreateEndpoint
<1>5. ASSUME UpdateEndpoint(o)
      PROVE  \E p \in Patches : FlowStep(o, [pc |-> "patch", patch |-> p]) /\ Sound(Patched(endpoint, p))
  BY <1>5, <1>1, FlowShapes DEF UpdateEndpoint
<1>6. ASSUME NEW k, Inbound(o, k) PROVE FlowStep(o, [pc |-> "verify", signed |-> k])
  BY <1>6, <1>1, FlowShapes DEF Inbound
<1>7. DeleteEndpoint(o) => FlowStep(o, [pc |-> "events"])
  BY <1>2 DEF DeleteEndpoint, Deleters
<1>8. EventsDeleted(o) => FlowStep(o, [pc |-> "key"])
  BY <1>2, FlowCarries DEF EventsDeleted, Deleters
<1>9. KeyDeleted(o) => FlowStep(o, [pc |-> "row"])
  BY <1>2, FlowCarries DEF KeyDeleted, Deleters
<1>10. RotateSecret(o) => FlowStep(o, [pc |-> "rotate"])
  BY <1>2 DEF RotateSecret
<1>11. Verify(o) => FlowStep(o, [pc |-> "enter"]) \/ FlowStep(o, NoFlowOp)
  BY <1>2, <1>3 DEF Verify
<1>12. /\ EndpointMade(o) => FlowStep(o, NoFlowOp)
       /\ Patch(o) => FlowStep(o, NoFlowOp)
       /\ EndpointDeleted(o) => FlowStep(o, NoFlowOp)
       /\ Rotated(o) => FlowStep(o, NoFlowOp)
  BY <1>3 DEF EndpointMade, Patch, EndpointDeleted, Rotated
<1> QED
  BY <1>4, <1>5, <1>6, <1>7, <1>8, <1>9, <1>10, <1>11, <1>12

\* The three steps of a handler.
LEMMA FlowHandles ==
    ASSUME FlowTypes, NEW o \in FlowOps
    PROVE  /\ EnterEvent(o) =>
                /\ flowOp[o].pc = "enter"
                /\ \/ FlowStep(o, NoFlowOp) /\ UNCHANGED events
                   \/ \E i \in 1..MaxEvents :
                         /\ events[i] = "none" /\ ~Handled(i) /\ i \notin acted
                         /\ events' = [events EXCEPT ![i] = "received"]
                         /\ FlowStep(o, [pc |-> "dispatch", event |-> i])
           /\ Dispatched(o) =>
                /\ flowOp[o].pc = "dispatch" /\ flowOp[o].event \in 1..MaxEvents
                /\ \/ /\ FlowStep(o, [pc |-> "processed", event |-> flowOp[o].event])
                      /\ acted' = acted \union {flowOp[o].event}
                   \/ /\ FlowStep(o, [pc |-> "failed", event |-> flowOp[o].event])
                      /\ UNCHANGED acted
           /\ Settle(o) =>
                LET i == flowOp[o].event IN
                /\ flowOp[o].pc \in {"processed", "failed"} /\ i \in 1..MaxEvents
                /\ \/ /\ events' = [events EXCEPT ![i] = IF @ = "none" THEN @ ELSE flowOp[o].pc]
                      /\ FlowStep(o, NoFlowOp) /\ UNCHANGED unwritten
                   \/ /\ \/ flowOp[o].pc = "processed" /\ FlowStep(o, [pc |-> "failed", event |-> i])
                         \/ flowOp[o].pc = "failed" /\ FlowStep(o, NoFlowOp)
                      /\ unwritten' = unwritten \union {i} /\ UNCHANGED events
<1>1. \A op : FlowGo(o, op) /\ FlowShape(op) => FlowStep(o, op)
  BY FlowMoved DEF FlowStep
<1>2. FlowGo(o, NoFlowOp) => FlowStep(o, NoFlowOp)
  BY <1>1, FlowShapes
<1>3. \A pc \in Handlers, i \in 1..MaxEvents :
          FlowGo(o, [pc |-> pc, event |-> i]) => FlowStep(o, [pc |-> pc, event |-> i])
  BY <1>1, FlowShapes
<1>4. ASSUME flowOp[o].pc \in Handlers, NEW pc \in Handlers, FlowNextAt(o, pc)
      PROVE  FlowStep(o, [pc |-> pc, event |-> flowOp[o].event])
  BY <1>3, <1>4, FlowCarries DEF FlowNextAt
<1>5. EnterEvent(o) =>
        /\ flowOp[o].pc = "enter"
        /\ \/ FlowStep(o, NoFlowOp) /\ UNCHANGED events
           \/ \E i \in 1..MaxEvents :
                 /\ events[i] = "none" /\ ~Handled(i) /\ i \notin acted
                 /\ events' = [events EXCEPT ![i] = "received"]
                 /\ FlowStep(o, [pc |-> "dispatch", event |-> i])
  <2>1. "dispatch" \in Handlers /\ DOMAIN events = 1..MaxEvents
    BY DEF Handlers, FlowTypes, FlowTypeOK
  <2> QED
    BY <1>2, <1>3, <2>1 DEF EnterEvent, FlowAt
<1>6. Dispatched(o) =>
        /\ flowOp[o].pc = "dispatch" /\ flowOp[o].event \in 1..MaxEvents
        /\ \/ /\ FlowStep(o, [pc |-> "processed", event |-> flowOp[o].event])
              /\ acted' = acted \union {flowOp[o].event}
           \/ FlowStep(o, [pc |-> "failed", event |-> flowOp[o].event]) /\ UNCHANGED acted
  <2>1. {"dispatch", "processed", "failed"} = Handlers
    BY DEF Handlers
  <2> QED
    BY <1>4, <2>1, FlowCarries DEF Dispatched, FlowAt
<1>7. ASSUME Settle(o)
      PROVE  LET i == flowOp[o].event IN
             /\ flowOp[o].pc \in {"processed", "failed"} /\ i \in 1..MaxEvents
             /\ \/ /\ events' = [events EXCEPT ![i] = IF @ = "none" THEN @ ELSE flowOp[o].pc]
                   /\ FlowStep(o, NoFlowOp) /\ UNCHANGED unwritten
                \/ /\ \/ flowOp[o].pc = "processed" /\ FlowStep(o, [pc |-> "failed", event |-> i])
                      \/ flowOp[o].pc = "failed" /\ FlowStep(o, NoFlowOp)
                   /\ unwritten' = unwritten \union {i} /\ UNCHANGED events
  <2>1. flowOp[o].pc \in {"processed", "failed"} /\ flowOp[o].event \in 1..MaxEvents /\ "failed" \in Handlers
    BY <1>7, FlowCarries DEF Settle, Handlers
  <2>2. FlowNextAt(o, "failed") => FlowStep(o, [pc |-> "failed", event |-> flowOp[o].event])
    BY <1>4, <2>1 DEF Handlers
  <2> QED
    BY <1>2, <1>7, <2>1, <2>2 DEF Settle, FlowAt
<1> QED
  BY <1>5, <1>6, <1>7


\* What a request is about to do: one of its actions, which moves it to a record of a
\* known shape.
FlowAction(o) ==
    \/ \E e \in Endpoints : CreateEndpoint(o, e)
    \/ EndpointMade(o) \/ UpdateEndpoint(o) \/ Patch(o)
    \/ DeleteEndpoint(o) \/ EventsDeleted(o) \/ KeyDeleted(o) \/ EndpointDeleted(o)
    \/ RotateSecret(o) \/ Rotated(o)
    \/ \E k \in 1..lastKey : Inbound(o, k)
    \/ Verify(o) \/ EnterEvent(o) \/ Dispatched(o) \/ Settle(o)

\* A step is one of a request, or a crash.
LEMMA FlowActs ==
    ASSUME [FlowNext]_flowVars
    PROVE  UNCHANGED flowVars \/ FlowCrash \/ \E o \in FlowOps : FlowAction(o)
  BY DEF FlowNext, FlowAction

\* Every step of a request is a move.
LEMMA FlowActionSteps ==
    ASSUME FlowTypes, NEW o \in FlowOps, FlowAction(o)
    PROVE  \E op : FlowStep(o, op)
<1>1. CASE EnterEvent(o) \/ Dispatched(o) \/ Settle(o)
  BY <1>1, FlowHandles
<1>2. CASE ~(EnterEvent(o) \/ Dispatched(o) \/ Settle(o))
  BY <1>2, FlowSteps DEF FlowAction
<1> QED
  BY <1>1, <1>2

\* The types of the endpoint, its key and its events.
FlowData ==
    /\ endpoint \in Endpoints \union {NoEndpoint}
    /\ key \in 0..lastKey /\ lastKey \in 0..MaxKeys
    /\ events \in [1..MaxEvents -> {"none", "received", "processed", "failed"}]
    /\ acted \subseteq 1..MaxEvents /\ unwritten \subseteq 1..MaxEvents /\ dropped \subseteq 1..MaxEvents
    /\ crossed \in BOOLEAN /\ met \in BOOLEAN

FlowRequests == flowOp = [o \in FlowOps |-> flowOp[o]] /\ \A o \in FlowOps : FlowShape(flowOp[o])

\* The types, those of the data and those of the requests apart.
LEMMA FlowTypesParts == (FlowTypes <=> FlowData /\ FlowRequests) /\ (FlowTypes' <=> FlowData' /\ FlowRequests')
<1>1. ASSUME NEW r, FlowShape(r), "event" \in DOMAIN r PROVE r.event \in 1..MaxEvents
  <2>1. CASE r.pc \in Handlers
    BY <1>1, <2>1 DEF FlowShape
  <2>2. CASE r.pc \notin Handlers
    <3>1. r = [pc |-> r.pc] \/ r = [pc |-> r.pc, new |-> r.new] \/ r = [pc |-> r.pc, patch |-> r.patch]
            \/ r = [pc |-> r.pc, signed |-> r.signed]
      BY <1>1, <2>2 DEF FlowShape, Deleters
    <3> QED
      BY <1>1, <3>1
  <2> QED
    BY <2>1, <2>2
<1>2. FlowRequests =>
        \A o \in FlowOps : "event" \in DOMAIN flowOp[o] => flowOp[o].event \in 1..MaxEvents
  BY <1>1 DEF FlowRequests
<1>3. FlowRequests' =>
        \A o \in FlowOps : "event" \in DOMAIN flowOp'[o] => flowOp'[o].event \in 1..MaxEvents
  BY <1>1 DEF FlowRequests
<1> QED
  BY <1>2, <1>3 DEF FlowTypes, FlowTypeOK, FlowData, FlowRequests

\* A row with a patch in it is a row.
LEMMA PatchedIsEndpoint == ASSUME NEW e \in Endpoints, NEW p \in Patches PROVE Patched(e, p) \in Endpoints
<1>1. CASE p = <<"type", "llm">>
  <2>1. Patched(e, p) = [e EXCEPT !.type = "llm"]
    BY <1>1 DEF Patched
  <2> QED
    BY <2>1 DEF Endpoints
<1>2. CASE p = <<"prompt", FALSE>>
  <2>1. Patched(e, p) = [e EXCEPT !.prompt = FALSE]
    BY <1>2 DEF Patched
  <2> QED
    BY <2>1 DEF Endpoints
<1>3. CASE p = <<"enabled", FALSE>>
  <2>1. Patched(e, p) = [e EXCEPT !.enabled = FALSE]
    BY <1>3 DEF Patched
  <2> QED
    BY <2>1 DEF Endpoints
<1> QED
  BY <1>1, <1>2, <1>3 DEF Patches

\* Every request keeps a known shape, and row, key and events their types.
LEMMA FlowTypesKept == ASSUME FlowTypes, [FlowNext]_flowVars PROVE FlowTypes'
<1>0. FlowData /\ FlowRequests /\ MaxKeys \in Nat /\ MaxEvents \in Nat
  BY FlowTypesParts, FlowAssumption
<1>1. FlowRequests'
  <2>1. CASE UNCHANGED flowVars
    BY <1>0, <2>1 DEF flowVars, FlowRequests
  <2>2. CASE FlowCrash
    BY <2>2, FlowShapes DEF FlowCrash, FlowRequests
  <2>3. ASSUME NEW o \in FlowOps, FlowAction(o) PROVE FlowRequests'
    BY <1>0, <2>3, FlowActionSteps DEF FlowStep, FlowRequests
  <2> QED
    BY <2>1, <2>2, <2>3, FlowActs
<1>2. FlowData'
  <2>1. CASE UNCHANGED flowVars
    BY <1>0, <2>1 DEF flowVars, FlowData
  <2>2. CASE FlowCrash
    BY <1>0, <2>2 DEF FlowCrash, FlowData, Deleting, FlowAt
  <2>3. ASSUME NEW o \in FlowOps, FlowAction(o) PROVE FlowData'
    <3>1. CASE \E e \in Endpoints : CreateEndpoint(o, e)
      BY <1>0, <3>1 DEF CreateEndpoint, NewKey, FlowData
    <3>2. CASE EndpointMade(o)
      BY <1>0, <3>2 DEF EndpointMade, FlowData, FlowAt, FlowRequests, FlowShape
    <3>3. CASE UpdateEndpoint(o) \/ RotateSecret(o) \/ Verify(o) \/ DeleteEndpoint(o)
               \/ \E k \in 1..lastKey : Inbound(o, k)
      BY <1>0, <3>3 DEF UpdateEndpoint, RotateSecret, Verify, DeleteEndpoint, Inbound, FlowData, Deleting
    <3>4. CASE Patch(o)
      BY <1>0, <3>4, PatchedIsEndpoint DEF Patch, FlowData, FlowAt, FlowRequests, FlowShape
    <3>5. CASE EventsDeleted(o)
      BY <1>0, <3>5 DEF EventsDeleted, FlowData
    <3>6. CASE KeyDeleted(o)
      <4>1. key' \in 0..lastKey'
        BY <1>0, <3>6 DEF KeyDeleted, FlowData
      <4>2. met' \in BOOLEAN
        BY <1>0, <3>6 DEF KeyDeleted, FlowData
      <4> QED
        BY <1>0, <3>6, <4>1, <4>2 DEF KeyDeleted, FlowData
    <3>11. CASE EndpointDeleted(o)
      BY <1>0, <3>11 DEF EndpointDeleted, FlowData
    <3>7. CASE Rotated(o)
      BY <1>0, <3>7 DEF Rotated, NewKey, FlowData
    <3>8. CASE EnterEvent(o)
      <4>1. UNCHANGED events \/ \E i \in 1..MaxEvents : events' = [events EXCEPT ![i] = "received"]
        BY <3>8, FlowHandles
      <4>2. events' \in [1..MaxEvents -> {"none", "received", "processed", "failed"}]
        BY <1>0, <4>1 DEF FlowData
      <4> QED
        BY <1>0, <3>8, <4>2 DEF EnterEvent, FlowData
    <3>9. CASE Dispatched(o)
      <4>1. flowOp[o].event \in 1..MaxEvents /\ (UNCHANGED acted \/ acted' = acted \union {flowOp[o].event})
        BY <3>9, FlowHandles
      <4>2. acted' \subseteq 1..MaxEvents
        BY <1>0, <4>1 DEF FlowData
      <4> QED
        BY <1>0, <3>9, <4>2 DEF Dispatched, FlowData
    <3>10. CASE Settle(o)
      <4>1. PICK i : i = flowOp[o].event
        OBVIOUS
      <4>2. /\ i \in 1..MaxEvents /\ flowOp[o].pc \in {"processed", "failed"}
            /\ UNCHANGED events \/ events' = [events EXCEPT ![i] = IF @ = "none" THEN @ ELSE flowOp[o].pc]
            /\ UNCHANGED unwritten \/ unwritten' = unwritten \union {i}
        BY <3>10, <4>1, FlowHandles
      <4>3. events' \in [1..MaxEvents -> {"none", "received", "processed", "failed"}]
        BY <1>0, <4>2 DEF FlowData
      <4>4. unwritten' \subseteq 1..MaxEvents
        BY <1>0, <4>2 DEF FlowData
      <4> QED
        BY <1>0, <3>10, <4>3, <4>4 DEF Settle, FlowData
    <3> QED
      BY <2>3, <3>1, <3>2, <3>3, <3>4, <3>5, <3>6, <3>7, <3>8, <3>9, <3>10, <3>11 DEF FlowAction
  <2> QED
    BY <2>1, <2>2, <2>3, FlowActs
<1> QED
  BY <1>1, <1>2, FlowTypesParts

\* An action that is not a handler's leaves the request outside the handlers.
LEMMA FlowQuiet ==
    ASSUME FlowTypes, NEW o \in FlowOps, FlowAction(o), ~EnterEvent(o), ~Dispatched(o), ~Settle(o)
    PROVE  \E op : FlowStep(o, op) /\ op.pc \notin Handlers
<1>1. NoFlowOp.pc \notin Handlers
  BY DEF NoFlowOp, Handlers
<1>2. ASSUME NEW pc \in {"rotate", "enter"} \union Deleters PROVE [pc |-> pc].pc \notin Handlers
  BY DEF Deleters, Handlers
<1>3. CASE \E e \in Endpoints : CreateEndpoint(o, e)
  <2>1. PICK e \in Endpoints : FlowStep(o, [pc |-> "insert", new |-> e])
    BY <1>3, FlowSteps
  <2>2. [pc |-> "insert", new |-> e].pc \notin Handlers
    BY DEF Handlers
  <2> QED
    BY <2>1, <2>2
<1>4. CASE UpdateEndpoint(o)
  <2>1. PICK p \in Patches : FlowStep(o, [pc |-> "patch", patch |-> p])
    BY <1>4, FlowSteps
  <2>2. [pc |-> "patch", patch |-> p].pc \notin Handlers
    BY DEF Handlers
  <2> QED
    BY <2>1, <2>2
<1>5. CASE \E k \in 1..lastKey : Inbound(o, k)
  <2>1. PICK k \in 1..lastKey : FlowStep(o, [pc |-> "verify", signed |-> k])
    BY <1>5, FlowSteps
  <2>2. [pc |-> "verify", signed |-> k].pc \notin Handlers
    BY DEF Handlers
  <2> QED
    BY <2>1, <2>2
<1>6. CASE EndpointMade(o) \/ Patch(o) \/ EndpointDeleted(o) \/ Rotated(o)
  BY <1>1, <1>6, FlowSteps
<1>7. CASE DeleteEndpoint(o) \/ EventsDeleted(o) \/ KeyDeleted(o) \/ RotateSecret(o) \/ Verify(o)
  BY <1>1, <1>2, <1>7, FlowSteps DEF Deleters
<1> QED
  BY <1>3, <1>4, <1>5, <1>6, <1>7 DEF FlowAction

\* One handler an event, until its status is written.
LEMMA EventsHandledKept ==
    ASSUME FlowTypes, EventsHandled, [FlowNext]_flowVars
    PROVE  EventsHandled'
<1>0. FlowData /\ FlowRequests
  BY FlowTypesParts
<1>q. ASSUME NEW o \in FlowOps, NEW op, FlowStep(o, op), op.pc \notin Handlers,
             acted' = acted, unwritten \subseteq unwritten',
             \A p \in FlowOps : p # o /\ flowOp[p].pc \in Handlers =>
                 events'[flowOp[p].event] \in {"none", events[flowOp[p].event]}
      PROVE  EventsHandled'
  BY <1>q DEF EventsHandled, FlowStep
<1>1. CASE UNCHANGED flowVars
  BY <1>1 DEF flowVars, EventsHandled
<1>2. CASE FlowCrash
  BY <1>2 DEF FlowCrash, NoFlowOp, EventsHandled, Handlers
<1>3. ASSUME NEW o \in FlowOps, FlowAction(o) PROVE EventsHandled'
  <2>1. CASE UNCHANGED <<events, acted, unwritten>> /\ ~EnterEvent(o) /\ ~Dispatched(o) /\ ~Settle(o)
    <3>1. \E op : FlowStep(o, op) /\ op.pc \notin Handlers
      BY <1>3, <2>1, FlowQuiet
    <3> QED
      BY <1>q, <2>1, <3>1
  <2>2. CASE EventsDeleted(o)
    <3>1. FlowStep(o, [pc |-> "key"]) /\ [pc |-> "key"].pc \notin Handlers
      BY <2>2, FlowSteps DEF Handlers
    <3>2. \A p \in FlowOps : flowOp[p].pc \in Handlers => events'[flowOp[p].event] = "none"
      BY <1>0, <2>2 DEF EventsDeleted, FlowData, FlowRequests, FlowShape
    <3> QED
      BY <1>q, <2>2, <3>1, <3>2 DEF EventsDeleted
  <2>3. CASE EnterEvent(o)
    <3>1. CASE FlowStep(o, NoFlowOp) /\ UNCHANGED events
      <4>1. NoFlowOp.pc \notin Handlers
        BY DEF NoFlowOp, Handlers
      <4> QED
        BY <1>q, <2>3, <3>1, <4>1 DEF EnterEvent
    <3>2. ASSUME NEW i \in 1..MaxEvents, ~Handled(i), i \notin acted,
                 events' = [events EXCEPT ![i] = "received"],
                 FlowStep(o, [pc |-> "dispatch", event |-> i])
          PROVE  EventsHandled'
      <4>1. UNCHANGED <<acted, unwritten>>
        BY <2>3 DEF EnterEvent
      <4>2. events'[i] = "received" /\ \A j \in 1..MaxEvents : j # i => events'[j] = events[j]
        BY <1>0, <3>2 DEF FlowData
      <4>3. \A p \in FlowOps : flowOp[p].pc \in Handlers => flowOp[p].event # i /\ flowOp[p].event \in 1..MaxEvents
        BY <1>0, <3>2 DEF Handled, Handlers, FlowRequests, FlowShape
      <4>4. flowOp'[o].pc = "dispatch" /\ flowOp'[o].event = i /\ \A p \in FlowOps : p # o => flowOp'[p] = flowOp[p]
        BY <3>2 DEF FlowStep
      <4> QED
        BY <3>2, <4>1, <4>2, <4>3, <4>4 DEF EventsHandled
    <3> QED
      BY <2>3, <3>1, <3>2, FlowHandles
  <2>4. CASE Dispatched(o)
    <3>1. PICK i : i = flowOp[o].event
      OBVIOUS
    <3>2. /\ flowOp[o].pc = "dispatch" /\ events' = events /\ unwritten' = unwritten
          /\ events[i] \in {"none", "received"} /\ i \notin acted
          /\ \A p \in FlowOps : p # o /\ flowOp[p].pc \in Handlers => flowOp[p].event # i
      BY <2>4, <3>1, FlowHandles DEF Dispatched, EventsHandled, Handlers
    <3>3. \A p \in FlowOps : p # o => flowOp'[p] = flowOp[p]
      BY <2>4, FlowHandles DEF FlowStep
    <3>4. flowOp'[o].event = i /\ \/ flowOp'[o].pc = "processed" /\ acted' = acted \union {i}
                                  \/ flowOp'[o].pc = "failed" /\ acted' = acted
      <4>1. CASE FlowStep(o, [pc |-> "processed", event |-> i]) /\ acted' = acted \union {i}
        BY <4>1 DEF FlowStep
      <4>2. CASE FlowStep(o, [pc |-> "failed", event |-> i]) /\ acted' = acted
        BY <4>2 DEF FlowStep
      <4> QED
        BY <2>4, <3>1, <4>1, <4>2, FlowHandles
    <3> QED
      BY <3>2, <3>3, <3>4 DEF EventsHandled
  <2>5. CASE Settle(o)
    <3>1. PICK i : i = flowOp[o].event
      OBVIOUS
    <3>2. /\ acted' = acted /\ unwritten \subseteq unwritten' /\ i \in 1..MaxEvents
          /\ flowOp[o].pc \in Handlers
          /\ events[i] \in {"none", "received"}
          /\ \A p \in FlowOps : p # o /\ flowOp[p].pc \in Handlers => flowOp[p].event # i
      BY <2>5, <3>1, FlowHandles DEF Settle, EventsHandled, Handlers
    <3>3. CASE FlowStep(o, NoFlowOp)
      <4>1. NoFlowOp.pc \notin Handlers
        BY DEF NoFlowOp, Handlers
      <4>2. \A p \in FlowOps : p # o /\ flowOp[p].pc \in Handlers => events'[flowOp[p].event] = events[flowOp[p].event]
        BY <1>0, <2>5, <3>1, <3>2, FlowHandles DEF FlowData, FlowRequests, FlowShape
      <4> QED
        BY <1>q, <3>2, <3>3, <4>1, <4>2
    <3>4. CASE FlowStep(o, [pc |-> "failed", event |-> i]) /\ unwritten' = unwritten \union {i} /\ UNCHANGED events
      BY <3>2, <3>4 DEF EventsHandled, FlowStep
    <3> QED
      BY <2>5, <3>1, <3>3, <3>4, FlowHandles
  <2>6. EventsDeleted(o) \/ EnterEvent(o) \/ Dispatched(o) \/ Settle(o)
        \/ (UNCHANGED <<events, acted, unwritten>> /\ ~EnterEvent(o) /\ ~Dispatched(o) /\ ~Settle(o))
    BY <1>3 DEF FlowAction, CreateEndpoint, EndpointMade, UpdateEndpoint, Patch, DeleteEndpoint, KeyDeleted,
                EndpointDeleted, RotateSecret, Rotated, Inbound, Verify
  <2> QED
    BY <2>1, <2>2, <2>3, <2>4, <2>5, <2>6
<1> QED
  BY <1>1, <1>2, <1>3, FlowActs

\* Where each action finds the request and where it leaves it, every other one staying.
LEMMA FlowPcs ==
    ASSUME FlowTypes, NEW o \in FlowOps, FlowAction(o)
    PROVE  /\ \A p \in FlowOps : p # o => flowOp'[p] = flowOp[p]
           /\ (\E e \in Endpoints : CreateEndpoint(o, e)) => flowOp[o].pc = "idle" /\ flowOp'[o].pc = "insert"
           /\ EndpointMade(o) => flowOp[o].pc = "insert" /\ flowOp'[o].pc = "idle"
           /\ UpdateEndpoint(o) => flowOp[o].pc = "idle" /\ flowOp'[o].pc = "patch"
           /\ Patch(o) => flowOp[o].pc = "patch" /\ flowOp'[o].pc = "idle"
           /\ DeleteEndpoint(o) => flowOp[o].pc = "idle" /\ flowOp'[o].pc = "events"
           /\ EventsDeleted(o) => flowOp[o].pc = "events" /\ flowOp'[o].pc = "key"
           /\ KeyDeleted(o) => flowOp[o].pc = "key" /\ flowOp'[o].pc = "row"
           /\ EndpointDeleted(o) => flowOp[o].pc = "row" /\ flowOp'[o].pc = "idle"
           /\ RotateSecret(o) => flowOp[o].pc = "idle" /\ flowOp'[o].pc = "rotate"
           /\ Rotated(o) => flowOp[o].pc = "rotate" /\ flowOp'[o].pc = "idle"
           /\ (\E k \in 1..lastKey : Inbound(o, k)) => flowOp[o].pc = "idle" /\ flowOp'[o].pc = "verify"
           /\ Verify(o) => flowOp[o].pc = "verify" /\ flowOp'[o].pc \in {"enter", "idle"}
           /\ EnterEvent(o) => flowOp[o].pc = "enter" /\ flowOp'[o].pc \in {"dispatch", "idle"}
           /\ Dispatched(o) => flowOp[o].pc = "dispatch" /\ flowOp'[o].pc \in {"processed", "failed"}
           /\ Settle(o) => flowOp[o].pc \in {"processed", "failed"} /\ flowOp'[o].pc \in {"failed", "idle"}
<1>1. \A p \in FlowOps : p # o => flowOp'[p] = flowOp[p]
  BY FlowActionSteps DEF FlowStep
<1>2. /\ \A e \in Endpoints : CreateEndpoint(o, e) => flowOp[o].pc = "idle"
      /\ EndpointMade(o) => flowOp[o].pc = "insert"
      /\ UpdateEndpoint(o) => flowOp[o].pc = "idle"
      /\ Patch(o) => flowOp[o].pc = "patch"
      /\ DeleteEndpoint(o) => flowOp[o].pc = "idle"
      /\ EventsDeleted(o) => flowOp[o].pc = "events"
      /\ KeyDeleted(o) => flowOp[o].pc = "key"
      /\ EndpointDeleted(o) => flowOp[o].pc = "row"
      /\ RotateSecret(o) => flowOp[o].pc = "idle"
      /\ Rotated(o) => flowOp[o].pc = "rotate"
      /\ \A k : Inbound(o, k) => flowOp[o].pc = "idle"
      /\ Verify(o) => flowOp[o].pc = "verify"
  BY DEF CreateEndpoint, EndpointMade, UpdateEndpoint, Patch, DeleteEndpoint, EventsDeleted, KeyDeleted,
         EndpointDeleted, RotateSecret, Rotated, Inbound, Verify, FlowAt
<1>3. FlowStep(o, NoFlowOp) => flowOp'[o].pc = "idle"
  BY DEF FlowStep, NoFlowOp
<1>4. \A pc : FlowStep(o, [pc |-> pc]) => flowOp'[o].pc = pc
  BY DEF FlowStep
<1>5. \A pc, i : FlowStep(o, [pc |-> pc, event |-> i]) => flowOp'[o].pc = pc
  BY DEF FlowStep
<1>6. ASSUME \E e \in Endpoints : CreateEndpoint(o, e)
      PROVE  flowOp'[o].pc = "insert"
  <2>1. PICK e \in Endpoints : FlowStep(o, [pc |-> "insert", new |-> e])
    BY <1>6, FlowSteps
  <2> QED
    BY <2>1 DEF FlowStep
<1>7. ASSUME UpdateEndpoint(o) PROVE flowOp'[o].pc = "patch"
  <2>1. PICK p \in Patches : FlowStep(o, [pc |-> "patch", patch |-> p])
    BY <1>7, FlowSteps
  <2> QED
    BY <2>1 DEF FlowStep
<1>8. ASSUME \E k \in 1..lastKey : Inbound(o, k) PROVE flowOp'[o].pc = "verify"
  <2>1. PICK k \in 1..lastKey : FlowStep(o, [pc |-> "verify", signed |-> k])
    BY <1>8, FlowSteps
  <2> QED
    BY <2>1 DEF FlowStep
<1>9. /\ EndpointMade(o) => flowOp'[o].pc = "idle"
      /\ Patch(o) => flowOp'[o].pc = "idle"
      /\ EndpointDeleted(o) => flowOp'[o].pc = "idle"
      /\ Rotated(o) => flowOp'[o].pc = "idle"
  BY <1>3, FlowSteps
<1>10. /\ DeleteEndpoint(o) => flowOp'[o].pc = "events"
       /\ EventsDeleted(o) => flowOp'[o].pc = "key"
       /\ KeyDeleted(o) => flowOp'[o].pc = "row"
       /\ RotateSecret(o) => flowOp'[o].pc = "rotate"
       /\ Verify(o) => flowOp'[o].pc \in {"enter", "idle"}
  BY <1>3, <1>4, FlowSteps
<1>11. EnterEvent(o) => flowOp[o].pc = "enter" /\ flowOp'[o].pc \in {"dispatch", "idle"}
  BY <1>3, <1>5, FlowHandles
<1>12. Dispatched(o) => flowOp[o].pc = "dispatch" /\ flowOp'[o].pc \in {"processed", "failed"}
  BY <1>5, FlowHandles
<1>13. Settle(o) => flowOp[o].pc \in {"processed", "failed"} /\ flowOp'[o].pc \in {"failed", "idle"}
  BY <1>3, <1>5, FlowHandles
<1> QED
  BY <1>1, <1>2, <1>6, <1>7, <1>8, <1>9, <1>10, <1>11, <1>12, <1>13

\* Nothing else is under way before there is a row.
LEMMA BeforeTheRowKept ==
    ASSUME FlowTypes, BeforeTheRow, [FlowNext]_flowVars
    PROVE  BeforeTheRow'
<1>0. FlowData
  BY FlowTypesParts
<1>1. CASE UNCHANGED flowVars
  BY <1>1 DEF flowVars, BeforeTheRow
<1>2. CASE FlowCrash
  BY <1>2 DEF FlowCrash, NoFlowOp, BeforeTheRow
<1>9. ASSUME NEW o \in FlowOps, FlowAction(o) PROVE BeforeTheRow'
  <2>1. CASE \E e \in Endpoints : CreateEndpoint(o, e)
    <3>1. flowOp'[o].pc = "insert" /\ \A p \in FlowOps : p # o => flowOp'[p] = flowOp[p]
      BY <1>9, <2>1, FlowPcs
    <3>2. lastKey = 0 /\ lastKey' = 1 /\ key' = 1 /\ UNCHANGED <<endpoint, events>>
      BY <2>1 DEF CreateEndpoint, NewKey
    <3> QED
      BY <3>1, <3>2 DEF BeforeTheRow
  <2>2. CASE EndpointMade(o)
    <3>1. /\ flowOp[o].pc = "insert" /\ flowOp'[o].pc = "idle"
          /\ \A p \in FlowOps : p # o => flowOp'[p] = flowOp[p]
      BY <1>9, <2>2, FlowPcs
    <3>2. UNCHANGED lastKey
      BY <2>2 DEF EndpointMade
    <3> QED
      BY <3>1, <3>2 DEF BeforeTheRow
  <2>3. CASE UpdateEndpoint(o) \/ DeleteEndpoint(o) \/ RotateSecret(o) \/ \E k \in 1..lastKey : Inbound(o, k)
    <3>1. flowOp[o].pc = "idle" /\ flowOp'[o].pc \in {"patch", "events", "rotate", "verify"}
      BY <1>9, <2>3, FlowPcs
    <3>2. endpoint # NoEndpoint /\ UNCHANGED lastKey
      BY <2>3 DEF UpdateEndpoint, DeleteEndpoint, RotateSecret, Inbound
    <3>3. \A p \in FlowOps : p # o => flowOp'[p] = flowOp[p]
      BY <1>9, FlowPcs
    <3> QED
      BY <3>1, <3>2, <3>3 DEF BeforeTheRow
  <2>4. CASE \/ Patch(o) \/ EventsDeleted(o) \/ KeyDeleted(o) \/ EndpointDeleted(o) \/ Rotated(o)
             \/ Verify(o) \/ EnterEvent(o) \/ Dispatched(o) \/ Settle(o)
    <3>1. flowOp[o].pc \notin {"idle", "insert"} /\ flowOp'[o].pc # "insert"
      BY <1>9, <2>4, FlowPcs
    <3>2. lastKey \in Nat /\ lastKey' \in {lastKey, lastKey + 1}
      <4>1. lastKey \in Nat
        BY <1>0 DEF FlowData
      <4>2. Patch(o) \/ EventsDeleted(o) \/ KeyDeleted(o) \/ EndpointDeleted(o) => UNCHANGED lastKey
        BY DEF Patch, EventsDeleted, KeyDeleted, EndpointDeleted
      <4>3. Verify(o) \/ EnterEvent(o) \/ Dispatched(o) \/ Settle(o) => UNCHANGED lastKey
        BY DEF Verify, EnterEvent, Dispatched, Settle
      <4>4. Rotated(o) => lastKey' = lastKey + 1
        BY DEF Rotated, NewKey
      <4> QED
        BY <2>4, <4>1, <4>2, <4>3, <4>4
    <3>3. lastKey # 0 /\ \A p \in FlowOps : p # o => flowOp[p].pc # "insert" /\ flowOp'[p] = flowOp[p]
      BY <1>9, <3>1, FlowPcs DEF BeforeTheRow
    <3> QED
      BY <3>1, <3>2, <3>3 DEF BeforeTheRow
  <2> QED
    BY <1>9, <2>1, <2>2, <2>3, <2>4 DEF FlowAction
<1> QED
  BY <1>1, <1>2, <1>9, FlowActs

\* A patch is checked against the row it will meet.
LEMMA PatchCheckedKept ==
    ASSUME FlowTypes, BeforeTheRow, PatchChecked, [FlowNext]_flowVars
    PROVE  PatchChecked'
<1>0. FlowData
  BY FlowTypesParts
<1>1. CASE UNCHANGED flowVars
  BY <1>1 DEF flowVars, PatchChecked
<1>2. CASE FlowCrash
  BY <1>2 DEF FlowCrash, NoFlowOp, PatchChecked
<1>9. ASSUME NEW o \in FlowOps, FlowAction(o) PROVE PatchChecked'
  <2>1. CASE \E e \in Endpoints : CreateEndpoint(o, e)
    BY <1>0, FlowPcs, <1>9, <2>1 DEF CreateEndpoint, NewKey, BeforeTheRow, PatchChecked, FlowData
  <2>2. CASE \E k \in 1..lastKey : Inbound(o, k)
    BY <1>0, FlowPcs, <1>9, <2>2 DEF Inbound, Deleting, BeforeTheRow, PatchChecked, FlowData
  <2>3. CASE EndpointMade(o)
    BY <1>0, FlowPcs, <1>9, <2>3 DEF EndpointMade, BeforeTheRow, PatchChecked, FlowData
  <2>4. CASE UpdateEndpoint(o)
    <3>1. PICK q \in Patches : FlowStep(o, [pc |-> "patch", patch |-> q]) /\ Sound(Patched(endpoint, q))
      BY <2>4, FlowSteps
    <3>2. flowOp'[o].patch = q /\ UNCHANGED <<endpoint, crossed>> /\ \A p \in FlowOps : p # o => flowOp'[p] = flowOp[p]
      BY <2>4, <3>1 DEF FlowStep, UpdateEndpoint
    <3> QED
      BY <3>1, <3>2 DEF PatchChecked
  <2>5. CASE Patch(o)
    <3>1. flowOp'[o].pc = "idle" /\ \A p \in FlowOps : p # o => flowOp'[p] = flowOp[p]
      BY <1>9, <2>5, FlowPcs
    <3>2. ~crossed' => \A p \in FlowOps \ {o} : flowOp[p].pc # "patch"
      BY <2>5 DEF Patch, FlowAt
    <3> QED
      BY <3>1, <3>2 DEF PatchChecked
  <2>6. CASE DeleteEndpoint(o)
    BY <1>0, FlowPcs, <1>9, <2>6 DEF DeleteEndpoint, Deleting, BeforeTheRow, PatchChecked, FlowData
  <2>7. CASE EventsDeleted(o)
    BY <1>0, FlowPcs, <1>9, <2>7 DEF EventsDeleted, BeforeTheRow, PatchChecked, FlowData
  <2>8. CASE KeyDeleted(o)
    BY <1>0, FlowPcs, <1>9, <2>8 DEF KeyDeleted, BeforeTheRow, PatchChecked, FlowData
  <2>9. CASE EndpointDeleted(o)
    BY <1>0, FlowPcs, <1>9, <2>9 DEF EndpointDeleted, BeforeTheRow, PatchChecked, FlowData
  <2>10. CASE RotateSecret(o)
    BY <1>0, FlowPcs, <1>9, <2>10 DEF RotateSecret, Deleting, BeforeTheRow, PatchChecked, FlowData
  <2>11. CASE Rotated(o)
    BY <1>0, FlowPcs, <1>9, <2>11 DEF Rotated, NewKey, BeforeTheRow, PatchChecked, FlowData
  <2>12. CASE Verify(o)
    BY <1>0, FlowPcs, <1>9, <2>12 DEF Verify, BeforeTheRow, PatchChecked, FlowData
  <2>13. CASE EnterEvent(o)
    BY <1>0, FlowPcs, <1>9, <2>13 DEF EnterEvent, BeforeTheRow, PatchChecked, FlowData
  <2>14. CASE Dispatched(o)
    BY <1>0, FlowPcs, <1>9, <2>14 DEF Dispatched, BeforeTheRow, PatchChecked, FlowData
  <2>15. CASE Settle(o)
    BY <1>0, FlowPcs, <1>9, <2>15 DEF Settle, BeforeTheRow, PatchChecked, FlowData
  <2> QED
    BY <1>9, <2>1, <2>2, <2>3, <2>4, <2>5, <2>6, <2>7, <2>8, <2>9, <2>10, <2>11, <2>12, <2>13, <2>14, <2>15 DEF FlowAction
<1> QED
  BY <1>1, <1>2, <1>9, FlowActs

\* A deletion that meets no one is alone.
LEMMA DeletedAloneKept ==
    ASSUME FlowTypes, BeforeTheRow, DeletedAlone, [FlowNext]_flowVars
    PROVE  DeletedAlone'
<1>0. FlowData
  BY FlowTypesParts
<1>1. CASE UNCHANGED flowVars
  BY <1>1 DEF flowVars, DeletedAlone
<1>2. CASE FlowCrash
  BY <1>2 DEF FlowCrash, NoFlowOp, DeletedAlone, Deleters, Deleting, FlowAt
<1>9. ASSUME NEW o \in FlowOps, FlowAction(o) PROVE DeletedAlone'
  <2>1. CASE \E e \in Endpoints : CreateEndpoint(o, e)
    BY <1>0, FlowPcs, <1>9, <2>1 DEF CreateEndpoint, NewKey, BeforeTheRow, DeletedAlone, FlowData, Deleters
  <2>2. CASE \E k \in 1..lastKey : Inbound(o, k)
    <3>1. /\ flowOp'[o].pc = "verify" /\ \A p \in FlowOps : p # o => flowOp'[p] = flowOp[p]
          /\ UNCHANGED <<endpoint, key, events>> /\ endpoint # NoEndpoint
      BY <1>9, <2>2, FlowPcs DEF Inbound
    <3>2. ~met' => ~met /\ \A p \in FlowOps : flowOp[p].pc \notin Deleters
      BY <2>2 DEF Inbound, Deleting, Deleters
    <3> QED
      BY <3>1, <3>2 DEF DeletedAlone, Deleters
  <2>3. CASE EndpointMade(o)
    <3>1. \A p \in FlowOps : flowOp'[p].pc = "idle"
      BY <1>9, <2>3, FlowPcs DEF BeforeTheRow
    <3> QED
      BY <3>1 DEF DeletedAlone, Deleters
  <2>4. CASE UpdateEndpoint(o)
    BY <1>0, FlowPcs, <1>9, <2>4 DEF UpdateEndpoint, BeforeTheRow, DeletedAlone, FlowData, Deleters
  <2>5. CASE Patch(o)
    <3>1. /\ flowOp'[o].pc = "idle" /\ \A p \in FlowOps : p # o => flowOp'[p] = flowOp[p]
          /\ UNCHANGED <<key, events, met>>
      BY <1>9, <2>5, FlowPcs DEF Patch
    <3>2. endpoint' = NoEndpoint => endpoint = NoEndpoint
      <4>1. ASSUME endpoint # NoEndpoint PROVE endpoint' # NoEndpoint
        <5>1. endpoint \in Endpoints /\ flowOp[o].patch \in Patches /\ endpoint' = Patched(endpoint, flowOp[o].patch)
          BY <1>0, <2>5, <4>1, FlowTypesParts DEF Patch, FlowAt, FlowData, FlowRequests, FlowShape
        <5> QED
          BY <5>1, PatchedIsEndpoint DEF Endpoints, NoEndpoint
      <4> QED
        BY <4>1
    <3> QED
      BY <3>1, <3>2 DEF DeletedAlone, Deleters
  <2>6. CASE DeleteEndpoint(o)
    <3>1. /\ flowOp'[o].pc = "events" /\ \A p \in FlowOps : p # o => flowOp'[p] = flowOp[p]
          /\ UNCHANGED <<endpoint, key, events>> /\ endpoint # NoEndpoint
      BY <1>9, <2>6, FlowPcs DEF DeleteEndpoint
    <3>2. ~met' => ~met /\ \A p \in FlowOps : p # o => flowOp[p].pc = "idle"
      BY <2>6 DEF DeleteEndpoint
    <3> QED
      BY <3>1, <3>2 DEF DeletedAlone, Deleters
  <2>7. CASE EventsDeleted(o)
    BY <1>0, FlowPcs, <1>9, <2>7 DEF EventsDeleted, BeforeTheRow, DeletedAlone, FlowData, Deleters
  <2>8. CASE KeyDeleted(o)
    <3>1. /\ flowOp[o].pc = "key" /\ flowOp'[o].pc = "row" /\ \A p \in FlowOps : p # o => flowOp'[p] = flowOp[p]
      BY <1>9, <2>8, FlowPcs
    <3>2. UNCHANGED <<endpoint, events>>
      BY <2>8 DEF KeyDeleted
    <3>3. ~met' => ~met /\ key' = 0
      BY <2>8 DEF KeyDeleted
    <3> QED
      BY <3>1, <3>2, <3>3 DEF DeletedAlone, Deleters
  <2>9. CASE EndpointDeleted(o)
    BY <1>0, FlowPcs, <1>9, <2>9 DEF EndpointDeleted, BeforeTheRow, DeletedAlone, FlowData, Deleters
  <2>10. CASE RotateSecret(o)
    <3>1. flowOp'[o].pc = "rotate" /\ \A p \in FlowOps : p # o => flowOp'[p] = flowOp[p]
      BY <1>9, <2>10, FlowPcs
    <3>2. UNCHANGED <<endpoint, key, events>> /\ endpoint # NoEndpoint
      BY <2>10 DEF RotateSecret
    <3>3. ~met' => ~met /\ \A p \in FlowOps : flowOp[p].pc \notin Deleters
      BY <2>10 DEF RotateSecret, Deleting, Deleters
    <3> QED
      BY <3>1, <3>2, <3>3 DEF DeletedAlone, Deleters
  <2>11. CASE Rotated(o)
    <3>1. /\ flowOp[o].pc = "rotate" /\ flowOp'[o].pc = "idle"
          /\ \A p \in FlowOps : p # o => flowOp'[p] = flowOp[p]
      BY <1>9, <2>11, FlowPcs
    <3>2. UNCHANGED <<endpoint, events, met>>
      BY <2>11 DEF Rotated
    <3>3. ~met => \A p \in FlowOps \ {o} : flowOp[p].pc \notin Deleters
      BY <3>1 DEF DeletedAlone, Deleters
    <3> QED
      BY <3>1, <3>2, <3>3 DEF DeletedAlone, Deleters
  <2>12. CASE Verify(o)
    BY <1>0, FlowPcs, <1>9, <2>12 DEF Verify, BeforeTheRow, DeletedAlone, FlowData, Deleters
  <2>13. CASE EnterEvent(o)
    BY <1>0, FlowPcs, <1>9, <2>13 DEF EnterEvent, BeforeTheRow, DeletedAlone, FlowData, Deleters
  <2>14. CASE Dispatched(o)
    BY <1>0, FlowPcs, <1>9, <2>14 DEF Dispatched, BeforeTheRow, DeletedAlone, FlowData, Deleters
  <2>15. CASE Settle(o)
    BY <1>0, FlowPcs, <1>9, <2>15 DEF Settle, BeforeTheRow, DeletedAlone, FlowData, Deleters
  <2> QED
    BY <1>9, <2>1, <2>2, <2>3, <2>4, <2>5, <2>6, <2>7, <2>8, <2>9, <2>10, <2>11, <2>12, <2>13, <2>14, <2>15 DEF FlowAction
<1> QED
  BY <1>1, <1>2, <1>9, FlowActs

\* The parts of FlowAgrees: what the status of an event says ...
EventsTell ==
    \A i \in DOMAIN events :
        /\ events[i] = "processed" => i \in acted
        /\ events[i] = "failed" /\ i \in acted => i \in unwritten
        /\ events[i] = "received" => Handled(i) \/ i \in unwritten \union dropped

\* ... and that row, key and events come and go together.
RowAgrees ==
    /\ \A i \in DOMAIN events : events[i] # "none" /\ endpoint = NoEndpoint => met
    /\ endpoint # NoEndpoint => Sound(endpoint) \/ crossed
    /\ endpoint = NoEndpoint /\ key # 0 => met \/ \E o \in FlowOps : flowOp[o].pc = "insert"
    /\ endpoint # NoEndpoint /\ key = 0 => met \/ \E o \in FlowOps : flowOp[o].pc \in Deleters

\* The property, its two halves apart.
LEMMA FlowAgreesParts == FlowAgrees <=> EventsTell /\ RowAgrees
  BY DEF FlowAgrees, EventsTell, RowAgrees, Deleting, Deleters

\* The status of an event says what was done with it.
LEMMA EventsTellKept ==
    ASSUME FlowTypes, EventsHandled, EventsTell, [FlowNext]_flowVars
    PROVE  EventsTell'
<1>0. FlowData /\ FlowRequests /\ DOMAIN events = 1..MaxEvents
  BY FlowTypesParts DEF FlowData
<1>a. DOMAIN events' = 1..MaxEvents
  BY FlowTypesKept, FlowTypesParts DEF FlowData
<1>h. \A i : /\ Handled(i) <=> \E o \in FlowOps : flowOp[o].pc \in Handlers /\ flowOp[o].event = i
             /\ Handled(i)' <=> \E o \in FlowOps : flowOp'[o].pc \in Handlers /\ flowOp'[o].event = i
  BY DEF Handled, Handlers
<1>1. CASE UNCHANGED flowVars
  BY <1>1 DEF flowVars, EventsTell, Handled
<1>2. CASE FlowCrash
  BY <1>0, <1>a, <1>2 DEF FlowCrash, EventsTell
<1>9. ASSUME NEW o \in FlowOps, FlowAction(o) PROVE EventsTell'
  <2>0. \A p \in FlowOps : p # o => flowOp'[p] = flowOp[p]
    BY <1>9, FlowPcs
  <2>1. CASE UNCHANGED <<acted, unwritten, dropped>> /\ flowOp[o].pc \notin Handlers
             /\ \A i \in 1..MaxEvents : events'[i] \in {"none", events[i]}
    <3>1. \A i : Handled(i) => Handled(i)'
      BY <1>h, <2>0, <2>1
    <3> QED
      BY <1>0, <1>a, <2>1, <3>1 DEF EventsTell
  <2>2. CASE EnterEvent(o)
    <3>1. flowOp[o].pc \notin Handlers /\ UNCHANGED <<acted, unwritten, dropped>>
      BY <2>2, FlowHandles DEF EnterEvent, Handlers
    <3>2. CASE UNCHANGED events
      BY <2>1, <3>1, <3>2, <1>0
    <3>3. ASSUME NEW i \in 1..MaxEvents, events' = [events EXCEPT ![i] = "received"],
                 FlowStep(o, [pc |-> "dispatch", event |-> i])
          PROVE  EventsTell'
      <4>1. events'[i] = "received" /\ \A j \in 1..MaxEvents : j # i => events'[j] = events[j]
        BY <1>0, <3>3 DEF FlowData
      <4>2. Handled(i)' /\ \A j : Handled(j) => Handled(j)'
        BY <1>h, <2>0, <3>1, <3>3 DEF FlowStep, Handlers
      <4> QED
        BY <1>0, <1>a, <3>1, <4>1, <4>2 DEF EventsTell
    <3> QED
      BY <2>2, <3>2, <3>3, FlowHandles
  <2>3. CASE Dispatched(o)
    <3>1. PICK i \in 1..MaxEvents : i = flowOp[o].event
      BY <2>3, FlowHandles
    <3>2. /\ flowOp[o].pc \in Handlers /\ events' = events /\ unwritten' = unwritten /\ dropped' = dropped
          /\ events[i] \in {"none", "received"}
      BY <2>3, <3>1, FlowHandles DEF Dispatched, EventsHandled, Handlers
    <3>3. acted' \in {acted, acted \union {i}} /\ flowOp'[o].pc \in Handlers /\ flowOp'[o].event = i
      <4>1. CASE FlowStep(o, [pc |-> "processed", event |-> i]) /\ acted' = acted \union {i}
        BY <4>1 DEF FlowStep, Handlers
      <4>2. CASE FlowStep(o, [pc |-> "failed", event |-> i]) /\ acted' = acted
        BY <4>2 DEF FlowStep, Handlers
      <4> QED
        BY <2>3, <3>1, <4>1, <4>2, FlowHandles
    <3>4. \A j : Handled(j) => Handled(j)'
      BY <1>h, <2>0, <3>1, <3>3
    <3> QED
      BY <1>0, <1>a, <3>2, <3>3, <3>4 DEF EventsTell
  <2>4. CASE Settle(o)
    <3>1. PICK i \in 1..MaxEvents : i = flowOp[o].event
      BY <2>4, FlowHandles
    <3>2. /\ acted' = acted /\ dropped' = dropped /\ flowOp[o].pc \in {"processed", "failed"}
          /\ events[i] \in {"none", "received"}
          /\ flowOp[o].pc = "processed" => i \in acted
          /\ flowOp[o].pc = "failed" /\ i \in acted => i \in unwritten
      BY <2>4, <3>1, FlowHandles DEF Settle, EventsHandled, Handlers
    <3>3. \A j : j # i /\ Handled(j) => Handled(j)'
      BY <1>h, <2>0, <3>1
    <3>4. CASE unwritten' = unwritten /\ events' = [events EXCEPT ![i] = IF @ = "none" THEN @ ELSE flowOp[o].pc]
      <4>1. /\ events'[i] \in {"none", flowOp[o].pc} /\ \A j \in 1..MaxEvents : j # i => events'[j] = events[j]
        BY <1>0, <3>4 DEF FlowData
      <4> QED
        BY <1>0, <1>a, <3>2, <3>3, <3>4, <4>1 DEF EventsTell
    <3>5. CASE unwritten' = unwritten \union {i} /\ events' = events
      BY <1>0, <1>a, <3>2, <3>3, <3>5 DEF EventsTell
    <3> QED
      BY <2>4, <3>1, <3>4, <3>5, FlowHandles
  <2>5. CASE ~EnterEvent(o) /\ ~Dispatched(o) /\ ~Settle(o)
    <3>1. flowOp[o].pc \notin Handlers
      BY <1>9, <2>5, FlowPcs DEF FlowAction, Handlers
    <3>2. UNCHANGED <<acted, unwritten, dropped>> /\ (EventsDeleted(o) \/ UNCHANGED events)
      BY <1>9, <2>5 DEF FlowAction, CreateEndpoint, EndpointMade, UpdateEndpoint, Patch, DeleteEndpoint, KeyDeleted,
                        EventsDeleted, EndpointDeleted, RotateSecret, Rotated, Inbound, Verify
    <3>3. \A i \in 1..MaxEvents : events'[i] \in {"none", events[i]}
      BY <1>0, <3>2 DEF EventsDeleted
    <3> QED
      BY <2>1, <3>1, <3>2, <3>3
  <2> QED
    BY <2>2, <2>3, <2>4, <2>5
<1> QED
  BY <1>1, <1>2, <1>9, FlowActs

\* Row, key and events come and go together.
LEMMA RowAgreesKept ==
    ASSUME FlowTypes, EventsHandled, BeforeTheRow, PatchChecked, DeletedAlone, RowAgrees, [FlowNext]_flowVars
    PROVE  RowAgrees'
<1>0. FlowData /\ DOMAIN events = 1..MaxEvents
  BY FlowTypesParts DEF FlowData
<1>a. DOMAIN events' = 1..MaxEvents
  BY FlowTypesKept, FlowTypesParts DEF FlowData
<1>1. CASE UNCHANGED flowVars
  BY <1>1 DEF flowVars, RowAgrees
<1>2. CASE FlowCrash
  BY <1>2 DEF FlowCrash, RowAgrees, Deleting, Deleters, FlowAt
<1>9. ASSUME NEW o \in FlowOps, FlowAction(o) PROVE RowAgrees'
  <2>1. CASE \E e \in Endpoints : CreateEndpoint(o, e)
    BY <1>0, FlowPcs, <1>9, <2>1 DEF CreateEndpoint, NewKey, RowAgrees, BeforeTheRow, DeletedAlone, FlowData, Deleters, Deleting
  <2>2. CASE \E k \in 1..lastKey : Inbound(o, k)
    BY <1>0, FlowPcs, <1>9, <2>2 DEF Inbound, Deleting, RowAgrees, BeforeTheRow, DeletedAlone, FlowData, Deleters, Deleting
  <2>3. CASE EndpointMade(o)
    <3>1. /\ flowOp[o].pc = "insert" /\ endpoint = NoEndpoint /\ key # 0 /\ UNCHANGED <<key, events>>
          /\ flowOp[o].new \in Endpoints /\ Sound(flowOp[o].new)
      BY <1>9, <2>3, FlowPcs, FlowTypesParts DEF EndpointMade, BeforeTheRow, FlowRequests, FlowShape
    <3>2. CASE endpoint' = flowOp[o].new /\ UNCHANGED met
      <4>1. endpoint' # NoEndpoint /\ Sound(endpoint')
        BY <3>1, <3>2 DEF Endpoints, NoEndpoint
      <4> QED
        BY <3>1, <4>1 DEF RowAgrees
    <3>3. CASE UNCHANGED endpoint /\ met' = TRUE
      BY <3>1, <3>3 DEF RowAgrees
    <3> QED
      BY <2>3, <3>2, <3>3 DEF EndpointMade
  <2>4. CASE UpdateEndpoint(o)
    BY <1>0, FlowPcs, <1>9, <2>4 DEF UpdateEndpoint, RowAgrees, BeforeTheRow, DeletedAlone, FlowData, Deleters, Deleting
  <2>5. CASE Patch(o)
    <3>1. /\ flowOp[o].pc = "patch" /\ flowOp'[o].pc = "idle" /\ \A p \in FlowOps : p # o => flowOp'[p] = flowOp[p]
          /\ UNCHANGED <<key, events, met>> /\ flowOp[o].patch \in Patches
      BY <1>9, <2>5, FlowPcs, FlowTypesParts DEF Patch, FlowRequests, FlowShape
    <3>2. CASE endpoint = NoEndpoint
      <4>1. endpoint' = NoEndpoint
        BY <2>5, <3>2 DEF Patch
      <4> QED
        BY <1>0, <3>1, <3>2, <4>1 DEF RowAgrees
    <3>3. CASE endpoint # NoEndpoint
      <4>1. endpoint \in Endpoints /\ endpoint' = Patched(endpoint, flowOp[o].patch)
        BY <1>0, <2>5, <3>3 DEF Patch, FlowData
      <4>2. endpoint' # NoEndpoint
        BY <3>1, <4>1, PatchedIsEndpoint DEF Endpoints, NoEndpoint
      <4>3. Sound(endpoint') \/ crossed'
        BY <2>5, <3>1, <3>3, <4>1 DEF Patch, PatchChecked
      <4>4. key' = 0 => met' \/ \E p \in FlowOps : flowOp'[p].pc \in Deleters
        BY <3>1, <3>3 DEF RowAgrees, Deleters
      <4> QED
        BY <4>2, <4>3, <4>4 DEF RowAgrees
    <3> QED
      BY <3>2, <3>3
  <2>6. CASE DeleteEndpoint(o)
    BY <1>0, FlowPcs, <1>9, <2>6 DEF DeleteEndpoint, Deleting, RowAgrees, BeforeTheRow, DeletedAlone, FlowData, Deleters, Deleting
  <2>7. CASE EventsDeleted(o)
    BY <1>0, FlowPcs, <1>9, <2>7 DEF EventsDeleted, RowAgrees, BeforeTheRow, DeletedAlone, FlowData, Deleters, Deleting
  <2>8. CASE KeyDeleted(o)
    <3>1. /\ flowOp[o].pc = "key" /\ flowOp'[o].pc \in Deleters
          /\ \A p \in FlowOps : p # o => flowOp'[p] = flowOp[p]
      BY <1>9, <2>8, FlowPcs DEF Deleters
    <3>2. UNCHANGED <<endpoint, events, crossed>>
      BY <2>8 DEF KeyDeleted
    <3>3. CASE key' = 0 /\ UNCHANGED met
      BY <3>1, <3>2, <3>3 DEF RowAgrees
    <3>4. CASE UNCHANGED key /\ met' = TRUE
      BY <3>1, <3>2, <3>4 DEF RowAgrees
    <3> QED
      BY <2>8, <3>3, <3>4 DEF KeyDeleted
  <2>9. CASE EndpointDeleted(o)
    BY <1>0, FlowPcs, <1>9, <2>9 DEF EndpointDeleted, RowAgrees, BeforeTheRow, DeletedAlone, FlowData, Deleters, Deleting
  <2>10. CASE RotateSecret(o)
    BY <1>0, FlowPcs, <1>9, <2>10 DEF RotateSecret, Deleting, RowAgrees, BeforeTheRow, DeletedAlone, FlowData, Deleters, Deleting
  <2>11. CASE Rotated(o)
    BY <1>0, FlowPcs, <1>9, <2>11 DEF Rotated, NewKey, RowAgrees, BeforeTheRow, DeletedAlone, FlowData, Deleters, Deleting
  <2>12. CASE Verify(o)
    BY <1>0, FlowPcs, <1>9, <2>12 DEF Verify, RowAgrees, BeforeTheRow, DeletedAlone, FlowData, Deleters, Deleting
  <2>13. CASE EnterEvent(o)
    BY <1>0, FlowPcs, <1>9, <2>13 DEF EnterEvent, RowAgrees, BeforeTheRow, DeletedAlone, FlowData, Deleters, Deleting
  <2>14. CASE Dispatched(o)
    BY <1>0, FlowPcs, <1>9, <2>14 DEF Dispatched, RowAgrees, BeforeTheRow, DeletedAlone, FlowData, Deleters, Deleting
  <2>15. CASE Settle(o)
    BY <1>0, FlowPcs, <1>9, <2>15 DEF Settle, RowAgrees, BeforeTheRow, DeletedAlone, FlowData, Deleters, Deleting
  <2> QED
    BY <1>9, <2>1, <2>2, <2>3, <2>4, <2>5, <2>6, <2>7, <2>8, <2>9, <2>10, <2>11, <2>12, <2>13, <2>14, <2>15 DEF FlowAction
<1> QED
  BY <1>1, <1>2, <1>9, FlowActs

\* Before the first request.
LEMMA FlowInitHolds == FlowInit => FlowInv
<1> SUFFICES ASSUME FlowInit PROVE FlowInv
  OBVIOUS
<1>1. FlowTypes
  <2>1. FlowRequests
    BY FlowShapes DEF FlowInit, FlowRequests
  <2>2. lastKey \in 0..MaxKeys /\ key \in 0..lastKey
    BY FlowAssumption DEF FlowInit
  <2>3. FlowData
    BY <2>2 DEF FlowInit, FlowData
  <2> QED
    BY <2>1, <2>3, FlowTypesParts
<1>2. \A o \in FlowOps : flowOp[o].pc = "idle"
  BY DEF FlowInit, NoFlowOp
<1>3. EventsHandled /\ BeforeTheRow /\ PatchChecked /\ DeletedAlone
  BY <1>2 DEF FlowInit, EventsHandled, BeforeTheRow, PatchChecked, DeletedAlone, Handlers, Deleters
<1>4. EventsTell /\ RowAgrees
  BY DEF FlowInit, EventsTell, RowAgrees
<1> QED
  BY <1>1, <1>3, <1>4, FlowAgreesParts DEF FlowInv

\* One step keeps the invariant.
LEMMA FlowKept == FlowInv /\ [FlowNext]_flowVars => FlowInv'
<1> SUFFICES ASSUME FlowInv, [FlowNext]_flowVars PROVE FlowInv'
  OBVIOUS
<1>1. FlowTypes /\ EventsHandled /\ BeforeTheRow /\ PatchChecked /\ DeletedAlone /\ EventsTell /\ RowAgrees
  BY FlowAgreesParts DEF FlowInv
<1>2. FlowTypes' /\ EventsHandled' /\ BeforeTheRow' /\ PatchChecked' /\ DeletedAlone'
  BY <1>1, FlowTypesKept, EventsHandledKept, BeforeTheRowKept, PatchCheckedKept, DeletedAloneKept
<1>3. EventsTell' /\ RowAgrees'
  BY <1>1, EventsTellKept, RowAgreesKept
<1>4. FlowAgrees' <=> EventsTell' /\ RowAgrees'
  BY DEF FlowAgrees, EventsTell, RowAgrees, Deleting, Deleters
<1> QED
  BY <1>2, <1>3, <1>4 DEF FlowInv

\* Whatever requests overlap, of whatever number, and whenever the process ends: the
\* status of an event says what was done with it, the endpoint is one its checks
\* accept unless updates crossed, and row, key and events come and go together unless
\* a deletion met a request or a step failed.  (handleInbound, updateEndpoint,
\* deleteEndpoint, rotateSecret)
THEOREM FlowsAgree == FlowSpec => [](FlowTypeOK /\ FlowAgrees)
<1>1. FlowInit => FlowInv
  BY FlowInitHolds
<1>2. FlowInv /\ [FlowNext]_flowVars => FlowInv'
  BY FlowKept
<1>3. FlowInv => FlowTypeOK /\ FlowAgrees
  BY DEF FlowInv, FlowTypes
<1> QED
  BY <1>1, <1>2, <1>3, PTL DEF FlowSpec

-----------------------------------------------------------------------------
(* Notify *)

SendTypes ==
    /\ notice \in {"new", "plan", "save", "deliver", "done", "refused", "lost"}
    /\ inbox \in {"none", "unread", "read"}
    /\ plan \subseteq Channels /\ queue \in Seq(plan) /\ attempt \in Nat
    /\ recorded \in [Channels -> {"none", "ok", "failed"}]
    /\ arrived \in [Channels -> Nat] /\ unsure \subseteq Channels

Waiting(c) == \E k \in 1..Len(queue) : queue[k] = c

\* Where send stands: the plan is made before anything goes out, the notice is in the
\* table before a channel is served, and who is served leaves the queue.
SendStands ==
    /\ \A j, k \in 1..Len(queue) : queue[j] = queue[k] => j = k
    /\ notice \in {"new", "plan"} => plan = {} /\ queue = <<>>
    /\ notice \in {"new", "plan", "save", "refused"} =>
         /\ attempt = 0 /\ \A c \in Channels : arrived[c] = 0 /\ recorded[c] = "none"
    /\ notice \in {"deliver", "done"} => inbox # "none"
    /\ notice = "done" => queue = <<>>

\* The channel at the head of the queue has had so many attempts, the ones behind it none.
HeadServed ==
    /\ \A k \in 2..Len(queue) : arrived[queue[k]] = 0
    /\ queue # <<>> =>
         /\ arrived[Head(queue)] <= attempt /\ attempt <= Retries[Head(queue)]
         /\ arrived[Head(queue)] > 0 => Head(queue) \in unsure
    /\ queue = <<>> => attempt = 0

\* A channel of the plan waits until it has a record, and the record is right.
ChannelServed(c) ==
    /\ c \in plan => (Waiting(c) <=> recorded[c] = "none")
    /\ c \notin plan => recorded[c] = "none"
    /\ arrived[c] > 0 => inbox # "none" /\ c \in plan \ Driverless
    /\ arrived[c] > 1 => c \in unsure
    /\ arrived[c] <= Retries[c] + 1
    /\ recorded[c] = "ok" => arrived[c] > 0
    /\ recorded[c] = "failed" /\ arrived[c] > 0 => c \in unsure

SendInv == SendTypes /\ SendStands /\ HeadServed /\ \A c \in Channels : ChannelServed(c)

Settings == [Channels -> {"absent", "on", "off"}]

EditShape(a) ==
    /\ a.pc \in {"new", "read", "write", "over"}
    /\ a.pc = "read" => a.on \in Channels /\ a.to \in {"absent", "on", "off"}
    /\ a.pc = "write" => a.on \in Channels /\ a.to \in {"absent", "on", "off"} /\ a.all \in Settings

\* Unless edits clash, whoever is about to write has the settings as they are.
EditInv ==
    /\ configs \in Settings /\ routed \in Settings /\ clashed \in BOOLEAN
    /\ edit = [e \in Edits |-> edit[e]] /\ \A e \in Edits : EditShape(edit[e])
    /\ \A e \in Edits : edit[e].pc = "write" => edit[e].blind \/ clashed \/ edit[e].all = configs
    /\ configs = routed \/ clashed

NotifyInv == SendInv /\ EditInv

\* The invariant is strong enough.
LEMMA NotifyInvHolds == NotifyInv => NotifyTypeOK /\ NoticeAccounted
<1> SUFFICES ASSUME NotifyInv PROVE NotifyTypeOK /\ NoticeAccounted
  OBVIOUS
<1>1. NotifyTypeOK
  BY DEF NotifyInv, SendInv, SendTypes, EditInv, EditShape, Settings, NotifyTypeOK
<1>2. ASSUME NEW c \in Channels, recorded[c] = "none", arrived[c] > 0
      PROVE  queue # <<>> /\ c = Head(queue)
  <2>1. PICK k \in 1..Len(queue) : queue[k] = c
    BY <1>2 DEF NotifyInv, SendInv, ChannelServed, Waiting
  <2>2. queue \in Seq(Channels)
    BY DEF NotifyInv, SendInv, SendTypes
  <2>3. k \notin 2..Len(queue)
    BY <1>2, <2>1 DEF NotifyInv, SendInv, HeadServed
  <2>4. k = 1
    BY <2>1, <2>2, <2>3
  <2> QED
    BY <2>1, <2>2, <2>4
<1>3. ASSUME NEW c \in Channels, notice = "done" PROVE (recorded[c] # "none") = (c \in plan)
  <2>1. ~Waiting(c)
    BY <1>3 DEF NotifyInv, SendInv, SendStands, Waiting
  <2> QED
    BY <2>1 DEF NotifyInv, SendInv, ChannelServed
<1> QED
  BY <1>1, <1>2, <1>3 DEF NoticeAccounted, NotifyInv, SendInv, EditInv, ChannelServed

\* Before the notice is sent.
LEMMA NotifyInitHolds == NotifyInit => NotifyInv
<1> SUFFICES ASSUME NotifyInit PROVE NotifyInv
  OBVIOUS
<1>1. SendTypes
  BY DEF NotifyInit, SendTypes
<1>2. SendStands /\ HeadServed
  BY DEF NotifyInit, SendStands, HeadServed
<1>3. ASSUME NEW c \in Channels PROVE ChannelServed(c)
  <2>1. Retries[c] \in Nat
    BY NotifyAssumption
  <2> QED
    BY <2>1 DEF NotifyInit, ChannelServed, Waiting
<1>4. EditInv
  BY DEF NotifyInit, EditInv, EditShape, Settings
<1> QED
  BY <1>1, <1>2, <1>3, <1>4 DEF NotifyInv, SendInv

\* The plan in some order: every channel of it once.
LEMMA PlanIsQueued ==
    ASSUME NEW p \in SUBSET Channels, NEW q \in SetToSeqs(p)
    PROVE  /\ q \in Seq(p) /\ \A j, k \in 1..Len(q) : q[j] = q[k] => j = k
           /\ \A c \in p : \E k \in 1..Len(q) : q[k] = c
<1>1. IsFiniteSet(p)
  BY NotifyAssumption, FS_Subset
<1>2. q \in Enumerations(p)
  BY DEF SetToSeqs, Enumerations
<1>3. /\ Cardinality(p) \in Nat /\ \A c \in p : \E k \in 1..Cardinality(p) : q[k] = c
  BY <1>1, <1>2, EnumerationIsWhole
<1>4. q \in [1..Cardinality(p) -> p] /\ \A j, k \in 1..Cardinality(p) : j # k => q[j] # q[k]
  BY <1>2 DEF Enumerations
<1>5. q \in Seq(p) /\ Len(q) = Cardinality(p)
  BY <1>3, <1>4
<1> QED
  BY <1>3, <1>4, <1>5

\* What the queue is after its head has been served.
LEMMA QueueGoesOn ==
    ASSUME SendTypes, SendStands, queue # <<>>, queue' = Tail(queue)
    PROVE  /\ Head(queue) \in plan /\ Head(queue) = queue[1] /\ 1 \in 1..Len(queue)
           /\ Len(queue') = Len(queue) - 1 /\ queue' \in Seq(plan)
           /\ \A k \in 1..Len(queue') : queue'[k] = queue[k + 1] /\ k + 1 \in 2..Len(queue)
           /\ \A c : Waiting(c)' <=> Waiting(c) /\ c # Head(queue)
<1>1. /\ Head(queue) \in plan /\ Head(queue) = queue[1] /\ 1 \in 1..Len(queue)
      /\ Len(queue') = Len(queue) - 1 /\ queue' \in Seq(plan) /\ Len(queue) \in Nat
      /\ \A k \in 1..Len(queue') : queue'[k] = queue[k + 1] /\ k + 1 \in 2..Len(queue)
  BY DEF SendTypes
<1>2. ASSUME NEW c, NEW k \in 1..Len(queue), queue[k] = c, c # Head(queue)
      PROVE  Waiting(c)'
  <2>1. k # 1 /\ k - 1 \in 1..Len(queue')
    BY <1>1, <1>2
  <2>2. queue'[k - 1] = queue[(k - 1) + 1]
    BY <1>1, <2>1
  <2>3. queue'[k - 1] = c
    BY <1>1, <1>2, <2>2
  <2> QED
    BY <2>1, <2>3 DEF Waiting
<1>3. ASSUME NEW c, NEW k \in 1..Len(queue'), queue'[k] = c
      PROVE  Waiting(c) /\ c # Head(queue)
  <2>1. queue[k + 1] = c /\ k + 1 \in 1..Len(queue) /\ k + 1 # 1
    BY <1>1, <1>3
  <2>2. queue[k + 1] # queue[1]
    BY <1>1, <2>1 DEF SendStands
  <2> QED
    BY <1>1, <2>1, <2>2 DEF Waiting
<1> QED
  BY <1>1, <1>2, <1>3 DEF Waiting

\* The head of the queue gets its record, with the attempts and the arrivals it had.
LEMMA RecordIsRight ==
    ASSUME SendInv, notice = "deliver", queue # <<>>, UNCHANGED <<notice, inbox, plan>>,
           NEW how \in {"ok", "failed"}, Record(how),
           \/ how = "failed" /\ UNCHANGED <<arrived, unsure>>
           \/ /\ Arrives /\ Head(queue) \notin Driverless
              /\ \/ how = "ok" /\ UNCHANGED unsure
                 \/ how = "failed" /\ unsure' = unsure \union {Head(queue)}
    PROVE  SendInv'
<1> DEFINE h == Head(queue)
<1>1. /\ h \in plan /\ h \in Channels /\ h = queue[1] /\ 1 \in 1..Len(queue)
      /\ Len(queue') = Len(queue) - 1 /\ queue' \in Seq(plan) /\ Len(queue) \in Nat
      /\ \A k \in 1..Len(queue') : queue'[k] = queue[k + 1] /\ k + 1 \in 2..Len(queue)
      /\ \A c : Waiting(c)' <=> Waiting(c) /\ c # h
  BY QueueGoesOn DEF SendInv, SendTypes, Record
<1>2. /\ recorded \in [Channels -> {"none", "ok", "failed"}] /\ arrived \in [Channels -> Nat]
      /\ unsure \subseteq Channels
  BY DEF SendInv, SendTypes
<1>3. /\ recorded'[h] = how /\ recorded' \in [Channels -> {"none", "ok", "failed"}] /\ attempt' = 0
      /\ \A c \in Channels : c # h => recorded'[c] = recorded[c]
  BY <1>1, <1>2 DEF Record
<1>4. PICK n \in Nat, m \in Nat, t \in Nat : n = arrived[h] /\ m = attempt /\ t = Retries[h] /\ n <= m /\ m <= t
  BY <1>1, <1>2, NotifyAssumption DEF SendInv, SendTypes, HeadServed
<1>5. /\ arrived' \in [Channels -> Nat] /\ arrived'[h] \in {n, n + 1} /\ \A c \in Channels : c # h => arrived'[c] = arrived[c]
      /\ unsure' \subseteq Channels /\ unsure \subseteq unsure'
      /\ arrived'[h] = n \/ h \notin Driverless
      /\ how = "ok" => arrived'[h] = n + 1
      /\ how = "failed" => arrived'[h] = n \/ h \in unsure'
  BY <1>1, <1>2, <1>4 DEF Arrives
<1>6. n > 0 => h \in unsure /\ h \notin Driverless
  BY <1>1, <1>4 DEF SendInv, HeadServed, ChannelServed
<1> HIDE DEF h
<1>7. SendTypes'
  BY <1>1, <1>3, <1>5 DEF SendInv, SendTypes
<1>8. SendStands'
  <2>1. ASSUME NEW j \in 1..Len(queue'), NEW k \in 1..Len(queue'), queue'[j] = queue'[k] PROVE j = k
    <3>1. j + 1 \in 1..Len(queue) /\ k + 1 \in 1..Len(queue) /\ queue[j + 1] = queue[k + 1]
      BY <1>1, <2>1
    <3>2. j + 1 = k + 1
      BY <3>1 DEF SendInv, SendStands
    <3> QED
      BY <1>1, <3>2
  <2> QED
    BY <2>1 DEF SendInv, SendStands
<1>9. HeadServed'
  <2>1. ASSUME NEW k \in 1..Len(queue') PROVE arrived'[queue'[k]] = 0 /\ queue'[k] \in Channels
    <3>1. queue'[k] = queue[k + 1] /\ k + 1 \in 2..Len(queue) /\ k + 1 \in 1..Len(queue) /\ k + 1 # 1
      BY <1>1
    <3>2. queue[k + 1] # h /\ queue[k + 1] \in Channels
      BY <1>1, <3>1 DEF SendInv, SendStands, SendTypes
    <3> QED
      BY <1>5, <3>1, <3>2 DEF SendInv, HeadServed
  <2>2. queue' # <<>> => 1 \in 1..Len(queue') /\ Head(queue') = queue'[1]
    BY <1>1
  <2>3. \A k \in 2..Len(queue') : k \in 1..Len(queue')
    BY <1>1
  <2>4. \A c \in Channels : Retries[c] \in Nat
    BY NotifyAssumption
  <2> QED
    BY <1>3, <2>1, <2>2, <2>3, <2>4 DEF HeadServed
<1>10. ASSUME NEW c \in Channels PROVE ChannelServed(c)'
  <2>1. CASE c = h
    <3>1. recorded'[c] # "none" /\ ~Waiting(c)' /\ c \in plan'
      BY <1>1, <1>3, <2>1
    <3>2. arrived'[c] > 0 => c \notin Driverless
      BY <1>4, <1>5, <1>6, <2>1
    <3>3. /\ arrived'[c] > 1 => c \in unsure'
          /\ arrived'[c] <= Retries[c] + 1
          /\ recorded'[c] = "ok" => arrived'[c] > 0
          /\ recorded'[c] = "failed" /\ arrived'[c] > 0 => c \in unsure'
      BY <1>3, <1>4, <1>5, <1>6, <2>1
    <3>4. inbox' # "none"
      BY DEF SendInv, SendStands
    <3> QED
      BY <3>1, <3>2, <3>3, <3>4 DEF ChannelServed
  <2>2. CASE c # h
    <3>1. ChannelServed(c) /\ (Waiting(c)' <=> Waiting(c)) /\ recorded'[c] = recorded[c] /\ arrived'[c] = arrived[c]
      BY <1>1, <1>3, <1>5, <2>2 DEF SendInv
    <3> QED
      BY <1>5, <3>1 DEF ChannelServed
  <2> QED
    BY <2>1, <2>2
<1> QED
  BY <1>7, <1>8, <1>9, <1>10 DEF SendInv

\* The head of the queue is tried again.
LEMMA RetryIsRight ==
    ASSUME SendInv, notice = "deliver", queue # <<>>, Head(queue) \notin Driverless,
           UNCHANGED <<notice, inbox, plan, recorded, queue>>,
           attempt < Retries[Head(queue)], attempt' = attempt + 1,
           \/ UNCHANGED <<arrived, unsure>>
           \/ Arrives /\ unsure' = unsure \union {Head(queue)}
    PROVE  SendInv'
<1> DEFINE h == Head(queue)
<1>1. /\ h \in plan /\ h \in Channels /\ h = queue[1] /\ 1 \in 1..Len(queue) /\ Len(queue) \in Nat
  BY DEF SendInv, SendTypes
<1>2. PICK n \in Nat, m \in Nat, t \in Nat : n = arrived[h] /\ m = attempt /\ t = Retries[h] /\ n <= m /\ m < t
  BY <1>1, NotifyAssumption DEF SendInv, SendTypes, HeadServed
<1>3. /\ arrived' \in [Channels -> Nat] /\ arrived'[h] \in {n, n + 1} /\ \A c \in Channels : c # h => arrived'[c] = arrived[c]
      /\ unsure' \subseteq Channels /\ unsure \subseteq unsure'
      /\ arrived'[h] = n \/ h \in unsure'
      /\ attempt' = m + 1
  BY <1>1, <1>2 DEF Arrives, SendInv, SendTypes
<1>4. n > 0 => h \in unsure
  BY <1>1, <1>2 DEF SendInv, HeadServed
<1>a. h \notin Driverless
  OBVIOUS
<1>b. Waiting(h) /\ \A c : Waiting(c)' <=> Waiting(c)
  BY <1>1 DEF Waiting
<1>c. queue' = queue /\ h = Head(queue)
  OBVIOUS
<1> HIDE DEF h
<1>5. SendTypes'
  BY <1>3 DEF SendInv, SendTypes
<1>6. SendStands'
  BY DEF SendInv, SendStands
<1>7. HeadServed'
  <2>1. ASSUME NEW k \in 2..Len(queue) PROVE arrived'[queue[k]] = 0
    <3>1. k \in 1..Len(queue) /\ k # 1
      BY <1>1
    <3>2. queue[k] # h /\ queue[k] \in Channels
      BY <1>1, <3>1 DEF SendInv, SendStands, SendTypes
    <3> QED
      BY <1>3, <3>2 DEF SendInv, HeadServed
  <2>2. arrived'[h] <= attempt' /\ attempt' <= Retries[h] /\ (arrived'[h] > 0 => h \in unsure')
    BY <1>2, <1>3, <1>4
  <2> QED
    BY <1>c, <2>1, <2>2 DEF HeadServed
<1>8. ASSUME NEW c \in Channels PROVE ChannelServed(c)'
  <2>1. CASE c = h
    <3>1. ChannelServed(c) /\ Waiting(c) /\ c \in plan /\ recorded[c] = "none" /\ recorded' = recorded /\ plan' = plan
      BY <1>1, <1>b, <2>1 DEF SendInv, ChannelServed
    <3>2. arrived'[c] <= Retries[c] + 1 /\ (arrived'[c] > 0 => c \in unsure')
      BY <1>2, <1>3, <1>4, <2>1
    <3>3. inbox' # "none" /\ c \notin Driverless
      BY <1>a, <2>1 DEF SendInv, SendStands
    <3>4. arrived'[c] > 1 => arrived'[c] > 0
      BY <1>2, <1>3, <2>1
    <3> QED
      BY <1>b, <3>1, <3>2, <3>3, <3>4 DEF ChannelServed
  <2>2. CASE c # h
    <3>1. ChannelServed(c) /\ arrived'[c] = arrived[c]
      BY <1>3, <2>2 DEF SendInv
    <3> QED
      BY <1>3, <1>b, <3>1 DEF ChannelServed
  <2> QED
    BY <2>1, <2>2
<1> QED
  BY <1>5, <1>6, <1>7, <1>8 DEF SendInv

\* Every step of send.
LEMMA SendKept ==
    ASSUME SendInv, BeforeSend \/ PlanNamed \/ PlanFromConfigs \/ NoticeStored
                    \/ SkipUnknown \/ Delivered \/ DeliveryFails \/ AllServed \/ NotifyCrash \/ MarkRead
    PROVE  SendInv'
<1>a. UNCHANGED <<queue, recorded, arrived, plan, unsure, attempt>> =>
        /\ HeadServed' <=> HeadServed
        /\ \A c : Waiting(c)' <=> Waiting(c)
  BY DEF HeadServed, Waiting
<1>1. CASE BeforeSend
  BY <1>1 DEF BeforeSend, Goes, SendInv, SendTypes, SendStands, HeadServed, ChannelServed, Waiting
<1>2. CASE PlanNamed \/ PlanFromConfigs
  <2>1. PICK p \in SUBSET Channels : PlanIs(p)
    BY <1>2 DEF PlanNamed, PlanFromConfigs
  <2>2. PICK q \in SetToSeqs(p) : queue' = q
    BY <2>1 DEF PlanIs
  <2>3. notice = "plan" /\ notice' = "save" /\ plan' = p /\ UNCHANGED <<inbox, attempt, recorded, arrived, unsure>>
    BY <1>2, <2>1 DEF PlanNamed, PlanFromConfigs, Goes, PlanIs
  <2>4. /\ queue' \in Seq(p) /\ \A j, k \in 1..Len(queue') : queue'[j] = queue'[k] => j = k
        /\ \A c \in p : \E k \in 1..Len(queue') : queue'[k] = c
    BY <2>2, PlanIsQueued
  <2>5. attempt = 0 /\ \A c \in Channels : arrived[c] = 0 /\ recorded[c] = "none"
    BY <2>3 DEF SendInv, SendStands
  <2>6. \A c \in Channels : Retries[c] \in Nat
    BY NotifyAssumption
  <2>7. SendTypes'
    BY <2>3, <2>4 DEF SendInv, SendTypes
  <2>8. SendStands'
    BY <2>3, <2>4, <2>5 DEF SendStands
  <2>9. HeadServed'
    <3>1. \A k \in 1..Len(queue') : queue'[k] \in Channels
      BY <2>4
    <3>2. Len(queue') \in Nat /\ (queue' # <<>> => 1 \in 1..Len(queue') /\ Head(queue') = queue'[1])
      BY <2>4
    <3>3. \A k \in 2..Len(queue') : k \in 1..Len(queue')
      BY <3>2
    <3> QED
      BY <2>3, <2>5, <2>6, <3>1, <3>2, <3>3 DEF HeadServed
  <2>10. ASSUME NEW c \in Channels PROVE ChannelServed(c)'
    BY <2>3, <2>4, <2>5, <2>6 DEF ChannelServed, Waiting
  <2> QED
    BY <2>7, <2>8, <2>9, <2>10 DEF SendInv
<1>3. CASE NoticeStored
  BY <1>3 DEF NoticeStored, Goes, SendInv, SendTypes, SendStands, HeadServed, ChannelServed, Waiting
<1>4. CASE SkipUnknown
  BY <1>4, RecordIsRight DEF SkipUnknown
<1>5. CASE Delivered
  BY <1>5, RecordIsRight DEF Delivered
<1>6. CASE DeliveryFails
  <2>1. /\ notice = "deliver" /\ queue # <<>> /\ Head(queue) \notin Driverless
        /\ UNCHANGED <<notice, inbox, plan>>
        /\ \/ UNCHANGED <<arrived, unsure>>
           \/ Arrives /\ unsure' = unsure \union {Head(queue)}
    BY <1>6 DEF DeliveryFails
  <2>2. \/ attempt < Retries[Head(queue)] /\ attempt' = attempt + 1 /\ UNCHANGED <<recorded, queue>>
        \/ Record("failed")
    BY <1>6 DEF DeliveryFails, Retry
  <2>3. CASE Record("failed")
    BY <2>1, <2>3, RecordIsRight
  <2>4. CASE attempt < Retries[Head(queue)] /\ attempt' = attempt + 1 /\ UNCHANGED <<recorded, queue>>
    BY <2>1, <2>4, RetryIsRight
  <2> QED
    BY <2>2, <2>3, <2>4
<1>7. CASE AllServed
  BY <1>7 DEF AllServed, Goes, SendInv, SendTypes, SendStands, HeadServed, ChannelServed, Waiting
<1>8. CASE NotifyCrash
  BY <1>8 DEF NotifyCrash, Goes, SendInv, SendTypes, SendStands, HeadServed, ChannelServed, Waiting
<1>9. CASE MarkRead
  BY <1>9 DEF MarkRead, SendInv, SendTypes, SendStands, HeadServed, ChannelServed, Waiting
<1> QED
  BY <1>1, <1>2, <1>3, <1>4, <1>5, <1>6, <1>7, <1>8, <1>9

\* Every step of an edit.
LEMMA EditKept ==
    ASSUME EditInv, NEW e \in Edits,
           CreateChannel(e) \/ RemoveChannel(e) \/ ToggleChannel(e) \/ ReadAll(e) \/ WriteAll(e)
    PROVE  EditInv' /\ UNCHANGED sendVars
<1>1. ASSUME NEW a, EditGo(e, a), EditShape(a)
      PROVE  /\ edit' = [f \in Edits |-> edit'[f]] /\ \A f \in Edits : EditShape(edit'[f])
             /\ edit'[e] = a /\ \A f \in Edits : f # e => edit'[f] = edit[f]
             /\ UNCHANGED sendVars
  BY <1>1 DEF EditGo, EditInv
<1>2. ASSUME NEW is, NEW c \in Channels, NEW to \in {"absent", "on", "off"}, EditReads(e, is, c, to)
      PROVE  EditInv' /\ UNCHANGED sendVars
  <2> DEFINE a == [pc |-> "read", is |-> is, on |-> c, to |-> to]
  <2>1. EditGo(e, a) /\ EditShape(a) /\ a.pc = "read" /\ UNCHANGED <<configs, routed, clashed>>
    BY <1>2 DEF EditReads, EditShape
  <2> HIDE DEF a
  <2> QED
    BY <1>1, <2>1 DEF EditInv
<1>3. CASE CreateChannel(e)
  BY <1>2, <1>3 DEF CreateChannel
<1>4. CASE RemoveChannel(e)
  BY <1>2, <1>4 DEF RemoveChannel
<1>5. CASE ToggleChannel(e)
  BY <1>2, <1>5 DEF ToggleChannel
<1>6. CASE ReadAll(e)
  <2>1. EditShape(edit[e]) /\ edit[e].pc = "read" /\ configs \in Settings /\ Nothing \in Settings
    BY <1>6 DEF ReadAll, EditInv, Nothing, Settings
  <2>2. PICK all \in {configs, Nothing} :
          EditGo(e, IF all[edit[e].on] = "absent" /\ edit[e].is = "change"
                      THEN [pc |-> "over"]
                      ELSE [pc |-> "write", on |-> edit[e].on, to |-> edit[e].to,
                            all |-> all, blind |-> all # configs])
    BY <1>6 DEF ReadAll
  <2> DEFINE a == [pc |-> "write", on |-> edit[e].on, to |-> edit[e].to, all |-> all, blind |-> all # configs]
  <2>3. CASE EditGo(e, [pc |-> "over"])
    <3>1. EditShape([pc |-> "over"]) /\ [pc |-> "over"].pc # "write"
      BY DEF EditShape
    <3> QED
      BY <1>1, <1>6, <2>3, <3>1 DEF ReadAll, EditInv
  <2>4. CASE EditGo(e, a)
    <3>1. EditShape(a) /\ a.all = all /\ (a.blind <=> all # configs)
      BY <2>1 DEF EditShape
    <3>2. UNCHANGED <<configs, routed, clashed>>
      BY <1>6 DEF ReadAll
    <3> HIDE DEF a
    <3>3. a.blind \/ a.all = configs
      BY <3>1
    <3> QED
      BY <1>1, <2>4, <3>1, <3>2, <3>3 DEF EditInv
  <2> QED
    BY <2>2, <2>3, <2>4
<1>7. CASE WriteAll(e)
  <2>1. /\ EditShape(edit[e]) /\ edit[e].pc = "write"
        /\ edit[e].on \in Channels /\ edit[e].to \in {"absent", "on", "off"} /\ edit[e].all \in Settings
    BY <1>7 DEF WriteAll, EditInv, EditShape
  <2>2. /\ configs' = [edit[e].all EXCEPT ![edit[e].on] = edit[e].to]
        /\ routed'  = [routed EXCEPT ![edit[e].on] = edit[e].to]
        /\ EditGo(e, [pc |-> "over"])
    BY <1>7 DEF WriteAll
  <2>3. EditShape([pc |-> "over"]) /\ [pc |-> "over"].pc # "write"
    BY DEF EditShape
  <2>4. ~clashed' => ~clashed /\ ~edit[e].blind /\ \A f \in Edits : f # e => edit[f].pc # "write"
    BY <1>7 DEF WriteAll
  <2>5. clashed' \in BOOLEAN
    BY <1>7 DEF WriteAll
  <2>6. configs' \in Settings /\ routed' \in Settings
    BY <2>1, <2>2 DEF EditInv, Settings
  <2>7. ~clashed' => configs' = routed'
    BY <2>1, <2>2, <2>4 DEF EditInv
  <2>8. /\ edit' = [f \in Edits |-> edit'[f]] /\ \A f \in Edits : EditShape(edit'[f])
        /\ edit'[e].pc = "over" /\ \A f \in Edits : f # e => edit'[f] = edit[f]
        /\ UNCHANGED sendVars
    BY <1>1, <2>2, <2>3
  <2> QED
    BY <2>4, <2>5, <2>6, <2>7, <2>8 DEF EditInv
<1> QED
  BY <1>3, <1>4, <1>5, <1>6, <1>7

\* One step keeps the invariant: a send leaves the settings, an edit the notice.
LEMMA NotifyKept == NotifyInv /\ [NotifyNext]_notifyVars => NotifyInv'
<1> SUFFICES ASSUME NotifyInv, [NotifyNext]_notifyVars PROVE NotifyInv'
  OBVIOUS
<1>1. UNCHANGED sendVars => SendInv'
  BY DEF sendVars, NotifyInv, SendInv, SendTypes, SendStands, HeadServed, ChannelServed, Waiting
<1>2. UNCHANGED configVars => EditInv'
  BY DEF configVars, NotifyInv, EditInv
<1>3. CASE BeforeSend \/ PlanNamed \/ PlanFromConfigs \/ NoticeStored
           \/ SkipUnknown \/ Delivered \/ DeliveryFails \/ AllServed \/ NotifyCrash \/ MarkRead
  <2>1. SendInv'
    BY <1>3, SendKept DEF NotifyInv
  <2>2. UNCHANGED configVars
    BY <1>3 DEF BeforeSend, PlanNamed, PlanFromConfigs, NoticeStored, SkipUnknown, Delivered, DeliveryFails,
                AllServed, NotifyCrash, MarkRead, Goes
  <2> QED
    BY <1>2, <2>1, <2>2 DEF NotifyInv
<1>4. ASSUME NEW e \in Edits,
             CreateChannel(e) \/ RemoveChannel(e) \/ ToggleChannel(e) \/ ReadAll(e) \/ WriteAll(e)
      PROVE  NotifyInv'
  BY <1>1, <1>4, EditKept DEF NotifyInv
<1>5. CASE UNCHANGED notifyVars
  <2>1. UNCHANGED sendVars /\ UNCHANGED configVars
    BY <1>5 DEF notifyVars, sendVars, configVars
  <2> QED
    BY <1>1, <1>2, <2>1 DEF NotifyInv
<1> QED
  BY <1>3, <1>4, <1>5 DEF NotifyNext

\* For every number of channels, drivers, retries and edits: nothing leaves the house
\* that is not in the table, no channel gets more than its retries allow or, without
\* saying that it failed, more than once, every channel of the plan has the record it
\* should have, and the settings are what the edits ask for unless two of them clashed.
\* (NotificationManager.send, withDeliveryRetry, createChannelConfigStore)
THEOREM NoticesAccounted == NotifySpec => [](NotifyTypeOK /\ NoticeAccounted)
<1> QED
  BY NotifyInitHolds, NotifyKept, NotifyInvHolds, PTL DEF NotifySpec

-----------------------------------------------------------------------------
(* LlmGateway *)

\* The least of some numbers is one of them.
LEMMA MinIsLeast ==
    ASSUME NEW S, S \subseteq Nat, S # {}
    PROVE  Min(S) \in S /\ \A x \in S : Min(S) <= x
<1>1. \E m \in S : \A n \in S : m <= n
  BY LeastNat
<1> QED
  BY <1>1, Zenon DEF Min

\* The power set of n things has 2^n members, so that 2^n is a positive number.
LEMMA PowerPositive == ASSUME NEW n \in Nat PROVE 2^n \in Nat /\ 2^n >= 1
<1>1. IsFiniteSet(1..n) /\ Cardinality(1..n) = n
  BY FS_Interval
<1>2. IsFiniteSet(SUBSET (1..n)) /\ Cardinality(SUBSET (1..n)) = 2^n
  BY <1>1, FS_SUBSET
<1>3. Cardinality(SUBSET (1..n)) \in Nat /\ (Cardinality(SUBSET (1..n)) = 0 <=> SUBSET (1..n) = {})
  BY <1>2, FS_CardinalityType, FS_EmptySet
<1>4. SUBSET (1..n) # {}
  OBVIOUS
<1> DEFINE k == Cardinality(SUBSET (1..n))
<1>5. k \in Nat /\ k # 0
  BY <1>3, <1>4
<1> HIDE DEF k
<1>6. k >= 1
  BY <1>5
<1> QED
  BY <1>2, <1>5, <1>6 DEF k

\* A cooldown is at least the first one and at most the longest.
LEMMA CooldownBounds ==
    ASSUME NEW n \in Nat
    PROVE  Min({BaseCooldown * 2^n, MaxCooldown}) \in BaseCooldown..MaxCooldown
<1>1. PICK b, m \in Nat : b = BaseCooldown /\ m = MaxCooldown /\ b <= m
  BY LlmAssumption
<1>2. PICK k \in Nat : k = 2^n /\ k >= 1
  BY PowerPositive
<1>3. b * k \in Nat /\ b * k >= b
  <2>1. PICK j \in Nat : k = j + 1
    BY <1>2
  <2>2. b * k = b * j + b /\ b * j \in Nat
    BY <2>1
  <2> QED
    BY <2>2
<1>4. PICK c \in Nat : c = b * k
  BY <1>3
<1>5. Min({c, m}) \in {c, m} /\ Min({c, m}) <= c /\ Min({c, m}) <= m
  BY MinIsLeast
<1>6. Min({c, m}) \in b..m
  BY <1>1, <1>3, <1>4, <1>5
<1> QED
  BY <1>1, <1>2, <1>4, <1>6

\* A request: the providers that it may try, the one that it has come to, and what it
\* was told when it came in.
AskStates ==
    [pc : {"try", "wait", "stream", "answered", "failed", "rejected", "broken"},
     from : SUBSET DOMAIN Provided, at : DOMAIN Provided, ha : BOOLEAN, stream : BOOLEAN,
     start : DOMAIN Provided, open : SUBSET ProviderNames]

AskSound(a) ==
    \/ a.pc \in {"new", "unknown"} /\ a = [pc |-> a.pc]
    \/ /\ a \in AskStates
       /\ a.at \in a.from
       /\ a.ha /\ a.open # ProviderNames => \A i \in a.from : Provided[i] \notin a.open
       /\ a.pc = "failed" /\ a.ha => \A i \in a.from : i <= a.at
       /\ ~a.ha => a.at = a.start

\* A provider's record: how often it failed since its last success, and when last.
HealthSound(p) ==
    /\ outcomes[p] \in Seq(1..MaxTicks) /\ streak[p] = Len(outcomes[p]) /\ coolUntil[p] \in Nat
    /\ coolUntil[p] # 0 => Len(outcomes[p]) >= Threshold
    /\ Len(outcomes[p]) >= Threshold =>
         coolUntil[p] \in Last(outcomes[p]) + BaseCooldown .. Last(outcomes[p]) + MaxCooldown

LlmInv ==
    /\ ask = [r \in Asks |-> ask[r]] /\ \A r \in Asks : AskSound(ask[r])
    /\ streak = [p \in ProviderNames |-> streak[p]]
    /\ coolUntil = [p \in ProviderNames |-> coolUntil[p]]
    /\ outcomes = [p \in ProviderNames |-> outcomes[p]]
    /\ \A p \in ProviderNames : HealthSound(p)
    /\ ticks \in 1..MaxTicks

\* The invariant is strong enough.
LEMMA LlmInvHolds == LlmInv => LlmTypeOK /\ BreakerHolds
<1> SUFFICES ASSUME LlmInv PROVE LlmTypeOK /\ BreakerHolds
  OBVIOUS
<1>1. LlmTypeOK
  <2>1. \A r \in Asks : ask[r].pc \in {"new", "unknown", "try", "wait", "stream", "answered",
                                       "failed", "rejected", "broken"}
    BY DEF LlmInv, AskSound, AskStates
  <2>2. \A p \in ProviderNames : streak[p] \in Nat /\ coolUntil[p] \in Nat /\ outcomes[p] \in Seq(1..MaxTicks)
    BY DEF LlmInv, HealthSound
  <2>3. /\ streak \in [ProviderNames -> Nat] /\ coolUntil \in [ProviderNames -> Nat]
        /\ outcomes \in [ProviderNames -> Seq(1..MaxTicks)]
    BY <2>2 DEF LlmInv
  <2> QED
    BY <2>1, <2>3 DEF LlmTypeOK, LlmInv
<1>2. ASSUME NEW r \in Asks, "from" \in DOMAIN ask[r]
      PROVE  /\ ask[r].ha /\ ask[r].open # ProviderNames => Asked(r) \notin ask[r].open
             /\ ask[r].pc = "failed" /\ ask[r].ha => \A i \in ask[r].from : i <= ask[r].at
             /\ ~ask[r].ha => ask[r].at = ask[r].start
  <2>1. AskSound(ask[r])
    BY DEF LlmInv
  <2> QED
    BY <1>2, <2>1 DEF AskSound, Asked
<1> QED
  BY <1>1, <1>2 DEF BreakerHolds, LlmInv, HealthSound

\* The places of the chain.
LEMMA PlacesAreNumbers == DOMAIN Provided \subseteq Nat /\ \A i \in DOMAIN Provided : Provided[i] \in ProviderNames
  BY LlmAssumption

\* With ha a chain holds no provider that cools down, unless all of them do.
LEMMA CandidatesAreUp ==
    ASSUME NEW ha \in BOOLEAN
    PROVE  /\ Candidates(ha) \subseteq DOMAIN Provided
           /\ ha /\ CoolingDown # ProviderNames => \A i \in Candidates(ha) : Provided[i] \notin CoolingDown
<1>1. ASSUME CoolingDown # ProviderNames
      PROVE  {i \in DOMAIN Provided : Provided[i] \notin CoolingDown} # {}
  <2>1. PICK p \in ProviderNames : p \notin CoolingDown
    BY <1>1 DEF CoolingDown
  <2>2. PICK i \in DOMAIN Provided : Provided[i] = p
    BY <2>1 DEF ProviderNames, ToSet
  <2> QED
    BY <2>1, <2>2
<1> QED
  BY <1>1 DEF Candidates

\* A request that is changed leaves the others alone.
LEMMA AskMoves ==
    ASSUME LlmInv, NEW r \in Asks, NEW a, AskGo(r, a), AskSound(a)
    PROVE  ask' = [q \in Asks |-> ask'[q]] /\ \A q \in Asks : AskSound(ask'[q])
  BY DEF LlmInv, AskGo

\* What a request becomes when only where it stands changes.
LEMMA AskGoesOn ==
    ASSUME NEW a, AskSound(a), a.pc \notin {"new", "unknown"},
           NEW pc \in {"wait", "stream", "answered", "rejected", "broken"}
    PROVE  AskSound([a EXCEPT !.pc = pc])
<1> DEFINE b == [a EXCEPT !.pc = pc]
<1>1. a \in AskStates
  BY DEF AskSound
<1>2. /\ b \in AskStates /\ b.pc = pc /\ b.from = a.from /\ b.at = a.at /\ b.ha = a.ha
      /\ b.open = a.open /\ b.start = a.start
  BY <1>1 DEF AskStates
<1> HIDE DEF b
<1>3. AskSound(b)
  BY <1>2 DEF AskSound
<1> QED
  BY <1>3 DEF b

\* A failure leads to the next place of the chain, or ends the request with none left.
LEMMA NextIsSound ==
    ASSUME LlmInv, NEW r \in Asks, ask[r].pc \in {"try", "wait"}, TryNext(r)
    PROVE  ask' = [q \in Asks |-> ask'[q]] /\ \A q \in Asks : AskSound(ask'[q])
<1> DEFINE a == ask[r]
           behind == {i \in a.from : i > a.at}
<1>1. a \in AskStates /\ AskSound(a) /\ a.pc \notin {"new", "unknown"}
  BY DEF LlmInv, AskSound
<1>2. /\ a.from \subseteq DOMAIN Provided /\ a.at \in DOMAIN Provided /\ a.at \in a.from
      /\ a.ha /\ a.open # ProviderNames => \A i \in a.from : Provided[i] \notin a.open
      /\ ~a.ha => a.at = a.start
  BY <1>1 DEF AskSound, AskStates
<1>3. CASE a.ha /\ behind # {}
  <2> DEFINE b == [a EXCEPT !.at = Min(behind), !.pc = "try"]
  <2>1. Min(behind) \in behind
    BY <1>2, <1>3, PlacesAreNumbers, MinIsLeast
  <2>2. /\ b \in AskStates /\ b.pc = "try" /\ b.from = a.from /\ b.at \in a.from /\ b.ha = a.ha
        /\ b.open = a.open
    BY <1>1, <1>2, <2>1 DEF AskStates
  <2>3. AskGo(r, b)
    BY <1>3 DEF TryNext
  <2> HIDE DEF b
  <2>4. AskSound(b)
    BY <1>2, <1>3, <2>2 DEF AskSound
  <2> QED
    BY <2>3, <2>4, AskMoves
<1>4. CASE ~(a.ha /\ behind # {})
  <2> DEFINE b == [a EXCEPT !.pc = "failed"]
  <2>1. /\ b \in AskStates /\ b.pc = "failed" /\ b.from = a.from /\ b.at = a.at /\ b.ha = a.ha
        /\ b.open = a.open /\ b.start = a.start
    BY <1>1 DEF AskStates
  <2>2. AskGo(r, b)
    BY <1>4 DEF TryNext
  <2>3. a.ha => \A i \in a.from : i <= a.at
    BY <1>2, <1>4, PlacesAreNumbers
  <2> HIDE DEF b
  <2>4. AskSound(b)
    BY <1>2, <2>1, <2>3 DEF AskSound
  <2> QED
    BY <2>2, <2>4, AskMoves
<1> QED
  BY <1>3, <1>4

\* A request that comes in.
LEMMA ChatIsSound ==
    ASSUME LlmInv, NEW r \in Asks, NEW m, NEW ha \in BOOLEAN, NEW stream \in BOOLEAN, Chat(r, m, ha, stream)
    PROVE  ask' = [q \in Asks |-> ask'[q]] /\ \A q \in Asks : AskSound(ask'[q])
<1> DEFINE from  == Candidates(ha)
           hits  == {i \in from : m \in ModelsOf[Provided[i]]}
           start == Min(IF hits = {} THEN from ELSE hits)
<1>1. CASE hits = {} /\ (~ha \/ from = {})
  <2>1. AskGo(r, [pc |-> "unknown"])
    BY <1>1 DEF Chat
  <2>2. AskSound([pc |-> "unknown"])
    BY DEF AskSound
  <2> QED
    BY <2>1, <2>2, AskMoves
<1>2. CASE ~(hits = {} /\ (~ha \/ from = {}))
  <2> DEFINE a == [pc |-> "try", from |-> from, at |-> start, ha |-> ha, stream |-> stream,
                   start |-> start, open |-> CoolingDown]
  <2>1. from \subseteq DOMAIN Provided
    BY CandidatesAreUp
  <2>2. start \in from
    BY <1>2, <2>1, PlacesAreNumbers, MinIsLeast
  <2>3. ha /\ CoolingDown # ProviderNames => \A i \in from : Provided[i] \notin CoolingDown
    BY CandidatesAreUp
  <2>4. AskGo(r, a)
    BY <1>2 DEF Chat
  <2>5. CoolingDown \subseteq ProviderNames
    BY DEF CoolingDown
  <2> HIDE DEF from, start
  <2>6. /\ a \in AskStates /\ a.pc = "try" /\ a.from = from /\ a.at = start /\ a.start = start /\ a.ha = ha
        /\ a.open = CoolingDown
    BY <2>1, <2>2, <2>5 DEF AskStates
  <2> HIDE DEF a
  <2>7. AskSound(a)
    BY <2>2, <2>3, <2>6 DEF AskSound
  <2> QED
    BY <2>4, <2>7, AskMoves
<1> QED
  BY <1>1, <1>2

HealthInv ==
    /\ streak = [p \in ProviderNames |-> streak[p]]
    /\ coolUntil = [p \in ProviderNames |-> coolUntil[p]]
    /\ outcomes = [p \in ProviderNames |-> outcomes[p]]
    /\ \A p \in ProviderNames : HealthSound(p)

\* A success forgets the failures.
LEMMA SuccessIsSound ==
    ASSUME LlmInv, NEW p \in ProviderNames, RecordSuccess(p)
    PROVE  HealthInv'
<1>1. streak'[p] = 0 /\ coolUntil'[p] = 0 /\ outcomes'[p] = <<>>
  BY DEF RecordSuccess, LlmInv
<1>2. \A q \in ProviderNames : q # p => streak'[q] = streak[q] /\ coolUntil'[q] = coolUntil[q] /\ outcomes'[q] = outcomes[q]
  BY DEF RecordSuccess, LlmInv
<1>3. PICK t \in Nat : t = Threshold /\ t # 0
  BY LlmAssumption
<1>4. HealthSound(p)'
  BY <1>1, <1>3 DEF HealthSound
<1>5. ASSUME NEW q \in ProviderNames, q # p PROVE HealthSound(q)'
  BY <1>2, <1>5 DEF HealthSound, LlmInv
<1>6. /\ streak' = [q \in ProviderNames |-> streak'[q]]
      /\ coolUntil' = [q \in ProviderNames |-> coolUntil'[q]]
      /\ outcomes' = [q \in ProviderNames |-> outcomes'[q]]
  BY DEF RecordSuccess, LlmInv
<1> QED
  BY <1>4, <1>5, <1>6 DEF HealthInv

\* A failure is counted, and from the Threshold on the provider rests.
LEMMA FailureIsSound ==
    ASSUME LlmInv, NEW p \in ProviderNames, MarkFailure(p)
    PROVE  HealthInv'
<1>1. HealthSound(p)
  BY DEF LlmInv
<1>2. PICK n \in Nat, t \in Nat, k \in Nat :
          /\ n = Len(outcomes[p]) /\ n = streak[p] /\ t = Threshold /\ k = ticks /\ k \in 1..MaxTicks /\ t # 0
  BY <1>1, LlmAssumption DEF HealthSound, LlmInv
<1>3. /\ streak'[p] = n + 1 /\ outcomes'[p] = Append(outcomes[p], k)
      /\ \A q \in ProviderNames : q # p => streak'[q] = streak[q] /\ coolUntil'[q] = coolUntil[q] /\ outcomes'[q] = outcomes[q]
  BY <1>2 DEF MarkFailure, LlmInv
<1>4. /\ outcomes'[p] \in Seq(1..MaxTicks) /\ Len(outcomes'[p]) = n + 1 /\ Last(outcomes'[p]) = k
  BY <1>1, <1>2, <1>3 DEF HealthSound, Last
<1>5. HealthSound(p)'
  <2>1. CASE n + 1 < t
    <3>1. coolUntil'[p] = coolUntil[p]
      BY <1>2, <2>1 DEF MarkFailure
    <3> QED
      BY <1>1, <1>2, <1>3, <1>4, <2>1, <3>1 DEF HealthSound
  <2>2. CASE ~(n + 1 < t)
    <3>1. (streak[p] + 1) - Threshold \in Nat /\ ~(streak[p] + 1 < Threshold)
      BY <1>2, <2>2
    <3>2. PICK c \in BaseCooldown..MaxCooldown :
              c = Min({BaseCooldown * 2^((streak[p] + 1) - Threshold), MaxCooldown})
      BY <3>1, CooldownBounds
    <3>3. coolUntil'[p] = k + c
      <4>1. coolUntil' = [coolUntil EXCEPT ![p] = ticks + c]
        BY <3>1, <3>2, Zenon DEF MarkFailure
      <4> QED
        BY <1>2, <4>1 DEF LlmInv
    <3>4. PICK b \in Nat, m \in Nat : b = BaseCooldown /\ m = MaxCooldown
      BY LlmAssumption
    <3>5. k + c \in Nat /\ k + c \in k + b .. k + m
      BY <1>2, <3>2, <3>4
    <3> QED
      BY <1>2, <1>3, <1>4, <2>2, <3>3, <3>4, <3>5 DEF HealthSound
  <2> QED
    BY <2>1, <2>2
<1>6. ASSUME NEW q \in ProviderNames, q # p PROVE HealthSound(q)'
  BY <1>3, <1>6 DEF HealthSound, LlmInv
<1>7. /\ streak' = [q \in ProviderNames |-> streak'[q]]
      /\ coolUntil' = [q \in ProviderNames |-> coolUntil'[q]]
      /\ outcomes' = [q \in ProviderNames |-> outcomes'[q]]
  BY DEF MarkFailure, LlmInv
<1> QED
  BY <1>5, <1>6, <1>7 DEF HealthInv

\* One step keeps the invariant.
LEMMA LlmKept == LlmInv /\ [LlmNext]_llmVars => LlmInv'
<1> SUFFICES ASSUME LlmInv, [LlmNext]_llmVars PROVE LlmInv'
  OBVIOUS
<1> DEFINE AskInv == ask = [q \in Asks |-> ask[q]] /\ \A q \in Asks : AskSound(ask[q])
<1>1. ASSUME AskInv', HealthInv', ticks' \in 1..MaxTicks PROVE LlmInv'
  BY <1>1 DEF HealthInv, LlmInv
<1>2. AskInv /\ HealthInv /\ ticks \in 1..MaxTicks
  BY DEF LlmInv, HealthInv
<1> HIDE DEF AskInv
<1>3. ASSUME Unrecorded PROVE HealthInv'
  BY <1>2, <1>3 DEF Unrecorded, HealthInv, HealthSound
<1>4. ASSUME NEW r \in Asks, ask[r].pc \in {"try", "wait", "stream"} PROVE Asked(r) \in ProviderNames
  BY <1>4, PlacesAreNumbers DEF LlmInv, AskSound, AskStates, Asked
<1>5. ASSUME NEW r \in Asks, ask[r].pc \in {"try", "wait", "stream"},
             NEW pc \in {"wait", "stream", "answered", "rejected", "broken"}, AskGo(r, [ask[r] EXCEPT !.pc = pc])
      PROVE  AskInv'
  <2>1. AskSound(ask[r])
    BY DEF LlmInv
  <2>2. AskSound([ask[r] EXCEPT !.pc = pc])
    BY <1>5, <2>1, AskGoesOn
  <2> QED
    BY <1>5, <2>2, AskMoves DEF AskInv
<1>6. ASSUME NEW r \in Asks, NEW m \in Wanted, NEW ha \in BOOLEAN, NEW stream \in BOOLEAN, Chat(r, m, ha, stream)
      PROVE  LlmInv'
  <2>1. AskInv'
    BY <1>6, ChatIsSound DEF AskInv
  <2> QED
    BY <1>1, <1>2, <1>3, <1>6, <2>1 DEF Chat
<1>7. ASSUME NEW r \in Asks, NotConfigured(r) PROVE LlmInv'
  <2>1. AskInv'
    BY <1>7, NextIsSound DEF AskInv, NotConfigured
  <2> QED
    BY <1>1, <1>2, <1>3, <1>7, <2>1 DEF NotConfigured
<1>8. ASSUME NEW r \in Asks, AttemptChat(r) PROVE LlmInv'
  <2>1. AskInv'
    BY <1>5, <1>8 DEF AttemptChat
  <2> QED
    BY <1>1, <1>2, <1>3, <1>8, <2>1 DEF AttemptChat
<1>9. ASSUME NEW r \in Asks, Answered(r) PROVE LlmInv'
  <2>1. AskInv'
    BY <1>5, <1>9 DEF Answered
  <2>2. HealthInv'
    BY <1>4, <1>9, SuccessIsSound DEF Answered
  <2> QED
    BY <1>1, <1>2, <1>9, <2>1, <2>2 DEF Answered
<1>10. ASSUME NEW r \in Asks, ProviderFails(r) PROVE LlmInv'
  <2>1. AskInv'
    BY <1>10, NextIsSound DEF AskInv, ProviderFails
  <2>2. HealthInv'
    BY <1>4, <1>10, FailureIsSound DEF ProviderFails
  <2> QED
    BY <1>1, <1>2, <1>10, <2>1, <2>2 DEF ProviderFails
<1>11. ASSUME NEW r \in Asks, ParamRejected(r) PROVE LlmInv'
  <2>1. AskInv'
    BY <1>5, <1>11 DEF ParamRejected
  <2> QED
    BY <1>1, <1>2, <1>3, <1>11, <2>1 DEF ParamRejected
<1>12. ASSUME NEW r \in Asks, StreamBreaks(r) PROVE LlmInv'
  <2>1. AskInv'
    BY <1>5, <1>12 DEF StreamBreaks
  <2>2. HealthInv'
    BY <1>3, <1>4, <1>12, FailureIsSound DEF StreamBreaks
  <2> QED
    BY <1>1, <1>2, <1>12, <2>1, <2>2 DEF StreamBreaks
<1>13. CASE Tick
  <2>1. ticks' \in 1..MaxTicks
    BY <1>2, <1>13, LlmAssumption DEF Tick
  <2>2. AskInv'
    BY <1>2, <1>13 DEF Tick, AskInv
  <2> QED
    BY <1>1, <1>3, <1>13, <2>1, <2>2 DEF Tick
<1>14. CASE UNCHANGED llmVars
  <2>1. AskInv'
    BY <1>2, <1>14 DEF llmVars, AskInv
  <2> QED
    BY <1>1, <1>2, <1>3, <1>14, <2>1 DEF llmVars, Unrecorded
<1> QED
  BY <1>6, <1>7, <1>8, <1>9, <1>10, <1>11, <1>12, <1>13, <1>14 DEF LlmNext

\* Before the first request.
LEMMA LlmInitHolds == LlmInit => LlmInv
<1> SUFFICES ASSUME LlmInit PROVE LlmInv
  OBVIOUS
<1>1. \A r \in Asks : ask[r] = [pc |-> "new"]
  BY DEF LlmInit
<1>2. \A r \in Asks : AskSound(ask[r])
  BY <1>1 DEF AskSound
<1>3. PICK t \in Nat : t = Threshold /\ t # 0
  BY LlmAssumption
<1>4. \A p \in ProviderNames : HealthSound(p)
  BY <1>3 DEF LlmInit, HealthSound
<1>5. ticks \in 1..MaxTicks
  BY LlmAssumption DEF LlmInit
<1> QED
  BY <1>2, <1>4, <1>5 DEF LlmInit, LlmInv

\* However many requests overlap, over whatever providers and models: a provider rests
\* exactly from its Threshold-th failure since its last success, never longer than
\* MaxCooldown; with ha none that rested when a request came in is asked while another
\* did not, and a request is given up only at the end of its chain.  (LlmGateway.chat,
\* runFailover, ProviderHealthRegistry)
THEOREM BreakersHold == LlmSpec => [](LlmTypeOK /\ BreakerHolds)
<1> QED
  BY LlmInitHolds, LlmKept, LlmInvHolds, PTL DEF LlmSpec

-----------------------------------------------------------------------------
(* Accounts *)

OfLogin   == {"password", "issue"}
OfTicket  == {"second", "code", "enroll", "bind", "burn", "issue"}
OfSession == {"logout", "change", "others", "disable", "unbind", "key", "revoke"}
OfOwner   == {"first", "owner", "again", "reset", "sessions", "keys", "tickets", "welcome"}
OfDelete  == {"count", "sessions", "keys", "row"}

\* What a request carries with it.
AuthShape(r) ==
    \/ r = Resting
    \/ /\ r.user \in Accts
       /\ \/ r.pc \in OfLogin /\ "bound" \in DOMAIN r /\ r = [pc |-> r.pc, user |-> r.user, bound |-> r.bound, of |-> r.of]
          \/ r.pc \in OfTicket /\ "ticket" \in DOMAIN r /\ r = [pc |-> r.pc, ticket |-> r.ticket, user |-> r.user, of |-> r.of]
          \/ r.pc \in OfSession /\ r = [pc |-> r.pc, session |-> r.session, user |-> r.user, of |-> r.of]
          \/ r.pc \in OfOwner /\ "of" \in DOMAIN r /\ r = [pc |-> r.pc, user |-> r.user, of |-> r.of, end |-> "tickets"]
          \/ r.pc = "create" /\ r.role \in {"admin", "normal"} /\ r = [pc |-> r.pc, user |-> r.user, role |-> r.role]
          \/ r.pc \in {"count", "demote"} /\ r = [pc |-> r.pc, user |-> r.user, then |-> "demote"]
          \/ r.pc = "promote" /\ r = [pc |-> r.pc, user |-> r.user]
          \/ r.pc \in OfDelete /\ r = [pc |-> r.pc, user |-> r.user, then |-> "sessions", end |-> "row"]

KeyShape(k) == k = [state |-> k.state] \/ k = [state |-> k.state, of |-> k.of, late |-> k.late]

AuthTypes ==
    /\ authOp = [o \in AuthOps |-> authOp[o]]
    /\ \A o \in AuthOps : AuthShape(authOp[o])
    /\ asked \in 0 .. MaxAsked

RowTypes ==
    /\ role \in [Accts -> {"none", "admin", "normal", "gone"}]
    /\ bound = [u \in Accts |-> bound[u]] /\ sessions = [s \in Slots |-> sessions[s]]
    /\ keyRow = [u \in Accts |-> keyRow[u]] /\ tickets = [k \in Tickets |-> tickets[k]]
    /\ \A u \in Accts : keyRow[u].state \in {"none", "live", "revoked"} /\ KeyShape(keyRow[u])
    /\ \A s \in Slots : Held(sessions[s]) => sessions[s].user \in Accts
    /\ \A k \in Tickets : Held(tickets[k]) => tickets[k].user \in Accts /\ tickets[k].kind \in {"enr", "mfa"}
    /\ generation \in [Accts -> 0 .. MaxResets] /\ headless \in BOOLEAN

\* A user that a request is about to change or to delete has a row, or had one.
TargetsKnown ==
    \A o \in AuthOps :
       authOp[o].pc \in {"count", "demote", "promote", "reset", "sessions", "keys", "tickets", "row"}
       => role[Target(o)] # "none"

\* A request that makes administrators fewer leaves another one, unless two overlapped.
OneIsLeft ==
    ~headless => \A o \in AuthOps : Lowering(o) /\ Target(o) \in Admins => Admins \ {Target(o)} # {}

\* What a recovery or a deletion has passed holds only what was written since.
SessionsPassed(o) ==
    \A s \in Slots : Held(sessions[s]) /\ sessions[s].user = Target(o) => sessions[s].late
KeyPassed(o) == keyRow[Target(o)].state = "live" => keyRow[Target(o)].late
WipedSoFar ==
    \A o \in AuthOps :
       /\ authOp[o].pc \in {"keys", "tickets", "row"} => SessionsPassed(o)
       /\ authOp[o].pc \in {"tickets", "row"} => KeyPassed(o)

\* The parts of AccountsAgree; a token in memory may outlive a user who is gone for good.
Led      == Present # {} => Admins # {} \/ headless
OwnNames == \A u \in Present : Named(u) = {u}
Pardoned(u)  == Wiping(u) \/ u \in cutOff
Fits(u, row) == (u \in Present /\ row.of = generation[u]) \/ row.late \/ Pardoned(u)
RowsFit ==
    /\ \A s \in Slots : Held(sessions[s]) => Fits(sessions[s].user, sessions[s])
    /\ \A u \in Accts : keyRow[u].state = "live" => Fits(u, keyRow[u])
    /\ \A k \in Tickets : Held(tickets[k]) =>
         role[tickets[k].user] = "gone" \/ Fits(tickets[k].user, tickets[k])
SecretsFit == \A u \in Accts : bound[u] # Unbound => bound[u].late \/ bound[u].of = generation[u]

AccountsInv ==
    /\ AuthTypes /\ RowTypes /\ TargetsKnown /\ OneIsLeft /\ WipedSoFar
    /\ Led /\ OwnNames /\ RowsFit /\ SecretsFit

\* The invariant is strong enough.
LEMMA AccountsInvHolds == AccountsInv => AccountsTypeOK /\ AccountsAgree
<1>1. AccountsInv => AccountsTypeOK
  BY DEF AccountsInv, AccountsTypeOK, AuthTypes, RowTypes
<1>2. AccountsInv => AccountsAgree
  BY DEF AccountsInv, AccountsAgree, RowTypes, Led, OwnNames, RowsFit, SecretsFit, Fits, Pardoned, Present
<1> QED BY <1>1, <1>2

-----------------------------------------------------------------------------

Wipes == {"sessions", "keys", "row", "tickets"}

\* A row that was just written is late, or fits a user whose rows nobody is wiping.
Minted(u, row) == row.late \/ (u \in Present /\ ~Wiping(u) /\ row.of = generation[u])

RowsMove ==
    /\ \A s \in Slots : \/ sessions'[s] = sessions[s] \/ ~Held(sessions'[s])
                        \/ Minted(sessions'[s].user, sessions'[s])
    /\ \A u \in Accts : \/ keyRow'[u] = keyRow[u] \/ keyRow'[u].state # "live"
                        \/ Minted(u, keyRow'[u])
    /\ \A k \in Tickets : \/ tickets'[k] = tickets[k] \/ ~Held(tickets'[k])
                          \/ Minted(tickets'[k].user, tickets'[k])

\* Nothing of a user but what was written late.
Clean(u) ==
    /\ \A s \in Slots : Held(sessions[s]) /\ sessions[s].user = u => sessions[s].late
    /\ keyRow[u].state = "live" => keyRow[u].late
    /\ \A k \in Tickets : Held(tickets[k]) /\ tickets[k].user = u => role[u] = "gone" \/ tickets[k].late

Steady(u) ==
    \/ Pardoned(u)' \/ Clean(u)'
    \/ /\ ~Pardoned(u)
       /\ u \in Present => u \in Present' /\ generation'[u] = generation[u]
       /\ role[u] = "gone" => role'[u] = "gone"

\* A row that fitted its account fits it unless the account is wiped clean, and a new one fits.
LEMMA FitsKept ==
    ASSUME AccountsInv, RowTypes', RowsMove, \A u \in Accts : Steady(u)
    PROVE  RowsFit'
<1>1. \A u \in Accts : \A row : Minted(u, row) => Fits(u, row)
  BY DEF Minted, Fits
<1>2. ASSUME NEW u \in Accts, NEW row, Fits(u, row), ~Clean(u)' PROVE Fits(u, row)'
  BY <1>2 DEF Steady, Fits
<1>3. ASSUME NEW s \in Slots, Held(sessions[s])' PROVE Fits(sessions[s].user, sessions[s])'
  <2>1. sessions'[s].user \in Accts BY <1>3 DEF RowTypes
  <2>2. Clean(sessions[s].user)' => sessions'[s].late BY <1>3 DEF Clean
  <2>3. Fits(sessions'[s].user, sessions'[s])
    BY <1>1, <1>3, <2>1 DEF RowsMove, AccountsInv, RowsFit
  <2> QED BY <2>1, <2>2, <2>3, \A u \in Accts : Steady(u) DEF Fits, Steady
<1>4. ASSUME NEW u \in Accts, keyRow'[u].state = "live" PROVE Fits(u, keyRow[u])'
  <2>1. Clean(u)' => keyRow'[u].late BY <1>4 DEF Clean
  <2>2. Fits(u, keyRow'[u])
    BY <1>1, <1>4 DEF RowsMove, AccountsInv, RowsFit
  <2> QED BY <2>1, <2>2, \A v \in Accts : Steady(v) DEF Fits, Steady
<1>5. ASSUME NEW k \in Tickets, Held(tickets[k])'
      PROVE  role'[tickets'[k].user] = "gone" \/ Fits(tickets[k].user, tickets[k])'
  <2>1. tickets'[k].user \in Accts BY <1>5 DEF RowTypes
  <2>2. Clean(tickets[k].user)' => role'[tickets'[k].user] = "gone" \/ tickets'[k].late BY <1>5 DEF Clean
  <2>3. role[tickets'[k].user] = "gone" \/ Fits(tickets'[k].user, tickets'[k])
    BY <1>1, <1>5, <2>1 DEF RowsMove, AccountsInv, RowsFit
  <2> QED BY <2>1, <2>2, <2>3, \A u \in Accts : Steady(u) DEF Fits, Steady
<1> QED BY <1>3, <1>4, <1>5 DEF RowsFit

\* One request moves on, the others stay.
LEMMA AuthMoved ==
    ASSUME AccountsInv, NEW o \in AuthOps, NEW op, AuthGo(o, op), AuthShape(op), asked' \in 0 .. MaxAsked
    PROVE  AuthTypes' /\ authOp'[o] = op /\ \A p \in AuthOps : p # o => authOp'[p] = authOp[p]
<1>1. /\ authOp' = [p \in AuthOps |-> authOp'[p]]
      /\ authOp'[o] = op /\ \A p \in AuthOps : p # o => authOp'[p] = authOp[p]
  BY DEF AccountsInv, AuthTypes, AuthGo
<1> QED BY <1>1 DEF AccountsInv, AuthTypes

\* A request under way is about an account.
LEMMA TargetsAre ==
    ASSUME AccountsInv, NEW o \in AuthOps, authOp[o] # Resting
    PROVE  Target(o) \in Accts /\ authOp[o].pc # "idle"
<1>1. AuthShape(authOp[o]) BY DEF AccountsInv, AuthTypes
<1> QED BY <1>1 DEF AuthShape, OfLogin, OfTicket, OfSession, OfOwner, OfDelete, Target

\* The others go on wiping what they wipe.
LEMMA WipedKept ==
    ASSUME AccountsInv, RowTypes', RowsMove, NEW o \in AuthOps,
           \A p \in AuthOps : p # o => authOp'[p] = authOp[p],
           authOp'[o].pc \in {"keys", "tickets", "row"} => SessionsPassed(o)',
           authOp'[o].pc \in {"tickets", "row"} => KeyPassed(o)'
    PROVE  WipedSoFar'
<1>1. ASSUME NEW p \in AuthOps, p # o PROVE /\ authOp'[p] = authOp[p]
                                            /\ authOp[p].pc \in Wipes => Wiping(Target(p)) /\ Target(p) \in Accts
  <2>1. authOp[p].pc \in Wipes => authOp[p] # Resting BY DEF Wipes, Resting
  <2> QED BY <1>1, <2>1, TargetsAre DEF Wiping, Wipes
<1>2. ASSUME NEW p \in AuthOps, p # o, authOp[p].pc \in {"keys", "tickets", "row"} PROVE SessionsPassed(p)'
  <2>1. SessionsPassed(p) BY <1>2 DEF AccountsInv, WipedSoFar
  <2>2. authOp'[p] = authOp[p] /\ Wiping(Target(p)) BY <1>1, <1>2 DEF Wipes
  <2> QED BY <2>1, <2>2 DEF SessionsPassed, RowsMove, Minted, Target
<1>3. ASSUME NEW p \in AuthOps, p # o, authOp[p].pc \in {"tickets", "row"} PROVE KeyPassed(p)'
  <2>1. KeyPassed(p) BY <1>3 DEF AccountsInv, WipedSoFar
  <2>2. authOp'[p] = authOp[p] /\ Wiping(Target(p)) /\ Target(p) \in Accts BY <1>1, <1>3 DEF Wipes
  <2> QED BY <2>1, <2>2 DEF KeyPassed, RowsMove, Minted, Target
<1> QED BY <1>1, <1>2, <1>3 DEF WipedSoFar

\* The secrets that are bound.
SecretsMove ==
    \A u \in Accts : \/ bound'[u] = Unbound
                     \/ generation'[u] = generation[u] /\ (bound'[u] = bound[u] \/ Minted(u, bound'[u]))

\* The secrets fit while each is kept or made anew.
LEMMA SecretsKept == AccountsInv /\ SecretsMove => SecretsFit'
  BY DEF AccountsInv, SecretsMove, SecretsFit, Minted

\* A request that neither wipes nor makes administrators fewer, before or after the
\* step, and a step that changes no role.
Plain(o) ==
    /\ \A p \in AuthOps : p # o => authOp'[p] = authOp[p]
    /\ authOp[o].pc \notin Wipes /\ authOp'[o].pc \notin Wipes \union {"demote"}
    /\ authOp'[o].pc \in {"count", "promote", "reset"} => role[authOp'[o].user] # "none"
    /\ role' = role /\ UNCHANGED Ledger

\* A plain step keeps the invariant.
LEMMA PlainSteps ==
    ASSUME AccountsInv, AuthTypes', RowTypes', RowsMove, SecretsMove, NEW o \in AuthOps, Plain(o)
    PROVE  AccountsInv'
<1>1. Present' = Present /\ Admins' = Admins /\ (\A u \in Accts : Named(u)' = Named(u))
      /\ generation' = generation /\ headless' = headless /\ cutOff' = cutOff /\ role' = role
  BY DEF Plain, Ledger, Present, Admins, Named
<1>2. TargetsKnown'
  BY DEF AccountsInv, TargetsKnown, Plain, Wipes, Target
<1>3. OneIsLeft'
  BY <1>1 DEF AccountsInv, OneIsLeft, Plain, Wipes, Lowering, Target
<1>4. WipedSoFar'
  BY WipedKept DEF Plain, Wipes
<1>5. \A u \in Accts : Wiping(u) => Wiping(u)'
  BY DEF Wiping, Plain, Wipes, Target
<1>6. \A u \in Accts : Steady(u)
  BY <1>1, <1>5 DEF Steady, Pardoned
<1>7. RowsFit' BY <1>6, FitsKept
<1>8. Led' /\ OwnNames' BY <1>1 DEF AccountsInv, Led, OwnNames, Present
<1> QED BY <1>2, <1>3, <1>4, <1>7, <1>8, SecretsKept DEF AccountsInv

\* The requests that begin, each with what it carries.
LEMMA StartShapes ==
    /\ AuthShape(Resting)
    /\ \A u \in Accts : \A b, g : AuthShape([pc |-> "password", user |-> u, bound |-> b, of |-> g])
    /\ \A u \in Accts : \A pc \in OfTicket : \A k, g : AuthShape([pc |-> pc, ticket |-> k, user |-> u, of |-> g])
    /\ \A u \in Accts : \A pc \in OfSession : \A s, g : AuthShape([pc |-> pc, session |-> s, user |-> u, of |-> g])
    /\ \A u \in Accts : \A pc \in OfOwner : \A g : AuthShape([pc |-> pc, user |-> u, of |-> g, end |-> "tickets"])
    /\ \A u \in Accts : \A r \in {"admin", "normal"} : AuthShape([pc |-> "create", user |-> u, role |-> r])
    /\ \A u \in Accts : AuthShape([pc |-> "promote", user |-> u])
    /\ \A u \in Accts : \A pc \in {"count", "demote"} : AuthShape([pc |-> pc, user |-> u, then |-> "demote"])
    /\ \A u \in Accts : \A pc \in OfDelete : AuthShape([pc |-> pc, user |-> u, then |-> "sessions", end |-> "row"])
  BY DEF AuthShape, OfLogin, OfTicket, OfSession, OfOwner, OfDelete

OfRole == {"count", "demote"}

\* A request that goes on keeps what it carries.
LEMMA NextShapes ==
    ASSUME NEW r, AuthShape(r), NEW pc,
           \/ r.pc = "password" /\ pc = "issue"
           \/ r.pc \in OfTicket \ {"issue"} /\ pc \in OfTicket
           \/ r.pc \in OfSession /\ pc \in OfSession
           \/ r.pc \in OfOwner \ {"sessions", "keys"} /\ pc \in OfOwner
           \/ r.pc \in {"sessions", "keys"} /\ pc \in {"keys", r.end}
           \/ r.pc = "count" /\ pc = r.then
    PROVE  /\ AuthShape([r EXCEPT !.pc = pc])
           /\ [r EXCEPT !.pc = pc].pc = pc /\ [r EXCEPT !.pc = pc].user = r.user
<1> DEFINE n == [r EXCEPT !.pc = pc]
<1> USE DEF OfLogin, OfTicket, OfSession, OfOwner, OfDelete
<1>0. r # Resting BY DEF Resting
<1>1. r.user \in Accts BY <1>0 DEF AuthShape
<1>2. CASE r = [pc |-> r.pc, user |-> r.user, bound |-> r.bound, of |-> r.of] /\ r.pc \in OfLogin
  <2>1. r.pc = "password" /\ pc = "issue" BY <1>2
  <2>2. n = [pc |-> "issue", user |-> r.user, bound |-> r.bound, of |-> r.of] BY <1>2, <2>1
  <2> QED BY <1>1, <2>1, <2>2 DEF AuthShape
<1>3. CASE r = [pc |-> r.pc, ticket |-> r.ticket, user |-> r.user, of |-> r.of] /\ r.pc \in OfTicket
  <2>1. pc \in OfTicket BY <1>3
  <2>2. n = [pc |-> pc, ticket |-> r.ticket, user |-> r.user, of |-> r.of] BY <1>3
  <2> QED BY <1>1, <2>1, <2>2, StartShapes
<1>4. CASE r = [pc |-> r.pc, session |-> r.session, user |-> r.user, of |-> r.of] /\ r.pc \in OfSession
  <2>1. pc \in OfSession BY <1>4
  <2>2. n = [pc |-> pc, session |-> r.session, user |-> r.user, of |-> r.of] BY <1>4
  <2> QED BY <1>1, <2>1, <2>2, StartShapes
<1>5. CASE r = [pc |-> r.pc, user |-> r.user, of |-> r.of, end |-> "tickets"] /\ r.pc \in OfOwner
  <2>1. r.end = "tickets" BY <1>5
  <2>2. pc \in OfOwner BY <1>5, <2>1
  <2>3. n = [pc |-> pc, user |-> r.user, of |-> r.of, end |-> "tickets"] BY <1>5
  <2> QED BY <1>1, <2>2, <2>3, StartShapes
<1>6. CASE r = [pc |-> r.pc, user |-> r.user, then |-> "sessions", end |-> "row"] /\ r.pc \in OfDelete
  <2>1. r.end = "row" /\ r.then = "sessions" BY <1>6
  <2>2. pc \in OfDelete BY <1>6, <2>1
  <2>3. n = [pc |-> pc, user |-> r.user, then |-> "sessions", end |-> "row"] BY <1>6
  <2>4. AuthShape([pc |-> pc, user |-> r.user, then |-> "sessions", end |-> "row"]) BY <1>1, <2>2, StartShapes
  <2> QED BY <2>3, <2>4
<1>7. CASE r = [pc |-> r.pc, user |-> r.user, then |-> "demote"] /\ r.pc \in OfRole
  <2>1. r.then = "demote" BY <1>7
  <2>2. pc = "demote" BY <1>7, <2>1 DEF OfRole
  <2>3. n = [pc |-> pc, user |-> r.user, then |-> "demote"] BY <1>7
  <2> QED BY <1>1, <2>2, <2>3, StartShapes
<1>8. r.pc \notin {"create", "promote", "demote"} OBVIOUS
<1> QED BY <1>0, <1>2, <1>3, <1>4, <1>5, <1>6, <1>7, <1>8 DEF AuthShape, OfRole

\* A step that writes no row.
LEMMA RowsSame ==
    ASSUME AccountsInv, UNCHANGED <<Rows, tickets, Ledger>>
    PROVE  RowTypes' /\ RowsMove /\ SecretsMove
  BY DEF AccountsInv, RowTypes, RowsMove, SecretsMove, Rows, Ledger

\* Rows that are forgotten or as they were.
RowsFewer ==
    /\ role' = role /\ UNCHANGED Ledger
    /\ bound' = [u \in Accts |-> bound'[u]] /\ sessions' = [s \in Slots |-> sessions'[s]]
    /\ keyRow' = [u \in Accts |-> keyRow'[u]] /\ tickets' = [k \in Tickets |-> tickets'[k]]
    /\ \A u \in Accts : bound'[u] \in {bound[u], Unbound}
    /\ \A s \in Slots : sessions'[s] \in {sessions[s], Spent}
    /\ \A k \in Tickets : tickets'[k] \in {tickets[k], Spent}
    /\ \A u \in Accts : keyRow'[u] \in {keyRow[u], [state |-> "none"], [keyRow[u] EXCEPT !.state = "revoked"]}

\* A step that only forgets rows.
LEMMA RowsForgotten ==
    ASSUME AccountsInv, RowsFewer
    PROVE  RowTypes' /\ RowsMove /\ SecretsMove
<1>1. ~Held(Spent) BY DEF Held
<1>2. KeyShape([state |-> "none"]) /\ [state |-> "none"].state = "none" BY DEF KeyShape
<1>3. ASSUME NEW u \in Accts PROVE LET k == [keyRow[u] EXCEPT !.state = "revoked"] IN KeyShape(k) /\ k.state = "revoked"
  BY DEF AccountsInv, RowTypes, KeyShape
<1>4. RowTypes'
  BY <1>1, <1>2, <1>3 DEF AccountsInv, RowTypes, RowsFewer, Ledger
<1>5. RowsMove
  BY <1>1, <1>2, <1>3 DEF RowsFewer, RowsMove
<1>6. SecretsMove
  BY DEF RowsFewer, SecretsMove, Ledger
<1> QED BY <1>4, <1>5, <1>6

-----------------------------------------------------------------------------
(* the steps of a request that neither wipes nor makes administrators fewer *)

\* The fields that an operation writes of its own.
OpOf(o, op) == AuthGo(o, op) /\ AuthShape(op)

\* A plain move keeps the invariant.
LEMMA PlainOps ==
    ASSUME AccountsInv, asked' \in 0 .. MaxAsked, NEW o \in AuthOps, NEW op, OpOf(o, op),
           authOp[o].pc \notin Wipes, op.pc \notin Wipes \union {"demote"},
           op.pc \in {"count", "promote", "reset"} => role[op.user] # "none",
           role' = role, UNCHANGED Ledger, RowTypes', RowsMove, SecretsMove
    PROVE  AccountsInv'
<1>1. AuthTypes' /\ authOp'[o] = op /\ \A p \in AuthOps : p # o => authOp'[p] = authOp[p]
  BY AuthMoved DEF OpOf
<1>2. Plain(o) BY <1>1 DEF Plain
<1> QED BY <1>1, <1>2, PlainSteps

\* Those that write no row.
LEMMA ReadingOps ==
    ASSUME AccountsInv, asked' \in 0 .. MaxAsked, NEW o \in AuthOps, NEW op, OpOf(o, op),
           authOp[o].pc \notin Wipes, op.pc \notin Wipes \union {"demote"},
           op.pc \in {"count", "promote", "reset"} => role[op.user] # "none",
           UNCHANGED <<Rows, tickets, Ledger>>
    PROVE  AccountsInv'
<1>1. role' = role /\ UNCHANGED Ledger BY DEF Rows
<1> QED BY <1>1, PlainOps, RowsSame

\* A ticket that is held names an account.
LEMMA TicketTyped ==
    ASSUME AccountsInv, NEW k \in Tickets, Held(tickets[k]) PROVE tickets[k].user \in Accts
  BY DEF AccountsInv, RowTypes

\* A ticket or a session that a request has made.
LEMMA MadeFresh ==
    ASSUME AccountsInv, NEW o \in AuthOps, Target(o) \in Accts, NEW row,
           row.user = Target(o), row.of = authOp[o].of, row.late = Late(o)
    PROVE  Minted(row.user, row)
  BY DEF Late, Minted

\* A ticket is put for the account the request is about.
LEMMA PutMoves ==
    ASSUME AccountsInv, NEW o \in AuthOps, authOp[o] # Resting, NEW kind \in {"enr", "mfa"}, Put(o, kind),
           UNCHANGED <<Rows, Ledger>>
    PROVE  RowTypes' /\ RowsMove /\ SecretsMove
<1>1. PICK k \in Tickets : tickets' = [tickets EXCEPT ![k] =
             [kind |-> kind, user |-> Target(o), of |-> authOp[o].of, late |-> Late(o)]]
  BY DEF Put
<1> DEFINE new == [kind |-> kind, user |-> Target(o), of |-> authOp[o].of, late |-> Late(o)]
<1>2. Target(o) \in Accts BY TargetsAre
<1>3. new.user = Target(o) /\ new.of = authOp[o].of /\ new.late = Late(o) /\ new.kind = kind
  OBVIOUS
<1>4. Minted(new.user, new) /\ new.user \in Accts /\ new.kind \in {"enr", "mfa"}
  BY <1>2, <1>3, MadeFresh
<1>5. tickets' = [tickets EXCEPT ![k] = new] BY <1>1
<1> HIDE DEF new
<1>6. tickets' = [j \in Tickets |-> tickets'[j]] /\ tickets'[k] = new /\ \A j \in Tickets : j # k => tickets'[j] = tickets[j]
  BY <1>5 DEF AccountsInv, RowTypes
<1>7. RowTypes' BY <1>4, <1>6 DEF AccountsInv, RowTypes, Rows, Ledger
<1>8. RowsMove BY <1>4, <1>6 DEF RowsMove, Rows
<1>9. SecretsMove BY DEF SecretsMove, Rows, Ledger
<1> QED BY <1>7, <1>8, <1>9

\* Requests that begin, and change nothing yet.
LEMMA Logins ==
    ASSUME AccountsInv, asked' \in 0 .. MaxAsked, NEW o \in AuthOps,
           \/ \E u \in Accts : Login(o, u) \/ Onboard(o, u) \/ \E r \in {"admin", "normal"} : CreateUser(o, u, r) \/ PatchUser(o, u, r)
           \/ \E k \in Tickets : Second(o, k) \/ Enroll(o, k)
           \/ \E s \in Slots, what \in OfSession : Gate(o, s, what)
    PROVE  AccountsInv'
<1> USE DEF Wipes
<1>0. authOp[o] = Resting => authOp[o].pc \notin Wipes BY DEF Resting
<1>1. ASSUME NEW u \in Accts, Login(o, u) PROVE AccountsInv'
  <2> DEFINE op == [pc |-> "password", user |-> u, bound |-> bound[u], of |-> generation[u]]
  <2>1. OpOf(o, op) BY <1>1, StartShapes DEF Login, OpOf
  <2>2. op.pc = "password" OBVIOUS
  <2> HIDE DEF op
  <2> QED BY <1>0, <1>1, <2>1, <2>2, ReadingOps DEF Login
<1>2. ASSUME NEW u \in Accts, Onboard(o, u) PROVE AccountsInv'
  <2> DEFINE pc == IF Present = {} THEN "first" ELSE "owner"
             op == [pc |-> pc, user |-> u, of |-> 0, end |-> "tickets"]
  <2>1. pc \in {"first", "owner"} /\ pc \in OfOwner BY DEF OfOwner
  <2>2. AuthGo(o, op) BY <1>2 DEF Onboard
  <2> HIDE DEF pc
  <2>3. OpOf(o, op) BY <2>1, <2>2, StartShapes DEF OpOf
  <2>4. op.pc \in {"first", "owner"} BY <2>1
  <2> HIDE DEF op
  <2> QED BY <1>0, <1>2, <2>3, <2>4, ReadingOps DEF Onboard
<1>3. ASSUME NEW u \in Accts, NEW r \in {"admin", "normal"}, CreateUser(o, u, r) PROVE AccountsInv'
  <2> DEFINE op == [pc |-> "create", user |-> u, role |-> r]
  <2>1. OpOf(o, op) BY <1>3, StartShapes DEF CreateUser, OpOf
  <2>2. op.pc = "create" OBVIOUS
  <2> HIDE DEF op
  <2> QED BY <1>0, <1>3, <2>1, <2>2, ReadingOps DEF CreateUser
<1>4. ASSUME NEW u \in Accts, NEW r \in {"admin", "normal"}, PatchUser(o, u, r) PROVE AccountsInv'
  <2>1. role[u] # "none" BY <1>4 DEF PatchUser, Present
  <2>2. CASE role[u] = "admin" /\ r # "admin"
    <3> DEFINE op == [pc |-> "count", user |-> u, then |-> "demote"]
    <3>1. OpOf(o, op) BY <1>4, <2>2, StartShapes DEF PatchUser, OpOf
    <3>2. op.pc = "count" /\ op.user = u OBVIOUS
    <3> HIDE DEF op
    <3> QED BY <1>0, <1>4, <2>1, <3>1, <3>2, ReadingOps DEF PatchUser
  <2>3. CASE ~(role[u] = "admin" /\ r # "admin")
    <3> DEFINE op == [pc |-> "promote", user |-> u]
    <3>1. OpOf(o, op) BY <1>4, <2>3, StartShapes DEF PatchUser, OpOf
    <3>2. op.pc = "promote" /\ op.user = u OBVIOUS
    <3> HIDE DEF op
    <3> QED BY <1>0, <1>4, <2>1, <3>1, <3>2, ReadingOps DEF PatchUser
  <2> QED BY <2>2, <2>3
<1>5. ASSUME NEW k \in Tickets, Second(o, k) PROVE AccountsInv'
  <2> DEFINE op == [pc |-> "second", ticket |-> k, user |-> tickets[k].user, of |-> tickets[k].of]
  <2>1. tickets[k].user \in Accts BY <1>5, TicketTyped DEF Second
  <2>2. OpOf(o, op) BY <1>5, <2>1, StartShapes DEF Second, OpOf, OfTicket
  <2>3. op.pc = "second" OBVIOUS
  <2> HIDE DEF op
  <2> QED BY <1>0, <1>5, <2>2, <2>3, ReadingOps DEF Second
<1>6. ASSUME NEW k \in Tickets, Enroll(o, k) PROVE AccountsInv'
  <2> DEFINE op == [pc |-> "enroll", ticket |-> k, user |-> tickets[k].user, of |-> tickets[k].of]
  <2>1. tickets[k].user \in Accts BY <1>6, TicketTyped DEF Enroll
  <2>2. OpOf(o, op) BY <1>6, <2>1, StartShapes DEF Enroll, OpOf, OfTicket
  <2>3. op.pc = "enroll" OBVIOUS
  <2> HIDE DEF op
  <2> QED BY <1>0, <1>6, <2>2, <2>3, ReadingOps DEF Enroll
<1>7. ASSUME NEW s \in Slots, NEW what \in OfSession, Gate(o, s, what) PROVE AccountsInv'
  <2> DEFINE op == [pc |-> what, session |-> s, user |-> sessions[s].user, of |-> generation[sessions[s].user]]
  <2>1. sessions[s].user \in Accts BY <1>7 DEF Gate, Signed, Present
  <2>2. OpOf(o, op) BY <1>7, <2>1, StartShapes DEF Gate, OpOf
  <2>3. op.pc \notin Wipes \union {"demote", "count", "promote", "reset"} BY DEF OfSession
  <2> HIDE DEF op
  <2> QED BY <1>0, <1>7, <2>2, <2>3, ReadingOps DEF Gate
<1> QED BY <1>1, <1>2, <1>3, <1>4, <1>5, <1>6, <1>7

\* What a request carries when only its place changes.
LEMMA NextOps ==
    ASSUME AccountsInv, NEW o \in AuthOps, NEW pc, AuthNextAt(o, pc),
           \/ authOp[o].pc = "password" /\ pc = "issue"
           \/ authOp[o].pc \in OfTicket \ {"issue"} /\ pc \in OfTicket
           \/ authOp[o].pc \in OfSession /\ pc \in OfSession
           \/ authOp[o].pc \in OfOwner \ {"sessions", "keys"} /\ pc \in OfOwner
           \/ authOp[o].pc \in {"sessions", "keys"} /\ pc \in {"keys", authOp[o].end}
           \/ authOp[o].pc = "count" /\ pc = authOp[o].then
    PROVE  \E op : OpOf(o, op) /\ op.pc = pc /\ op.user = Target(o)
<1> DEFINE r == authOp[o]
           op == [r EXCEPT !.pc = pc]
<1>1. AuthShape(r) BY DEF AccountsInv, AuthTypes
<1>2. AuthShape(op) /\ op.pc = pc /\ op.user = r.user
  <2> HIDE DEF r
  <2> QED BY <1>1, NextShapes DEF r
<1>3. AuthGo(o, op) BY DEF AuthNextAt
<1> QED BY <1>2, <1>3 DEF OpOf, Target

\* A request that is over.
LEMMA RestingOps ==
    ASSUME NEW o, AuthOver(o) PROVE \E op : OpOf(o, op) /\ op.pc = "idle"
  BY StartShapes DEF AuthOver, OpOf, Resting

\* A request of which two fields change.
LEMMA TicketRead ==
    ASSUME NEW r, r = [pc |-> r.pc, ticket |-> r.ticket, user |-> r.user, of |-> r.of], NEW g
    PROVE  [r EXCEPT !.pc = "code", !.of = g] = [pc |-> "code", ticket |-> r.ticket, user |-> r.user, of |-> g]
<1> DEFINE e == [r EXCEPT !.pc = "code"]
<1>1. e = [pc |-> "code", ticket |-> r.ticket, user |-> r.user, of |-> r.of] OBVIOUS
<1>2. [r EXCEPT !.pc = "code", !.of = g] = [e EXCEPT !.of = g] OBVIOUS
<1> HIDE DEF e
<1>3. /\ e = [pc |-> e.pc, ticket |-> e.ticket, user |-> e.user, of |-> e.of]
      /\ e.pc = "code" /\ e.ticket = r.ticket /\ e.user = r.user
  BY <1>1
<1> QED BY <1>2, <1>3

\* The same for the owner who is found.
LEMMA OwnerFound ==
    ASSUME NEW r, r = [pc |-> r.pc, user |-> r.user, of |-> r.of, end |-> "tickets"], NEW x
    PROVE  [r EXCEPT !.pc = "reset", !.user = x] = [pc |-> "reset", user |-> x, of |-> r.of, end |-> "tickets"]
<1> DEFINE e == [r EXCEPT !.pc = "reset"]
<1>1. e = [pc |-> "reset", user |-> r.user, of |-> r.of, end |-> "tickets"] OBVIOUS
<1>2. [r EXCEPT !.pc = "reset", !.user = x] = [e EXCEPT !.user = x] OBVIOUS
<1> HIDE DEF e
<1>3. /\ e = [pc |-> e.pc, user |-> e.user, of |-> e.of, end |-> "tickets"]
      /\ e.pc = "reset" /\ e.of = r.of
  BY <1>1
<1> QED BY <1>2, <1>3

\* The same for the owner whose password is set.
LEMMA OwnerRenewed ==
    ASSUME NEW r, r = [pc |-> r.pc, user |-> r.user, of |-> r.of, end |-> "tickets"], NEW x
    PROVE  [r EXCEPT !.pc = "sessions", !.of = x] = [pc |-> "sessions", user |-> r.user, of |-> x, end |-> "tickets"]
<1> DEFINE e == [r EXCEPT !.pc = "sessions"]
<1>1. e = [pc |-> "sessions", user |-> r.user, of |-> r.of, end |-> "tickets"] OBVIOUS
<1>2. [r EXCEPT !.pc = "sessions", !.of = x] = [e EXCEPT !.of = x] OBVIOUS
<1> HIDE DEF e
<1>3. /\ e = [pc |-> e.pc, user |-> e.user, of |-> e.of, end |-> "tickets"]
      /\ e.pc = "sessions" /\ e.user = r.user
  BY <1>1
<1> QED BY <1>2, <1>3

\* The steps of a request that leave the rows alone.
Reads(o) ==
    \/ LoginRefused(o) \/ LoginHasCode(o) \/ SecondReads(o) \/ ChangePassword(o) \/ Disable2fa(o) \/ OwnerRead(o)

\* Steps that only read.
LEMMA ReadingSteps ==
    ASSUME AccountsInv, asked' \in 0 .. MaxAsked, NEW o \in AuthOps, Reads(o)
    PROVE  AccountsInv'
<1> USE DEF Wipes
<1>0. AuthShape(authOp[o]) BY DEF AccountsInv, AuthTypes
<1>1. UNCHANGED <<Rows, tickets, Ledger>>
  BY DEF Reads, LoginRefused, LoginHasCode, SecondReads, ChangePassword, Disable2fa, OwnerRead
<1>2. authOp[o].pc \notin Wipes
  BY DEF Reads, LoginRefused, LoginHasCode, SecondReads, ChangePassword, Disable2fa, OwnerRead, AuthAt
<1>3. SUFFICES \E op : /\ OpOf(o, op) /\ op.pc \notin Wipes \union {"demote"}
                       /\ op.pc \in {"count", "promote", "reset"} => role[op.user] # "none"
  BY <1>1, <1>2, ReadingOps
<1>4. CASE AuthOver(o) BY <1>4, RestingOps
<1>5. CASE LoginRefused(o) BY <1>4, <1>5 DEF LoginRefused
<1>6. CASE LoginHasCode(o) BY <1>6, NextOps DEF LoginHasCode, AuthAt
<1>7. CASE SecondReads(o)
  <2> DEFINE r == authOp[o]
             g == generation[Target(o)]
             op == [r EXCEPT !.pc = "code", !.of = g]
  <2>1. AuthOver(o) \/ AuthGo(o, op) BY <1>7 DEF SecondReads
  <2>2. r.pc = "second" BY <1>7 DEF SecondReads, AuthAt
  <2>3. r = [pc |-> r.pc, ticket |-> r.ticket, user |-> r.user, of |-> r.of] /\ r.user \in Accts
    BY <1>0, <2>2 DEF AuthShape, Resting, OfLogin, OfTicket, OfSession, OfOwner, OfDelete
  <2>4. op = [pc |-> "code", ticket |-> r.ticket, user |-> r.user, of |-> g]
    <3> HIDE DEF r, g
    <3> QED BY <2>3, TicketRead
  <2>5. AuthShape(op) /\ op.pc = "code" BY <2>3, <2>4, StartShapes DEF OfTicket
  <2> HIDE DEF op, r
  <2> QED BY <1>4, <2>1, <2>5 DEF OpOf
<1>8. CASE ChangePassword(o)
  <2>1. AuthOver(o) \/ AuthNextAt(o, "others") BY <1>8 DEF ChangePassword, AuthOver, AuthNextAt
  <2> QED BY <1>4, <1>8, <2>1, NextOps DEF ChangePassword, AuthAt, OfSession
<1>9. CASE Disable2fa(o)
  <2>1. AuthOver(o) \/ AuthNextAt(o, "unbind") BY <1>9 DEF Disable2fa, AuthOver, AuthNextAt
  <2> QED BY <1>4, <1>9, <2>1, NextOps DEF Disable2fa, AuthAt, OfSession
<1>10. CASE OwnerRead(o)
  <2>0. authOp[o].pc = "owner" BY <1>10 DEF OwnerRead, AuthAt
  <2>1. CASE AuthNextAt(o, "again")
    <3>1. \E op : OpOf(o, op) /\ op.pc = "again" BY <2>0, <2>1, NextOps DEF OfOwner
    <3> QED BY <3>1
  <2>2. CASE ~AuthNextAt(o, "again")
    <3> DEFINE r == authOp[o]
    <3>1. PICK u \in Present : AuthGo(o, [r EXCEPT !.pc = "reset", !.user = u]) BY <1>10, <2>2 DEF OwnerRead
    <3>2. r.pc = "owner" BY <2>0
    <3>3. r = [pc |-> r.pc, user |-> r.user, of |-> r.of, end |-> "tickets"]
      BY <1>0, <3>2 DEF AuthShape, Resting, OfLogin, OfTicket, OfSession, OfOwner, OfDelete
    <3> DEFINE op == [pc |-> "reset", user |-> u, of |-> r.of, end |-> "tickets"]
    <3>4. AuthGo(o, op)
      <4>1. [r EXCEPT !.pc = "reset", !.user = u] = op
        <5> HIDE DEF r
        <5> QED BY <3>3, OwnerFound
      <4> QED BY <3>1, <4>1
    <3>5. u \in Accts /\ role[u] # "none" BY DEF Present
    <3>6. AuthShape(op) /\ op.pc = "reset" /\ op.user = u BY <3>5, StartShapes DEF OfOwner
    <3> HIDE DEF op, r
    <3> QED BY <3>4, <3>5, <3>6 DEF OpOf
  <2> QED BY <2>1, <2>2
<1> QED BY <1>5, <1>6, <1>7, <1>8, <1>9, <1>10 DEF Reads

\* The steps of a request that forget rows.
Forgets(o) ==
    \/ SecondPasses(o) \/ EnrollReads(o) \/ EnrollBurns(o) \/ Logout(o) \/ OthersOut(o) \/ Unbind(o) \/ RevokeKey(o)

\* Steps that forget tickets, sessions, keys or a binding.
LEMMA ForgettingSteps ==
    ASSUME AccountsInv, asked' \in 0 .. MaxAsked, NEW o \in AuthOps, Forgets(o)
    PROVE  AccountsInv'
<1> USE DEF Wipes
<1>1. RowTypes BY DEF AccountsInv
<1>2. role' = role /\ UNCHANGED Ledger /\ authOp[o].pc \notin Wipes
  BY DEF Forgets, SecondPasses, EnrollReads, EnrollBurns, Logout, OthersOut, Unbind, RevokeKey, Rows, AuthAt
<1>3. \E op : OpOf(o, op) /\ op.pc \notin Wipes \union {"demote", "count", "promote", "reset"}
  <2>1. CASE AuthOver(o) BY <2>1, RestingOps
  <2>2. CASE SecondPasses(o) BY <2>2, NextOps DEF SecondPasses, AuthAt, OfTicket
  <2>3. CASE EnrollReads(o) BY <2>1, <2>3, NextOps DEF EnrollReads, AuthAt, OfTicket
  <2>4. CASE EnrollBurns(o) BY <2>4, NextOps DEF EnrollBurns, AuthAt, OfTicket
  <2> QED BY <2>1, <2>2, <2>3, <2>4 DEF Forgets, Logout, OthersOut, Unbind, RevokeKey
<1>4. RowsFewer
  <2>1. CASE Burn(o) /\ UNCHANGED Rows
    BY <1>1, <1>2, <2>1 DEF RowsFewer, Burn, RowTypes, Rows
  <2>2. CASE SecondPasses(o) BY <2>1, <2>2 DEF SecondPasses
  <2>3. CASE EnrollReads(o)
    <3>1. CASE UNCHANGED <<Rows, tickets>> BY <1>1, <1>2, <3>1 DEF RowsFewer, RowTypes, Rows
    <3> QED BY <2>1, <2>3, <3>1 DEF EnrollReads
  <2>4. CASE EnrollBurns(o) BY <2>1, <2>4 DEF EnrollBurns
  <2>5. CASE Logout(o) BY <1>1, <1>2, <2>5 DEF RowsFewer, RowTypes, Logout
  <2>6. CASE OthersOut(o) BY <1>1, <1>2, <2>6 DEF RowsFewer, RowTypes, OthersOut
  <2>7. CASE Unbind(o) BY <1>1, <1>2, <2>7 DEF RowsFewer, RowTypes, Unbind
  <2>8. CASE RevokeKey(o) BY <1>1, <1>2, <2>8 DEF RowsFewer, RowTypes, RevokeKey
  <2> QED BY <2>2, <2>3, <2>4, <2>5, <2>6, <2>7, <2>8 DEF Forgets
<1>5. RowTypes' /\ RowsMove /\ SecretsMove BY <1>4, RowsForgotten
<1> QED BY <1>2, <1>3, <1>5, PlainOps

\* The steps of a request that write a row.
LEMMA IssueKeeps ==
    ASSUME AccountsInv, asked' \in 0 .. MaxAsked, NEW o \in AuthOps, Issue(o)
    PROVE  AccountsInv'
<1> DEFINE new == [user |-> Target(o), of |-> authOp[o].of, late |-> Late(o)]
<1>1. PICK s \in Slots : sessions' = [sessions EXCEPT ![s] = new] BY DEF Issue
<1>2. authOp[o] # Resting /\ authOp[o].pc \notin Wipes BY DEF Issue, AuthAt, Resting, Wipes
<1>3. Target(o) \in Accts BY <1>2, TargetsAre
<1>4. Minted(new.user, new) /\ new.user \in Accts
  <2>1. new.user = Target(o) /\ new.of = authOp[o].of /\ new.late = Late(o) OBVIOUS
  <2> HIDE DEF new
  <2> QED BY <1>3, <2>1, MadeFresh
<1> HIDE DEF new
<1>5. sessions' = [j \in Slots |-> sessions'[j]] /\ sessions'[s] = new /\ \A j \in Slots : j # s => sessions'[j] = sessions[j]
  BY <1>1 DEF AccountsInv, RowTypes
<1>6. UNCHANGED <<role, bound, keyRow, tickets, Ledger>> BY DEF Issue
<1>7. RowTypes' BY <1>4, <1>5, <1>6 DEF AccountsInv, RowTypes, Ledger
<1>8. RowsMove BY <1>4, <1>5, <1>6 DEF RowsMove
<1>9. SecretsMove BY <1>6 DEF SecretsMove, Ledger
<1>10. \E op : OpOf(o, op) /\ op.pc = "idle" BY RestingOps DEF Issue
<1> QED BY <1>2, <1>6, <1>7, <1>8, <1>9, <1>10, PlainOps DEF Wipes

\* A key is made for the account as the request has read it.
LEMMA CreateKeyKeeps ==
    ASSUME AccountsInv, asked' \in 0 .. MaxAsked, NEW o \in AuthOps, CreateKey(o)
    PROVE  AccountsInv'
<1> DEFINE new == [state |-> "live", of |-> authOp[o].of, late |-> Late(o)]
           u   == Target(o)
<1>1. keyRow' = [keyRow EXCEPT ![u] = new] BY DEF CreateKey
<1>2. authOp[o] # Resting /\ authOp[o].pc \notin Wipes BY DEF CreateKey, AuthAt, Resting, Wipes
<1>3. u \in Accts BY <1>2, TargetsAre
<1>4. Minted(u, new) BY <1>3 DEF Minted, Late
<1>5. KeyShape(new) /\ new.state = "live" BY DEF KeyShape
<1> HIDE DEF new, u
<1>6. keyRow' = [v \in Accts |-> keyRow'[v]] /\ keyRow'[u] = new /\ \A v \in Accts : v # u => keyRow'[v] = keyRow[v]
  BY <1>1, <1>3 DEF AccountsInv, RowTypes
<1>7. UNCHANGED <<role, bound, sessions, tickets, Ledger>> BY DEF CreateKey
<1>8. RowTypes' BY <1>5, <1>6, <1>7 DEF AccountsInv, RowTypes, Ledger
<1>9. RowsMove BY <1>4, <1>6, <1>7 DEF RowsMove
<1>10. SecretsMove BY <1>7 DEF SecretsMove, Ledger
<1>11. \E op : OpOf(o, op) /\ op.pc = "idle" BY RestingOps DEF CreateKey
<1> QED BY <1>2, <1>7, <1>8, <1>9, <1>10, <1>11, PlainOps DEF Wipes

\* An authenticator is bound as the request has read the account.
LEMMA BindKeeps ==
    ASSUME AccountsInv, asked' \in 0 .. MaxAsked, NEW o \in AuthOps, Bind(o)
    PROVE  AccountsInv'
<1> DEFINE new == [of |-> authOp[o].of, late |-> Late(o)]
           u   == Target(o)
<1>1. bound' = [bound EXCEPT ![u] = IF u \in Present THEN new ELSE @] BY DEF Bind
<1>2. authOp[o] # Resting /\ authOp[o].pc \notin Wipes BY DEF Bind, AuthAt, Resting, Wipes
<1>3. u \in Accts BY <1>2, TargetsAre
<1>4. Minted(u, new) BY <1>3 DEF Minted, Late
<1> HIDE DEF new, u
<1>5. /\ bound' = [v \in Accts |-> bound'[v]] /\ bound'[u] \in {bound[u], new}
      /\ \A v \in Accts : v # u => bound'[v] = bound[v]
  BY <1>1, <1>3 DEF AccountsInv, RowTypes
<1>6. UNCHANGED <<role, sessions, keyRow, tickets, Ledger>> BY DEF Bind
<1>7. RowTypes' BY <1>5, <1>6 DEF AccountsInv, RowTypes, Ledger
<1>8. RowsMove BY <1>6 DEF RowsMove
<1>9. SecretsMove BY <1>4, <1>5, <1>6 DEF SecretsMove, Ledger
<1>10. \E op : OpOf(o, op) /\ op.pc = "burn" BY NextOps DEF Bind, AuthAt, OfTicket
<1> QED BY <1>2, <1>6, <1>7, <1>8, <1>9, <1>10, PlainOps DEF Wipes

\* Steps that make a ticket.
LEMMA PuttingSteps ==
    ASSUME AccountsInv, asked' \in 0 .. MaxAsked, NEW o \in AuthOps, LoginNeedsMore(o) \/ Welcome(o)
    PROVE  AccountsInv'
<1>1. authOp[o] # Resting /\ authOp[o].pc \notin Wipes
  BY DEF LoginNeedsMore, Welcome, AuthAt, Resting, Wipes
<1>2. UNCHANGED <<Rows, Ledger>> /\ AuthOver(o) /\ \E kind \in {"enr", "mfa"} : Put(o, kind)
  BY DEF LoginNeedsMore, Welcome
<1>3. RowTypes' /\ RowsMove /\ SecretsMove BY <1>1, <1>2, PutMoves
<1>4. \E op : OpOf(o, op) /\ op.pc = "idle" BY <1>2, RestingOps
<1>5. role' = role /\ UNCHANGED Ledger BY <1>2 DEF Rows
<1> QED BY <1>1, <1>3, <1>4, <1>5, PlainOps DEF Wipes

-----------------------------------------------------------------------------
(* the steps that wipe, that make administrators fewer or add users *)

\* The users, and who is called what, as the roles are.
LEMMA SameRoles ==
    ASSUME role' = role
    PROVE  Present' = Present /\ Admins' = Admins /\ \A u \in Accts : Named(u)' = Named(u)
  BY DEF Present, Admins, Named

\* A request that comes to a place where it wipes or makes administrators fewer.
LEMMA MarkingOps ==
    ASSUME AccountsInv, asked' \in 0 .. MaxAsked, NEW o \in AuthOps, NEW op, OpOf(o, op),
           authOp[o].pc \notin Wipes \union {"demote"}, op.pc \in {"idle", "count", "demote", "sessions"},
           op.pc # "idle" => role[op.user] # "none",
           op.pc \in {"demote", "sessions"} /\ op.user \in Admins => Admins \ {op.user} # {},
           UNCHANGED <<Rows, tickets, Ledger>>
    PROVE  AccountsInv'
<1>1. AuthTypes' /\ authOp'[o] = op /\ \A p \in AuthOps : p # o => authOp'[p] = authOp[p]
  BY AuthMoved DEF OpOf
<1>2. RowTypes' /\ RowsMove /\ SecretsMove BY RowsSame
<1>3. role' = role /\ generation' = generation /\ headless' = headless /\ cutOff' = cutOff BY DEF Rows, Ledger
<1>4. Present' = Present /\ Admins' = Admins /\ \A u \in Accts : Named(u)' = Named(u) BY <1>3, SameRoles
<1>5. TargetsKnown' BY <1>1, <1>3 DEF AccountsInv, TargetsKnown, Target
<1>6. OneIsLeft'
  BY <1>1, <1>3, <1>4 DEF AccountsInv, OneIsLeft, Lowering, Target
<1>7. WipedSoFar' BY <1>1, <1>2, WipedKept
<1>8. \A u \in Accts : Wiping(u) => Wiping(u)' BY <1>1 DEF Wiping, Wipes, Target
<1>9. \A u \in Accts : Steady(u) BY <1>3, <1>4, <1>8 DEF Steady, Pardoned
<1>10. RowsFit' /\ SecretsFit' BY <1>2, <1>9, FitsKept, SecretsKept
<1>11. Led' /\ OwnNames' BY <1>3, <1>4 DEF AccountsInv, Led, OwnNames, Present
<1> QED BY <1>1, <1>2, <1>5, <1>6, <1>7, <1>10, <1>11 DEF AccountsInv

\* A deletion begins with the count of the administrators, if it is one.
LEMMA DeleteUserKeeps ==
    ASSUME AccountsInv, asked' \in 0 .. MaxAsked, NEW o \in AuthOps, NEW u \in Accts, DeleteUser(o, u)
    PROVE  AccountsInv'
<1> DEFINE pc == IF role[u] = "admin" THEN "count" ELSE "sessions"
           op == [pc |-> pc, user |-> u, then |-> "sessions", end |-> "row"]
<1>1. pc \in {"count", "sessions"} /\ pc \in OfDelete /\ (pc = "sessions" => role[u] # "admin") BY DEF OfDelete
<1>2. AuthGo(o, op) BY DEF DeleteUser
<1> HIDE DEF pc
<1>3. OpOf(o, op) BY <1>1, <1>2, StartShapes DEF OpOf
<1>4. op.pc = pc /\ op.user = u OBVIOUS
<1>5. authOp[o].pc = "idle" /\ role[u] # "none" BY DEF DeleteUser, Resting, Present
<1>6. op.pc \in {"demote", "sessions"} => op.user \notin Admins BY <1>1, <1>4 DEF Admins
<1> HIDE DEF op
<1> QED BY <1>1, <1>3, <1>4, <1>5, <1>6, MarkingOps DEF DeleteUser, Wipes

\* Who is one of two or more is not the only one.
LEMMA NotTheOnlyOne ==
    ASSUME NEW u, ~(Cardinality(Admins) <= 1), u \in Admins
    PROVE  Admins \ {u} # {}
<1>1. SUFFICES ASSUME Admins \ {u} = {} PROVE FALSE OBVIOUS
<1>2. Admins = {u} BY <1>1
<1>3. Cardinality({u}) = 1 BY FS_Singleton
<1> QED BY <1>2, <1>3

\* The count that lets an administrator go.
LEMMA CountAdminsKeeps ==
    ASSUME AccountsInv, asked' \in 0 .. MaxAsked, NEW o \in AuthOps, CountAdmins(o)
    PROVE  AccountsInv'
<1> DEFINE r == authOp[o]
<1>1. r.pc = "count" /\ UNCHANGED <<Rows, tickets, Ledger>> BY DEF CountAdmins, AuthAt
<1>2. CASE AuthOver(o)
  <2>1. \E op : OpOf(o, op) /\ op.pc = "idle" BY <1>2, RestingOps
  <2> QED BY <1>1, <2>1, MarkingOps DEF Wipes
<1>3. CASE ~AuthOver(o)
  <2>1. ~(Cardinality(Admins) <= 1) /\ AuthNextAt(o, r.then) BY <1>3 DEF CountAdmins
  <2>2. AuthShape(r) BY DEF AccountsInv, AuthTypes
  <2>3. r.then \in {"demote", "sessions"}
    <3> HIDE DEF r
    <3> QED BY <1>1, <2>2 DEF AuthShape, Resting, OfLogin, OfTicket, OfSession, OfOwner, OfDelete
  <2>4. PICK op : OpOf(o, op) /\ op.pc = r.then /\ op.user = Target(o) BY <1>1, <2>1, NextOps
  <2>5. role[op.user] # "none" BY <1>1, <2>4 DEF AccountsInv, TargetsKnown
  <2>6. op.user \in Admins => Admins \ {op.user} # {} BY <2>1, NotTheOnlyOne
  <2> QED BY <1>1, <2>3, <2>4, <2>5, <2>6, MarkingOps DEF Wipes
<1> QED BY <1>2, <1>3

\* A recovery that begins to wipe, in another generation of credentials.
LEMMA OwnerResetKeeps ==
    ASSUME AccountsInv, asked' \in 0 .. MaxAsked, NEW o \in AuthOps, OwnerReset(o)
    PROVE  AccountsInv'
<1>0. PICK u : u = Target(o) OBVIOUS
<1> DEFINE r == authOp[o]
           op == [pc |-> "sessions", user |-> r.user, of |-> generation[u] + 1, end |-> "tickets"]
<1>1. r.pc = "reset" BY DEF OwnerReset, AuthAt
<1>2. AuthShape(r) BY DEF AccountsInv, AuthTypes
<1>3. r = [pc |-> r.pc, user |-> r.user, of |-> r.of, end |-> "tickets"] /\ r.user \in Accts
  BY <1>1, <1>2 DEF AuthShape, Resting, OfLogin, OfTicket, OfSession, OfOwner, OfDelete
<1>4. [r EXCEPT !.pc = "sessions", !.of = generation[u] + 1] = op
  <2> HIDE DEF r
  <2> QED BY <1>3, OwnerRenewed
<1>5. AuthGo(o, op) BY <1>0, <1>4 DEF OwnerReset
<1>6. AuthShape(op) BY <1>3, StartShapes DEF OfOwner
<1>7. op.pc = "sessions" /\ op.user = u /\ op.end = "tickets" /\ u \in Accts BY <1>0, <1>3 DEF Target
<1>8. /\ bound' = [bound EXCEPT ![u] = Unbound] /\ generation' = [generation EXCEPT ![u] = @ + 1]
      /\ generation[u] < MaxResets /\ UNCHANGED <<role, sessions, keyRow, tickets, headless, cutOff>>
  BY <1>0 DEF OwnerReset
<1>9. role[u] # "none" BY <1>0, <1>1 DEF AccountsInv, TargetsKnown
<1> HIDE DEF op, r
<1>10. AuthTypes' /\ authOp'[o] = op /\ \A p \in AuthOps : p # o => authOp'[p] = authOp[p]
  BY <1>5, <1>6, AuthMoved
<1>11. RowTypes'
  <2>1. generation[u] \in 0 .. MaxResets /\ MaxResets \in Nat
    BY <1>7, AccountsAssumption DEF AccountsInv, RowTypes
  <2>2. generation[u] + 1 \in 0 .. MaxResets BY <1>8, <2>1
  <2>3. generation' \in [Accts -> 0 .. MaxResets] BY <1>7, <1>8, <2>2 DEF AccountsInv, RowTypes
  <2>4. bound' = [v \in Accts |-> bound'[v]] BY <1>8 DEF AccountsInv, RowTypes
  <2> QED BY <1>8, <2>3, <2>4 DEF AccountsInv, RowTypes
<1>12. RowsMove BY <1>8 DEF RowsMove
<1>13. bound'[u] = Unbound /\ \A v \in Accts : v # u => bound'[v] = bound[v] /\ generation'[v] = generation[v]
  BY <1>7, <1>8 DEF AccountsInv, RowTypes
<1>14. SecretsMove BY <1>13 DEF SecretsMove
<1>15. Present' = Present /\ Admins' = Admins /\ \A v \in Accts : Named(v)' = Named(v) BY <1>8, SameRoles
<1>16. TargetsKnown' BY <1>7, <1>8, <1>9, <1>10 DEF AccountsInv, TargetsKnown, Target
<1>17. OneIsLeft' BY <1>7, <1>8, <1>10, <1>15 DEF AccountsInv, OneIsLeft, Lowering, Target
<1>18. WipedSoFar' BY <1>7, <1>10, <1>11, <1>12, WipedKept
<1>19. Wiping(u)' BY <1>7, <1>10 DEF Wiping, Target
<1>20. \A v \in Accts : Steady(v)
  <2>1. authOp[o].pc = "reset" BY <1>1 DEF r
  <2>2. \A v \in Accts : Wiping(v) => Wiping(v)' BY <1>10, <2>1 DEF Wiping, Target
  <2>3. Steady(u) BY <1>19 DEF Steady, Pardoned
  <2>4. ASSUME NEW v \in Accts, v # u PROVE Steady(v)
    BY <1>8, <1>13, <1>15, <2>2, <2>4 DEF Steady, Pardoned
  <2> QED BY <2>3, <2>4
<1>21. RowsFit' /\ SecretsFit' BY <1>11, <1>12, <1>14, <1>20, FitsKept, SecretsKept
<1>22. Led' /\ OwnNames' BY <1>8, <1>15 DEF AccountsInv, Led, OwnNames, Present
<1> QED BY <1>10, <1>11, <1>16, <1>17, <1>18, <1>21, <1>22 DEF AccountsInv

\* What a request that wipes carries.
LEMMA WipeShape ==
    ASSUME NEW r, AuthShape(r), r.pc \in {"sessions", "keys"}, NEW pc
    PROVE  /\ r.end \in {"tickets", "row"}
           /\ LET n == [r EXCEPT !.pc = pc] IN n.pc = pc /\ n.user = r.user /\ n.end = r.end
<1> DEFINE n == [r EXCEPT !.pc = pc]
<1>1. \/ r = [pc |-> r.pc, user |-> r.user, of |-> r.of, end |-> "tickets"]
      \/ r = [pc |-> r.pc, user |-> r.user, then |-> "sessions", end |-> "row"]
  BY DEF AuthShape, Resting, OfLogin, OfTicket, OfSession, OfOwner, OfDelete
<1>2. CASE r = [pc |-> r.pc, user |-> r.user, of |-> r.of, end |-> "tickets"]
  <2>1. n = [pc |-> pc, user |-> r.user, of |-> r.of, end |-> "tickets"] /\ r.end = "tickets" BY <1>2
  <2> HIDE DEF n
  <2> QED BY <2>1 DEF n
<1>3. CASE r = [pc |-> r.pc, user |-> r.user, then |-> "sessions", end |-> "row"]
  <2>1. n = [pc |-> pc, user |-> r.user, then |-> "sessions", end |-> "row"] /\ r.end = "row" BY <1>3
  <2> HIDE DEF n
  <2> QED BY <2>1 DEF n
<1> QED BY <1>1, <1>2, <1>3

\* A statement of a recovery or of a deletion before its last.
LEMMA WipingSteps ==
    ASSUME AccountsInv, asked' \in 0 .. MaxAsked, NEW o \in AuthOps, SessionsWiped(o) \/ KeysWiped(o)
    PROVE  AccountsInv'
<1> DEFINE r  == authOp[o]
           u  == Target(o)
           pc == IF r.pc = "sessions" THEN "keys" ELSE r.end
           op == [r EXCEPT !.pc = pc]
<1>1. r.pc \in {"sessions", "keys"} /\ AuthShape(r)
  BY DEF SessionsWiped, KeysWiped, AuthAt, AccountsInv, AuthTypes
<1>2. r.pc = "sessions" => SessionsWiped(o) BY DEF KeysWiped, AuthAt
<1>3. r.pc = "keys" => KeysWiped(o) BY DEF SessionsWiped, AuthAt
<1>4. AuthNextAt(o, pc) BY <1>1, <1>2, <1>3 DEF SessionsWiped, KeysWiped
<1>5. AuthGo(o, op) BY <1>4 DEF AuthNextAt
<1>6. u \in Accts
  <2>1. r # Resting BY <1>1 DEF Resting
  <2> QED BY <2>1, TargetsAre
<1>7. r.end \in {"tickets", "row"} /\ op.pc = pc /\ op.user = r.user /\ op.end = r.end
  <2> HIDE DEF r, pc
  <2> QED BY <1>1, WipeShape
<1>8. pc \in {"keys", r.end} BY <1>1
<1>9. pc \in {"keys", "tickets", "row"} BY <1>7, <1>8
<1>10. pc \in {"tickets", "row"} => r.pc = "keys" BY <1>1
<1>11. AuthShape(op)
  <2> HIDE DEF r, pc
  <2> QED BY <1>1, <1>8, NextShapes
<1>12. r.user = u BY DEF Target
<1> HIDE DEF op, pc, r
<1>13. AuthTypes' /\ authOp'[o] = op /\ \A p \in AuthOps : p # o => authOp'[p] = authOp[p]
  BY <1>5, <1>11, AuthMoved
<1>14. RowsFewer
  <2>1. CASE SessionsWiped(o)
    BY <1>6, <2>1 DEF SessionsWiped, RowsFewer, AccountsInv, RowTypes
  <2>2. CASE KeysWiped(o)
    BY <1>6, <2>2 DEF KeysWiped, RowsFewer, AccountsInv, RowTypes
  <2> QED BY <2>1, <2>2
<1>15. RowTypes' /\ RowsMove /\ SecretsMove BY <1>14, RowsForgotten
<1>16. role' = role /\ generation' = generation /\ headless' = headless /\ cutOff' = cutOff
  BY <1>14 DEF RowsFewer, Ledger
<1>17. Present' = Present /\ Admins' = Admins /\ \A v \in Accts : Named(v)' = Named(v) BY <1>16, SameRoles
<1>18. authOp[o] = r /\ authOp[o].user = u BY DEF r, Target
<1>19. SessionsPassed(o)'
  <2>1. CASE r.pc = "sessions"
    <3>1. sessions' = [s \in Slots |-> IF sessions[s].user = u THEN Spent ELSE sessions[s]]
      BY <1>2, <2>1 DEF SessionsWiped
    <3>2. ~Held(Spent) BY DEF Held
    <3>3. Target(o)' = u BY <1>7, <1>12, <1>13 DEF Target
    <3> HIDE DEF u
    <3> QED BY <3>1, <3>2, <3>3 DEF SessionsPassed
  <2>2. CASE r.pc = "keys"
    <3>1. sessions' = sessions BY <1>3, <2>2 DEF KeysWiped
    <3>2. SessionsPassed(o) BY <1>18, <2>2 DEF AccountsInv, WipedSoFar
    <3>3. Target(o)' = Target(o) BY <1>7, <1>12, <1>13 DEF Target
    <3> QED BY <3>1, <3>2, <3>3 DEF SessionsPassed
  <2> QED BY <1>1, <2>1, <2>2
<1>20. pc \in {"tickets", "row"} => KeyPassed(o)'
  <2>1. SUFFICES ASSUME r.pc = "keys" PROVE KeyPassed(o)' BY <1>10
  <2>2. keyRow' = [keyRow EXCEPT ![u] = [state |-> "none"]] BY <1>3, <2>1 DEF KeysWiped
  <2>3. Target(o)' = u BY <1>7, <1>12, <1>13 DEF Target
  <2> HIDE DEF u
  <2>4. keyRow'[u].state = "none" BY <1>6, <2>2 DEF AccountsInv, RowTypes
  <2> QED BY <2>3, <2>4 DEF KeyPassed
<1>21. WipedSoFar' BY <1>7, <1>13, <1>15, <1>19, <1>20, WipedKept
<1>22. \A v \in Accts : Wiping(v) => Wiping(v)'
  BY <1>7, <1>9, <1>12, <1>13, <1>18 DEF Wiping, Target
<1>23. \A v \in Accts : Steady(v) BY <1>16, <1>17, <1>22 DEF Steady, Pardoned
<1>24. RowsFit' /\ SecretsFit' BY <1>15, <1>23, FitsKept, SecretsKept
<1>25. TargetsKnown'
  <2>1. role[u] # "none" BY <1>1, <1>18 DEF AccountsInv, TargetsKnown
  <2> QED BY <1>7, <1>12, <1>13, <1>16, <2>1 DEF AccountsInv, TargetsKnown, Target
<1>26. OneIsLeft'
  <2>1. ASSUME NEW p \in AuthOps, Lowering(p)' PROVE Lowering(p) /\ Target(p)' = Target(p)
    <3>1. CASE p = o BY <1>1, <1>7, <1>9, <1>12, <1>13, <1>18, <2>1, <3>1 DEF Lowering, Target
    <3>2. CASE p # o BY <1>13, <2>1, <3>2 DEF Lowering, Target
    <3> QED BY <3>1, <3>2
  <2> QED BY <1>16, <1>17, <2>1 DEF AccountsInv, OneIsLeft
<1>27. Led' /\ OwnNames' BY <1>16, <1>17 DEF AccountsInv, Led, OwnNames, Present
<1> QED BY <1>13, <1>15, <1>21, <1>24, <1>25, <1>26, <1>27 DEF AccountsInv

\* The recovery is through.
LEMMA TicketsDroppedKeeps ==
    ASSUME AccountsInv, asked' \in 0 .. MaxAsked, NEW o \in AuthOps, TicketsDropped(o)
    PROVE  AccountsInv'
<1>0. PICK u : u = Target(o) OBVIOUS
<1>1. authOp[o].pc = "tickets" /\ AuthNextAt(o, "welcome") /\ UNCHANGED <<Rows, Ledger>>
  BY DEF TicketsDropped, AuthAt
<1>2. tickets' = [k \in Tickets |-> IF tickets[k].user = u THEN Spent ELSE tickets[k]] BY <1>0 DEF TicketsDropped
<1>3. PICK op : OpOf(o, op) /\ op.pc = "welcome" BY <1>1, NextOps DEF OfOwner
<1>4. AuthTypes' /\ authOp'[o] = op /\ \A p \in AuthOps : p # o => authOp'[p] = authOp[p]
  BY <1>3, AuthMoved DEF OpOf
<1>5. RowsFewer
  BY <1>1, <1>2 DEF RowsFewer, AccountsInv, RowTypes, Rows
<1>6. RowTypes' /\ RowsMove /\ SecretsMove BY <1>5, RowsForgotten
<1>7. role' = role /\ generation' = generation /\ headless' = headless /\ cutOff' = cutOff
  BY <1>5 DEF RowsFewer, Ledger
<1>8. Present' = Present /\ Admins' = Admins /\ \A v \in Accts : Named(v)' = Named(v) BY <1>7, SameRoles
<1>9. TargetsKnown' BY <1>3, <1>4, <1>7 DEF AccountsInv, TargetsKnown, Target
<1>10. OneIsLeft' BY <1>3, <1>4, <1>7, <1>8 DEF AccountsInv, OneIsLeft, Lowering, Target
<1>11. WipedSoFar' BY <1>3, <1>4, <1>6, WipedKept
<1>12. Clean(u)'
  <2>1. SessionsPassed(o) /\ KeyPassed(o) BY <1>1 DEF AccountsInv, WipedSoFar
  <2>2. sessions' = sessions /\ keyRow' = keyRow BY <1>1 DEF Rows
  <2>3. ~Held(Spent) BY DEF Held
  <2>4. \A k \in Tickets : Held(tickets'[k]) => tickets'[k].user # u BY <1>2, <2>3
  <2> QED BY <1>0, <2>1, <2>2, <2>4 DEF Clean, SessionsPassed, KeyPassed
<1>13. ASSUME NEW v \in Accts, v # u, Wiping(v) PROVE Wiping(v)'
  BY <1>0, <1>4, <1>13 DEF Wiping, Target
<1>14. \A v \in Accts : Steady(v)
  BY <1>7, <1>8, <1>12, <1>13 DEF Steady, Pardoned
<1>15. RowsFit' /\ SecretsFit' BY <1>6, <1>14, FitsKept, SecretsKept
<1>16. Led' /\ OwnNames' BY <1>7, <1>8 DEF AccountsInv, Led, OwnNames, Present
<1> QED BY <1>4, <1>6, <1>9, <1>10, <1>11, <1>15, <1>16 DEF AccountsInv

\* A user is added, whose name nobody has.
LEMMA Inserting ==
    ASSUME AccountsInv, asked' \in 0 .. MaxAsked, NEW o \in AuthOps, NEW op, OpOf(o, op), NEW t \in Accts,
           t = Target(o), authOp[o].pc \notin Wipes \union {"demote"}, op.pc \in {"idle", "welcome", "sessions"},
           op.pc = "sessions" => op.user = t /\ op.end = "tickets",
           NEW r \in {"admin", "normal"}, role[t] = "none", Named(t) = {}, role' = [role EXCEPT ![t] = r],
           headless' \in BOOLEAN, headless => headless', r = "normal" /\ Admins = {} => headless',
           UNCHANGED <<bound, sessions, keyRow, tickets, generation, cutOff>>
    PROVE  AccountsInv'
<1>1. AuthTypes' /\ authOp'[o] = op /\ \A p \in AuthOps : p # o => authOp'[p] = authOp[p]
  BY AuthMoved DEF OpOf
<1>2. /\ role' \in [Accts -> {"none", "admin", "normal", "gone"}] /\ role'[t] = r
      /\ \A u \in Accts : u # t => role'[u] = role[u]
  BY DEF AccountsInv, RowTypes
<1>3. RowTypes' BY <1>2 DEF AccountsInv, RowTypes
<1>4. RowsMove /\ SecretsMove BY DEF RowsMove, SecretsMove
<1>5. /\ Present' = Present \union {t} /\ t \notin Present
      /\ Admins \subseteq Admins' /\ (r = "admin" => t \in Admins') /\ \A u \in Admins' : u \in Admins \/ u = t
  BY <1>2 DEF Present, Admins
<1>6. TargetsKnown' BY <1>1, <1>2 DEF AccountsInv, TargetsKnown, Target
<1>7. OneIsLeft'
  <2>1. ASSUME NEW p \in AuthOps, Lowering(p)', ~headless', Target(p)' \in Admins' PROVE Admins' \ {Target(p)'} # {}
    <3>1. p # o BY <1>1, <2>1 DEF Lowering
    <3>2. Lowering(p) /\ Target(p)' = Target(p) BY <1>1, <2>1, <3>1 DEF Lowering, Target
    <3>3. role[Target(p)] # "none" BY <3>2 DEF AccountsInv, TargetsKnown, Lowering
    <3>4. Target(p) # t BY <3>3
    <3>5. Target(p) \in Admins BY <1>5, <2>1, <3>2, <3>4
    <3>6. Admins \ {Target(p)} # {} BY <2>1, <3>2, <3>5 DEF AccountsInv, OneIsLeft
    <3> QED BY <1>5, <3>2, <3>6
  <2> QED BY <2>1 DEF OneIsLeft
<1>8. WipedSoFar' BY <1>1, <1>3, <1>4, WipedKept
<1>9. \A v \in Accts : Wiping(v) => Wiping(v)' BY <1>1 DEF Wiping, Wipes, Target
<1>10. \A v \in Accts : Steady(v) BY <1>2, <1>5, <1>9 DEF Steady, Pardoned
<1>11. RowsFit' /\ SecretsFit' BY <1>3, <1>4, <1>10, FitsKept, SecretsKept
<1>12. Led' BY <1>5 DEF AccountsInv, Led
<1>13. OwnNames'
  <2>1. \A u, v \in Accts : Called(u, v) <=> Called(v, u) BY DEF Called
  <2>2. \A v \in Present : v \in Accts /\ ~Called(t, v) BY DEF Named, Present
  <2>3. ASSUME NEW u \in Present PROVE Named(u)' = {u}
    <3>1. Named(u) = {u} BY DEF AccountsInv, OwnNames
    <3>2. ~Called(u, t) BY <2>1, <2>2
    <3> QED BY <1>5, <3>1, <3>2 DEF Named
  <2>4. Named(t)' = {t}
    <3>1. Called(t, t) BY DEF Called
    <3> QED BY <1>5, <2>2, <3>1 DEF Named
  <2> QED BY <1>5, <2>3, <2>4 DEF OwnNames
<1> QED BY <1>1, <1>3, <1>6, <1>7, <1>8, <1>11, <1>12, <1>13 DEF AccountsInv

\* A name that is taken.
LEMMA NotInserted ==
    ASSUME AccountsInv, asked' \in 0 .. MaxAsked, NEW o \in AuthOps, authOp[o].pc \notin Wipes,
           AuthOver(o), UNCHANGED <<Rows, tickets, generation, cutOff>>, headless' \in BOOLEAN, headless => headless'
    PROVE  AccountsInv'
<1>1. PICK op : OpOf(o, op) /\ op.pc = "idle" BY RestingOps
<1>2. AuthTypes' /\ authOp'[o] = op /\ \A p \in AuthOps : p # o => authOp'[p] = authOp[p]
  BY <1>1, AuthMoved DEF OpOf
<1>3. role' = role /\ generation' = generation /\ cutOff' = cutOff BY DEF Rows
<1>4. RowTypes' BY DEF Rows, AccountsInv, RowTypes
<1>5. RowsMove /\ SecretsMove BY <1>3 DEF Rows, RowsMove, SecretsMove
<1>6. Present' = Present /\ Admins' = Admins /\ \A v \in Accts : Named(v)' = Named(v) BY <1>3, SameRoles
<1>7. TargetsKnown' BY <1>1, <1>2, <1>3 DEF AccountsInv, TargetsKnown, Target
<1>8. OneIsLeft' BY <1>1, <1>2, <1>6 DEF AccountsInv, OneIsLeft, Lowering, Target
<1>9. WipedSoFar' BY <1>1, <1>2, <1>4, <1>5, WipedKept
<1>10. \A v \in Accts : Wiping(v) => Wiping(v)' BY <1>2 DEF Wiping, Wipes, Target
<1>11. \A v \in Accts : Steady(v) BY <1>3, <1>6, <1>10 DEF Steady, Pardoned
<1>12. RowsFit' /\ SecretsFit' BY <1>4, <1>5, <1>11, FitsKept, SecretsKept
<1>13. Led' /\ OwnNames' BY <1>6 DEF AccountsInv, Led, OwnNames, Present
<1> QED BY <1>2, <1>4, <1>7, <1>8, <1>9, <1>12, <1>13 DEF AccountsInv

\* Steps that insert a row of an account.
LEMMA InsertingSteps ==
    ASSUME AccountsInv, asked' \in 0 .. MaxAsked, NEW o \in AuthOps,
           FirstInserted(o) \/ OwnerInserted(o) \/ UserCreated(o)
    PROVE  AccountsInv'
<1> DEFINE r == authOp[o]
           t == Target(o)
<1>0. AuthShape(r) BY DEF AccountsInv, AuthTypes
<1>1. r.pc \in {"first", "again", "create"} BY DEF FirstInserted, OwnerInserted, UserCreated, AuthAt
<1>2. t \in Accts
  <2>1. authOp[o] # Resting BY <1>1 DEF Resting
  <2> QED BY <2>1, TargetsAre
<1>3. r.pc \notin Wipes \union {"demote"} BY <1>1 DEF Wipes
<1>4. headless \in BOOLEAN BY DEF AccountsInv, RowTypes
<1>5. CASE FirstInserted(o)
  <2>1. r.pc = "first" /\ UNCHANGED <<bound, sessions, keyRow, tickets, generation, headless, cutOff>>
    BY <1>5 DEF FirstInserted, AuthAt, Ledger
  <2>2. CASE role[t] = "none" /\ Named(t) = {}
    <3>1. role' = [role EXCEPT ![t] = "admin"] /\ AuthNextAt(o, "welcome")
      BY <1>5, <2>2 DEF FirstInserted, Insert
    <3>2. PICK op : OpOf(o, op) /\ op.pc = "welcome" BY <2>1, <3>1, NextOps DEF OfOwner
    <3> HIDE DEF r, t
    <3> QED BY <1>2, <1>3, <1>4, <2>1, <2>2, <3>1, <3>2, Inserting DEF r, t
  <2>3. CASE ~(role[t] = "none" /\ Named(t) = {})
    <3>1. UNCHANGED role /\ AuthOver(o) BY <1>5, <2>3 DEF FirstInserted, Insert
    <3> QED BY <1>3, <1>4, <2>1, <3>1, NotInserted DEF Rows
  <2> QED BY <2>2, <2>3
<1>6. CASE OwnerInserted(o)
  <2>1. r.pc = "again" /\ UNCHANGED <<bound, sessions, keyRow, tickets, generation, headless, cutOff>>
    BY <1>6 DEF OwnerInserted, AuthAt, Ledger
  <2>2. CASE role[t] = "none" /\ Named(t) = {}
    <3>1. role' = [role EXCEPT ![t] = "admin"] /\ AuthNextAt(o, "sessions")
      BY <1>6, <2>2 DEF OwnerInserted, Insert
    <3> DEFINE op == [r EXCEPT !.pc = "sessions"]
    <3>2. r = [pc |-> r.pc, user |-> r.user, of |-> r.of, end |-> "tickets"]
      <4> HIDE DEF r
      <4> QED BY <1>0, <2>1 DEF AuthShape, Resting, OfLogin, OfTicket, OfSession, OfOwner, OfDelete
    <3>3. op = [pc |-> "sessions", user |-> r.user, of |-> r.of, end |-> "tickets"]
      <4> HIDE DEF r
      <4> QED BY <3>2
    <3>4. op.pc = "sessions" /\ op.user = r.user /\ op.end = "tickets" BY <3>3
    <3>5. r.user = t BY DEF Target
    <3>6. AuthShape([pc |-> "sessions", user |-> r.user, of |-> r.of, end |-> "tickets"])
      BY <1>2, <3>5, StartShapes DEF OfOwner
    <3>7. OpOf(o, op) BY <3>1, <3>3, <3>6 DEF OpOf, AuthNextAt
    <3> HIDE DEF r, t, op
    <3> QED BY <1>2, <1>3, <1>4, <2>1, <2>2, <3>1, <3>4, <3>5, <3>7, Inserting DEF r, t
  <2>3. CASE ~(role[t] = "none" /\ Named(t) = {})
    <3>1. UNCHANGED role /\ AuthOver(o) BY <1>6, <2>3 DEF OwnerInserted, Insert
    <3> QED BY <1>3, <1>4, <2>1, <3>1, NotInserted DEF Rows
  <2> QED BY <2>2, <2>3
<1>7. CASE UserCreated(o)
  <2>1. /\ r.pc = "create" /\ UNCHANGED <<bound, sessions, keyRow, tickets, generation, cutOff>>
        /\ headless' = (headless \/ Admins = {})
    BY <1>7 DEF UserCreated, AuthAt
  <2>2. headless' \in BOOLEAN /\ (headless => headless') /\ (Admins = {} => headless') BY <1>4, <2>1
  <2>3. r.role \in {"admin", "normal"}
    <3> HIDE DEF r
    <3> QED BY <1>0, <2>1 DEF AuthShape, Resting, OfLogin, OfTicket, OfSession, OfOwner, OfDelete
  <2>4. AuthOver(o) BY <1>7 DEF UserCreated, Insert
  <2>5. CASE role[t] = "none" /\ Named(t) = {}
    <3>1. role' = [role EXCEPT ![t] = r.role] BY <1>7, <2>5 DEF UserCreated, Insert
    <3>2. PICK op : OpOf(o, op) /\ op.pc = "idle" BY <2>4, RestingOps
    <3> HIDE DEF r, t
    <3> QED BY <1>2, <1>3, <2>1, <2>2, <2>3, <2>5, <3>1, <3>2, Inserting DEF r, t
  <2>6. CASE ~(role[t] = "none" /\ Named(t) = {})
    <3>1. UNCHANGED role BY <1>7, <2>6 DEF UserCreated, Insert
    <3> QED BY <1>3, <2>1, <2>2, <2>4, <3>1, NotInserted DEF Rows
  <2> QED BY <2>5, <2>6
<1> QED BY <1>5, <1>6, <1>7

\* No other request that makes administrators fewer is left, or it is told.
LEMMA Crossing ==
    ASSUME AccountsInv, NEW o \in AuthOps, CrossedIf(o)
    PROVE  /\ headless' \in BOOLEAN /\ (headless => headless')
           /\ ~headless' => \A p \in AuthOps : p # o => ~Lowering(p)
  BY DEF AccountsInv, RowTypes, CrossedIf

\* A role is written: only the counted one may leave no administrator.
LEMMA RoleWrittenKeeps ==
    ASSUME AccountsInv, asked' \in 0 .. MaxAsked, NEW o \in AuthOps, RoleWritten(o)
    PROVE  AccountsInv'
<1>0. PICK t : t = Target(o) OBVIOUS
<1>1. /\ authOp[o].pc \in {"demote", "promote"} /\ AuthOver(o) /\ CrossedIf(o)
      /\ UNCHANGED <<bound, sessions, keyRow, tickets, generation, cutOff>>
  BY DEF RoleWritten
<1>2. t \in Accts
  <2>1. authOp[o] # Resting BY <1>1 DEF Resting
  <2> QED BY <1>0, <2>1, TargetsAre
<1>3. PICK op : OpOf(o, op) /\ op.pc = "idle" BY <1>1, RestingOps
<1>4. AuthTypes' /\ authOp'[o] = op /\ \A p \in AuthOps : p # o => authOp'[p] = authOp[p]
  BY <1>3, AuthMoved DEF OpOf
<1>5. /\ headless' \in BOOLEAN /\ (headless => headless')
      /\ ~headless' => \A p \in AuthOps : p # o => ~Lowering(p)
  BY <1>1, Crossing
<1>6. role[t] # "none" BY <1>0, <1>1 DEF AccountsInv, TargetsKnown
<1>7. /\ role' \in [Accts -> {"none", "admin", "normal", "gone"}]
      /\ \A u \in Accts : u # t => role'[u] = role[u]
      /\ role[t] = "gone" => role'[t] = "gone"
      /\ role[t] # "gone" => role'[t] = IF authOp[o].pc = "demote" THEN "normal" ELSE "admin"
  BY <1>0, <1>2 DEF RoleWritten, AccountsInv, RowTypes
<1>8. RowTypes' BY <1>1, <1>5, <1>7 DEF AccountsInv, RowTypes
<1>9. RowsMove /\ SecretsMove BY <1>1 DEF RowsMove, SecretsMove
<1>10. Present' = Present
  <2>1. t \in Present \/ role[t] = "gone" BY <1>2, <1>6 DEF Present, AccountsInv, RowTypes
  <2>2. role[t] = "gone" => t \notin Present /\ t \notin Present' BY <1>7 DEF Present
  <2>3. role[t] # "gone" => t \in Present' BY <1>2, <1>7 DEF Present
  <2>4. ASSUME NEW u, u # t PROVE u \in Present' <=> u \in Present BY <1>7, <2>4 DEF Present
  <2> QED BY <2>1, <2>2, <2>3, <2>4
<1>11. TargetsKnown'
  <2>1. ASSUME NEW v \in Accts, role[v] # "none" PROVE role'[v] # "none" BY <1>7, <2>1
  <2>2. ASSUME NEW p \in AuthOps, p # o, authOp[p].pc # "idle" PROVE Target(p) \in Accts /\ Target(p)' = Target(p)
    <3>1. authOp[p] # Resting BY <2>2 DEF Resting
    <3> QED BY <1>4, <2>2, <3>1, TargetsAre DEF Target
  <2> QED BY <1>3, <1>4, <2>1, <2>2 DEF AccountsInv, TargetsKnown
<1>12. OneIsLeft' BY <1>3, <1>4, <1>5 DEF OneIsLeft, Lowering
<1>13. WipedSoFar' BY <1>3, <1>4, <1>8, <1>9, WipedKept
<1>14. \A v \in Accts : Wiping(v) => Wiping(v)' BY <1>1, <1>4 DEF Wiping, Target
<1>15. \A v \in Accts : Steady(v) BY <1>1, <1>7, <1>10, <1>14 DEF Steady, Pardoned
<1>16. RowsFit' /\ SecretsFit' BY <1>8, <1>9, <1>15, FitsKept, SecretsKept
<1>17. OwnNames' BY <1>10 DEF AccountsInv, OwnNames, Named
<1>18. Led'
  <2>1. SUFFICES ASSUME ~headless', Present # {} PROVE Admins' # {} BY <1>10 DEF Led
  <2>2. Admins # {} BY <1>5, <2>1 DEF AccountsInv, Led
  <2>3. \A u \in Admins : u # t => u \in Admins' BY <1>7 DEF Admins
  <2>4. CASE t \notin Admins BY <2>2, <2>3, <2>4
  <2>5. CASE t \in Admins
    <3>1. role[t] = "admin" BY <2>5 DEF Admins
    <3>2. CASE authOp[o].pc = "demote"
      <4>1. Lowering(o) BY <3>2 DEF Lowering
      <4>2. Admins \ {t} # {} BY <1>0, <1>5, <2>1, <2>5, <4>1 DEF AccountsInv, OneIsLeft
      <4> QED BY <2>3, <4>2
    <3>3. CASE authOp[o].pc = "promote"
      <4>1. role'[t] = "admin" BY <1>7, <3>1, <3>3
      <4> QED BY <1>2, <4>1 DEF Admins
    <3> QED BY <1>1, <3>2, <3>3
  <2> QED BY <2>4, <2>5
<1> QED BY <1>4, <1>8, <1>11, <1>12, <1>13, <1>16, <1>17, <1>18 DEF AccountsInv

\* The row is deleted after all that hung on it.
LEMMA RowDeletedKeeps ==
    ASSUME AccountsInv, asked' \in 0 .. MaxAsked, NEW o \in AuthOps, RowDeleted(o)
    PROVE  AccountsInv'
<1>0. PICK t : t = Target(o) OBVIOUS
<1>1. /\ authOp[o].pc = "row" /\ AuthOver(o) /\ CrossedIf(o)
      /\ UNCHANGED <<sessions, keyRow, tickets, generation, cutOff>>
      /\ role' = [role EXCEPT ![t] = "gone"] /\ bound' = [bound EXCEPT ![t] = Unbound]
  BY <1>0 DEF RowDeleted, AuthAt
<1>2. t \in Accts
  <2>1. authOp[o] # Resting BY <1>1 DEF Resting
  <2> QED BY <1>0, <2>1, TargetsAre
<1>3. PICK op : OpOf(o, op) /\ op.pc = "idle" BY <1>1, RestingOps
<1>4. AuthTypes' /\ authOp'[o] = op /\ \A p \in AuthOps : p # o => authOp'[p] = authOp[p]
  BY <1>3, AuthMoved DEF OpOf
<1>5. /\ headless' \in BOOLEAN /\ (headless => headless')
      /\ ~headless' => \A p \in AuthOps : p # o => ~Lowering(p)
  BY <1>1, Crossing
<1>6. Lowering(o)
  <2> DEFINE r == authOp[o]
  <2>1. AuthShape(r) /\ r.pc = "row" BY <1>1 DEF AccountsInv, AuthTypes
  <2>2. r.end = "row"
    <3> HIDE DEF r
    <3> QED BY <2>1 DEF AuthShape, Resting, OfLogin, OfTicket, OfSession, OfOwner, OfDelete
  <2> QED BY <2>1, <2>2 DEF Lowering
<1>7. /\ role' \in [Accts -> {"none", "admin", "normal", "gone"}]
      /\ role'[t] = "gone" /\ \A u \in Accts : u # t => role'[u] = role[u]
  BY <1>1, <1>2 DEF AccountsInv, RowTypes
<1>8. bound' = [u \in Accts |-> bound'[u]] /\ bound'[t] = Unbound /\ \A u \in Accts : u # t => bound'[u] = bound[u]
  BY <1>1, <1>2 DEF AccountsInv, RowTypes
<1>9. RowTypes' BY <1>1, <1>5, <1>7, <1>8 DEF AccountsInv, RowTypes
<1>10. RowsMove BY <1>1 DEF RowsMove
<1>11. SecretsMove BY <1>1, <1>8 DEF SecretsMove
<1>12. Present' = Present \ {t} /\ Admins' = Admins \ {t} BY <1>7 DEF Present, Admins
<1>13. TargetsKnown'
  <2>1. ASSUME NEW v \in Accts, role[v] # "none" PROVE role'[v] # "none" BY <1>7, <2>1
  <2>2. ASSUME NEW p \in AuthOps, p # o, authOp[p].pc # "idle" PROVE Target(p) \in Accts /\ Target(p)' = Target(p)
    <3>1. authOp[p] # Resting BY <2>2 DEF Resting
    <3> QED BY <1>4, <2>2, <3>1, TargetsAre DEF Target
  <2> QED BY <1>3, <1>4, <2>1, <2>2 DEF AccountsInv, TargetsKnown
<1>14. OneIsLeft' BY <1>3, <1>4, <1>5 DEF OneIsLeft, Lowering
<1>15. WipedSoFar' BY <1>3, <1>4, <1>9, <1>10, WipedKept
<1>16. Clean(t)'
  <2>1. SessionsPassed(o) /\ KeyPassed(o) BY <1>1 DEF AccountsInv, WipedSoFar
  <2> QED BY <1>0, <1>1, <1>7, <2>1 DEF Clean, SessionsPassed, KeyPassed
<1>17. ASSUME NEW v \in Accts, v # t, Wiping(v) PROVE Wiping(v)'
  BY <1>0, <1>4, <1>17 DEF Wiping, Target
<1>18. \A v \in Accts : Steady(v)
  BY <1>1, <1>7, <1>12, <1>16, <1>17 DEF Steady, Pardoned
<1>19. RowsFit' /\ SecretsFit' BY <1>9, <1>10, <1>11, <1>18, FitsKept, SecretsKept
<1>20. OwnNames' BY <1>12 DEF AccountsInv, OwnNames, Named
<1>21. Led'
  <2>1. SUFFICES ASSUME ~headless', Present \ {t} # {} PROVE Admins \ {t} # {} BY <1>12 DEF Led
  <2>2. Admins # {} BY <1>5, <2>1 DEF AccountsInv, Led
  <2>3. t \in Admins => Admins \ {t} # {} BY <1>0, <1>5, <1>6, <2>1 DEF AccountsInv, OneIsLeft
  <2> QED BY <2>2, <2>3
<1> QED BY <1>4, <1>9, <1>13, <1>14, <1>15, <1>19, <1>20, <1>21 DEF AccountsInv

\* A statement that fails cuts a wipe off.
LEMMA StatementFailsKeeps ==
    ASSUME AccountsInv, asked' \in 0 .. MaxAsked, NEW o \in AuthOps, StatementFails(o)
    PROVE  AccountsInv'
<1>0. PICK t : t = Target(o) OBVIOUS
<1>1. /\ AuthOver(o) /\ cutOff' = (IF Wiping(t) THEN cutOff \union {t} ELSE cutOff)
      /\ UNCHANGED <<role, bound, sessions, keyRow, tickets, generation, headless>>
  BY <1>0 DEF StatementFails, Rows
<1>2. PICK op : OpOf(o, op) /\ op.pc = "idle" BY <1>1, RestingOps
<1>3. AuthTypes' /\ authOp'[o] = op /\ \A p \in AuthOps : p # o => authOp'[p] = authOp[p]
  BY <1>2, AuthMoved DEF OpOf
<1>4. RowTypes' BY <1>1 DEF AccountsInv, RowTypes
<1>5. RowsMove /\ SecretsMove BY <1>1 DEF RowsMove, SecretsMove
<1>6. Present' = Present /\ Admins' = Admins /\ \A v \in Accts : Named(v)' = Named(v) BY <1>1, SameRoles
<1>7. TargetsKnown' BY <1>1, <1>2, <1>3 DEF AccountsInv, TargetsKnown, Target
<1>8. OneIsLeft' BY <1>1, <1>2, <1>3, <1>6 DEF AccountsInv, OneIsLeft, Lowering, Target
<1>9. WipedSoFar' BY <1>2, <1>3, <1>4, <1>5, WipedKept
<1>10. ASSUME NEW v \in Accts, Wiping(v) PROVE Wiping(v)' \/ v \in cutOff'
  <2>1. PICK p \in AuthOps : authOp[p].pc \in {"sessions", "keys", "row", "tickets"} /\ Target(p) = v
    BY <1>10 DEF Wiping
  <2>2. CASE p = o BY <1>0, <1>1, <1>10, <2>1, <2>2
  <2>3. CASE p # o BY <1>3, <2>1, <2>3 DEF Wiping, Target
  <2> QED BY <2>2, <2>3
<1>11. cutOff \subseteq cutOff' BY <1>1
<1>12. \A v \in Accts : Steady(v) BY <1>1, <1>6, <1>10, <1>11 DEF Steady, Pardoned
<1>13. RowsFit' /\ SecretsFit' BY <1>4, <1>5, <1>12, FitsKept, SecretsKept
<1>14. Led' /\ OwnNames' BY <1>1, <1>6 DEF AccountsInv, Led, OwnNames, Present
<1> QED BY <1>3, <1>4, <1>7, <1>8, <1>9, <1>13, <1>14 DEF AccountsInv

\* A restart cuts every wipe off and forgets the tickets.
LEMMA AuthRestartsKeeps ==
    ASSUME AccountsInv, asked' \in 0 .. MaxAsked, AuthRestarts PROVE AccountsInv'
<1>1. /\ authOp' = [o \in AuthOps |-> Resting] /\ cutOff' = cutOff \union {u \in Accts : Wiping(u)}
      /\ UNCHANGED <<role, bound, sessions, keyRow, generation, headless>>
      /\ tickets' = [k \in Tickets |-> IF Held(tickets[k]) THEN Spent ELSE tickets[k]]
  BY DEF AuthRestarts, Rows
<1>2. \A o \in AuthOps : authOp'[o] = Resting /\ authOp'[o].pc = "idle" BY <1>1 DEF Resting
<1>3. AuthTypes' BY <1>1, <1>2, StartShapes DEF AuthTypes
<1>4. ~Held(Spent) BY DEF Held
<1>5. \A k \in Tickets : ~Held(tickets'[k])
  <2>1. \A k \in Tickets : tickets'[k] = IF Held(tickets[k]) THEN Spent ELSE tickets[k] BY <1>1
  <2> QED BY <1>4, <2>1
<1>6. tickets' = [k \in Tickets |-> tickets'[k]] BY <1>1
<1>7. RowTypes' BY <1>1, <1>5, <1>6 DEF AccountsInv, RowTypes
<1>8. RowsMove BY <1>1, <1>5 DEF RowsMove
<1>9. SecretsMove BY <1>1 DEF SecretsMove
<1>10. Present' = Present /\ Admins' = Admins /\ \A v \in Accts : Named(v)' = Named(v) BY <1>1, SameRoles
<1>11. TargetsKnown' /\ OneIsLeft' /\ WipedSoFar' BY <1>2 DEF TargetsKnown, OneIsLeft, WipedSoFar, Lowering
<1>12. \A v \in Accts : Steady(v) BY <1>1, <1>10 DEF Steady, Pardoned
<1>13. RowsFit' /\ SecretsFit' BY <1>7, <1>8, <1>9, <1>12, FitsKept, SecretsKept
<1>14. Led' /\ OwnNames' BY <1>1, <1>10 DEF AccountsInv, Led, OwnNames, Present
<1> QED BY <1>3, <1>7, <1>11, <1>13, <1>14 DEF AccountsInv

\* A ticket expires.
LEMMA TicketExpiresKeeps ==
    ASSUME AccountsInv, asked' \in 0 .. MaxAsked, NEW k \in Tickets, TicketExpires(k) PROVE AccountsInv'
<1>1. /\ authOp' = authOp /\ UNCHANGED <<role, bound, sessions, keyRow, generation, headless, cutOff>>
      /\ tickets' = [tickets EXCEPT ![k] = Spent]
  BY DEF TicketExpires, Rows, Ledger
<1>2. AuthTypes' BY <1>1 DEF AccountsInv, AuthTypes
<1>3. RowsFewer BY <1>1 DEF AccountsInv, RowTypes, RowsFewer, Ledger
<1>4. RowTypes' /\ RowsMove /\ SecretsMove BY <1>3, RowsForgotten
<1>5. Present' = Present /\ Admins' = Admins /\ \A v \in Accts : Named(v)' = Named(v) BY <1>1, SameRoles
<1>6. \A o \in AuthOps : Target(o)' = Target(o) /\ (Lowering(o)' <=> Lowering(o)) BY <1>1 DEF Target, Lowering
<1>7. TargetsKnown' /\ OneIsLeft' BY <1>1, <1>5, <1>6 DEF AccountsInv, TargetsKnown, OneIsLeft
<1>8. WipedSoFar' BY <1>1, <1>6 DEF AccountsInv, WipedSoFar, SessionsPassed, KeyPassed
<1>9. \A v \in Accts : Wiping(v) => Wiping(v)' BY <1>1 DEF Wiping, Target
<1>10. \A v \in Accts : Steady(v) BY <1>1, <1>5, <1>9 DEF Steady, Pardoned
<1>11. RowsFit' /\ SecretsFit' BY <1>4, <1>10, FitsKept, SecretsKept
<1>12. Led' /\ OwnNames' BY <1>1, <1>5 DEF AccountsInv, Led, OwnNames, Present
<1> QED BY <1>2, <1>4, <1>7, <1>8, <1>11, <1>12 DEF AccountsInv

-----------------------------------------------------------------------------

\* Before the first account.
LEMMA AccountsInitHolds == AccountsInit => AccountsInv
<1> SUFFICES ASSUME AccountsInit PROVE AccountsInv OBVIOUS
<1>1. \A o \in AuthOps : authOp[o] = Resting /\ authOp[o].pc = "idle" BY DEF AccountsInit, Resting
<1>2. AuthTypes BY <1>1, StartShapes, AccountsAssumption DEF AccountsInit, AuthTypes
<1>3. /\ \A k \in Tickets : ~Held(tickets[k])
      /\ \A u \in Accts : keyRow[u].state = "none" /\ KeyShape(keyRow[u])
  BY DEF AccountsInit, Held, KeyShape
<1>4. \A s \in Slots : Held(sessions[s]) => sessions[s].user \in Present /\ sessions[s].of = 0
  BY DEF AccountsInit, Held
<1>5. RowTypes
  <2>1. generation \in [Accts -> 0 .. MaxResets] BY AccountsAssumption DEF AccountsInit
  <2>2. bound = [u \in Accts |-> bound[u]] /\ keyRow = [u \in Accts |-> keyRow[u]]
        /\ tickets = [k \in Tickets |-> tickets[k]] /\ sessions = [s \in Slots |-> sessions[s]]
    BY DEF AccountsInit
  <2>3. role \in [Accts -> {"none", "admin", "normal", "gone"}] BY DEF AccountsInit
  <2> QED BY <1>3, <1>4, <2>1, <2>2, <2>3 DEF AccountsInit, RowTypes, Present
<1>6. TargetsKnown /\ OneIsLeft /\ WipedSoFar BY <1>1 DEF TargetsKnown, OneIsLeft, WipedSoFar, Lowering
<1>7. \A u \in Accts : generation[u] = 0 BY DEF AccountsInit
<1>8. RowsFit BY <1>3, <1>4, <1>7 DEF RowsFit, Fits, Present
<1>9. SecretsFit
  <2>1. \A u \in Accts : bound[u] = IF u \in Present THEN [of |-> 0, late |-> FALSE] ELSE Unbound BY DEF AccountsInit
  <2> QED BY <1>7, <2>1 DEF SecretsFit
<1>10. Led /\ OwnNames BY DEF AccountsInit, Led, OwnNames
<1> QED BY <1>2, <1>5, <1>6, <1>8, <1>9, <1>10 DEF AccountsInv

\* One step keeps the invariant.
LEMMA AccountsKept == AccountsInv /\ [AccountsNext]_accountsVars => AccountsInv'
<1> SUFFICES ASSUME AccountsInv, [AccountsNext]_accountsVars PROVE AccountsInv' OBVIOUS
<1>1. CASE AccountsNext
  <2>1. asked' \in 0 .. MaxAsked
    <3>1. asked \in 0 .. MaxAsked BY DEF AccountsInv, AuthTypes
    <3>2. asked' = asked \/ (asked < MaxAsked /\ asked' = asked + 1) BY <1>1 DEF AccountsNext
    <3> QED BY <3>1, <3>2, AccountsAssumption
  <2>2. ASSUME NEW o \in AuthOps, AuthAsks(o) PROVE AccountsInv'
    <3>1. CASE \E u \in Accts : DeleteUser(o, u) BY <2>1, <3>1, DeleteUserKeeps
    <3>2. CASE ~\E u \in Accts : DeleteUser(o, u)
      <4>1. \/ \E u \in Accts : Login(o, u) \/ Onboard(o, u) \/ \E r \in {"admin", "normal"} : CreateUser(o, u, r) \/ PatchUser(o, u, r)
            \/ \E k \in Tickets : Second(o, k) \/ Enroll(o, k)
            \/ \E s \in Slots, what \in OfSession : Gate(o, s, what)
        BY <2>2, <3>2 DEF AuthAsks, OfSession
      <4> QED BY <2>1, <4>1, Logins
    <3> QED BY <3>1, <3>2
  <2>3. ASSUME NEW o \in AuthOps, GoesOn(o) PROVE AccountsInv'
    <3>1. \/ Reads(o) \/ Forgets(o) \/ Issue(o) \/ CreateKey(o) \/ Bind(o) \/ LoginNeedsMore(o) \/ Welcome(o)
          \/ CountAdmins(o) \/ OwnerReset(o) \/ SessionsWiped(o) \/ KeysWiped(o) \/ TicketsDropped(o)
          \/ FirstInserted(o) \/ OwnerInserted(o) \/ UserCreated(o) \/ RoleWritten(o) \/ RowDeleted(o)
          \/ StatementFails(o)
      BY <2>3 DEF GoesOn, Reads, Forgets
    <3> QED
      BY <2>1, <3>1, ReadingSteps, ForgettingSteps, IssueKeeps, CreateKeyKeeps, BindKeeps, PuttingSteps,
         CountAdminsKeeps, OwnerResetKeeps, WipingSteps, TicketsDroppedKeeps, InsertingSteps,
         RoleWrittenKeeps, RowDeletedKeeps, StatementFailsKeeps
  <2> QED BY <1>1, <2>1, <2>2, <2>3, AuthRestartsKeeps, TicketExpiresKeeps DEF AccountsNext
<1>2. CASE UNCHANGED accountsVars
  BY <1>2 DEF accountsVars, AccountsInv, AuthTypes, RowTypes, TargetsKnown, OneIsLeft, WipedSoFar,
     SessionsPassed, KeyPassed, Led, OwnNames, RowsFit, SecretsFit, Fits, Pardoned, Wiping, Present,
     Admins, Named, Lowering, Target
<1> QED BY <1>1, <1>2

\* An administrator is left, names are unique, and what is kept of a user belongs to
\* the user and to the credentials that hold.
THEOREM AccountsStayInOrder == AccountsSpec => [](AccountsTypeOK /\ AccountsAgree)
<1>1. AccountsInit => AccountsInv BY AccountsInitHolds
<1>2. AccountsInv /\ [AccountsNext]_accountsVars => AccountsInv' BY AccountsKept
<1>3. AccountsInv => AccountsTypeOK /\ AccountsAgree BY AccountsInvHolds
<1> QED BY <1>1, <1>2, <1>3, PTL DEF AccountsSpec

-----------------------------------------------------------------------------
(* Session *)

SessionTypes ==
    /\ SessionTypeOK
    /\ loop = [rounds |-> loop.rounds, empties |-> loop.empties, calls |-> loop.calls,
               closing |-> loop.closing, msgs |-> loop.msgs]
    /\ loop.rounds \in Nat /\ loop.empties \in Nat

\* What the loop has said is said for the request.
LoopOf(o) == \A k \in DOMAIN loop.msgs : loop.msgs[k].turn = o

\* The session is held by the request that is under way, the loop is that request's.
HeldByOne ==
    /\ \A o \in Turns : generating = o <=> turn[o] \in InTurn
    /\ (\A o \in Turns : turn[o] \notin {"loop", "chat", "saving"}) => loop = NoLoop
    /\ \A o \in Turns : turn[o] \in {"loop", "chat", "saving"} => LoopOf(o)

\* The loop has a round left, or the tools of the last one to run, or closes.
RoundsLeft ==
    \A o \in Turns :
       /\ turn[o] \in {"loop", "chat"} =>
            /\ loop.rounds <= MaxRounds
            /\ ~loop.closing => loop.empties < MaxEmpty /\ (loop.rounds < MaxRounds \/ loop.calls > 0)
            /\ loop.closing => loop.calls = 0
       /\ turn[o] \in {"chat", "saving"} => loop.calls = 0

\* Once the session is gone, only the request that was under way goes on.
GoneForGood ==
    /\ present => torn = {}
    /\ ~present =>
         /\ \A i \in DOMAIN log : log[i].turn \in torn
         /\ \A o \in Turns : turn[o] \in InTurn \ {"checking"} => o \in torn

AbortsTold == \A o \in aborted : turn[o] \in {"saving", "done"} => o \in late

\* The log with what the loop has yet to write to it.
Tape(k) == IF k <= Len(log) THEN log[k] ELSE loop.msgs[k - Len(log)]
TapeEnd == Len(log) + Len(loop.msgs)

\* From a on, calls are followed by their results, except for those that are to come.
InOrder(a) ==
    \A i \in a .. TapeEnd : Tape(i).kind = "calls" =>
       /\ \/ i + Tape(i).calls = TapeEnd + loop.calls
          \/ i + Tape(i).calls < TapeEnd /\ Tape(i + Tape(i).calls + 1).kind = "calls"
       /\ \A k \in i + 1 .. i + Tape(i).calls : k <= TapeEnd => Tape(k).kind = "result"

Unsaid == {"new", "refused", "missing", "checking", "adding"}

\* The piece of a request, from the message of the user on.
PieceOf(o, a, b) ==
    /\ Piece(o, a, b) /\ log[a].kind = "user"
    /\ turn[o] # "reading" => prior[o] = Shown(Newest(Window - 1, SubSeq(log, 1, a - 1)))
    /\ turn[o] \in {"reading", "loop", "chat", "cancelled"} => a = b
    /\ turn[o] \in {"reading", "loop", "chat", "saving"} =>
         b = Len(log) /\ InOrder(a)
    /\ turn[o] = "done" => log[b].kind = "reply" /\ Paired(a, b)

Pieces ==
    present => \A o \in Turns :
       /\ turn[o] \in Unsaid => Silent(o)
       /\ turn[o] \notin Unsaid => \E a, b \in DOMAIN log : PieceOf(o, a, b)

SessionInv ==
    /\ SessionTypes /\ HeldByOne /\ RoundsLeft /\ GoneForGood /\ AbortsTold /\ Pieces

\* The invariant is strong enough.
LEMMA SessionInvHolds == SessionInv => SessionTypeOK /\ TranscriptWhole
<1> SUFFICES ASSUME SessionInv PROVE SessionTypeOK /\ TranscriptWhole OBVIOUS
<1>1. SessionTypeOK BY DEF SessionInv, SessionTypes
<1>2. \A o \in Turns : (generating = o) = (turn[o] \in InTurn) BY DEF SessionInv, HeldByOne
<1>3. \A o \in aborted : turn[o] = "done" => o \in late BY DEF SessionInv, AbortsTold
<1>4. ~present => \A i \in DOMAIN log : log[i].turn \in torn BY DEF SessionInv, GoneForGood
<1>5. ASSUME NEW o \in Turns \ torn
      PROVE  /\ turn[o] \in {"refused", "missing"} => Silent(o)
             /\ present /\ Silent(o) => turn[o] \notin {"done", "cancelled"}
             /\ present /\ ~Silent(o) =>
                  \E a, b \in DOMAIN log :
                     /\ Piece(o, a, b) /\ log[a].kind = "user"
                     /\ turn[o] = "done" => log[b].kind = "reply" /\ Paired(a, b)
                     /\ turn[o] = "cancelled" => a = b
                     /\ turn[o] # "reading" => prior[o] = Shown(Newest(Window - 1, SubSeq(log, 1, a - 1)))
  <2>1. CASE present
    <3>1. turn[o] \in Unsaid => Silent(o) BY <2>1 DEF SessionInv, Pieces
    <3>2. turn[o] \notin Unsaid => \E a, b \in DOMAIN log : PieceOf(o, a, b) BY <2>1 DEF SessionInv, Pieces
    <3>3. ASSUME NEW a \in DOMAIN log, NEW b \in DOMAIN log, PieceOf(o, a, b)
          PROVE  ~Silent(o)
      <4>1. log \in Seq(Messages) BY <1>1 DEF SessionTypeOK
      <4>2. a \in Int /\ b \in Int BY <4>1
      <4>3. log[a].turn = o BY <3>3, <4>2 DEF PieceOf, Piece
      <4> QED BY <4>3 DEF Silent
    <3> QED BY <2>1, <3>1, <3>2, <3>3 DEF PieceOf, Unsaid
  <2>2. CASE ~present
    <3>1. Silent(o) BY <1>4, <2>2 DEF Silent
    <3> QED BY <2>2, <3>1
  <2> QED BY <2>1, <2>2
<1> QED BY <1>1, <1>2, <1>3, <1>4, <1>5 DEF TranscriptWhole

-----------------------------------------------------------------------------
(* what is read back for the prompt *)

\* Where the window begins.
LEMMA MaxOfTwo == ASSUME NEW x \in Int PROVE Max({1, x}) = IF x >= 1 THEN x ELSE 1
<1> DEFINE m == IF x >= 1 THEN x ELSE 1
<1>1. m \in {1, x} /\ \A y \in {1, x} : m >= y OBVIOUS
<1>2. \A k \in {1, x} : (\A y \in {1, x} : k >= y) => k = m OBVIOUS
<1> HIDE DEF m
<1>3. Max({1, x}) \in {1, x} /\ \A y \in {1, x} : Max({1, x}) >= y BY <1>1 DEF Max
<1>4. Max({1, x}) = m BY <1>2, <1>3
<1> QED BY <1>4 DEF m

\* What is appended leaves the beginning.
LEMMA PrefixKept ==
    ASSUME NEW S, NEW s \in Seq(S), NEW x \in S, NEW n \in Int, n <= Len(s)
    PROVE  SubSeq(Append(s, x), 1, n) = SubSeq(s, 1, n)
<1> DEFINE t == Append(s, x)
<1>1. t \in Seq(S) /\ Len(t) = Len(s) + 1 /\ \A i \in 1 .. Len(s) : t[i] = s[i] BY AppendProperties
<1> HIDE DEF t
<1>2. \A i \in 1 .. n : t[i] \in S /\ s[i] \in S /\ t[i] = s[i] BY <1>1, ElementOfSeq
<1>3. /\ SubSeq(t, 1, n) \in Seq(S) /\ Len(SubSeq(t, 1, n)) = IF 1 <= n THEN n - 1 + 1 ELSE 0
      /\ \A i \in 1 .. n - 1 + 1 : SubSeq(t, 1, n)[i] = t[1 + i - 1]
  BY <1>2, SubSeqProperties
<1>4. /\ SubSeq(s, 1, n) \in Seq(S) /\ Len(SubSeq(s, 1, n)) = IF 1 <= n THEN n - 1 + 1 ELSE 0
      /\ \A i \in 1 .. n - 1 + 1 : SubSeq(s, 1, n)[i] = s[1 + i - 1]
  BY <1>2, SubSeqProperties
<1>5. SubSeq(t, 1, n) = SubSeq(s, 1, n)
  <2> DEFINE p == SubSeq(t, 1, n)
             q == SubSeq(s, 1, n)
  <2>1. p \in Seq(S) /\ q \in Seq(S) /\ Len(p) = Len(q) BY <1>3, <1>4
  <2>2. \A i \in 1 .. Len(p) : p[i] = q[i] BY <1>2, <1>3, <1>4
  <2> HIDE DEF p, q
  <2>3. p = q BY <2>1, <2>2, SeqEqual
  <2> QED BY <2>3 DEF p, q
<1> QED BY <1>5 DEF t

\* The window without the message just added is the shorter window before it.
LEMMA WindowRead ==
    ASSUME NEW S, NEW s \in Seq(S), s # <<>>, NEW w \in Nat \ {0}
    PROVE  /\ Front(Newest(w, s)) \in Seq(S) /\ Len(Front(Newest(w, s))) <= w - 1
           /\ Front(Newest(w, s)) = Newest(w - 1, SubSeq(s, 1, Len(s) - 1))
<1> DEFINE n == Len(s)
           m == IF n - w + 1 >= 1 THEN n - w + 1 ELSE 1
           t == SubSeq(s, m, n)
           u == SubSeq(s, 1, n - 1)
           f == SubSeq(t, 1, Len(t) - 1)
           g == SubSeq(u, m, n - 1)
<1>1. n \in Nat \ {0} BY EmptySeq
<1>2. m \in 1 .. n BY <1>1
<1>3. \A i \in 1 .. n : s[i] \in S BY ElementOfSeq
<1>4. /\ t \in Seq(S) /\ Len(t) = n - m + 1 /\ \A i \in 1 .. n - m + 1 : t[i] = s[m + i - 1]
  <2> HIDE DEF m, n
  <2>1. \A i \in m .. n : s[i] \in S BY <1>1, <1>2, <1>3
  <2> QED BY <1>1, <1>2, <2>1, SubSeqProperties
<1>5. /\ u \in Seq(S) /\ Len(u) = n - 1 /\ \A i \in 1 .. n - 1 : u[i] = s[i]
  <2> HIDE DEF n
  <2>1. \A i \in 1 .. n - 1 : s[i] \in S BY <1>1, <1>3
  <2>2. /\ SubSeq(s, 1, n - 1) \in Seq(S) /\ Len(SubSeq(s, 1, n - 1)) = IF 1 <= n - 1 THEN n - 1 - 1 + 1 ELSE 0
        /\ \A i \in 1 .. n - 1 - 1 + 1 : SubSeq(s, 1, n - 1)[i] = s[1 + i - 1]
    BY <1>1, <2>1, SubSeqProperties
  <2> QED BY <1>1, <2>2
<1> HIDE DEF m, n, t, u
<1>6. /\ f \in Seq(S) /\ Len(f) = n - m /\ \A i \in 1 .. n - m : f[i] = s[m + i - 1]
  <2>1. Len(t) - 1 = n - m BY <1>1, <1>2, <1>4
  <2>2. \A i \in 1 .. n - m : t[i] \in S /\ t[i] = s[m + i - 1] BY <1>1, <1>2, <1>3, <1>4
  <2>3. /\ SubSeq(t, 1, n - m) \in Seq(S) /\ Len(SubSeq(t, 1, n - m)) = IF 1 <= n - m THEN n - m - 1 + 1 ELSE 0
        /\ \A i \in 1 .. n - m - 1 + 1 : SubSeq(t, 1, n - m)[i] = t[1 + i - 1]
    BY <1>1, <1>2, <2>2, SubSeqProperties
  <2> QED BY <1>1, <1>2, <2>1, <2>2, <2>3
<1>7. /\ g \in Seq(S) /\ Len(g) = n - m /\ \A i \in 1 .. n - m : g[i] = s[m + i - 1]
  <2>1. \A i \in m .. n - 1 : u[i] \in S /\ u[i] = s[i] BY <1>1, <1>2, <1>3, <1>5
  <2>2. /\ SubSeq(u, m, n - 1) \in Seq(S) /\ Len(SubSeq(u, m, n - 1)) = IF m <= n - 1 THEN n - 1 - m + 1 ELSE 0
        /\ \A i \in 1 .. n - 1 - m + 1 : SubSeq(u, m, n - 1)[i] = u[m + i - 1]
    BY <1>1, <1>2, <2>1, SubSeqProperties
  <2> QED BY <1>1, <1>2, <2>1, <2>2
<1> HIDE DEF f, g
<1>8. f = g BY <1>6, <1>7, SeqEqual
<1>9. Newest(w, s) = t
  <2>1. Max({1, Len(s) - w + 1}) = m BY <1>1, MaxOfTwo DEF m, n
  <2> QED BY <2>1 DEF Newest, t, n
<1>10. Front(t) = f BY DEF Front, f
<1>11. Newest(w - 1, u) = g
  <2>1. Len(u) - (w - 1) + 1 = n - w + 1 BY <1>1, <1>5
  <2>2. Max({1, Len(u) - (w - 1) + 1}) = m BY <1>1, <2>1, MaxOfTwo DEF m
  <2>3. Len(u) = n - 1 BY <1>5
  <2> QED BY <2>2, <2>3 DEF Newest, g
<1>12. Len(f) <= w - 1 BY <1>1, <1>2, <1>6 DEF m
<1> QED BY <1>6, <1>8, <1>9, <1>10, <1>11, <1>12 DEF u, n

\* What of the window is shown is a prompt ...
LEMMA ShownIsPrompt ==
    ASSUME NEW s \in Seq(Messages), Len(s) <= Window - 1
    PROVE  Shown(s) \in Prompts
<1> DEFINE places == {i \in DOMAIN s : s[i].kind # "result"}
           said   == {msg \in Messages : msg.kind # "result"}
<1>1. DOMAIN s = 1 .. Len(s) /\ Len(s) \in Nat /\ Window \in Nat BY SessionAssumption
<1>2. \A i \in 1 .. Len(s) : s[i] \in Messages BY ElementOfSeq
<1>3. \A i \in places : s[i] \in said BY <1>1, <1>2
<1>4. places \in SUBSET (1 .. Window - 1) BY <1>1
<1>5. Shown(s) = [i \in places |-> s[i]] BY DEF Shown, Restrict
<1> HIDE DEF places
<1>6. Shown(s) \in [places -> said] BY <1>3, <1>5
<1> QED BY <1>4, <1>6 DEF Prompts

\* ... and so is nothing.
LEMMA NothingShown == <<>> \in Prompts
<1> DEFINE said == {msg \in Messages : msg.kind # "result"}
<1>1. <<>> \in Seq(said) /\ Len(<<>>) = 0 /\ DOMAIN <<>> = {} BY EmptySeq
<1>2. <<>> \in [{} -> said] BY <1>1
<1>3. {} \in SUBSET (1 .. Window - 1) OBVIOUS
<1> QED BY <1>2, <1>3 DEF Prompts

-----------------------------------------------------------------------------
(* the loop *)

IsLoop(l) ==
    l = [rounds |-> l.rounds, empties |-> l.empties, calls |-> l.calls,
         closing |-> l.closing, msgs |-> l.msgs]

\* A loop of which two fields change, or one.
LEMMA LoopRounds ==
    ASSUME NEW l, IsLoop(l), NEW x, NEW y
    PROVE  [l EXCEPT !.rounds = x, !.empties = y]
           = [rounds |-> x, empties |-> y, calls |-> l.calls, closing |-> l.closing, msgs |-> l.msgs]
<1> DEFINE e == [l EXCEPT !.rounds = x]
<1>1. e = [rounds |-> x, empties |-> l.empties, calls |-> l.calls, closing |-> l.closing, msgs |-> l.msgs] BY DEF IsLoop
<1>2. [l EXCEPT !.rounds = x, !.empties = y] = [e EXCEPT !.empties = y] OBVIOUS
<1> HIDE DEF e
<1>3. /\ e = [rounds |-> e.rounds, empties |-> e.empties, calls |-> e.calls,
               closing |-> e.closing, msgs |-> e.msgs]
      /\ e.rounds = x /\ e.empties = l.empties /\ e.calls = l.calls /\ e.closing = l.closing /\ e.msgs = l.msgs
  BY <1>1
<1> QED BY <1>2, <1>3

\* The same for the calls and the messages,
LEMMA LoopCalls ==
    ASSUME NEW l, IsLoop(l), NEW x, NEW y
    PROVE  [l EXCEPT !.calls = x, !.msgs = y]
           = [rounds |-> l.rounds, empties |-> l.empties, calls |-> x, closing |-> l.closing, msgs |-> y]
<1> DEFINE e == [l EXCEPT !.calls = x]
<1>1. e = [rounds |-> l.rounds, empties |-> l.empties, calls |-> x, closing |-> l.closing, msgs |-> l.msgs] BY DEF IsLoop
<1>2. [l EXCEPT !.calls = x, !.msgs = y] = [e EXCEPT !.msgs = y] OBVIOUS
<1> HIDE DEF e
<1>3. /\ e = [rounds |-> e.rounds, empties |-> e.empties, calls |-> e.calls,
               closing |-> e.closing, msgs |-> e.msgs]
      /\ e.rounds = l.rounds /\ e.empties = l.empties /\ e.calls = x /\ e.closing = l.closing /\ e.msgs = l.msgs
  BY <1>1
<1> QED BY <1>2, <1>3

\* for the rounds and the end,
LEMMA LoopAnswers ==
    ASSUME NEW l, IsLoop(l), NEW x, NEW y
    PROVE  [l EXCEPT !.rounds = x, !.closing = y]
           = [rounds |-> x, empties |-> l.empties, calls |-> l.calls, closing |-> y, msgs |-> l.msgs]
<1> DEFINE e == [l EXCEPT !.rounds = x]
<1>1. e = [rounds |-> x, empties |-> l.empties, calls |-> l.calls, closing |-> l.closing, msgs |-> l.msgs] BY DEF IsLoop
<1>2. [l EXCEPT !.rounds = x, !.closing = y] = [e EXCEPT !.closing = y] OBVIOUS
<1> HIDE DEF e
<1>3. /\ e = [rounds |-> e.rounds, empties |-> e.empties, calls |-> e.calls,
               closing |-> e.closing, msgs |-> e.msgs]
      /\ e.rounds = x /\ e.empties = l.empties /\ e.calls = l.calls /\ e.closing = l.closing /\ e.msgs = l.msgs
  BY <1>1
<1> QED BY <1>2, <1>3

\* for the end alone
LEMMA LoopClosing ==
    ASSUME NEW l, IsLoop(l), NEW x
    PROVE  [l EXCEPT !.closing = x]
           = [rounds |-> l.rounds, empties |-> l.empties, calls |-> l.calls, closing |-> x, msgs |-> l.msgs]
  BY DEF IsLoop

\* and for the messages alone.
LEMMA LoopMsgs ==
    ASSUME NEW l, IsLoop(l), NEW x
    PROVE  [l EXCEPT !.msgs = x]
           = [rounds |-> l.rounds, empties |-> l.empties, calls |-> l.calls, closing |-> l.closing, msgs |-> x]
  BY DEF IsLoop

\* The loop is a record with these fields.
LEMMA LoopsAre ==
    /\ IsLoop(NoLoop) /\ NoLoop.rounds = 0 /\ NoLoop.empties = 0 /\ NoLoop.calls = 0
    /\ NoLoop.closing = FALSE /\ NoLoop.msgs = <<>>
    /\ SessionInv => IsLoop(loop)
  BY DEF NoLoop, IsLoop, SessionInv, SessionTypes

\* What the steps make of the loop: after a round with tools, or the last one,
LEMMA LoopTools ==
    ASSUME SessionInv, NEW x, NEW y
    PROVE  LET l == [loop EXCEPT !.rounds = @ + 1, !.empties = 0] IN
           /\ [l EXCEPT !.closing = TRUE]
              = [rounds |-> loop.rounds + 1, empties |-> 0, calls |-> loop.calls, closing |-> TRUE, msgs |-> loop.msgs]
           /\ [l EXCEPT !.calls = x, !.msgs = Append(@, y)]
              = [rounds |-> loop.rounds + 1, empties |-> 0, calls |-> x, closing |-> loop.closing, msgs |-> Append(loop.msgs, y)]
<1>0. IsLoop(loop) BY LoopsAre
<1> DEFINE l == [loop EXCEPT !.rounds = @ + 1, !.empties = 0]
           n == [rounds |-> loop.rounds + 1, empties |-> 0, calls |-> loop.calls, closing |-> loop.closing, msgs |-> loop.msgs]
<1>1. [loop EXCEPT !.rounds = loop.rounds + 1, !.empties = 0] = n
  BY <1>0, LoopRounds
<1>2. l = n BY <1>1
<1> HIDE DEF l
<1>3. l.rounds = loop.rounds + 1 /\ l.empties = 0 /\ l.calls = loop.calls
      /\ l.closing = loop.closing /\ l.msgs = loop.msgs
  BY <1>2
<1>4. IsLoop(l) BY <1>2 DEF IsLoop
<1>5. [l EXCEPT !.calls = x, !.msgs = Append(l.msgs, y)]
      = [rounds |-> l.rounds, empties |-> l.empties, calls |-> x, closing |-> l.closing, msgs |-> Append(l.msgs, y)]
  BY <1>4, LoopCalls
<1> HIDE DEF n
<1>6. [l EXCEPT !.calls = x, !.msgs = Append(@, y)]
      = [rounds |-> loop.rounds + 1, empties |-> 0, calls |-> x, closing |-> loop.closing, msgs |-> Append(loop.msgs, y)]
  BY <1>3, <1>5
<1>7. [l EXCEPT !.closing = TRUE]
      = [rounds |-> l.rounds, empties |-> l.empties, calls |-> l.calls, closing |-> TRUE, msgs |-> l.msgs]
  BY <1>4, LoopClosing
<1>8. [l EXCEPT !.closing = TRUE]
      = [rounds |-> loop.rounds + 1, empties |-> 0, calls |-> loop.calls, closing |-> TRUE, msgs |-> loop.msgs]
  BY <1>3, <1>7
<1> QED BY <1>6, <1>8 DEF l

\* The loop after a round without an answer,
LEMMA LoopEmpty ==
    ASSUME SessionInv
    PROVE  LET l == [loop EXCEPT !.rounds = @ + 1, !.empties = @ + 1]
               d == l.empties >= MaxEmpty \/ Exhausted(l)
           IN  [l EXCEPT !.closing = d]
               = [rounds |-> loop.rounds + 1, empties |-> loop.empties + 1, calls |-> loop.calls,
                  closing |-> loop.empties + 1 >= MaxEmpty \/ loop.rounds + 1 >= MaxRounds, msgs |-> loop.msgs]
<1>0. IsLoop(loop) BY LoopsAre
<1> DEFINE l == [loop EXCEPT !.rounds = @ + 1, !.empties = @ + 1]
           n == [rounds |-> loop.rounds + 1, empties |-> loop.empties + 1, calls |-> loop.calls, closing |-> loop.closing, msgs |-> loop.msgs]
           d == l.empties >= MaxEmpty \/ Exhausted(l)
<1>1. [loop EXCEPT !.rounds = loop.rounds + 1, !.empties = loop.empties + 1] = n
  BY <1>0, LoopRounds
<1>2. l = n BY <1>1
<1> HIDE DEF l
<1>3. l.rounds = loop.rounds + 1 /\ l.empties = loop.empties + 1 /\ l.calls = loop.calls /\ l.msgs = loop.msgs
  BY <1>2
<1>4. IsLoop(l) BY <1>2 DEF IsLoop
<1>5. d = (loop.empties + 1 >= MaxEmpty \/ loop.rounds + 1 >= MaxRounds)
  BY <1>3 DEF Exhausted
<1> HIDE DEF n, d
<1>6. [l EXCEPT !.closing = d]
      = [rounds |-> l.rounds, empties |-> l.empties, calls |-> l.calls, closing |-> d, msgs |-> l.msgs]
  BY <1>4, LoopClosing
<1>7. [l EXCEPT !.closing = d]
      = [rounds |-> loop.rounds + 1, empties |-> loop.empties + 1, calls |-> loop.calls,
         closing |-> loop.empties + 1 >= MaxEmpty \/ loop.rounds + 1 >= MaxRounds, msgs |-> loop.msgs]
  BY <1>3, <1>5, <1>6
<1> QED BY <1>7 DEF l, d

\* after the answer
LEMMA LoopAnswered ==
    ASSUME SessionInv
    PROVE  [loop EXCEPT !.rounds = @ + 1, !.closing = FALSE]
           = [rounds |-> loop.rounds + 1, empties |-> loop.empties, calls |-> loop.calls, closing |-> FALSE, msgs |-> loop.msgs]
<1>0. IsLoop(loop) BY LoopsAre
<1>1. [loop EXCEPT !.rounds = loop.rounds + 1, !.closing = FALSE]
      = [rounds |-> loop.rounds + 1, empties |-> loop.empties, calls |-> loop.calls, closing |-> FALSE, msgs |-> loop.msgs]
  BY <1>0, LoopAnswers
<1> QED BY <1>1

\* and after a tool.
LEMMA LoopTool ==
    ASSUME SessionInv, NEW y
    PROVE  LET l == [loop EXCEPT !.calls = @ - 1, !.msgs = Append(@, y)]
               d == l.calls = 0 /\ Exhausted(l)
           IN  [l EXCEPT !.closing = d]
               = [rounds |-> loop.rounds, empties |-> loop.empties, calls |-> loop.calls - 1,
                  closing |-> loop.calls - 1 = 0 /\ loop.rounds >= MaxRounds, msgs |-> Append(loop.msgs, y)]
<1>0. IsLoop(loop) BY LoopsAre
<1> DEFINE l == [loop EXCEPT !.calls = @ - 1, !.msgs = Append(@, y)]
           n == [rounds |-> loop.rounds, empties |-> loop.empties, calls |-> loop.calls - 1, closing |-> loop.closing, msgs |-> Append(loop.msgs, y)]
           d == l.calls = 0 /\ Exhausted(l)
<1>1. [loop EXCEPT !.calls = loop.calls - 1, !.msgs = Append(loop.msgs, y)] = n
  BY <1>0, LoopCalls
<1>2. l = n BY <1>1
<1> HIDE DEF l
<1>3. l.rounds = loop.rounds /\ l.empties = loop.empties /\ l.calls = loop.calls - 1 /\ l.msgs = Append(loop.msgs, y)
  BY <1>2
<1>4. IsLoop(l) BY <1>2 DEF IsLoop
<1>5. d = (loop.calls - 1 = 0 /\ loop.rounds >= MaxRounds)
  BY <1>3 DEF Exhausted
<1> HIDE DEF n, d
<1>6. [l EXCEPT !.closing = d]
      = [rounds |-> l.rounds, empties |-> l.empties, calls |-> l.calls, closing |-> d, msgs |-> l.msgs]
  BY <1>4, LoopClosing
<1>7. [l EXCEPT !.closing = d]
      = [rounds |-> loop.rounds, empties |-> loop.empties, calls |-> loop.calls - 1,
         closing |-> loop.calls - 1 = 0 /\ loop.rounds >= MaxRounds, msgs |-> Append(loop.msgs, y)]
  BY <1>3, <1>5, <1>6
<1> QED BY <1>7 DEF l, d

-----------------------------------------------------------------------------
(* one request at a time *)

Pcs == InTurn \union {"new", "refused", "missing", "cancelled", "failed", "done"}

\* A message of a request.
LEMMA MessagesAre ==
    ASSUME NEW o \in Turns, NEW kind \in {"user", "calls", "result", "reply"}, NEW n \in 0 .. MaxCalls
    PROVE  LET m == Message(o, kind, n) IN m \in Messages /\ m.turn = o /\ m.kind = kind /\ m.calls = n
  BY DEF Message, Messages

\* Lengths and counts are numbers, and messages are messages.
LEMMA SessionNumbers ==
    ASSUME SessionInv
    PROVE  /\ log \in Seq(Messages) /\ Len(log) \in Nat /\ DOMAIN log = 1 .. Len(log)
           /\ \A i \in 1 .. Len(log) : log[i] \in Messages /\ log[i].calls \in Nat
           /\ loop.msgs \in Seq(Messages) /\ Len(loop.msgs) \in Nat /\ DOMAIN loop.msgs = 1 .. Len(loop.msgs)
           /\ \A i \in 1 .. Len(loop.msgs) : loop.msgs[i] \in Messages /\ loop.msgs[i].calls \in Nat
           /\ loop.calls \in 0 .. MaxCalls /\ loop.rounds \in Nat /\ loop.empties \in Nat
           /\ Window \in Nat \ {0} /\ MaxRounds \in Nat \ {0} /\ MaxEmpty \in Nat \ {0} /\ MaxCalls \in Nat
<1>1. /\ Window \in Nat \ {0} /\ MaxRounds \in Nat \ {0} /\ MaxEmpty \in Nat \ {0} /\ MaxCalls \in Nat
  BY SessionAssumption
<1>2. \A m \in Messages : m.calls \in Nat BY <1>1 DEF Messages
<1>3. /\ log \in Seq(Messages) /\ loop.msgs \in Seq(Messages) /\ loop.calls \in 0 .. MaxCalls
      /\ loop.rounds \in Nat /\ loop.empties \in Nat
  BY DEF SessionInv, SessionTypes, SessionTypeOK
<1>4. /\ Len(log) \in Nat /\ DOMAIN log = 1 .. Len(log) /\ \A i \in 1 .. Len(log) : log[i] \in Messages
  BY <1>3, LenProperties, ElementOfSeq
<1>5. /\ Len(loop.msgs) \in Nat /\ DOMAIN loop.msgs = 1 .. Len(loop.msgs)
      /\ \A i \in 1 .. Len(loop.msgs) : loop.msgs[i] \in Messages
  <2> DEFINE m == loop.msgs
  <2>1. m \in Seq(Messages) BY <1>3
  <2> HIDE DEF m
  <2>2. Len(m) \in Nat /\ DOMAIN m = 1 .. Len(m) /\ \A i \in 1 .. Len(m) : m[i] \in Messages
    BY <2>1, LenProperties, ElementOfSeq
  <2> QED BY <2>2 DEF m
<1> QED BY <1>1, <1>2, <1>3, <1>4, <1>5

\* The request that is under way keeps the others out.
LEMMA TurnMoved ==
    ASSUME SessionInv, NEW o \in Turns, turn[o] \in InTurn \/ generating = NoTurn, NEW pc \in Pcs, TurnGo(o, pc)
    PROVE  /\ turn' \in [Turns -> Pcs] /\ turn'[o] = pc
           /\ \A p \in Turns : p # o => turn'[p] = turn[p] /\ turn[p] \notin InTurn
<1>1. turn \in [Turns -> Pcs] BY DEF SessionInv, SessionTypes, SessionTypeOK, Pcs
<1>2. turn' \in [Turns -> Pcs] /\ turn'[o] = pc /\ \A p \in Turns : p # o => turn'[p] = turn[p]
  BY <1>1 DEF TurnGo
<1>3. \A p \in Turns : p # o => turn[p] \notin InTurn
  BY SessionAssumption DEF SessionInv, HeldByOne
<1> QED BY <1>2, <1>3

\* What a step appends leaves what was there.
LEMMA LogGrows ==
    ASSUME NEW S, NEW s \in Seq(S), NEW x \in S
    PROVE  /\ Append(s, x) \in Seq(S) /\ Len(s) \in Nat /\ Len(Append(s, x)) = Len(s) + 1
           /\ DOMAIN s = 1 .. Len(s) /\ DOMAIN Append(s, x) = 1 .. Len(s) + 1
           /\ Append(s, x)[Len(s) + 1] = x
           /\ \A i \in 1 .. Len(s) : Append(s, x)[i] = s[i]
           /\ \A k \in Int : k <= Len(s) => SubSeq(Append(s, x), 1, k) = SubSeq(s, 1, k)
<1>1. Len(s) \in Nat /\ DOMAIN s = 1 .. Len(s) BY LenProperties
<1>2. /\ Append(s, x) \in Seq(S) /\ Len(Append(s, x)) = Len(s) + 1 /\ Append(s, x)[Len(s) + 1] = x
      /\ \A i \in 1 .. Len(s) : Append(s, x)[i] = s[i]
  BY AppendProperties
<1>3. DOMAIN Append(s, x) = 1 .. Len(Append(s, x)) BY <1>2, LenProperties
<1>4. DOMAIN Append(s, x) = 1 .. Len(s) + 1 BY <1>2, <1>3
<1>5. \A k \in Int : k <= Len(s) => SubSeq(Append(s, x), 1, k) = SubSeq(s, 1, k)
  BY PrefixKept
<1> QED BY <1>1, <1>2, <1>4, <1>5

\* The log of a step: what was there, and at most one message of the request.
LEMMA LogOfStep ==
    ASSUME SessionInv, NEW o \in Turns, log' = log \/ \E x \in Messages : x.turn = o /\ log' = Append(log, x)
    PROVE  \E n, m \in Nat :
              /\ DOMAIN log = 1 .. n /\ DOMAIN log' = 1 .. m /\ m \in {n, n + 1}
              /\ log' \in Seq(Messages)
              /\ \A i \in 1 .. n : log'[i] = log[i] /\ log[i].calls \in Nat
              /\ \A i \in 1 .. m : i > n => log'[i].turn = o
              /\ \A k \in Int : k <= n => SubSeq(log', 1, k) = SubSeq(log, 1, k)
<1>1. log \in Seq(Messages) BY SessionNumbers
<1>2. Len(log) \in Nat /\ DOMAIN log = 1 .. Len(log) /\ \A i \in 1 .. Len(log) : log[i].calls \in Nat
  BY SessionNumbers
<1>3. PICK n : n = Len(log) OBVIOUS
<1>4. n \in Nat /\ DOMAIN log = 1 .. n /\ \A i \in 1 .. n : log[i].calls \in Nat BY <1>2, <1>3
<1>5. CASE log' = log
  <2>1. DOMAIN log' = 1 .. n /\ \A i \in 1 .. n : log'[i] = log[i] /\ log[i].calls \in Nat BY <1>4, <1>5
  <2>2. \A k \in Int : k <= n => SubSeq(log', 1, k) = SubSeq(log, 1, k) BY <1>5
  <2>3. log' \in Seq(Messages) BY <1>1, <1>5
  <2>4. n \in {n, n + 1} /\ \A i \in 1 .. n : i > n => log'[i].turn = o BY <1>4
  <2> QED BY <1>4, <2>1, <2>2, <2>3, <2>4, Zenon
<1>6. ASSUME NEW x \in Messages, x.turn = o, log' = Append(log, x)
      PROVE  /\ DOMAIN log' = 1 .. n + 1 /\ log' \in Seq(Messages)
             /\ \A i \in 1 .. n : log'[i] = log[i]
             /\ log'[n + 1].turn = o
             /\ \A k \in Int : k <= n => SubSeq(log', 1, k) = SubSeq(log, 1, k)
  <2>1. /\ Append(log, x) \in Seq(Messages)
        /\ DOMAIN Append(log, x) = 1 .. Len(log) + 1
        /\ Append(log, x)[Len(log) + 1] = x
        /\ \A i \in 1 .. Len(log) : Append(log, x)[i] = log[i]
        /\ \A k \in Int : k <= Len(log) => SubSeq(Append(log, x), 1, k) = SubSeq(log, 1, k)
    BY <1>1, LogGrows
  <2>2. PICK t : t = Append(log, x) OBVIOUS
  <2>3. /\ t \in Seq(Messages) /\ DOMAIN t = 1 .. n + 1 /\ t[n + 1] = x
        /\ \A i \in 1 .. n : t[i] = log[i]
        /\ \A k \in Int : k <= n => SubSeq(t, 1, k) = SubSeq(log, 1, k)
    BY <1>3, <2>1, <2>2, Zenon
  <2>4. log' = t BY <1>6, <2>2
  <2> QED BY <1>6, <2>3, <2>4, Zenon
<1>7. ASSUME NEW x \in Messages, x.turn = o, log' = Append(log, x)
      PROVE  \E m \in Nat :
                /\ DOMAIN log' = 1 .. m /\ m \in {n, n + 1}
                /\ log' \in Seq(Messages)
                /\ \A i \in 1 .. n : log'[i] = log[i] /\ log[i].calls \in Nat
                /\ \A i \in 1 .. m : i > n => log'[i].turn = o
                /\ \A k \in Int : k <= n => SubSeq(log', 1, k) = SubSeq(log, 1, k)
  <2>1. /\ DOMAIN log' = 1 .. n + 1 /\ log' \in Seq(Messages)
        /\ \A i \in 1 .. n : log'[i] = log[i]
        /\ log'[n + 1].turn = o
        /\ \A k \in Int : k <= n => SubSeq(log', 1, k) = SubSeq(log, 1, k)
    BY <1>6, <1>7
  <2>2. n + 1 \in Nat /\ \A i \in 1 .. n + 1 : i > n => i = n + 1 BY <1>4
  <2>3. \A i \in 1 .. n + 1 : i > n => log'[i].turn = o BY <2>1, <2>2, Zenon
  <2>4. \A i \in 1 .. n : log'[i] = log[i] /\ log[i].calls \in Nat BY <1>4, <2>1, Zenon
  <2>5. n + 1 \in {n, n + 1} OBVIOUS
  <2> QED BY <2>1, <2>2, <2>3, <2>4, <2>5, Zenon
<1> QED BY <1>4, <1>5, <1>7

\* The piece of a request that is over stays as it is.
LEMMA OthersKept ==
    ASSUME SessionInv, present, NEW o \in Turns, NEW p \in Turns, p # o, turn[p] \notin InTurn,
           turn'[p] = turn[p], prior'[p] = prior[p],
           log' = log \/ \E x \in Messages : x.turn = o /\ log' = Append(log, x)
    PROVE  /\ turn'[p] \in Unsaid => Silent(p)'
           /\ turn'[p] \notin Unsaid => \E a, b \in DOMAIN log' : PieceOf(p, a, b)'
<1>1. PICK n \in Nat, m \in Nat :
              /\ DOMAIN log = 1 .. n /\ DOMAIN log' = 1 .. m /\ m \in {n, n + 1}
              /\ log' \in Seq(Messages)
              /\ \A i \in 1 .. n : log'[i] = log[i] /\ log[i].calls \in Nat
              /\ \A i \in 1 .. m : i > n => log'[i].turn = o
              /\ \A k \in Int : k <= n => SubSeq(log', 1, k) = SubSeq(log, 1, k)
  BY LogOfStep
<1>2. DOMAIN log = 1 .. n /\ DOMAIN log' = 1 .. m /\ m \in {n, n + 1} BY <1>1
<1>3. \A i \in 1 .. n : log'[i] = log[i] /\ log[i].calls \in Nat BY <1>1
<1>4. \A i \in 1 .. m : i > n => log'[i].turn = o BY <1>1
<1>5. \A k \in Int : k <= n => SubSeq(log', 1, k) = SubSeq(log, 1, k) BY <1>1, Zenon
<1>6. turn[p] \in Unsaid => Silent(p) BY DEF SessionInv, Pieces
<1>7. Silent(p) => Silent(p)' BY <1>2, <1>3, <1>4 DEF Silent
<1>8. ASSUME turn[p] \notin Unsaid PROVE \E a, b \in DOMAIN log' : PieceOf(p, a, b)'
  <2>1. PICK a \in DOMAIN log, b \in DOMAIN log : PieceOf(p, a, b) BY <1>8 DEF SessionInv, Pieces
  <2>0. a <= b /\ (\A i \in DOMAIN log : log[i].turn = p <=> i \in a .. b) BY <2>1 DEF PieceOf, Piece
  <2>2. a \in 1 .. n /\ b \in 1 .. n /\ a \in 1 .. m /\ b \in 1 .. m BY <1>2
  <2>3. Piece(p, a, b)'
    <3>1. ASSUME NEW i \in 1 .. m PROVE log'[i].turn = p <=> i \in a .. b
      <4>1. CASE i <= n
        <5>1. i \in 1 .. n BY <4>1
        <5>2. log[i].turn = p <=> i \in a .. b BY <1>2, <2>0, <5>1
        <5>3. log'[i] = log[i] BY <1>3, <5>1
        <5> QED BY <5>2, <5>3
      <4>2. CASE i > n
        <5>1. log'[i].turn # p BY <1>4, <4>2
        <5>2. i \notin a .. b BY <2>2, <4>2
        <5> QED BY <5>1, <5>2
      <4> QED BY <4>1, <4>2
    <3> QED BY <1>2, <2>0, <3>1 DEF Piece
  <2>4. log'[a] = log[a] /\ log'[b] = log[b] BY <1>3, <2>2
  <2>5. SubSeq(log', 1, a - 1) = SubSeq(log, 1, a - 1)
    <3>1. a - 1 \in Int /\ a - 1 <= n BY <2>2
    <3> QED BY <1>5, <3>1, Zenon
  <2>6. Paired(a, b) => Paired(a, b)'
    <3> SUFFICES ASSUME Paired(a, b), NEW i \in a .. b, log'[i].kind = "calls"
                 PROVE  /\ i + log'[i].calls < b
                        /\ \A j \in 1 .. log'[i].calls : log'[i + j].kind = "result"
                        /\ log'[i + log'[i].calls + 1].kind \in {"calls", "reply"}
      BY DEF Paired
    <3>1. i \in 1 .. n BY <2>2
    <3>2. log'[i] = log[i] /\ log[i].calls \in Nat BY <1>3, <3>1
    <3>3. PICK c \in Nat : c = log[i].calls BY <3>2
    <3>4. /\ i + c < b /\ \A j \in 1 .. c : log[i + j].kind = "result"
          /\ log[i + c + 1].kind \in {"calls", "reply"}
      BY <3>2, <3>3 DEF Paired
    <3>5. (\A j \in 1 .. c : i + j \in 1 .. n) /\ i + c + 1 \in 1 .. n BY <2>2, <3>1, <3>4
    <3>6. (\A j \in 1 .. c : log'[i + j] = log[i + j]) /\ log'[i + c + 1] = log[i + c + 1] BY <1>3, <3>5
    <3> QED BY <3>2, <3>3, <3>4, <3>6
  <2>7. PieceOf(p, a, b)'
    <3>1. /\ log[a].kind = "user" /\ prior[p] = Shown(Newest(Window - 1, SubSeq(log, 1, a - 1)))
          /\ turn[p] = "cancelled" => a = b
          /\ turn[p] = "done" => log[b].kind = "reply" /\ Paired(a, b)
      BY <2>1 DEF PieceOf, InTurn
    <3>2. prior'[p] = Shown(Newest(Window - 1, SubSeq(log', 1, a - 1))) BY <2>5, <3>1
    <3>3. turn'[p] \notin {"reading", "loop", "chat", "saving"} BY DEF InTurn
    <3>4. /\ log'[a].kind = "user"
          /\ turn'[p] = "cancelled" => a = b
          /\ turn'[p] = "done" => log'[b].kind = "reply" /\ Paired(a, b)'
      BY <2>4, <2>6, <3>1
    <3>5. Piece(p, a, b)' /\ turn'[p] \notin {"reading", "loop", "chat"} BY <2>3, <3>3
    <3> QED BY <3>2, <3>3, <3>4, <3>5 DEF PieceOf
  <2> QED BY <1>2, <2>2, <2>7
<1> QED BY <1>6, <1>7, <1>8

\* The variables a step of one request leaves within their types.
LoopFits ==
    /\ IsLoop(loop) /\ loop.rounds \in Nat /\ loop.empties \in Nat
    /\ loop.rounds <= MaxRounds + 1 /\ loop.empties <= MaxEmpty
    /\ loop.calls \in 0..MaxCalls /\ loop.closing \in BOOLEAN /\ loop.msgs \in Seq(Messages)

\* The types, with the loop and the rest apart.
LEMMA SessionTypesParts ==
    SessionTypes <=>
       /\ present \in BOOLEAN /\ log \in Seq(Messages) /\ turn \in [Turns -> Pcs]
       /\ generating \in Turns \union {NoTurn}
       /\ {aborted, torn, late} \subseteq SUBSET Turns
       /\ LoopFits
       /\ prior \in [Turns -> Prompts]
  BY DEF SessionTypes, SessionTypeOK, LoopFits, IsLoop, Pcs

\* The loop that nobody runs.
LEMMA NoLoopFits == loop = NoLoop => LoopFits
<1>1. NoLoop.msgs \in Seq(Messages) BY LoopsAre, EmptySeq
<1>2. MaxRounds \in Nat /\ MaxEmpty \in Nat /\ MaxCalls \in Nat BY SessionAssumption
<1>3. /\ IsLoop(NoLoop) /\ NoLoop.rounds = 0 /\ NoLoop.empties = 0 /\ NoLoop.calls = 0
      /\ NoLoop.closing = FALSE
  BY LoopsAre
<1> SUFFICES ASSUME loop = NoLoop PROVE LoopFits OBVIOUS
<1>4. IsLoop(loop) /\ loop.msgs \in Seq(Messages) /\ loop.closing \in BOOLEAN BY <1>1, <1>3
<1>5. /\ loop.rounds \in Nat /\ loop.empties \in Nat /\ loop.rounds <= MaxRounds + 1
      /\ loop.empties <= MaxEmpty /\ loop.calls \in 0 .. MaxCalls
  BY <1>2, <1>3
<1> QED BY <1>4, <1>5 DEF LoopFits

\* A step of the request that holds the session, or takes it: the invariant stays when
\* the loop, the prompt and the piece of that request are what they should be.
LEMMA StepOf ==
    ASSUME SessionInv, NEW o \in Turns, turn[o] \in InTurn \/ generating = NoTurn,
           NEW pc \in Pcs, TurnGo(o, pc),
           generating' = IF pc \in InTurn THEN o ELSE NoTurn,
           present' = present, aborted' = aborted, torn' = torn,
           late' \subseteq Turns, late \subseteq late',
           log' = log \/ \E x \in Messages : x.turn = o /\ log' = Append(log, x),
           prior' \in [Turns -> Prompts], \A p \in Turns \ {o} : prior'[p] = prior[p],
           LoopFits',
           pc \notin {"loop", "chat", "saving"} => loop' = NoLoop,
           pc \in {"loop", "chat", "saving"} => LoopOf(o)',
           pc \in {"loop", "chat"} =>
             /\ loop'.rounds <= MaxRounds
             /\ ~loop'.closing => loop'.empties < MaxEmpty /\ (loop'.rounds < MaxRounds \/ loop'.calls > 0)
             /\ loop'.closing => loop'.calls = 0,
           pc \in {"chat", "saving"} => loop'.calls = 0,
           pc \in {"saving", "done"} /\ o \in aborted => o \in late',
           ~present /\ (pc \in InTurn \ {"checking"} \/ log' # log) => o \in torn,
           present /\ pc \in Unsaid => Silent(o)',
           present /\ pc \notin Unsaid => \E a, b \in DOMAIN log' : PieceOf(o, a, b)'
    PROVE  SessionInv'
<1>1. /\ turn' \in [Turns -> Pcs] /\ turn'[o] = pc
      /\ \A p \in Turns : p # o => turn'[p] = turn[p] /\ turn[p] \notin InTurn
  BY TurnMoved
<1>2. o # NoTurn BY SessionAssumption
<1>3. PICK n \in Nat, m \in Nat :
              /\ DOMAIN log = 1 .. n /\ DOMAIN log' = 1 .. m /\ m \in {n, n + 1}
              /\ log' \in Seq(Messages)
              /\ \A i \in 1 .. n : log'[i] = log[i] /\ log[i].calls \in Nat
              /\ \A i \in 1 .. m : i > n => log'[i].turn = o
              /\ \A k \in Int : k <= n => SubSeq(log', 1, k) = SubSeq(log, 1, k)
  BY LogOfStep
<1>4. SessionTypes'
  <2>1. log' \in Seq(Messages) BY <1>3
  <2>2. present \in BOOLEAN /\ {aborted, torn} \subseteq SUBSET Turns
    BY SessionTypesParts DEF SessionInv
  <2>4. generating' \in Turns \union {NoTurn} OBVIOUS
  <2>5. present' \in BOOLEAN /\ {aborted', torn', late'} \subseteq SUBSET Turns BY <2>2
  <2>6. SessionTypeOK' BY <1>1, <2>1, <2>4, <2>5 DEF SessionTypeOK, LoopFits, Pcs
  <2>7. IsLoop(loop') /\ loop'.rounds \in Nat /\ loop'.empties \in Nat BY Zenon DEF LoopFits
  <2> QED BY <2>6, <2>7, Zenon DEF SessionTypes, IsLoop
<1>5. HeldByOne'
  <2>1. ASSUME NEW p \in Turns PROVE generating' = p <=> turn'[p] \in InTurn
    <3>1. CASE p = o BY <1>1, <1>2, <3>1
    <3>2. CASE p # o
      <4>1. turn'[p] \notin InTurn BY <1>1, <3>2
      <4>2. generating' # p BY <3>2, SessionAssumption
      <4> QED BY <4>1, <4>2
    <3> QED BY <3>1, <3>2
  <2>2. (\A p \in Turns : turn'[p] \notin {"loop", "chat", "saving"}) => loop' = NoLoop BY <1>1
  <2>3. \A p \in Turns : turn'[p] \in {"loop", "chat", "saving"} => LoopOf(p)' BY <1>1 DEF InTurn
  <2> QED BY <2>1, <2>2, <2>3 DEF HeldByOne
<1>6. RoundsLeft' BY <1>1 DEF RoundsLeft, InTurn
<1>7. GoneForGood'
  <2>1. present => torn = {} BY DEF SessionInv, GoneForGood
  <2>2. ASSUME ~present PROVE \A i \in DOMAIN log' : log'[i].turn \in torn
    <3>1. \A i \in DOMAIN log : log[i].turn \in torn BY <2>2 DEF SessionInv, GoneForGood
    <3>2. CASE log' = log BY <3>1, <3>2
    <3>3. CASE log' # log
      <4>1. o \in torn BY <2>2, <3>3
      <4>2. DOMAIN log = 1 .. n /\ DOMAIN log' = 1 .. m BY <1>3
      <4>3. \A i \in 1 .. n : log'[i] = log[i] BY <1>3
      <4>4. \A i \in 1 .. m : i > n => log'[i].turn = o BY <1>3
      <4>5. ASSUME NEW i \in 1 .. m PROVE log'[i].turn \in torn
        <5>1. CASE i <= n BY <3>1, <4>2, <4>3, <5>1
        <5>2. CASE i > n BY <4>1, <4>4, <5>2
        <5> QED BY <5>1, <5>2
      <4> QED BY <4>2, <4>5
    <3> QED BY <3>2, <3>3
  <2>3. ~present => \A p \in Turns : turn'[p] \in InTurn \ {"checking"} => p \in torn BY <1>1
  <2> QED BY <2>1, <2>2, <2>3 DEF GoneForGood
<1>8. AbortsTold'
  <2>1. aborted \subseteq Turns BY SessionTypesParts DEF SessionInv
  <2>2. \A p \in aborted : turn[p] \in {"saving", "done"} => p \in late BY DEF SessionInv, AbortsTold
  <2> QED BY <1>1, <2>1, <2>2 DEF AbortsTold
<1>9. Pieces'
  <2>1. ASSUME present, NEW p \in Turns
        PROVE  /\ turn'[p] \in Unsaid => Silent(p)'
               /\ turn'[p] \notin Unsaid => \E a, b \in DOMAIN log' : PieceOf(p, a, b)'
    <3>1. CASE p = o BY <1>1, <2>1, <3>1
    <3>2. CASE p # o
      <4>1. turn[p] \notin InTurn /\ turn'[p] = turn[p] /\ prior'[p] = prior[p] BY <1>1, <3>2
      <4> QED BY <2>1, <3>2, <4>1, OthersKept
    <3> QED BY <3>1, <3>2
  <2> QED BY <2>1 DEF Pieces
<1> QED BY <1>4, <1>5, <1>6, <1>7, <1>8, <1>9 DEF SessionInv

\* What the step that holds the session may rely on.
LEMMA Holder ==
    ASSUME SessionInv, NEW o \in Turns, turn[o] \in InTurn
    PROVE  /\ generating = o /\ present \in BOOLEAN /\ late \subseteq Turns
           /\ ~present /\ turn[o] # "checking" => o \in torn
           /\ prior \in [Turns -> Prompts] /\ LoopFits
           /\ turn[o] \notin {"loop", "chat", "saving"} => loop = NoLoop
<1>1. generating = o BY DEF SessionInv, HeldByOne
<1>2. /\ present \in BOOLEAN /\ late \subseteq Turns /\ prior \in [Turns -> Prompts] /\ LoopFits
  BY SessionTypesParts DEF SessionInv
<1>3. ~present /\ turn[o] # "checking" => o \in torn BY DEF SessionInv, GoneForGood
<1>4. \A p \in Turns : p # o => turn[p] \notin InTurn BY <1>1 DEF SessionInv, HeldByOne
<1>5. ASSUME turn[o] \notin {"loop", "chat", "saving"} PROVE loop = NoLoop
  <2>1. \A p \in Turns : turn[p] \notin {"loop", "chat", "saving"} BY <1>4, <1>5 DEF InTurn
  <2> QED BY <2>1 DEF SessionInv, HeldByOne
<1> QED BY <1>1, <1>2, <1>3, <1>5

\* While the log stays, what is said of it stays.
LEMMA LogSame ==
    ASSUME log' = log, NEW p, NEW a, NEW b
    PROVE  /\ Silent(p)' <=> Silent(p)
           /\ Piece(p, a, b)' <=> Piece(p, a, b)
           /\ Paired(a, b)' <=> Paired(a, b)
<1>1. Silent(p)' <=> Silent(p) BY DEF Silent
<1>2. Piece(p, a, b)' <=> Piece(p, a, b) BY DEF Piece
<1>3. Paired(a, b)' <=> Paired(a, b) BY DEF Paired
<1> QED BY <1>1, <1>2, <1>3

\* While log, messages and calls of the loop stay, so does their order.
LEMMA TapeSame ==
    ASSUME log' = log, loop'.msgs = loop.msgs, loop'.calls = loop.calls, NEW a
    PROVE  InOrder(a)' <=> InOrder(a)
<1>1. TapeEnd' = TapeEnd BY DEF TapeEnd
<1>2. \A k : Tape(k)' = Tape(k) BY DEF Tape
<1> QED BY <1>1, <1>2 DEF InOrder

\* The piece of a request of which nothing changes.
LEMMA PieceSame ==
    ASSUME log' = log, loop' = loop, NEW p, turn'[p] = turn[p], prior'[p] = prior[p],
           NEW a, NEW b, PieceOf(p, a, b)
    PROVE  PieceOf(p, a, b)'
<1>1. Piece(p, a, b)' /\ (Paired(a, b)' <=> Paired(a, b)) BY LogSame DEF PieceOf
<1>2. InOrder(a)' <=> InOrder(a) BY TapeSame
<1>3. log'[a].kind = "user" /\ Len(log') = Len(log) BY DEF PieceOf
<1>4. turn'[p] # "reading" => prior'[p] = Shown(Newest(Window - 1, SubSeq(log', 1, a - 1))) BY DEF PieceOf
<1>5. turn'[p] \in {"reading", "loop", "chat", "cancelled"} => a = b BY DEF PieceOf
<1>6. turn'[p] \in {"reading", "loop", "chat", "saving"} =>
         b = Len(log') /\ InOrder(a)'
  BY <1>2 DEF PieceOf
<1>7. turn'[p] = "done" => log'[b].kind = "reply" /\ Paired(a, b)' BY <1>1 DEF PieceOf
<1> QED BY <1>1, <1>3, <1>4, <1>5, <1>6, <1>7 DEF PieceOf

\* The piece of a request whose loop goes on.
LEMMA PieceGoes ==
    ASSUME SessionInv, present, NEW o \in Turns, turn[o] \in {"loop", "chat"},
           log' = log, prior' = prior, turn'[o] \in {"loop", "chat", "saving"},
           \A a \in DOMAIN log : a = Len(log) /\ log[a].kind = "user" /\ InOrder(a) => InOrder(a)'
    PROVE  \E a, b \in DOMAIN log' : PieceOf(o, a, b)'
<1>1. turn[o] \notin Unsaid BY DEF Unsaid
<1>2. PICK a \in DOMAIN log, b \in DOMAIN log : PieceOf(o, a, b) BY <1>1 DEF SessionInv, Pieces
<1>3. /\ a = b /\ b = Len(log) /\ InOrder(a) /\ log[a].kind = "user"
      /\ Piece(o, a, b) /\ prior[o] = Shown(Newest(Window - 1, SubSeq(log, 1, a - 1)))
  BY <1>2 DEF PieceOf
<1>4. Piece(o, a, b)' BY <1>3, LogSame
<1>5. InOrder(a)' BY <1>3
<1>6. prior'[o] = Shown(Newest(Window - 1, SubSeq(log', 1, a - 1))) BY <1>3
<1>7. log'[a].kind = "user" /\ b = Len(log') BY <1>3
<1>8. PieceOf(o, a, b)' BY <1>3, <1>4, <1>5, <1>6, <1>7 DEF PieceOf
<1> QED BY <1>8

\* A request that ends: its piece is closed.
LEMMA PieceEnds ==
    ASSUME SessionInv, present, NEW o \in Turns, turn[o] \in {"loop", "chat", "saving"},
           log' = log, prior' = prior,
           turn'[o] = "failed" \/ (turn'[o] = "cancelled" /\ turn[o] # "saving")
    PROVE  \E a, b \in DOMAIN log' : PieceOf(o, a, b)'
<1>1. turn[o] \notin Unsaid BY DEF Unsaid
<1>2. PICK a \in DOMAIN log, b \in DOMAIN log : PieceOf(o, a, b) BY <1>1 DEF SessionInv, Pieces
<1>3. /\ log[a].kind = "user" /\ Piece(o, a, b)
      /\ prior[o] = Shown(Newest(Window - 1, SubSeq(log, 1, a - 1)))
      /\ turn[o] # "saving" => a = b
  BY <1>2 DEF PieceOf
<1>4. Piece(o, a, b)' BY <1>3, LogSame
<1>5. prior'[o] = Shown(Newest(Window - 1, SubSeq(log', 1, a - 1))) /\ log'[a].kind = "user" BY <1>3
<1>6. PieceOf(o, a, b)' BY <1>3, <1>4, <1>5 DEF PieceOf
<1> QED BY <1>6

-----------------------------------------------------------------------------
(* the steps *)

\* A request that is turned away, an abort: nothing moves but what is named.
LEMMA RestStays ==
    ASSUME SessionInv, present' = present, log' = log, generating' = generating, loop' = loop,
           prior' = prior, torn' = torn,
           turn' \in [Turns -> Pcs], aborted' \subseteq Turns, late' \subseteq Turns,
           \A p \in Turns : turn'[p] = turn[p] \/ (turn[p] = "new" /\ turn'[p] = "refused"),
           \A p \in aborted' : turn'[p] \in {"saving", "done"} => p \in late'
    PROVE  SessionInv'
<1>1. SessionTypes'
  <2>1. /\ present \in BOOLEAN /\ log \in Seq(Messages) /\ generating \in Turns \union {NoTurn}
        /\ torn \subseteq Turns /\ prior \in [Turns -> Prompts] /\ LoopFits
    BY SessionTypesParts DEF SessionInv
  <2>2. LoopFits' BY <2>1 DEF LoopFits
  <2>3. SessionTypeOK' BY <2>1, <2>2 DEF SessionTypeOK, LoopFits, Pcs
  <2>4. IsLoop(loop') /\ loop'.rounds \in Nat /\ loop'.empties \in Nat BY <2>2, Zenon DEF LoopFits
  <2> QED BY <2>3, <2>4, Zenon DEF SessionTypes, IsLoop
<1>2. \A p \in Turns : /\ turn'[p] \in InTurn <=> turn[p] \in InTurn
                       /\ turn[p] \in InTurn => turn'[p] = turn[p]
                       /\ turn'[p] \in Unsaid <=> turn[p] \in Unsaid
                       /\ turn[p] \notin Unsaid => turn'[p] = turn[p]
  BY DEF InTurn, Unsaid
<1>3. HeldByOne'
  <2>1. \A p \in Turns : generating' = p <=> turn'[p] \in InTurn BY <1>2 DEF SessionInv, HeldByOne
  <2>2. ASSUME \A p \in Turns : turn'[p] \notin {"loop", "chat", "saving"} PROVE loop' = NoLoop
    <3>1. \A p \in Turns : turn[p] \notin {"loop", "chat", "saving"} BY <1>2, <2>2 DEF InTurn
    <3> QED BY <3>1 DEF SessionInv, HeldByOne
  <2>3. ASSUME NEW p \in Turns, turn'[p] \in {"loop", "chat", "saving"} PROVE LoopOf(p)'
    <3>1. LoopOf(p) BY <1>2, <2>3 DEF SessionInv, HeldByOne, InTurn
    <3> QED BY <3>1 DEF LoopOf
  <2> QED BY <2>1, <2>2, <2>3 DEF HeldByOne
<1>4. RoundsLeft' BY <1>2 DEF SessionInv, RoundsLeft, InTurn
<1>5. GoneForGood'
  <2>1. present' => torn' = {} BY DEF SessionInv, GoneForGood
  <2>2. ~present' => \A i \in DOMAIN log' : log'[i].turn \in torn' BY DEF SessionInv, GoneForGood
  <2>3. ~present' => \A p \in Turns : turn'[p] \in InTurn \ {"checking"} => p \in torn'
    BY <1>2 DEF SessionInv, GoneForGood
  <2> QED BY <2>1, <2>2, <2>3 DEF GoneForGood
<1>6. AbortsTold' BY DEF AbortsTold
<1>7. Pieces'
  <2>1. ASSUME present, NEW p \in Turns
        PROVE  /\ turn'[p] \in Unsaid => Silent(p)'
               /\ turn'[p] \notin Unsaid => \E a, b \in DOMAIN log' : PieceOf(p, a, b)'
    <3>1. CASE turn[p] \in Unsaid
      <4>1. Silent(p) BY <2>1, <3>1 DEF SessionInv, Pieces
      <4>2. Silent(p)' BY <4>1, LogSame
      <4> QED BY <1>2, <3>1, <4>2
    <3>2. CASE turn[p] \notin Unsaid
      <4>1. PICK a \in DOMAIN log, b \in DOMAIN log : PieceOf(p, a, b) BY <2>1, <3>2 DEF SessionInv, Pieces
      <4>2. turn'[p] = turn[p] /\ prior'[p] = prior[p] BY <1>2, <3>2
      <4>3. PieceOf(p, a, b)' BY <4>1, <4>2, PieceSame
      <4>4. a \in DOMAIN log' /\ b \in DOMAIN log' OBVIOUS
      <4> QED BY <1>2, <3>2, <4>3, <4>4
    <3> QED BY <3>1, <3>2
  <2> QED BY <2>1 DEF Pieces
<1> QED BY <1>1, <1>3, <1>4, <1>5, <1>6, <1>7 DEF SessionInv

\* A request is turned away while another holds the session, or takes it.
LEMMA SendStep == ASSUME SessionInv, NEW o \in Turns, Send(o) PROVE SessionInv'
<1>1. /\ turn[o] = "new" /\ present' = present /\ log' = log /\ aborted' = aborted /\ loop' = loop
      /\ prior' = prior /\ torn' = torn /\ late' = late
  BY DEF Send
<1>2. /\ turn \in [Turns -> Pcs] /\ aborted \subseteq Turns /\ late \subseteq Turns /\ LoopFits
      /\ prior \in [Turns -> Prompts]
  BY SessionTypesParts DEF SessionInv
<1>3. \A p \in aborted : turn[p] \in {"saving", "done"} => p \in late BY DEF SessionInv, AbortsTold
<1>4. CASE generating # NoTurn
  <2>1. turn' = [turn EXCEPT ![o] = "refused"] /\ generating' = generating BY <1>4 DEF Send, TurnGo
  <2>2. /\ turn' \in [Turns -> Pcs]
        /\ \A p \in Turns : turn'[p] = turn[p] \/ (turn[p] = "new" /\ turn'[p] = "refused")
    <3>1. "refused" \in Pcs BY DEF Pcs
    <3>2. turn \in [Turns -> Pcs] /\ turn[o] = "new" BY <1>1, <1>2
    <3>3. turn' \in [Turns -> Pcs] BY <2>1, <3>1, <3>2
    <3>4. ASSUME NEW p \in Turns PROVE turn'[p] = turn[p] \/ (turn[p] = "new" /\ turn'[p] = "refused")
      <4>1. CASE p = o
        <5>1. turn'[o] = "refused" BY <2>1, <3>2
        <5> QED BY <3>2, <4>1, <5>1
      <4>2. CASE p # o BY <2>1, <3>2, <4>2
      <4> QED BY <4>1, <4>2
    <3> QED BY <3>3, <3>4
  <2>3. \A p \in aborted' : turn'[p] \in {"saving", "done"} => p \in late' BY <1>1, <1>2, <1>3, <2>2
  <2> QED BY <1>1, <1>2, <2>1, <2>2, <2>3, RestStays
<1>5. CASE generating = NoTurn
  <2>1. TurnGo(o, "checking") /\ generating' = o BY <1>5 DEF Send
  <2>2. "checking" \in Pcs /\ "checking" \in InTurn /\ "checking" \in Unsaid BY DEF Pcs, InTurn, Unsaid
  <2>3. LoopFits' BY <1>1, <1>2 DEF LoopFits
  <2>4. loop' = NoLoop
    <3>1. \A p \in Turns : turn[p] \notin InTurn BY <1>5, SessionAssumption DEF SessionInv, HeldByOne
    <3>2. \A p \in Turns : turn[p] \notin {"loop", "chat", "saving"} BY <3>1 DEF InTurn
    <3>3. loop = NoLoop BY <3>2 DEF SessionInv, HeldByOne
    <3> QED BY <1>1, <3>3
  <2>5. present => Silent(o)'
    <3>1. present => Silent(o) BY <1>1 DEF SessionInv, Pieces, Unsaid
    <3> QED BY <1>1, <3>1, LogSame
  <2> QED BY <1>1, <1>2, <1>5, <2>1, <2>2, <2>3, <2>4, <2>5, StepOf
<1> QED BY <1>4, <1>5

\* The steps of a request before its message is written.
LEMMA CheckedStep == ASSUME SessionInv, NEW o \in Turns, SessionChecked(o) PROVE SessionInv'
<1>1. /\ turn[o] = "checking" /\ present' = present /\ log' = log /\ aborted' = aborted
      /\ prior' = prior /\ torn' = torn /\ late' = late
  BY DEF SessionChecked
<1>2. turn[o] \in InTurn /\ turn[o] \in Unsaid BY <1>1 DEF InTurn, Unsaid
<1>3. /\ generating = o /\ present \in BOOLEAN /\ late \subseteq Turns
      /\ prior \in [Turns -> Prompts] /\ LoopFits /\ loop = NoLoop
  BY <1>1, <1>2, Holder
<1>4. /\ "missing" \in Pcs \ InTurn /\ "refused" \in Pcs \ InTurn /\ "adding" \in Pcs \cap InTurn
      /\ {"missing", "refused", "adding"} \subseteq Unsaid
  BY DEF Pcs, InTurn, Unsaid
<1>5. present => Silent(o)'
  <2>1. present => Silent(o) BY <1>2 DEF SessionInv, Pieces
  <2> QED BY <1>1, <2>1, LogSame
<1>6. CASE loop' = NoLoop /\ (TurnGo(o, "missing") \/ TurnGo(o, "refused")) /\ generating' = NoTurn
  <2>1. LoopFits' BY <1>3, <1>6 DEF LoopFits
  <2>2. PICK pc \in {"missing", "refused"} : TurnGo(o, pc) BY <1>6
  <2> QED BY <1>1, <1>2, <1>3, <1>4, <1>5, <1>6, <2>1, <2>2, StepOf
<1>7. CASE present /\ TurnGo(o, "adding") /\ generating' = generating /\ loop' = loop
  <2>1. LoopFits' BY <1>3, <1>7 DEF LoopFits
  <2> QED BY <1>1, <1>2, <1>3, <1>4, <1>5, <1>7, <2>1, StepOf
<1> QED BY <1>6, <1>7 DEF SessionChecked, TurnEnds

\* The message of the user begins the piece.
LEMMA AddUserStep == ASSUME SessionInv, NEW o \in Turns, AddUser(o) PROVE SessionInv'
<1> DEFINE x == Message(o, "user", 0)
<1>1. /\ turn[o] = "adding" /\ present' = present /\ log' = Append(log, x) /\ aborted' = aborted
      /\ generating' = generating /\ loop' = loop /\ TurnGo(o, "reading")
      /\ prior' = prior /\ torn' = torn /\ late' = late
  BY DEF AddUser, AddMessage
<1>2. turn[o] \in InTurn /\ turn[o] \in Unsaid BY <1>1 DEF InTurn, Unsaid
<1>3. /\ generating = o /\ present \in BOOLEAN /\ late \subseteq Turns
      /\ prior \in [Turns -> Prompts] /\ LoopFits /\ loop = NoLoop
      /\ ~present => o \in torn
  BY <1>1, <1>2, Holder
<1>4. "reading" \in Pcs \cap InTurn /\ "reading" \notin Unsaid BY DEF Pcs, InTurn, Unsaid
<1>5. x \in Messages /\ x.turn = o /\ x.kind = "user"
  <2>1. 0 \in 0 .. MaxCalls BY SessionAssumption
  <2> QED BY <2>1, MessagesAre
<1> HIDE DEF x
<1>6. LoopFits' BY <1>1, <1>3 DEF LoopFits
<1>7. ASSUME present PROVE \E a, b \in DOMAIN log' : PieceOf(o, a, b)'
  <2>1. Silent(o) BY <1>2, <1>7 DEF SessionInv, Pieces
  <2>2. log \in Seq(Messages) BY SessionNumbers
  <2>3. /\ Len(log) \in Nat /\ Len(Append(log, x)) = Len(log) + 1
        /\ DOMAIN log = 1 .. Len(log) /\ DOMAIN Append(log, x) = 1 .. Len(log) + 1
        /\ Append(log, x)[Len(log) + 1] = x
        /\ \A i \in 1 .. Len(log) : Append(log, x)[i] = log[i]
    BY <1>5, <2>2, LogGrows
  <2>4. PICK n \in Nat : n = Len(log) BY <2>3
  <2>5. PICK t : t = Append(log, x) OBVIOUS
  <2>6. /\ Len(t) = n + 1 /\ DOMAIN log = 1 .. n /\ DOMAIN t = 1 .. n + 1 /\ t[n + 1] = x
        /\ \A i \in 1 .. n : t[i] = log[i]
    BY <2>3, <2>4, <2>5, Zenon
  <2>7. log' = t BY <1>1, <2>5
  <2>8. ASSUME NEW i \in 1 .. n + 1 PROVE t[i].turn = o <=> i \in n + 1 .. n + 1
    <3>1. CASE i \in 1 .. n
      <4>1. log[i].turn # o BY <2>1, <2>6, <3>1 DEF Silent
      <4>2. t[i] = log[i] /\ i \notin n + 1 .. n + 1 BY <2>6, <3>1
      <4> QED BY <4>1, <4>2
    <3>2. CASE i = n + 1 BY <1>5, <2>6, <3>2
    <3> QED BY <3>1, <3>2
  <2>9. Piece(o, n + 1, n + 1)'
    <3>1. DOMAIN log' = 1 .. n + 1 /\ \A i \in 1 .. n + 1 : log'[i].turn = o <=> i \in n + 1 .. n + 1
      BY <2>6, <2>7, <2>8
    <3> QED BY <3>1 DEF Piece
  <2>10. Len(loop'.msgs) = 0 /\ DOMAIN loop'.msgs = {}
    <3>1. loop'.msgs = <<>> BY <1>1, <1>3, LoopsAre
    <3> QED BY <3>1, EmptySeq
  <2>11. InOrder(n + 1)'
    <3>1. TapeEnd' = n + 1 BY <2>6, <2>7, <2>10 DEF TapeEnd
    <3>2. Tape(n + 1)' = x BY <2>6, <2>7 DEF Tape
    <3> QED BY <1>5, <3>1, <3>2 DEF InOrder
  <2>12. turn'[o] = "reading"
    BY <1>1, SessionTypesParts DEF SessionInv, TurnGo
  <2>13. /\ log'[n + 1].kind = "user" /\ n + 1 = Len(log')
    BY <1>5, <2>6, <2>7, <2>10
  <2>14. PieceOf(o, n + 1, n + 1)' BY <2>9, <2>11, <2>12, <2>13 DEF PieceOf
  <2> QED BY <2>6, <2>7, <2>14
<1> QED BY <1>1, <1>2, <1>3, <1>4, <1>5, <1>6, <1>7, StepOf

\* The prompt is made of what the log holds before the message.
LEMMA ReadStep == ASSUME SessionInv, NEW o \in Turns, ReadHistory(o) PROVE SessionInv'
<1> DEFINE w == IF log = <<>> THEN <<>> ELSE Shown(Front(Newest(Window, log)))
<1>1. /\ turn[o] = "reading" /\ present' = present /\ log' = log /\ aborted' = aborted
      /\ generating' = generating /\ loop' = loop /\ TurnGo(o, "loop")
      /\ prior' = [prior EXCEPT ![o] = w] /\ torn' = torn /\ late' = late
  BY DEF ReadHistory
<1>2. turn[o] \in InTurn /\ turn[o] \notin Unsaid BY <1>1 DEF InTurn, Unsaid
<1>3. /\ generating = o /\ present \in BOOLEAN /\ late \subseteq Turns
      /\ prior \in [Turns -> Prompts] /\ LoopFits /\ loop = NoLoop
      /\ ~present => o \in torn
  BY <1>1, <1>2, Holder
<1>4. "loop" \in Pcs \cap InTurn /\ "loop" \notin Unsaid BY DEF Pcs, InTurn, Unsaid
<1>5. log \in Seq(Messages) /\ Len(log) \in Nat /\ DOMAIN log = 1 .. Len(log) BY SessionNumbers
<1>6. w \in Prompts /\ (log # <<>> => w = Shown(Newest(Window - 1, SubSeq(log, 1, Len(log) - 1))))
  <2>1. Window \in Nat \ {0} BY SessionAssumption
  <2>2. CASE log = <<>>
    <3>1. w = <<>> BY <2>2
    <3> QED BY <2>2, <3>1, NothingShown
  <2>3. CASE log # <<>>
    <3> DEFINE f == Front(Newest(Window, log))
    <3>1. /\ f \in Seq(Messages) /\ Len(f) <= Window - 1
          /\ f = Newest(Window - 1, SubSeq(log, 1, Len(log) - 1))
      BY <1>5, <2>1, <2>3, WindowRead
    <3>2. w = Shown(f) BY <2>3
    <3> HIDE DEF f
    <3>3. Shown(f) \in Prompts BY <3>1, ShownIsPrompt
    <3> QED BY <2>3, <3>1, <3>2, <3>3
  <2> QED BY <2>2, <2>3
<1> HIDE DEF w
<1>7. /\ prior' \in [Turns -> Prompts] /\ prior'[o] = w
      /\ \A p \in Turns \ {o} : prior'[p] = prior[p]
  BY <1>1, <1>3, <1>6
<1>8. LoopFits' BY <1>1, <1>3 DEF LoopFits
<1>9. /\ loop'.rounds <= MaxRounds
      /\ ~loop'.closing => loop'.empties < MaxEmpty /\ (loop'.rounds < MaxRounds \/ loop'.calls > 0)
      /\ loop'.closing => loop'.calls = 0
  BY <1>1, <1>3, LoopsAre, SessionAssumption
<1>11. LoopOf(o)'
  <2>1. loop'.msgs = <<>> BY <1>1, <1>3, LoopsAre
  <2>2. DOMAIN loop'.msgs = {} BY <2>1, EmptySeq
  <2> QED BY <2>2 DEF LoopOf
<1>10. ASSUME present PROVE \E a, b \in DOMAIN log' : PieceOf(o, a, b)'
  <2>1. PICK a \in DOMAIN log, b \in DOMAIN log : PieceOf(o, a, b)
    BY <1>2, <1>10 DEF SessionInv, Pieces
  <2>2. /\ a = b /\ b = Len(log) /\ InOrder(a) /\ log[a].kind = "user" /\ Piece(o, a, b)
    BY <1>1, <2>1 DEF PieceOf
  <2>3. Piece(o, a, b)' /\ InOrder(a)' BY <1>1, <2>2, LogSame, TapeSame
  <2>4. log # <<>> BY <2>1, EmptySeq
  <2>5. prior'[o] = Shown(Newest(Window - 1, SubSeq(log', 1, a - 1))) BY <1>1, <1>6, <1>7, <2>2, <2>4
  <2>6. turn'[o] = "loop"
    BY <1>1, SessionTypesParts DEF SessionInv, TurnGo
  <2>7. /\ log'[a].kind = "user" /\ b = Len(log')
    BY <1>1, <2>2
  <2>8. PieceOf(o, a, b)' BY <2>2, <2>3, <2>5, <2>6, <2>7 DEF PieceOf
  <2> QED BY <1>1, <2>8
<1> QED BY <1>1, <1>2, <1>3, <1>4, <1>7, <1>8, <1>9, <1>10, <1>11, StepOf

-----------------------------------------------------------------------------
(* the loop *)

\* What is left of the loop when it goes on: fields, and the piece of the request.
LEMMA LoopGoes ==
    ASSUME SessionInv, NEW o \in Turns, turn[o] \in {"loop", "chat"},
           NEW pc \in {"loop", "chat", "saving"}, TurnGo(o, pc),
           present' = present, log' = log, generating' = generating, aborted' = aborted,
           prior' = prior, torn' = torn, late' \subseteq Turns, late \subseteq late',
           LoopFits', loop'.rounds <= MaxRounds \/ pc = "saving",
           pc # "saving" /\ ~loop'.closing
             => loop'.empties < MaxEmpty /\ (loop'.rounds < MaxRounds \/ loop'.calls > 0),
           loop'.closing => loop'.calls = 0,
           pc # "loop" => loop'.calls = 0,
           pc = "saving" /\ o \in aborted => o \in late',
           \A a \in DOMAIN log : a = Len(log) /\ log[a].kind = "user" /\ InOrder(a) => InOrder(a)',
           LoopOf(o) => LoopOf(o)'
    PROVE  SessionInv'
<1>1. turn[o] \in InTurn /\ turn[o] # "checking" BY DEF InTurn
<1>2. /\ generating = o /\ present \in BOOLEAN /\ prior \in [Turns -> Prompts]
      /\ ~present => o \in torn
  BY <1>1, Holder
<1>3. pc \in Pcs \cap InTurn /\ pc \notin Unsaid /\ pc # "done" BY DEF Pcs, InTurn, Unsaid
<1>4. turn'[o] = pc BY SessionTypesParts DEF SessionInv, TurnGo
<1>5. present => \E a, b \in DOMAIN log' : PieceOf(o, a, b)' BY <1>4, PieceGoes
<1>6. \A p \in Turns \ {o} : prior'[p] = prior[p] OBVIOUS
<1>9. LoopOf(o)' BY DEF SessionInv, HeldByOne
<1>7. generating' = IF pc \in InTurn THEN o ELSE NoTurn BY <1>2, <1>3
<1>8. pc \in {"loop", "chat"} =>
             /\ loop'.rounds <= MaxRounds
             /\ ~loop'.closing => loop'.empties < MaxEmpty /\ (loop'.rounds < MaxRounds \/ loop'.calls > 0)
             /\ loop'.closing => loop'.calls = 0
  OBVIOUS
<1> QED BY <1>1, <1>2, <1>3, <1>5, <1>6, <1>7, <1>8, <1>9, StepOf

\* The loop of the request that runs it.
LEMMA LoopNow ==
    ASSUME SessionInv, NEW o \in Turns, turn[o] \in {"loop", "chat"}
    PROVE  /\ LoopFits /\ late \subseteq Turns /\ loop.rounds <= MaxRounds
           /\ ~loop.closing => loop.empties < MaxEmpty /\ (loop.rounds < MaxRounds \/ loop.calls > 0)
           /\ loop.closing => loop.calls = 0
           /\ turn[o] = "chat" => loop.calls = 0
<1>1. turn[o] \in InTurn BY DEF InTurn
<1>2. LoopFits /\ late \subseteq Turns BY <1>1, Holder
<1>3. /\ loop.rounds <= MaxRounds
      /\ ~loop.closing => loop.empties < MaxEmpty /\ (loop.rounds < MaxRounds \/ loop.calls > 0)
      /\ loop.closing => loop.calls = 0
      /\ turn[o] = "chat" => loop.calls = 0
  BY DEF SessionInv, RoundsLeft
<1> QED BY <1>2, <1>3

\* A chat begins.
LEMMA ChatStep == ASSUME SessionInv, NEW o \in Turns, ChatBegins(o) PROVE SessionInv'
<1>1. /\ turn[o] = "loop" /\ loop.calls = 0 /\ TurnGo(o, "chat") /\ loop' = loop
      /\ present' = present /\ log' = log /\ generating' = generating /\ aborted' = aborted
      /\ prior' = prior /\ torn' = torn /\ late' = late
  BY DEF ChatBegins, LoopIs
<1>2. /\ LoopFits /\ late \subseteq Turns /\ loop.rounds <= MaxRounds
      /\ ~loop.closing => loop.empties < MaxEmpty /\ (loop.rounds < MaxRounds \/ loop.calls > 0)
      /\ loop.closing => loop.calls = 0
  BY <1>1, LoopNow
<1>3. LoopFits' BY <1>1, <1>2 DEF LoopFits
<1>4. \A a \in DOMAIN log : InOrder(a) => InOrder(a)' BY <1>1, TapeSame
<1>5. LoopOf(o) => LoopOf(o)' BY <1>1 DEF LoopOf
<1> QED BY <1>1, <1>2, <1>3, <1>4, <1>5, LoopGoes

\* A tape that grows keeps what it held.
LEMMA TapeGrows ==
    ASSUME SessionInv, log' = log, NEW x \in Messages, loop'.msgs = Append(loop.msgs, x)
    PROVE  /\ TapeEnd \in Nat /\ TapeEnd' = TapeEnd + 1
           /\ \A k \in 1 .. TapeEnd : Tape(k)' = Tape(k) /\ Tape(k).calls \in Nat
           /\ \A k : k = TapeEnd + 1 => Tape(k)' = x
           /\ \A o : x.turn = o /\ LoopOf(o) => LoopOf(o)'
<1>1. PICK s : s = loop.msgs OBVIOUS
<1>2. s \in Seq(Messages) BY <1>1, SessionNumbers
<1>3. /\ Len(s) \in Nat /\ Len(Append(s, x)) = Len(s) + 1
      /\ DOMAIN s = 1 .. Len(s) /\ DOMAIN Append(s, x) = 1 .. Len(s) + 1
      /\ Append(s, x)[Len(s) + 1] = x
      /\ \A i \in 1 .. Len(s) : Append(s, x)[i] = s[i]
  BY <1>2, LogGrows
<1>4. PICK t : t = Append(s, x) OBVIOUS
<1>5. PICK n \in Nat, m \in Nat : n = Len(log) /\ m = Len(s) BY <1>3, SessionNumbers
<1>6. /\ Len(t) = m + 1 /\ DOMAIN s = 1 .. m /\ DOMAIN t = 1 .. m + 1 /\ t[m + 1] = x
      /\ \A i \in 1 .. m : t[i] = s[i]
  BY <1>3, <1>4, <1>5, Zenon
<1>7. loop'.msgs = t BY <1>1, <1>4
<1>8. TapeEnd = n + m /\ TapeEnd' = n + (m + 1)
  <2>1. TapeEnd = n + m BY <1>1, <1>5 DEF TapeEnd
  <2>2. Len(log') = n /\ Len(loop'.msgs) = m + 1 BY <1>5, <1>6, <1>7
  <2> QED BY <2>1, <2>2 DEF TapeEnd
<1>9. \A i \in 1 .. n : log[i].calls \in Nat BY <1>5, SessionNumbers
<1>10. \A i \in 1 .. m : s[i].calls \in Nat BY <1>1, <1>5, SessionNumbers
<1>11. ASSUME NEW k \in 1 .. n + m PROVE Tape(k)' = Tape(k) /\ Tape(k).calls \in Nat
  <2>1. CASE k <= n
    <3>1. Tape(k) = log[k] BY <1>5, <2>1 DEF Tape
    <3>2. Tape(k)' = log[k] BY <1>5, <2>1 DEF Tape
    <3> QED BY <1>9, <2>1, <3>1, <3>2
  <2>2. CASE k > n
    <3>1. Tape(k) = s[k - n] BY <1>1, <1>5, <2>2 DEF Tape
    <3>2. Tape(k)' = t[k - n] BY <1>5, <1>7, <2>2 DEF Tape
    <3>3. k - n \in 1 .. m BY <2>2
    <3> QED BY <1>6, <1>10, <3>1, <3>2, <3>3
  <2> QED BY <2>1, <2>2
<1>12. Tape(n + m + 1)' = x
  <2>1. Tape(n + m + 1)' = t[n + m + 1 - n] BY <1>5, <1>7 DEF Tape
  <2>2. n + m + 1 - n = m + 1 OBVIOUS
  <2> QED BY <1>6, <2>1, <2>2
<1>13. ASSUME NEW o, x.turn = o, LoopOf(o), NEW k \in DOMAIN loop'.msgs
       PROVE  loop'.msgs[k].turn = o
  <2>1. \A i \in 1 .. m : s[i].turn = o BY <1>1, <1>6, <1>13 DEF LoopOf
  <2>2. k \in 1 .. m + 1 BY <1>6, <1>7
  <2>3. CASE k \in 1 .. m
    <3>1. t[k] = s[k] /\ s[k].turn = o BY <1>6, <2>1, <2>3
    <3> QED BY <1>7, <3>1
  <2>4. CASE k = m + 1 BY <1>6, <1>7, <1>13, <2>4
  <2> QED BY <2>2, <2>3, <2>4
<1>14. TapeEnd \in Nat /\ TapeEnd' = TapeEnd + 1 BY <1>8
<1>15. \A k \in 1 .. TapeEnd : Tape(k)' = Tape(k) /\ Tape(k).calls \in Nat BY <1>8, <1>11
<1>16. \A k : k = TapeEnd + 1 => Tape(k)' = x BY <1>8, <1>12
<1>17. \A o : x.turn = o /\ LoopOf(o) => LoopOf(o)' BY <1>13 DEF LoopOf
<1> QED BY <1>14, <1>15, <1>16, <1>17

\* Calls that begin a round follow the results of the round before.
LEMMA CallsInOrder ==
    ASSUME SessionInv, NEW o \in Turns, log' = log, loop.calls = 0, loop'.calls \in Nat,
           NEW x \in Messages, x.kind = "calls", x.calls = loop'.calls,
           loop'.msgs = Append(loop.msgs, x), NEW a \in DOMAIN log, InOrder(a)
    PROVE  InOrder(a)'
<1>1. /\ TapeEnd \in Nat /\ TapeEnd' = TapeEnd + 1
      /\ \A k \in 1 .. TapeEnd : Tape(k)' = Tape(k) /\ Tape(k).calls \in Nat
      /\ \A k : k = TapeEnd + 1 => Tape(k)' = x
  BY TapeGrows
<1>2. PICK e \in Nat : e = TapeEnd BY <1>1
<1>3. TapeEnd' = e + 1 /\ Tape(e + 1)' = x BY <1>1, <1>2
<1>4. \A k \in 1 .. e : Tape(k)' = Tape(k) /\ Tape(k).calls \in Nat BY <1>1, <1>2
<1>5. a \in Nat \ {0} BY SessionNumbers
<1>6. ASSUME NEW i \in a .. e + 1, Tape(i)'.kind = "calls"
      PROVE  /\ \/ i + Tape(i)'.calls = e + 1 + loop'.calls
                \/ i + Tape(i)'.calls < e + 1 /\ Tape(i + Tape(i).calls + 1)'.kind = "calls"
             /\ \A k \in i + 1 .. i + Tape(i)'.calls : k <= e + 1 => Tape(k)'.kind = "result"
  <2>1. CASE i = e + 1
    <3>1. Tape(i)' = x BY <1>3, <2>1
    <3> QED BY <2>1, <3>1
  <2>2. CASE i <= e
    <3>1. i \in a .. e /\ i \in 1 .. e BY <1>5, <2>2
    <3>2. Tape(i)' = Tape(i) /\ Tape(i).calls \in Nat BY <1>4, <3>1
    <3>3. PICK c \in Nat : c = Tape(i).calls BY <3>2
    <3>4. /\ i + c = e \/ (i + c < e /\ Tape(i + c + 1).kind = "calls")
          /\ \A k \in i + 1 .. i + c : k <= e => Tape(k).kind = "result"
      <4>1. i \in a .. TapeEnd /\ Tape(i).kind = "calls" BY <1>2, <1>6, <3>1, <3>2
      <4>2. /\ \/ i + Tape(i).calls = TapeEnd + loop.calls
               \/ i + Tape(i).calls < TapeEnd /\ Tape(i + Tape(i).calls + 1).kind = "calls"
            /\ \A k \in i + 1 .. i + Tape(i).calls : k <= TapeEnd => Tape(k).kind = "result"
        BY <4>1, Zenon DEF InOrder
      <4>3. TapeEnd + loop.calls = e BY <1>2
      <4>4. /\ i + c = e \/ (i + c < e /\ Tape(i + c + 1).kind = "calls")
            /\ \A k \in i + 1 .. i + c : k <= e => Tape(k).kind = "result"
        BY <1>2, <3>3, <4>2, <4>3, Zenon
      <4> QED BY <4>4
    <3>5. i + c \in 1 .. e BY <3>1, <3>4
    <3>6. Tape(i + c + 1)'.kind = "calls"
      <4>1. CASE i + c = e BY <1>3, <4>1
      <4>2. CASE i + c < e /\ Tape(i + c + 1).kind = "calls"
        <5>1. i + c + 1 \in 1 .. e BY <3>5, <4>2
        <5> QED BY <1>4, <4>2, <5>1
      <4> QED BY <3>4, <4>1, <4>2
    <3>8. ASSUME NEW k \in i + 1 .. i + c PROVE Tape(k)'.kind = "result"
      <4>1. k \in 1 .. e /\ k <= e BY <3>1, <3>5
      <4>2. Tape(k)' = Tape(k) BY <1>4, <4>1
      <4>3. Tape(k).kind = "result" BY <3>4, <4>1
      <4> QED BY <4>2, <4>3
    <3> QED BY <3>2, <3>3, <3>5, <3>6, <3>8
  <2> QED BY <2>1, <2>2
<1> QED BY <1>3, <1>6 DEF InOrder

\* The result of a tool follows its calls.
LEMMA ResultInOrder ==
    ASSUME SessionInv, NEW o \in Turns, log' = log, loop.calls \in Nat \ {0}, loop'.calls = loop.calls - 1,
           NEW x \in Messages, x.kind = "result",
           loop'.msgs = Append(loop.msgs, x), NEW a \in DOMAIN log, InOrder(a)
    PROVE  InOrder(a)'
<1>1. /\ TapeEnd \in Nat /\ TapeEnd' = TapeEnd + 1
      /\ \A k \in 1 .. TapeEnd : Tape(k)' = Tape(k) /\ Tape(k).calls \in Nat
      /\ \A k : k = TapeEnd + 1 => Tape(k)' = x
  BY TapeGrows
<1>2. PICK e \in Nat : e = TapeEnd BY <1>1
<1>3. TapeEnd' = e + 1 /\ Tape(e + 1)' = x BY <1>1, <1>2
<1>4. \A k \in 1 .. e : Tape(k)' = Tape(k) /\ Tape(k).calls \in Nat BY <1>1, <1>2
<1>5. a \in Nat \ {0} BY SessionNumbers
<1>6. PICK d \in Nat \ {0} : d = loop.calls OBVIOUS
<1>7. e + 1 + loop'.calls = e + d BY <1>6
<1>8. ASSUME NEW i \in a .. e + 1, Tape(i)'.kind = "calls"
      PROVE  /\ \/ i + Tape(i)'.calls = e + d
                \/ i + Tape(i)'.calls < e + 1 /\ Tape(i + Tape(i).calls + 1)'.kind = "calls"
             /\ \A k \in i + 1 .. i + Tape(i)'.calls : k <= e + 1 => Tape(k)'.kind = "result"
  <2>1. i # e + 1 BY <1>3, <1>8
  <2>2. i \in a .. e /\ i \in 1 .. e BY <1>5, <2>1
  <2>3. Tape(i)' = Tape(i) /\ Tape(i).calls \in Nat BY <1>4, <2>2
  <2>4. PICK c \in Nat : c = Tape(i).calls BY <2>3
  <2>5. i \in a .. TapeEnd /\ Tape(i).kind = "calls" BY <1>2, <1>8, <2>2, <2>3
  <2>6. /\ \/ i + Tape(i).calls = TapeEnd + loop.calls
           \/ i + Tape(i).calls < TapeEnd /\ Tape(i + Tape(i).calls + 1).kind = "calls"
        /\ \A k \in i + 1 .. i + Tape(i).calls : k <= TapeEnd => Tape(k).kind = "result"
    BY <2>5, Zenon DEF InOrder
  <2>7. /\ i + c = e + d \/ (i + c < e /\ Tape(i + c + 1).kind = "calls")
        /\ \A k \in i + 1 .. i + c : k <= e => Tape(k).kind = "result"
    BY <1>2, <1>6, <2>4, <2>6, Zenon
  <2>8. i + c = e + d \/ (i + c < e + 1 /\ Tape(i + c + 1)'.kind = "calls")
    <3>1. CASE i + c < e /\ Tape(i + c + 1).kind = "calls"
      <4>1. i + c + 1 \in 1 .. e /\ i + c < e + 1 BY <2>2, <3>1
      <4>2. Tape(i + c + 1)' = Tape(i + c + 1) BY <1>4, <4>1
      <4> QED BY <3>1, <4>1, <4>2
    <3> QED BY <2>7, <3>1
  <2>9. ASSUME NEW k \in i + 1 .. i + c, k <= e + 1 PROVE Tape(k)'.kind = "result"
    <3>1. CASE k = e + 1 BY <1>3, <3>1
    <3>2. CASE k # e + 1
      <4>1. k \in 1 .. e /\ k <= e BY <2>2, <2>9, <3>2
      <4>2. Tape(k)' = Tape(k) BY <1>4, <4>1
      <4>3. Tape(k).kind = "result" BY <2>7, <4>1
      <4> QED BY <4>2, <4>3
    <3> QED BY <3>1, <3>2
  <2> QED BY <2>3, <2>4, <2>8, <2>9
<1> QED BY <1>3, <1>7, <1>8 DEF InOrder

\* The model wants tools.
LEMMA WantsStep ==
    ASSUME SessionInv, NEW o \in Turns, NEW n \in 1 .. MaxCalls, WantsTools(o, n) PROVE SessionInv'
<1> DEFINE x == Message(o, "calls", n)
           l == [loop EXCEPT !.rounds = @ + 1, !.empties = 0]
<1>1. /\ turn[o] = "chat" /\ ~loop.closing /\ TurnGo(o, "loop") /\ late' = late
      /\ present' = present /\ log' = log /\ generating' = generating /\ aborted' = aborted
      /\ prior' = prior /\ torn' = torn
      /\ \/ loop' = [l EXCEPT !.closing = TRUE]
         \/ loop' = [l EXCEPT !.calls = n, !.msgs = Append(@, x)]
  BY DEF WantsTools, LoopIs
<1>2. /\ [l EXCEPT !.closing = TRUE]
              = [rounds |-> loop.rounds + 1, empties |-> 0, calls |-> loop.calls, closing |-> TRUE, msgs |-> loop.msgs]
      /\ [l EXCEPT !.calls = n, !.msgs = Append(@, x)]
              = [rounds |-> loop.rounds + 1, empties |-> 0, calls |-> n, closing |-> loop.closing, msgs |-> Append(loop.msgs, x)]
  BY LoopTools
<1>3. /\ LoopFits /\ late \subseteq Turns /\ loop.rounds <= MaxRounds
      /\ loop.empties < MaxEmpty /\ (loop.rounds < MaxRounds \/ loop.calls > 0) /\ loop.calls = 0
  BY <1>1, LoopNow
<1>4. /\ loop.rounds \in Nat /\ MaxRounds \in Nat /\ MaxEmpty \in Nat \ {0} /\ MaxCalls \in Nat
      /\ loop.msgs \in Seq(Messages)
  BY SessionNumbers
<1>5. loop.rounds + 1 \in Nat /\ loop.rounds + 1 <= MaxRounds /\ n \in Nat \ {0} /\ n \in 0 .. MaxCalls
  BY <1>3, <1>4
<1>6. x \in Messages /\ x.turn = o /\ x.kind = "calls" /\ x.calls = n BY <1>5, MessagesAre
<1> HIDE DEF x, l
<1>7. CASE loop' = [rounds |-> loop.rounds + 1, empties |-> 0, calls |-> loop.calls, closing |-> TRUE, msgs |-> loop.msgs]
  <2>1. /\ loop'.rounds = loop.rounds + 1 /\ loop'.empties = 0 /\ loop'.calls = loop.calls
        /\ loop'.closing = TRUE /\ loop'.msgs = loop.msgs /\ IsLoop(loop')
    BY <1>7 DEF IsLoop
  <2>0. loop.calls \in 0 .. MaxCalls /\ loop.msgs \in Seq(Messages) BY <1>3 DEF LoopFits
  <2>2. LoopFits'
    <3>1. loop'.rounds \in Nat /\ loop'.rounds <= MaxRounds + 1 BY <1>4, <1>5, <2>1
    <3>2. loop'.empties \in Nat /\ loop'.empties <= MaxEmpty BY <1>4, <2>1
    <3>3. loop'.closing \in BOOLEAN BY <2>1
    <3> QED BY <2>0, <2>1, <3>1, <3>2, <3>3, Zenon DEF LoopFits
  <2>3. \A a \in DOMAIN log : InOrder(a) => InOrder(a)' BY <1>1, <2>1, TapeSame
  <2>4. LoopOf(o) => LoopOf(o)' BY <2>1 DEF LoopOf
  <2> QED BY <1>1, <1>3, <1>5, <2>1, <2>2, <2>3, <2>4, LoopGoes
<1>8. CASE loop' = [rounds |-> loop.rounds + 1, empties |-> 0, calls |-> n, closing |-> loop.closing, msgs |-> Append(loop.msgs, x)]
  <2>1. /\ loop'.rounds = loop.rounds + 1 /\ loop'.empties = 0 /\ loop'.calls = n
        /\ loop'.closing = loop.closing /\ loop'.msgs = Append(loop.msgs, x) /\ IsLoop(loop')
    BY <1>8 DEF IsLoop
  <2>2. Append(loop.msgs, x) \in Seq(Messages) BY <1>4, <1>6, LogGrows
  <2>3. loop.closing \in BOOLEAN BY <1>3 DEF LoopFits
  <2>4. LoopFits' BY <1>3, <1>4, <1>5, <2>1, <2>2, <2>3 DEF LoopFits
  <2>5. \A a \in DOMAIN log : InOrder(a) => InOrder(a)'
    BY <1>1, <1>3, <1>5, <1>6, <2>1, CallsInOrder
  <2>6. LoopOf(o) => LoopOf(o)'
    BY <1>1, <1>6, <2>1, TapeGrows
  <2>7. loop'.empties < MaxEmpty /\ loop'.calls > 0 BY <1>4, <1>5, <2>1
  <2> QED BY <1>1, <1>3, <1>5, <2>1, <2>4, <2>5, <2>6, <2>7, LoopGoes
<1> QED BY <1>1, <1>2, <1>7, <1>8

\* Nothing came.
LEMMA NothingStep == ASSUME SessionInv, NEW o \in Turns, NothingCame(o) PROVE SessionInv'
<1> DEFINE l == [loop EXCEPT !.rounds = @ + 1, !.empties = @ + 1]
           d == l.empties >= MaxEmpty \/ Exhausted(l)
<1>1. /\ turn[o] = "chat" /\ ~loop.closing /\ TurnGo(o, "loop") /\ late' = late
      /\ present' = present /\ log' = log /\ generating' = generating /\ aborted' = aborted
      /\ prior' = prior /\ torn' = torn
      /\ loop' = [l EXCEPT !.closing = d]
  BY DEF NothingCame, LoopIs
<1>2. [l EXCEPT !.closing = d]
      = [rounds |-> loop.rounds + 1, empties |-> loop.empties + 1, calls |-> loop.calls,
         closing |-> loop.empties + 1 >= MaxEmpty \/ loop.rounds + 1 >= MaxRounds, msgs |-> loop.msgs]
  BY LoopEmpty
<1> HIDE DEF l, d
<1>3. /\ LoopFits /\ late \subseteq Turns /\ loop.rounds <= MaxRounds
      /\ loop.empties < MaxEmpty /\ (loop.rounds < MaxRounds \/ loop.calls > 0) /\ loop.calls = 0
  BY <1>1, LoopNow
<1>4. /\ loop.rounds \in Nat /\ loop.empties \in Nat /\ MaxRounds \in Nat /\ MaxEmpty \in Nat \ {0}
  BY SessionNumbers
<1>5. /\ loop.rounds + 1 \in Nat /\ loop.rounds + 1 <= MaxRounds /\ loop.empties + 1 \in Nat
      /\ loop.empties + 1 <= MaxEmpty
  BY <1>3, <1>4
<1>6. PICK c \in BOOLEAN : c = (loop.empties + 1 >= MaxEmpty \/ loop.rounds + 1 >= MaxRounds) OBVIOUS
<1>7. loop' = [rounds |-> loop.rounds + 1, empties |-> loop.empties + 1, calls |-> loop.calls,
               closing |-> c, msgs |-> loop.msgs]
  BY <1>1, <1>2, <1>6
<1>8. /\ loop'.rounds = loop.rounds + 1 /\ loop'.empties = loop.empties + 1 /\ loop'.calls = loop.calls
      /\ loop'.closing = c /\ loop'.msgs = loop.msgs /\ IsLoop(loop')
  BY <1>7 DEF IsLoop
<1>9. LoopFits' BY <1>3, <1>4, <1>5, <1>8 DEF LoopFits
<1>10. \A a \in DOMAIN log : InOrder(a) => InOrder(a)' BY <1>1, <1>8, TapeSame
<1>11. ~c => loop.empties + 1 < MaxEmpty /\ loop.rounds + 1 < MaxRounds
  <2> SUFFICES ASSUME ~c PROVE loop.empties + 1 < MaxEmpty /\ loop.rounds + 1 < MaxRounds OBVIOUS
  <2>1. ~(loop.empties + 1 >= MaxEmpty) /\ ~(loop.rounds + 1 >= MaxRounds) BY <1>6, Zenon
  <2> QED BY <1>4, <2>1
<1>12. LoopOf(o) => LoopOf(o)' BY <1>8 DEF LoopOf
<1> QED BY <1>1, <1>3, <1>5, <1>8, <1>9, <1>10, <1>11, <1>12, LoopGoes

\* The model answers.
LEMMA AnswersStep == ASSUME SessionInv, NEW o \in Turns, Answers(o) PROVE SessionInv'
<1>1. /\ turn[o] = "chat" /\ TurnGo(o, "saving")
      /\ late' = IF o \in aborted THEN late \union {o} ELSE late
      /\ present' = present /\ log' = log /\ generating' = generating /\ aborted' = aborted
      /\ prior' = prior /\ torn' = torn
      /\ loop' = [loop EXCEPT !.rounds = @ + 1, !.closing = FALSE]
  BY DEF Answers, LoopIs
<1>2. loop' = [rounds |-> loop.rounds + 1, empties |-> loop.empties, calls |-> loop.calls,
               closing |-> FALSE, msgs |-> loop.msgs]
  BY <1>1, LoopAnswered
<1>3. /\ LoopFits /\ late \subseteq Turns /\ loop.rounds <= MaxRounds /\ loop.calls = 0
  BY <1>1, LoopNow
<1>4. loop.rounds \in Nat /\ MaxRounds \in Nat BY SessionNumbers
<1>5. loop.rounds + 1 \in Nat /\ loop.rounds + 1 <= MaxRounds + 1 BY <1>3, <1>4
<1>6. /\ loop'.rounds = loop.rounds + 1 /\ loop'.empties = loop.empties /\ loop'.calls = loop.calls
      /\ loop'.closing = FALSE /\ loop'.msgs = loop.msgs /\ IsLoop(loop')
  BY <1>2 DEF IsLoop
<1>7. LoopFits' BY <1>3, <1>4, <1>5, <1>6 DEF LoopFits
<1>8. \A a \in DOMAIN log : InOrder(a) => InOrder(a)' BY <1>1, <1>6, TapeSame
<1>9. late' \subseteq Turns /\ late \subseteq late' /\ (o \in aborted => o \in late') BY <1>1, <1>3
<1>10. LoopOf(o) => LoopOf(o)' BY <1>6 DEF LoopOf
<1> QED BY <1>1, <1>3, <1>6, <1>7, <1>8, <1>9, <1>10, LoopGoes

\* A tool has run.
LEMMA ToolStep == ASSUME SessionInv, NEW o \in Turns, RunTool(o) PROVE SessionInv'
<1> DEFINE x == Message(o, "result", 0)
           l == [loop EXCEPT !.calls = @ - 1, !.msgs = Append(@, x)]
           d == l.calls = 0 /\ Exhausted(l)
<1>1. /\ turn[o] = "loop" /\ loop.calls > 0 /\ turn' = turn /\ late' = late
      /\ present' = present /\ log' = log /\ generating' = generating /\ aborted' = aborted
      /\ prior' = prior /\ torn' = torn
      /\ loop' = [l EXCEPT !.closing = d]
  BY DEF RunTool, LoopIs
<1>2. [l EXCEPT !.closing = d]
      = [rounds |-> loop.rounds, empties |-> loop.empties, calls |-> loop.calls - 1,
         closing |-> loop.calls - 1 = 0 /\ loop.rounds >= MaxRounds, msgs |-> Append(loop.msgs, x)]
  BY LoopTool
<1>3. x \in Messages /\ x.turn = o /\ x.kind = "result"
  <2>1. 0 \in 0 .. MaxCalls BY SessionAssumption
  <2> QED BY <2>1, MessagesAre
<1> HIDE DEF x, l, d
<1>4. /\ LoopFits /\ late \subseteq Turns /\ loop.rounds <= MaxRounds
      /\ ~loop.closing => loop.empties < MaxEmpty /\ (loop.rounds < MaxRounds \/ loop.calls > 0)
      /\ loop.closing => loop.calls = 0
  BY <1>1, LoopNow
<1>5. /\ loop.rounds \in Nat /\ loop.empties \in Nat /\ MaxRounds \in Nat /\ MaxEmpty \in Nat \ {0}
      /\ loop.calls \in 0 .. MaxCalls /\ MaxCalls \in Nat /\ loop.msgs \in Seq(Messages)
  BY SessionNumbers
<1>6. PICK c \in BOOLEAN : c = (loop.calls - 1 = 0 /\ loop.rounds >= MaxRounds) OBVIOUS
<1>7. loop' = [rounds |-> loop.rounds, empties |-> loop.empties, calls |-> loop.calls - 1,
               closing |-> c, msgs |-> Append(loop.msgs, x)]
  BY <1>1, <1>2, <1>6
<1>8. /\ loop'.rounds = loop.rounds /\ loop'.empties = loop.empties /\ loop'.calls = loop.calls - 1
      /\ loop'.closing = c /\ loop'.msgs = Append(loop.msgs, x) /\ IsLoop(loop')
  BY <1>7 DEF IsLoop
<1>9. /\ loop.calls \in Nat \ {0} /\ loop.calls - 1 \in 0 .. MaxCalls BY <1>1, <1>5
<1>10. Append(loop.msgs, x) \in Seq(Messages) BY <1>3, <1>5, LogGrows
<1>11. LoopFits' BY <1>4, <1>5, <1>8, <1>9, <1>10 DEF LoopFits
<1>12. \A a \in DOMAIN log : InOrder(a) => InOrder(a)' BY <1>1, <1>3, <1>8, <1>9, ResultInOrder
<1>13. LoopOf(o) => LoopOf(o)'
  BY <1>1, <1>3, <1>8, TapeGrows
<1>14. TurnGo(o, "loop") BY <1>1, SessionTypesParts DEF SessionInv, TurnGo
<1>15. loop.empties < MaxEmpty BY <1>4, <1>9
<1>16. c => loop.calls - 1 = 0 BY <1>6, Zenon
<1>17. ~c => loop.rounds < MaxRounds \/ loop.calls - 1 > 0
  <2> SUFFICES ASSUME ~c PROVE loop.rounds < MaxRounds \/ loop.calls - 1 > 0 OBVIOUS
  <2>1. ~(loop.calls - 1 = 0) \/ ~(loop.rounds >= MaxRounds) BY <1>6, Zenon
  <2> QED BY <1>5, <1>9, <2>1
<1>18. /\ loop'.closing => loop'.calls = 0
       /\ ~loop'.closing => loop'.empties < MaxEmpty /\ (loop'.rounds < MaxRounds \/ loop'.calls > 0)
       /\ loop'.rounds <= MaxRounds
  BY <1>4, <1>8, <1>15, <1>16, <1>17
<1> QED BY <1>1, <1>4, <1>11, <1>12, <1>13, <1>14, <1>18, LoopGoes

-----------------------------------------------------------------------------
(* the end of a request *)

\* The finally of a request that failed or was cancelled.
LEMMA EndGoes ==
    ASSUME SessionInv, NEW o \in Turns, turn[o] \in {"loop", "chat", "saving"},
           NEW how \in {"failed", "cancelled"}, TurnEnds(o, how), how = "cancelled" => turn[o] # "saving",
           present' = present, log' = log, aborted' = aborted, prior' = prior, torn' = torn, late' = late
    PROVE  SessionInv'
<1>1. TurnGo(o, how) /\ generating' = NoTurn /\ loop' = NoLoop BY DEF TurnEnds
<1>2. turn[o] \in InTurn /\ turn[o] # "checking" BY DEF InTurn
<1>3. late \subseteq Turns /\ prior \in [Turns -> Prompts] BY <1>2, Holder
<1>4. how \in Pcs \ InTurn /\ how \notin Unsaid BY DEF Pcs, InTurn, Unsaid
<1>5. LoopFits'
  <2>1. NoLoop.msgs \in Seq(Messages) BY LoopsAre, EmptySeq
  <2>2. MaxRounds \in Nat /\ MaxEmpty \in Nat /\ MaxCalls \in Nat BY SessionAssumption
  <2>3. /\ IsLoop(NoLoop) /\ NoLoop.rounds = 0 /\ NoLoop.empties = 0 /\ NoLoop.calls = 0
        /\ NoLoop.closing = FALSE
    BY LoopsAre
  <2>4. IsLoop(loop') /\ loop'.msgs \in Seq(Messages) /\ loop'.closing \in BOOLEAN BY <1>1, <2>1, <2>3
  <2>5. /\ loop'.rounds \in Nat /\ loop'.empties \in Nat /\ loop'.rounds <= MaxRounds + 1
        /\ loop'.empties <= MaxEmpty /\ loop'.calls \in 0 .. MaxCalls
    BY <1>1, <2>2, <2>3
  <2> QED BY <2>4, <2>5 DEF LoopFits
<1>6. turn'[o] = how BY <1>1, SessionTypesParts DEF SessionInv, TurnGo
<1>7. present => \E a, b \in DOMAIN log' : PieceOf(o, a, b)'
  <2>1. turn'[o] = "failed" \/ (turn'[o] = "cancelled" /\ turn[o] # "saving") BY <1>6
  <2> QED BY <2>1, PieceEnds
<1>8. \A p \in Turns \ {o} : prior'[p] = prior[p] OBVIOUS
<1>9. how \notin {"loop", "chat", "saving", "done"} OBVIOUS
<1> QED BY <1>1, <1>2, <1>3, <1>4, <1>5, <1>7, <1>8, <1>9, StepOf

\* A chat that fails, an abort that is seen, a store that fails.
LEMMA EndSteps ==
    ASSUME SessionInv, NEW o \in Turns, ChatFails(o) \/ AbortSeen(o) \/ PersistFails(o) PROVE SessionInv'
<1>1. CASE ChatFails(o) BY <1>1, EndGoes DEF ChatFails
<1>2. CASE AbortSeen(o) BY <1>2, EndGoes DEF AbortSeen
<1>3. CASE PersistFails(o) BY <1>3, EndGoes DEF PersistFails
<1> QED BY <1>1, <1>2, <1>3

\* A message that is written belongs to the piece of the request, which ends the log.
LEMMA PieceLonger ==
    ASSUME SessionInv, NEW o \in Turns, NEW x \in Messages, x.turn = o, log' = Append(log, x),
           NEW a \in DOMAIN log, NEW b \in DOMAIN log, Piece(o, a, b), b = Len(log)
    PROVE  /\ Piece(o, a, b + 1)' /\ Len(log') = b + 1 /\ DOMAIN log' = 1 .. b + 1
           /\ a \in 1 .. b /\ b \in Nat
           /\ log'[b + 1] = x
           /\ \A i \in 1 .. b : log'[i] = log[i] /\ log[i].calls \in Nat
           /\ SubSeq(log', 1, a - 1) = SubSeq(log, 1, a - 1)
<1>1. log \in Seq(Messages) BY SessionNumbers
<1>2. Len(log) \in Nat /\ DOMAIN log = 1 .. Len(log) /\ \A i \in 1 .. Len(log) : log[i].calls \in Nat
  BY SessionNumbers
<1>3. /\ Len(Append(log, x)) = Len(log) + 1 /\ DOMAIN Append(log, x) = 1 .. Len(log) + 1
      /\ Append(log, x)[Len(log) + 1] = x
      /\ \A i \in 1 .. Len(log) : Append(log, x)[i] = log[i]
      /\ \A k \in Int : k <= Len(log) => SubSeq(Append(log, x), 1, k) = SubSeq(log, 1, k)
  BY <1>1, LogGrows
<1>4. PICK t : t = Append(log, x) OBVIOUS
<1>5. /\ Len(t) = b + 1 /\ DOMAIN t = 1 .. b + 1 /\ t[b + 1] = x
      /\ \A i \in 1 .. b : t[i] = log[i]
      /\ \A k \in Int : k <= b => SubSeq(t, 1, k) = SubSeq(log, 1, k)
  BY <1>3, <1>4, Zenon
<1>6. log' = t BY <1>4
<1>7. /\ b \in Nat /\ DOMAIN log = 1 .. b /\ \A i \in 1 .. b : log[i].calls \in Nat BY <1>2, Zenon
<1>8. a \in 1 .. b BY <1>7
<1>9. a <= b /\ \A i \in 1 .. b : log[i].turn = o <=> i \in a .. b BY <1>7 DEF Piece
<1>10. ASSUME NEW i \in 1 .. b + 1 PROVE t[i].turn = o <=> i \in a .. b + 1
  <2>1. CASE i \in 1 .. b
    <3>1. log[i].turn = o <=> i \in a .. b BY <1>9, <2>1
    <3>2. t[i] = log[i] BY <1>5, <2>1
    <3>3. i \in a .. b <=> i \in a .. b + 1 BY <1>8, <2>1
    <3> QED BY <3>1, <3>2, <3>3
  <2>2. CASE i = b + 1
    <3>1. t[i].turn = o BY <1>5, <2>2
    <3>2. i \in a .. b + 1 BY <1>7, <1>8, <2>2
    <3> QED BY <3>1, <3>2
  <2> QED BY <1>7, <2>1, <2>2
<1>11. Piece(o, a, b + 1)'
  <2>1. a <= b + 1 BY <1>7, <1>8
  <2> QED BY <1>5, <1>6, <1>10, <2>1 DEF Piece
<1>12. SubSeq(log', 1, a - 1) = SubSeq(log, 1, a - 1)
  <2>1. a - 1 \in Int /\ a - 1 <= b BY <1>7, <1>8
  <2> QED BY <1>5, <1>6, <2>1, Zenon
<1>13. \A i \in 1 .. b : log'[i] = log[i] /\ log[i].calls \in Nat BY <1>5, <1>6, <1>7
<1>14. Len(log') = b + 1 /\ DOMAIN log' = 1 .. b + 1 /\ log'[b + 1] = x BY <1>5, <1>6, Zenon
<1> QED BY <1>7, <1>8, <1>11, <1>12, <1>13, <1>14

\* A tape that stays keeps its order.
LEMMA TapeStays ==
    ASSUME TapeEnd \in Nat, TapeEnd' = TapeEnd, loop'.calls = loop.calls,
           \A k \in 1 .. TapeEnd : Tape(k)' = Tape(k) /\ Tape(k).calls \in Nat,
           NEW a \in Nat \ {0}, InOrder(a)
    PROVE  InOrder(a)'
<1>1. PICK e \in Nat : e = TapeEnd OBVIOUS
<1>2. TapeEnd' = e /\ \A k \in 1 .. e : Tape(k)' = Tape(k) /\ Tape(k).calls \in Nat BY <1>1
<1>3. ASSUME NEW i \in a .. e, Tape(i)'.kind = "calls"
      PROVE  /\ \/ i + Tape(i)'.calls = e + loop'.calls
                \/ i + Tape(i)'.calls < e /\ Tape(i + Tape(i).calls + 1)'.kind = "calls"
             /\ \A k \in i + 1 .. i + Tape(i)'.calls : k <= e => Tape(k)'.kind = "result"
  <2>1. i \in 1 .. e OBVIOUS
  <2>2. Tape(i)' = Tape(i) /\ Tape(i).calls \in Nat BY <1>2, <2>1
  <2>3. PICK c \in Nat : c = Tape(i).calls BY <2>2
  <2>4. i \in a .. TapeEnd /\ Tape(i).kind = "calls" BY <1>1, <1>3, <2>2
  <2>5. /\ \/ i + Tape(i).calls = TapeEnd + loop.calls
           \/ i + Tape(i).calls < TapeEnd /\ Tape(i + Tape(i).calls + 1).kind = "calls"
        /\ \A k \in i + 1 .. i + Tape(i).calls : k <= TapeEnd => Tape(k).kind = "result"
    BY <2>4, Zenon DEF InOrder
  <2>6. /\ i + c = e + loop.calls \/ (i + c < e /\ Tape(i + c + 1).kind = "calls")
        /\ \A k \in i + 1 .. i + c : k <= e => Tape(k).kind = "result"
    BY <1>1, <2>3, <2>5, Zenon
  <2>7. i + c = e + loop'.calls \/ (i + c < e /\ Tape(i + c + 1)'.kind = "calls")
    <3>1. CASE i + c < e /\ Tape(i + c + 1).kind = "calls"
      <4>1. i + c + 1 \in 1 .. e BY <2>1, <3>1
      <4>2. Tape(i + c + 1)' = Tape(i + c + 1) BY <1>2, <4>1
      <4> QED BY <3>1, <4>2
    <3> QED BY <2>6, <3>1
  <2>8. ASSUME NEW k \in i + 1 .. i + c, k <= e PROVE Tape(k)'.kind = "result"
    <3>1. k \in 1 .. e BY <2>1, <2>8
    <3>2. Tape(k)' = Tape(k) BY <1>2, <3>1
    <3>3. Tape(k).kind = "result" BY <2>6, <2>8
    <3> QED BY <3>2, <3>3
  <2> QED BY <2>2, <2>3, <2>7, <2>8
<1> QED BY <1>2, <1>3 DEF InOrder

\* One message moves from the loop to the log: the tape stays.
LEMMA PersistStep == ASSUME SessionInv, NEW o \in Turns, Persist(o) PROVE SessionInv'
<1> DEFINE x == Head(loop.msgs)
<1>1. /\ turn[o] = "saving" /\ loop.msgs # <<>> /\ log' = Append(log, x)
      /\ loop' = [loop EXCEPT !.msgs = Tail(loop.msgs)]
      /\ present' = present /\ turn' = turn /\ generating' = generating /\ aborted' = aborted
      /\ prior' = prior /\ torn' = torn /\ late' = late
  BY DEF Persist, AddMessage
<1>2. turn[o] \in InTurn /\ turn[o] # "checking" /\ turn[o] \notin Unsaid BY <1>1 DEF InTurn, Unsaid
<1>3. /\ generating = o /\ present \in BOOLEAN /\ late \subseteq Turns
      /\ prior \in [Turns -> Prompts] /\ LoopFits
      /\ ~present => o \in torn
  BY <1>2, Holder
<1>4. PICK s : s = loop.msgs OBVIOUS
<1>5. s \in Seq(Messages) /\ s # <<>> BY <1>1, <1>4, SessionNumbers
<1>6. /\ Head(s) \in Messages /\ Tail(s) \in Seq(Messages) /\ Head(s) = s[1]
      /\ Len(Tail(s)) = Len(s) - 1 /\ \A i \in 1 .. Len(Tail(s)) : Tail(s)[i] = s[i + 1]
      /\ Len(s) \in Nat \ {0} /\ DOMAIN s = 1 .. Len(s) /\ DOMAIN Tail(s) = 1 .. Len(s) - 1
  <2>1. /\ Head(s) \in Messages /\ Tail(s) \in Seq(Messages) /\ Head(s) = s[1]
        /\ Len(Tail(s)) = Len(s) - 1 /\ \A i \in 1 .. Len(Tail(s)) : Tail(s)[i] = s[i + 1]
    BY <1>5, HeadTailProperties
  <2>2. Len(s) \in Nat \ {0} /\ DOMAIN s = 1 .. Len(s) BY <1>5, LenProperties, EmptySeq
  <2>3. DOMAIN Tail(s) = 1 .. Len(Tail(s)) BY <2>1, LenProperties
  <2>4. DOMAIN Tail(s) = 1 .. Len(s) - 1 BY <2>1, <2>3
  <2> QED BY <2>1, <2>2, <2>4
<1>7. x \in Messages /\ x = s[1] BY <1>4, <1>6
<1> HIDE DEF x
<1>8. PICK t : t = Tail(s) OBVIOUS
<1>9. PICK m \in Nat \ {0} : m = Len(s) BY <1>6
<1>10. /\ t \in Seq(Messages) /\ Len(t) = m - 1 /\ DOMAIN t = 1 .. m - 1 /\ DOMAIN s = 1 .. m
       /\ \A i \in 1 .. m - 1 : t[i] = s[i + 1]
  BY <1>6, <1>8, <1>9
<1>11. loop' = [rounds |-> loop.rounds, empties |-> loop.empties, calls |-> loop.calls,
                closing |-> loop.closing, msgs |-> t]
  <2>1. IsLoop(loop) BY LoopsAre
  <2>2. loop' = [loop EXCEPT !.msgs = t] BY <1>1, <1>4, <1>8
  <2> QED BY <2>1, <2>2, LoopMsgs
<1>12. /\ loop'.rounds = loop.rounds /\ loop'.empties = loop.empties /\ loop'.calls = loop.calls
       /\ loop'.closing = loop.closing /\ loop'.msgs = t /\ IsLoop(loop')
  BY <1>11 DEF IsLoop
<1>13. LoopFits' BY <1>3, <1>10, <1>12 DEF LoopFits
<1>14. loop'.calls = 0 BY <1>1, <1>12 DEF SessionInv, RoundsLeft
<1>15. TurnGo(o, "saving") BY <1>1, SessionTypesParts DEF SessionInv, TurnGo
<1>16. "saving" \in Pcs \cap InTurn /\ "saving" \notin Unsaid BY DEF Pcs, InTurn, Unsaid
<1>17. o \in aborted => o \in late' BY <1>1 DEF SessionInv, AbortsTold
<1>18. ~present => o \in torn BY <1>3
<1>19. LoopOf(o) BY <1>1 DEF SessionInv, HeldByOne
<1>20. x.turn = o
  <2>1. 1 \in DOMAIN s BY <1>10
  <2> QED BY <1>4, <1>7, <1>19, <2>1 DEF LoopOf
<1>21. LoopOf(o)'
  <2>1. ASSUME NEW k \in 1 .. m - 1 PROVE t[k].turn = o
    <3>1. k + 1 \in DOMAIN s /\ t[k] = s[k + 1] BY <1>10
    <3> QED BY <1>4, <1>19, <3>1 DEF LoopOf
  <2> QED BY <1>10, <1>12, <2>1 DEF LoopOf
<1>22. ASSUME present PROVE \E a, b \in DOMAIN log' : PieceOf(o, a, b)'
  <2>1. PICK a \in DOMAIN log, b \in DOMAIN log : PieceOf(o, a, b) BY <1>2, <1>22 DEF SessionInv, Pieces
  <2>2. /\ Piece(o, a, b) /\ log[a].kind = "user" /\ b = Len(log) /\ InOrder(a)
        /\ prior[o] = Shown(Newest(Window - 1, SubSeq(log, 1, a - 1)))
    BY <1>1, <2>1 DEF PieceOf
  <2>3. /\ Piece(o, a, b + 1)' /\ Len(log') = b + 1 /\ DOMAIN log' = 1 .. b + 1
        /\ a \in 1 .. b /\ b \in Nat /\ log'[b + 1] = x
        /\ \A i \in 1 .. b : log'[i] = log[i] /\ log[i].calls \in Nat
        /\ SubSeq(log', 1, a - 1) = SubSeq(log, 1, a - 1)
    BY <1>1, <1>7, <1>20, <2>2, PieceLonger
  <2>4. TapeEnd = b + m /\ TapeEnd' = b + 1 + (m - 1) BY <1>4, <1>9, <1>10, <1>12, <2>2, <2>3 DEF TapeEnd
  <2>5. ASSUME NEW k \in 1 .. b + m PROVE Tape(k)' = Tape(k)
    <3>1. Tape(k) = IF k <= b THEN log[k] ELSE s[k - b] BY <1>4, <2>2 DEF Tape
    <3>2. Tape(k)' = IF k <= b + 1 THEN log'[k] ELSE t[k - (b + 1)] BY <1>12, <2>3 DEF Tape
    <3>3. CASE k <= b
      <4>1. k \in 1 .. b BY <2>3, <3>3
      <4>2. log'[k] = log[k] BY <2>3, <4>1
      <4>3. k <= b + 1 BY <2>3, <3>3
      <4> QED BY <3>1, <3>2, <3>3, <4>2, <4>3
    <3>4. CASE k = b + 1
      <4>1. k - b = 1 /\ ~(k <= b) /\ k <= b + 1 BY <2>3, <3>4
      <4> QED BY <1>7, <2>3, <3>1, <3>2, <3>4, <4>1
    <3>5. CASE k > b + 1
      <4>0. b \in Nat BY <2>3
      <4>1. k - (b + 1) \in 1 .. m - 1 /\ k - (b + 1) + 1 = k - b /\ ~(k <= b) /\ ~(k <= b + 1) BY <3>5, <4>0
      <4>2. t[k - (b + 1)] = s[k - b] BY <1>10, <4>1
      <4> QED BY <3>1, <3>2, <4>1, <4>2
    <3> QED BY <2>3, <3>3, <3>4, <3>5
  <2>6. ASSUME NEW k \in 1 .. b + m PROVE Tape(k).calls \in Nat
    <3>1. Tape(k) = IF k <= b THEN log[k] ELSE s[k - b] BY <1>4, <2>2 DEF Tape
    <3>2. \A i \in 1 .. m : s[i].calls \in Nat BY <1>4, <1>9, SessionNumbers
    <3>3. k <= b => k \in 1 .. b BY <2>3
    <3>4. ~(k <= b) => k - b \in 1 .. m BY <2>3
    <3> QED BY <2>3, <3>1, <3>2, <3>3, <3>4
  <2>7. TapeEnd = b + m /\ TapeEnd' = TapeEnd /\ b + m \in Nat /\ a \in Nat \ {0} BY <2>3, <2>4
  <2>8. TapeEnd \in Nat /\ \A k \in 1 .. TapeEnd : Tape(k)' = Tape(k) /\ Tape(k).calls \in Nat
    BY <2>5, <2>6, <2>7
  <2>9. InOrder(a)' BY <1>12, <2>2, <2>7, <2>8, TapeStays
  <2>10. prior'[o] = Shown(Newest(Window - 1, SubSeq(log', 1, a - 1))) /\ log'[a].kind = "user"
    BY <1>1, <2>2, <2>3
  <2>11. PieceOf(o, a, b + 1)' BY <1>1, <2>3, <2>9, <2>10 DEF PieceOf
  <2>12. a \in DOMAIN log' /\ b + 1 \in DOMAIN log' BY <2>3
  <2> QED BY <2>11, <2>12
<1>23. /\ generating' = IF "saving" \in InTurn THEN o ELSE NoTurn
       /\ "saving" \in Pcs /\ late' \subseteq Turns /\ late \subseteq late'
       /\ prior' \in [Turns -> Prompts] /\ \A p \in Turns \ {o} : prior'[p] = prior[p]
       /\ \E y \in Messages : y.turn = o /\ log' = Append(log, y)
  BY <1>1, <1>3, <1>7, <1>16, <1>20
<1> QED BY <1>1, <1>2, <1>3, <1>13, <1>14, <1>15, <1>16, <1>17, <1>21, <1>22, <1>23, StepOf

\* The reply closes the piece: every call in it has its results.
LEMMA ReplyStep == ASSUME SessionInv, NEW o \in Turns, Reply(o) PROVE SessionInv'
<1> DEFINE x == Message(o, "reply", 0)
<1>1. /\ turn[o] = "saving" /\ loop.msgs = <<>> /\ log' = Append(log, x)
      /\ TurnGo(o, "done") /\ generating' = NoTurn /\ loop' = NoLoop
      /\ present' = present /\ aborted' = aborted
      /\ prior' = prior /\ torn' = torn /\ late' = late
  BY DEF Reply, AddMessage, TurnEnds
<1>2. turn[o] \in InTurn /\ turn[o] # "checking" /\ turn[o] \notin Unsaid BY <1>1 DEF InTurn, Unsaid
<1>3. /\ late \subseteq Turns /\ prior \in [Turns -> Prompts] /\ (~present => o \in torn)
  BY <1>2, Holder
<1>4. x \in Messages /\ x.turn = o /\ x.kind = "reply"
  <2>1. 0 \in 0 .. MaxCalls BY SessionAssumption
  <2> QED BY <2>1, MessagesAre
<1> HIDE DEF x
<1>5. LoopFits'
  <2>1. NoLoop.msgs \in Seq(Messages) BY LoopsAre, EmptySeq
  <2>2. MaxRounds \in Nat /\ MaxEmpty \in Nat /\ MaxCalls \in Nat BY SessionAssumption
  <2>3. /\ IsLoop(NoLoop) /\ NoLoop.rounds = 0 /\ NoLoop.empties = 0 /\ NoLoop.calls = 0
        /\ NoLoop.closing = FALSE
    BY LoopsAre
  <2>4. IsLoop(loop') /\ loop'.msgs \in Seq(Messages) /\ loop'.closing \in BOOLEAN BY <1>1, <2>1, <2>3
  <2>5. /\ loop'.rounds \in Nat /\ loop'.empties \in Nat /\ loop'.rounds <= MaxRounds + 1
        /\ loop'.empties <= MaxEmpty /\ loop'.calls \in 0 .. MaxCalls
    BY <1>1, <2>2, <2>3
  <2> QED BY <2>4, <2>5 DEF LoopFits
<1>6. "done" \in Pcs \ InTurn /\ "done" \notin Unsaid BY DEF Pcs, InTurn, Unsaid
<1>7. turn'[o] = "done" BY <1>1, SessionTypesParts DEF SessionInv, TurnGo
<1>8. o \in aborted => o \in late' BY <1>1 DEF SessionInv, AbortsTold
<1>9. ASSUME present PROVE \E a, b \in DOMAIN log' : PieceOf(o, a, b)'
  <2>1. PICK a \in DOMAIN log, b \in DOMAIN log : PieceOf(o, a, b) BY <1>2, <1>9 DEF SessionInv, Pieces
  <2>2. /\ Piece(o, a, b) /\ log[a].kind = "user" /\ b = Len(log) /\ InOrder(a)
        /\ prior[o] = Shown(Newest(Window - 1, SubSeq(log, 1, a - 1)))
    BY <1>1, <2>1 DEF PieceOf
  <2>3. /\ Piece(o, a, b + 1)' /\ Len(log') = b + 1 /\ DOMAIN log' = 1 .. b + 1
        /\ a \in 1 .. b /\ b \in Nat /\ log'[b + 1] = x
        /\ \A i \in 1 .. b : log'[i] = log[i] /\ log[i].calls \in Nat
        /\ SubSeq(log', 1, a - 1) = SubSeq(log, 1, a - 1)
    BY <1>1, <1>4, <2>2, PieceLonger
  <2>4. loop.calls = 0 BY <1>1 DEF SessionInv, RoundsLeft
  <2>5. TapeEnd = b
    <3>1. Len(loop.msgs) = 0 BY <1>1, EmptySeq
    <3> QED BY <2>2, <2>3, <3>1 DEF TapeEnd
  <2>6. \A k \in 1 .. b : Tape(k) = log[k] BY <2>2, <2>3 DEF Tape
  <2>7. ASSUME NEW i \in a .. b + 1, log'[i].kind = "calls"
        PROVE  /\ i + log'[i].calls < b + 1
               /\ \A j \in 1 .. log'[i].calls : log'[i + j].kind = "result"
               /\ log'[i + log'[i].calls + 1].kind \in {"calls", "reply"}
    <3>1. i # b + 1 BY <1>4, <2>3, <2>7
    <3>2. i \in a .. b /\ i \in 1 .. b BY <2>3, <3>1
    <3>3. log'[i] = log[i] /\ log[i].calls \in Nat /\ Tape(i) = log[i] BY <2>3, <2>6, <3>2
    <3>4. PICK c \in Nat : c = log[i].calls BY <3>3
    <3>5. i \in a .. TapeEnd /\ Tape(i).kind = "calls" BY <2>5, <2>7, <3>2, <3>3
    <3>6. /\ \/ i + Tape(i).calls = TapeEnd + loop.calls
             \/ i + Tape(i).calls < TapeEnd /\ Tape(i + Tape(i).calls + 1).kind = "calls"
          /\ \A k \in i + 1 .. i + Tape(i).calls : k <= TapeEnd => Tape(k).kind = "result"
      BY <2>2, <3>5, Zenon DEF InOrder
    <3>7. TapeEnd + loop.calls = b BY <2>3, <2>4, <2>5
    <3>8. /\ i + c = b \/ (i + c < b /\ Tape(i + c + 1).kind = "calls")
          /\ \A k \in i + 1 .. i + c : k <= b => Tape(k).kind = "result"
      BY <2>5, <3>3, <3>4, <3>6, <3>7, Zenon
    <3>9. i + c \in 1 .. b /\ i + c < b + 1 BY <2>3, <3>2, <3>8
    <3>10. ASSUME NEW j \in 1 .. c PROVE log'[i + j].kind = "result"
      <4>1. i + j \in 1 .. b /\ i + j \in i + 1 .. i + c /\ i + j <= b BY <2>3, <3>2, <3>9
      <4>2. Tape(i + j).kind = "result" BY <3>8, <4>1
      <4>3. log'[i + j] = Tape(i + j) BY <2>3, <2>6, <4>1
      <4> QED BY <4>2, <4>3
    <3>11. log'[i + c + 1].kind \in {"calls", "reply"}
      <4>1. CASE i + c = b BY <1>4, <2>3, <4>1
      <4>2. CASE i + c < b /\ Tape(i + c + 1).kind = "calls"
        <5>1. i + c + 1 \in 1 .. b BY <2>3, <3>2, <4>2
        <5>2. log'[i + c + 1] = Tape(i + c + 1) BY <2>3, <2>6, <5>1
        <5> QED BY <4>2, <5>2
      <4> QED BY <3>8, <4>1, <4>2
    <3> QED BY <3>3, <3>4, <3>9, <3>10, <3>11
  <2>8. Paired(a, b + 1)' BY <2>7 DEF Paired
  <2>9. prior'[o] = Shown(Newest(Window - 1, SubSeq(log', 1, a - 1))) /\ log'[a].kind = "user"
    BY <1>1, <2>2, <2>3
  <2>10. log'[b + 1].kind = "reply" BY <1>4, <2>3
  <2>11. PieceOf(o, a, b + 1)' BY <1>7, <2>3, <2>8, <2>9, <2>10 DEF PieceOf
  <2>12. a \in DOMAIN log' /\ b + 1 \in DOMAIN log' BY <2>3
  <2> QED BY <2>11, <2>12
<1>10. /\ generating' = IF "done" \in InTurn THEN o ELSE NoTurn
       /\ "done" \in Pcs /\ late' \subseteq Turns /\ late \subseteq late'
       /\ prior' \in [Turns -> Prompts] /\ \A p \in Turns \ {o} : prior'[p] = prior[p]
       /\ \E y \in Messages : y.turn = o /\ log' = Append(log, y)
  BY <1>1, <1>3, <1>4, <1>6
<1> QED BY <1>1, <1>2, <1>3, <1>5, <1>6, <1>8, <1>9, <1>10, StepOf

-----------------------------------------------------------------------------
(* the other requests, and the whole *)

\* An abort is told to the loop, or comes when the loop is over.
LEMMA CancelStep == ASSUME SessionInv, CancelGeneration PROVE SessionInv'
<1>1. /\ generating # NoTurn /\ aborted' = aborted \union {generating}
      /\ late' = IF turn[generating] = "saving" THEN late \union {generating} ELSE late
      /\ present' = present /\ log' = log /\ turn' = turn /\ generating' = generating /\ loop' = loop
      /\ prior' = prior /\ torn' = torn
  BY DEF CancelGeneration
<1>2. PICK g : g = generating OBVIOUS
<1>3. /\ g \in Turns /\ turn \in [Turns -> Pcs] /\ aborted \subseteq Turns /\ late \subseteq Turns
  BY <1>1, <1>2, SessionTypesParts DEF SessionInv
<1>4. turn[g] \in InTurn BY <1>2, <1>3 DEF SessionInv, HeldByOne
<1>5. aborted' = aborted \union {g} /\ late' = IF turn[g] = "saving" THEN late \union {g} ELSE late
  BY <1>1, <1>2
<1>6. turn[g] # "done" BY <1>4 DEF InTurn
<1>7. \A p \in aborted : turn[p] \in {"saving", "done"} => p \in late BY DEF SessionInv, AbortsTold
<1>8. aborted' \subseteq Turns /\ late' \subseteq Turns BY <1>3, <1>5
<1>9. \A p \in aborted' : turn'[p] \in {"saving", "done"} => p \in late' BY <1>1, <1>5, <1>6, <1>7
<1>10. \A p \in Turns : turn'[p] = turn[p] \/ (turn[p] = "new" /\ turn'[p] = "refused") BY <1>1
<1>11. turn' \in [Turns -> Pcs] BY <1>1, <1>3
<1> QED BY <1>1, <1>8, <1>9, <1>10, <1>11, RestStays

\* The session goes, with all but what its request under way will still write.
LEMMA DeleteStep == ASSUME SessionInv, DeleteSession PROVE SessionInv'
<1>1. /\ present' = FALSE /\ log' = <<>>
      /\ torn' = IF generating = NoTurn THEN {} ELSE {generating}
      /\ turn' = turn /\ generating' = generating /\ aborted' = aborted /\ loop' = loop
      /\ prior' = prior /\ late' = late
  BY DEF DeleteSession
<1>2. /\ turn \in [Turns -> Pcs] /\ generating \in Turns \union {NoTurn}
      /\ aborted \subseteq Turns /\ late \subseteq Turns /\ prior \in [Turns -> Prompts] /\ LoopFits
  BY SessionTypesParts DEF SessionInv
<1>3. log' \in Seq(Messages) /\ DOMAIN log' = {} BY <1>1, EmptySeq
<1>4. SessionTypes'
  <2>1. LoopFits' BY <1>1, <1>2 DEF LoopFits
  <2>2. torn' \subseteq Turns BY <1>1, <1>2
  <2>3. SessionTypeOK' BY <1>1, <1>2, <1>3, <2>1, <2>2 DEF SessionTypeOK, LoopFits, Pcs
  <2>4. IsLoop(loop') /\ loop'.rounds \in Nat /\ loop'.empties \in Nat BY <2>1, Zenon DEF LoopFits
  <2> QED BY <2>3, <2>4, Zenon DEF SessionTypes, IsLoop
<1>5. HeldByOne' BY <1>1 DEF SessionInv, HeldByOne, LoopOf
<1>6. RoundsLeft' BY <1>1 DEF SessionInv, RoundsLeft
<1>7. GoneForGood'
  <2>1. ASSUME NEW p \in Turns, turn'[p] \in InTurn \ {"checking"} PROVE p \in torn'
    <3>1. generating = p BY <1>1, <2>1 DEF SessionInv, HeldByOne
    <3> QED BY <1>1, <3>1, SessionAssumption
  <2> QED BY <1>1, <1>3, <2>1 DEF GoneForGood
<1>8. AbortsTold' BY <1>1 DEF SessionInv, AbortsTold
<1>9. Pieces' BY <1>1 DEF Pieces
<1> QED BY <1>4, <1>5, <1>6, <1>7, <1>8, <1>9 DEF SessionInv

\* Before the first message.
LEMMA SessionInitHolds == SessionInit => SessionInv
<1> SUFFICES ASSUME SessionInit PROVE SessionInv OBVIOUS
<1>1. /\ present = TRUE /\ log = <<>> /\ turn = [o \in Turns |-> "new"] /\ generating = NoTurn
      /\ aborted = {} /\ loop = NoLoop /\ prior = [o \in Turns |-> <<>>] /\ torn = {} /\ late = {}
  BY DEF SessionInit
<1>2. <<>> \in Seq(Messages) /\ DOMAIN <<>> = {} BY EmptySeq
<1>3. LoopFits BY <1>1, NoLoopFits
<1>4. "new" \in Pcs /\ "new" \notin InTurn /\ "new" \in Unsaid BY DEF Pcs, InTurn, Unsaid
<1>5. \A o \in Turns : turn[o] = "new" BY <1>1
<1>6. SessionTypes
  <2>1. turn \in [Turns -> Pcs] BY <1>1, <1>4
  <2>2. prior \in [Turns -> Prompts] BY <1>1, NothingShown
  <2> QED BY <1>1, <1>2, <1>3, <2>1, <2>2, SessionTypesParts
<1>7. HeldByOne BY <1>1, <1>4, <1>5, SessionAssumption DEF HeldByOne
<1>8. RoundsLeft BY <1>5 DEF RoundsLeft
<1>9. GoneForGood BY <1>1 DEF GoneForGood
<1>10. AbortsTold BY <1>1 DEF AbortsTold
<1>11. Pieces
  <2>1. \A o \in Turns : Silent(o) BY <1>1, <1>2 DEF Silent
  <2> QED BY <1>4, <1>5, <2>1 DEF Pieces
<1> QED BY <1>6, <1>7, <1>8, <1>9, <1>10, <1>11 DEF SessionInv

\* One step of the session keeps the invariant.
LEMMA SessionKept == SessionInv /\ [SessionNext]_sessionVars => SessionInv'
<1> SUFFICES ASSUME SessionInv, [SessionNext]_sessionVars PROVE SessionInv' OBVIOUS
<1>1. ASSUME NEW o \in Turns, Send(o) PROVE SessionInv' BY <1>1, SendStep
<1>2. ASSUME NEW o \in Turns, SessionChecked(o) PROVE SessionInv' BY <1>2, CheckedStep
<1>3. ASSUME NEW o \in Turns, AddUser(o) PROVE SessionInv' BY <1>3, AddUserStep
<1>4. ASSUME NEW o \in Turns, ReadHistory(o) PROVE SessionInv' BY <1>4, ReadStep
<1>5. ASSUME NEW o \in Turns, ChatBegins(o) PROVE SessionInv' BY <1>5, ChatStep
<1>6. ASSUME NEW o \in Turns, NothingCame(o) PROVE SessionInv' BY <1>6, NothingStep
<1>7. ASSUME NEW o \in Turns, Answers(o) PROVE SessionInv' BY <1>7, AnswersStep
<1>8. ASSUME NEW o \in Turns, ChatFails(o) \/ AbortSeen(o) \/ PersistFails(o) PROVE SessionInv'
  BY <1>8, EndSteps
<1>9. ASSUME NEW o \in Turns, NEW n \in 1..MaxCalls, WantsTools(o, n) PROVE SessionInv' BY <1>9, WantsStep
<1>10. ASSUME NEW o \in Turns, RunTool(o) PROVE SessionInv' BY <1>10, ToolStep
<1>11. ASSUME NEW o \in Turns, Persist(o) PROVE SessionInv' BY <1>11, PersistStep
<1>12. ASSUME NEW o \in Turns, Reply(o) PROVE SessionInv' BY <1>12, ReplyStep
<1>13. CASE CancelGeneration BY <1>13, CancelStep
<1>14. CASE DeleteSession BY <1>14, DeleteStep
<1>15. CASE UNCHANGED sessionVars
  <2>1. /\ present' = present /\ log' = log /\ turn' = turn /\ generating' = generating /\ loop' = loop
        /\ prior' = prior /\ torn' = torn /\ aborted' = aborted /\ late' = late
    BY <1>15 DEF sessionVars
  <2>2. turn' \in [Turns -> Pcs] /\ aborted' \subseteq Turns /\ late' \subseteq Turns
    BY <2>1, SessionTypesParts DEF SessionInv
  <2>3. \A p \in Turns : turn'[p] = turn[p] \/ (turn[p] = "new" /\ turn'[p] = "refused") BY <2>1
  <2>4. \A p \in aborted' : turn'[p] \in {"saving", "done"} => p \in late' BY <2>1 DEF SessionInv, AbortsTold
  <2> QED BY <2>1, <2>2, <2>3, <2>4, RestStays
<1> QED BY <1>1, <1>2, <1>3, <1>4, <1>5, <1>6, <1>7, <1>8, <1>9, <1>10, <1>11, <1>12, <1>13, <1>14, <1>15
        DEF SessionNext

\* A turn that ended well is one whole piece of the log, the prompt was what the log held
\* before it, and what is left of a deleted session is the request that was under way:
\* for every number of requests, window, rounds and tool calls (session.ts, runner.ts).
THEOREM TranscriptKept == SessionSpec => [](SessionTypeOK /\ TranscriptWhole)
<1>1. SessionInit => SessionInv BY SessionInitHolds
<1>2. SessionInv /\ [SessionNext]_sessionVars => SessionInv' BY SessionKept
<1>3. SessionInv => SessionTypeOK /\ TranscriptWhole BY SessionInvHolds
<1> QED BY <1>1, <1>2, <1>3, PTL DEF SessionSpec

=============================================================================
