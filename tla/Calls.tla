-------------------------------- MODULE Calls -------------------------------
(***************************************************************************)
(* Calls between the kernel and the thread of an extension pool:           *)
(* ExtensionBridge (kernel/extensions/bridge.ts) on the one side, the      *)
(* table of pending calls in src/extension-host/worker.ts on the other,    *)
(* and the calls of one extension's service by another, which go through   *)
(* the kernel (extensions/registry.ts) and back into the thread.  Each     *)
(* side waits with a timer of its own, and what it no longer waits for     *)
(* runs on.                                                                *)
(*                                                                         *)
(* A call is a number.  A call of a service takes two: its own, and the    *)
(* next one for the call that the kernel makes on its behalf.              *)
(***************************************************************************)
EXTENDS Naturals, Sequences, FiniteSets

CONSTANTS
    MaxRpcs,   \* bound: calls
    MaxRoots   \* bound: calls the kernel makes of its own accord

VARIABLES
    kind,      \* kind[c]: "none", or "route", "task", "nested" into the thread, "topic", "service" out of it
    by,        \* by[c]: the call whose handler has made c, 0 for the kernel itself
    st,        \* st[c]: what the caller knows
    work,      \* work[c]: the handler of c
    answered,  \* calls whose callee has sent its reply
    kpend,     \* the Map #pending of the bridge
    wpend,     \* the Map `pending` of the worker
    toWorker, toKernel,  \* messages on their way
    target,    \* the extension with the service: for the registry, and in the thread
    life       \* the thread and its bridge

callsVars == <<kind, by, st, work, answered, kpend, wpend, toWorker, toKernel, target, life>>

CallsAssumption == {MaxRpcs, MaxRoots} \subseteq Nat

Ids    == 1..MaxRpcs
Inward == {"route", "task", "nested"}

CallsInit ==
    /\ kind = [c \in Ids |-> "none"] /\ by = [c \in Ids |-> 0]
    /\ st = [c \in Ids |-> "none"] /\ work = [c \in Ids |-> "none"]
    /\ answered = {} /\ kpend = {} /\ wpend = {}
    /\ toWorker = <<>> /\ toKernel = <<>>
    /\ target \in {"active", "unloaded"} /\ life = "up"

New(c)   == kind[c] = "none" /\ \A d \in 1..(c - 1) : kind[d] # "none"
OfKernel == {c \in Ids : kind[c] \in {"route", "task"}}
NewRoot(c, k) == New(c) /\ k \in {"route", "task"} /\ Cardinality(OfKernel) < MaxRoots
Call(c)  == [type |-> "call", id |-> c, ok |-> TRUE]
Reply(c, ok) == [type |-> "reply", id |-> c, ok |-> ok]

\* postMessage to a thread that has ended is lost; a stopped bridge sends nothing.
Sent(queue, m) == IF life = "up" THEN Append(queue, m) ELSE queue
Outcome(ok) == IF ok THEN "ok" ELSE "failed"

-----------------------------------------------------------------------------
(* The kernel calls *)

\* callToWorker refuses when the bridge is stopped or the payload too large.
CallRefused(c, k) ==
    /\ NewRoot(c, k)
    /\ kind' = [kind EXCEPT ![c] = k]
    /\ st' = [st EXCEPT ![c] = "failed"]
    /\ UNCHANGED <<by, work, answered, kpend, wpend, toWorker, toKernel, target, life>>

CallToWorker(c, k) ==
    /\ NewRoot(c, k) /\ life # "stopped"
    /\ kind' = [kind EXCEPT ![c] = k]
    /\ st' = [st EXCEPT ![c] = "waits"]
    /\ kpend' = kpend \union {c}
    /\ toWorker' = Sent(toWorker, Call(c))
    /\ UNCHANGED <<by, work, answered, wpend, toKernel, target, life>>

\* The outcomes of calls come back: a service call that waits for one of them is
\* answered in turn.
Conclude(outcome) ==
    LET woken == {d \in Ids : /\ kind[d] = "service" /\ work[d] = "awaits"
                              /\ d + 1 \in DOMAIN outcome}
    IN  /\ st' = [c \in Ids |-> IF c \in DOMAIN outcome THEN outcome[c] ELSE st[c]]
        /\ kpend' = kpend \ DOMAIN outcome
        /\ work' = [d \in Ids |-> IF d \in woken THEN "done" ELSE work[d]]
        /\ answered' = answered \union woken
        /\ woken # {} => Cardinality(woken) = 1 \/ life' = "stopped"
        /\ toWorker' = IF life' = "stopped" THEN <<>>
                       ELSE IF woken = {} THEN toWorker
                       ELSE LET d == CHOOSE d \in woken : TRUE
                            IN  Sent(toWorker, Reply(d, outcome[d + 1] = "ok"))

KernelTimesOut(c) ==
    /\ c \in kpend
    /\ life' = life
    /\ Conclude([d \in {c} |-> "timeout"])
    /\ UNCHANGED <<kind, by, wpend, toKernel, target>>

\* A reply, in time or too late; one that is too large is an error.
KernelTakesReply ==
    /\ toKernel # <<>> /\ Head(toKernel).type = "reply"
    /\ toKernel' = Tail(toKernel)
    /\ life' = life
    /\ LET m == Head(toKernel)
       IN  IF m.id \in kpend
             THEN \E ok \in {m.ok, FALSE} : Conclude([d \in {m.id} |-> Outcome(ok)])
             ELSE UNCHANGED <<st, work, answered, kpend, toWorker>>
    /\ UNCHANGED <<kind, by, wpend, target>>

-----------------------------------------------------------------------------
(* The thread serves *)

\* handleCall: an extension that is not loaded is an error, a task is answered
\* when it starts, and the others at the end of their handler.
WorkerTakesCall ==
    /\ life = "up" /\ toWorker # <<>> /\ Head(toWorker).type = "call"
    /\ toWorker' = Tail(toWorker)
    /\ LET c == Head(toWorker).id
           there == kind[c] = "nested" => target # "unloaded"
       IN  /\ work' = [work EXCEPT ![c] = IF there THEN "runs" ELSE "threw"]
           /\ IF there /\ kind[c] # "task"
                THEN UNCHANGED <<toKernel, answered>>
                ELSE /\ toKernel' = Append(toKernel, Reply(c, there))
                     /\ answered' = answered \union {c}
    /\ UNCHANGED <<kind, by, st, kpend, wpend, target, life>>

\* The handler returns or throws; after its time the reply has been sent already.
HandlerEnds(c, ok) ==
    /\ life = "up" /\ kind[c] \in Inward /\ work[c] = "runs"
    /\ work' = [work EXCEPT ![c] = IF ok THEN "done" ELSE "threw"]
    /\ answered' = answered \union {c}
    /\ toKernel' = IF c \in answered THEN toKernel ELSE Append(toKernel, Reply(c, ok))
    /\ UNCHANGED <<kind, by, st, kpend, wpend, toWorker, target, life>>

\* withTimeout of a route: the reply goes out, and the handler goes on.
HandlerTimesOut(c) ==
    /\ life = "up" /\ kind[c] = "route" /\ work[c] \in {"runs", "awaits"} /\ c \notin answered
    /\ answered' = answered \union {c}
    /\ toKernel' = Append(toKernel, Reply(c, FALSE))
    /\ UNCHANGED <<kind, by, st, work, kpend, wpend, toWorker, target, life>>

-----------------------------------------------------------------------------
(* The thread calls *)

\* makeKernelCall: the handler of c awaits the answer.
CallKernel(c, d, k) ==
    /\ life = "up" /\ kind[c] \in Inward /\ work[c] = "runs"
    /\ New(d) /\ k \in {"topic", "service"} /\ (k = "service" => d + 1 \in Ids)
    /\ kind' = [x \in Ids |-> IF x = d THEN k
                              ELSE IF k = "service" /\ x = d + 1 THEN "nested" ELSE kind[x]]
    /\ by' = [x \in Ids |-> IF x = d THEN c ELSE IF k = "service" /\ x = d + 1 THEN d ELSE by[x]]
    /\ st' = [st EXCEPT ![d] = "waits"]
    /\ wpend' = wpend \union {d}
    /\ work' = [work EXCEPT ![c] = "awaits"]
    /\ toKernel' = Append(toKernel, Call(d))
    /\ UNCHANGED <<answered, kpend, toWorker, target, life>>

\* The handler that awaits d goes on.
Resume(d, outcome) ==
    /\ st' = [st EXCEPT ![d] = outcome]
    /\ wpend' = wpend \ {d}
    /\ work' = [work EXCEPT ![by[d]] = "runs"]

WorkerTimesOut(d) ==
    /\ life = "up" /\ d \in wpend
    /\ Resume(d, "timeout")
    /\ UNCHANGED <<kind, by, answered, kpend, toWorker, toKernel, target, life>>

\* settleReply: late replies are dropped, one that is too large is an error.
WorkerTakesReply ==
    /\ life = "up" /\ toWorker # <<>> /\ Head(toWorker).type = "reply"
    /\ toWorker' = Tail(toWorker)
    /\ LET m == Head(toWorker)
       IN  IF m.id \in wpend THEN \E ok \in {m.ok, FALSE} : Resume(m.id, Outcome(ok))
           ELSE UNCHANGED <<st, wpend, work>>
    /\ UNCHANGED <<kind, by, answered, kpend, toKernel, target, life>>

-----------------------------------------------------------------------------
(* The kernel serves *)

\* #serveWorkerCall: handlers[topic] runs; host.call goes to the registry, which
\* turns down a target that is suspended and else calls the thread.
KernelTakesCall ==
    /\ toKernel # <<>> /\ Head(toKernel).type = "call"
    /\ toKernel' = Tail(toKernel)
    /\ LET d == Head(toKernel).id
       IN  IF kind[d] = "topic"
             THEN /\ work' = [work EXCEPT ![d] = "runs"]
                  /\ UNCHANGED <<st, answered, kpend, toWorker>>
           ELSE IF target # "active"
             THEN /\ work' = [work EXCEPT ![d] = "threw"]
                  /\ answered' = answered \union {d}
                  /\ toWorker' = Sent(toWorker, Reply(d, FALSE))
                  /\ UNCHANGED <<st, kpend>>
           ELSE /\ work' = [work EXCEPT ![d] = "awaits"]
                /\ st' = [st EXCEPT ![d + 1] = "waits"]
                /\ kpend' = kpend \union {d + 1}
                /\ toWorker' = Sent(toWorker, Call(d + 1))
                /\ UNCHANGED answered
    /\ UNCHANGED <<kind, by, wpend, target, life>>

TopicEnds(d, ok) ==
    /\ kind[d] = "topic" /\ work[d] = "runs"
    /\ work' = [work EXCEPT ![d] = IF ok THEN "done" ELSE "threw"]
    /\ answered' = answered \union {d}
    /\ toWorker' = Sent(toWorker, Reply(d, ok))
    /\ UNCHANGED <<kind, by, st, kpend, wpend, toKernel, target, life>>

\* Slip: the service call goes on waiting for the bridge, which answers it as well.
RegistryTimesOutTwice(d) ==
    /\ kind[d] = "service" /\ work[d] = "awaits"
    /\ answered' = answered \union {d}
    /\ toWorker' = Sent(toWorker, Reply(d, FALSE))
    /\ UNCHANGED <<kind, by, st, work, kpend, wpend, toKernel, target, life>>
\* The race of the registry against its own timer: the call of the bridge stays.
RegistryTimesOut(d) ==
    /\ kind[d] = "service" /\ work[d] = "awaits"
    /\ work' = [work EXCEPT ![d] = "threw"]
    /\ answered' = answered \union {d}
    /\ toWorker' = Sent(toWorker, Reply(d, FALSE))
    /\ UNCHANGED <<kind, by, st, kpend, wpend, toKernel, target, life>>

-----------------------------------------------------------------------------
(* Ends *)

\* Disabling: the registry suspends the services, then the thread unloads.
Suspend ==
    /\ target = "active" /\ target' = "suspended"
    /\ UNCHANGED <<kind, by, st, work, answered, kpend, wpend, toWorker, toKernel, life>>

UnloadTarget ==
    /\ target = "suspended" /\ target' = "unloaded"
    /\ UNCHANGED <<kind, by, st, work, answered, kpend, wpend, toWorker, toKernel, life>>

\* The thread ends: what it has sent may still arrive.
ThreadEnds ==
    /\ life = "up" /\ life' = "dead"
    /\ toWorker' = <<>> /\ wpend' = {}
    /\ st' = [c \in Ids |-> IF c \in wpend THEN "gone" ELSE st[c]]
    /\ work' = [c \in Ids |-> IF kind[c] \in Inward /\ work[c] \in {"runs", "awaits"}
                                THEN "gone" ELSE work[c]]
    /\ UNCHANGED <<kind, by, answered, kpend, toKernel, target>>

\* stop() rejects what is pending and listens no longer; the thread is terminated
\* first when it still runs.
StopBridge ==
    /\ life = "dead" /\ life' = "stopped"
    /\ Conclude([c \in kpend |-> "failed"])
    /\ toKernel' = <<>>
    /\ UNCHANGED <<kind, by, wpend, target>>

CallsNext ==
    \/ \E c \in Ids :
          \/ \E k \in {"route", "task"} : CallRefused(c, k) \/ CallToWorker(c, k)
          \/ KernelTimesOut(c) \/ HandlerTimesOut(c) \/ WorkerTimesOut(c) \/ RegistryTimesOut(c)
          \/ \E ok \in BOOLEAN : HandlerEnds(c, ok) \/ TopicEnds(c, ok)
          \/ \E d \in Ids, k \in {"topic", "service"} : CallKernel(c, d, k)
    \/ KernelTakesReply \/ KernelTakesCall \/ WorkerTakesCall \/ WorkerTakesReply
    \/ Suspend \/ UnloadTarget \/ ThreadEnds \/ StopBridge

CallsSpec == CallsInit /\ [][CallsNext]_callsVars

-----------------------------------------------------------------------------

CallsTypeOK ==
    /\ kind \in [Ids -> Inward \union {"none", "topic", "service"}]
    /\ by \in [Ids -> 0..MaxRpcs]
    /\ st \in [Ids -> {"none", "waits", "ok", "failed", "timeout", "gone"}]
    /\ work \in [Ids -> {"none", "runs", "awaits", "done", "threw", "gone"}]
    /\ answered \subseteq Ids /\ kpend \subseteq Ids /\ wpend \subseteq Ids
    /\ target \in {"active", "suspended", "unloaded"} /\ life \in {"up", "dead", "stopped"}

InwardCall(c) == kind[c] \in Inward

\* Whoever waits has its entry and so its timer, on either side, and nobody else:
\* no call is left without an end, and none has two.
WaitersListed ==
    \A c \in Ids : st[c] = "waits" <=> c \in kpend \union wpend

\* A handler that awaits a call is woken: the call is still listed.
SleepersWake ==
    \A c \in Ids : work[c] = "awaits" =>
        IF InwardCall(c) THEN \E d \in wpend : by[d] = c
        ELSE c + 1 \in kpend

\* What is reported as done was done, at the far end of the chain too; what was not
\* answered in time may have been done all the same.
OkMeansDone ==
    \A c \in Ids : st[c] = "ok" =>
        IF kind[c] = "service" THEN st[c + 1] = "ok"
        ELSE work[c] = "done" \/ kind[c] = "task"

\* A callee replies once.
OneReply ==
    LET Replies(queue, c) == {i \in DOMAIN queue : queue[i].type = "reply" /\ queue[i].id = c}
    IN  \A c \in Ids : /\ Cardinality(Replies(toWorker, c)) + Cardinality(Replies(toKernel, c)) <= 1
                       /\ Replies(toWorker, c) \union Replies(toKernel, c) # {} => c \in answered

CallsKept == WaitersListed /\ SleepersWake /\ OkMeansDone /\ OneReply

=============================================================================
