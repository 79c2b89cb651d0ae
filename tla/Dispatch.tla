------------------------------ MODULE Dispatch ------------------------------
(***************************************************************************)
(* Events and hooks on their way to the extensions of one pool.  The       *)
(* kernel keeps one subscription (events/bus.ts) or one entry in the chain *)
(* (hooks/manager.ts) for each extension, and each of them sends a message *)
(* to the worker.  The worker (src/extension-host/worker.ts) does not look *)
(* for whom a message is: it runs the handlers of every extension that is  *)
(* loaded, one after the other, with an await between two of them, while   *)
(* extensions are loaded and unloaded.  All extensions ask for the same    *)
(* name; one event or one application of a hook is followed to its end.    *)
(***************************************************************************)
EXTENDS Naturals, Sequences, SequencesExt

CONSTANTS
    Order,     \* the extensions, by the priority of their handlers
    MaxChanges \* bound: extensions enabled or disabled meanwhile

VARIABLES
    handler,   \* handler[e]: what the handler of e does with the value of a hook
    st,        \* st[e]: e for the manager
    inside,    \* the Map `loaded` of the worker, in the order of its insertions
    port,      \* messages on their way to the worker
    jobs,      \* calls of handleEventDispatch and handleHookApply that are under way
    chain,     \* the emit or apply that is followed
    ran,       \* ran[e]: how often the handler of e has run
    left,      \* extensions disabled since it began
    changes

dispatchVars == <<handler, st, inside, port, jobs, chain, ran, left, changes>>

DispatchAssumption == MaxChanges \in Nat

Guests == Range(Order)
Undefined == {"undefined"}       \* a value is the set of those who have rewritten it
NotBegun  == [pc |-> "idle", who |-> {}, todo |-> <<>>, value |-> {}]

DispatchInit ==
    /\ handler \in [Guests -> {"rewrites", "observes", "aborts", "throws"}]
    /\ st \in [Guests -> {"on", "off"}]
    /\ inside = SelectSeq(Order, LAMBDA e : st[e] = "on")
    /\ port = <<>> /\ jobs = {} /\ chain = NotBegun
    /\ ran = [e \in Guests |-> 0] /\ left = {} /\ changes = 0

Subscribed == SelectSeq(Order, LAMBDA e : st[e] = "on")
Message(kind, e, value) == [kind |-> kind, ext |-> e, value |-> value]
Post(msg) == port' = Append(port, msg)

-----------------------------------------------------------------------------
(* The manager *)

Change == changes < MaxChanges /\ changes' = changes + 1

EnableGuest(e) ==
    /\ st[e] = "off"
    /\ Change
    /\ st' = [st EXCEPT ![e] = "loading"]
    /\ Post(Message("load", e, {}))
    /\ UNCHANGED <<handler, inside, jobs, chain, ran, left>>

\* Events and hooks of e are added when the worker has answered.
GuestEnabled(e) ==
    /\ st[e] = "loading" /\ e \in Range(inside)
    /\ st' = [st EXCEPT ![e] = "on"]
    /\ UNCHANGED <<handler, inside, port, jobs, chain, ran, left, changes>>

\* The undo list first, then the call of host.unload.
DisableGuest(e) ==
    /\ st[e] = "on"
    /\ Change
    /\ st' = [st EXCEPT ![e] = "leaving"]
    /\ Post(Message("unload", e, {}))
    /\ left' = left \union {e}
    /\ UNCHANGED <<handler, inside, jobs, chain, ran>>

GuestDisabled(e) ==
    /\ st[e] = "leaving" /\ e \notin Range(inside)
    /\ st' = [st EXCEPT ![e] = "off"]
    /\ UNCHANGED <<handler, inside, port, jobs, chain, ran, left, changes>>

-----------------------------------------------------------------------------
(* The kernel: EventBus.emit and HookManager.apply work on the list they find *)

Emit ==
    /\ chain.pc = "idle"
    /\ chain' = [NotBegun EXCEPT !.pc = "emitted", !.who = Range(Subscribed)]
    /\ port' = port \o [i \in DOMAIN Subscribed |-> Message("event", Subscribed[i], {})]
    /\ left' = {}
    /\ UNCHANGED <<handler, st, inside, jobs, ran, changes>>

Apply ==
    /\ chain.pc = "idle"
    /\ chain' = [pc |-> "next", who |-> Range(Subscribed), todo |-> Subscribed, value |-> {}]
    /\ left' = {}
    /\ UNCHANGED <<handler, st, inside, port, jobs, ran, changes>>

ApplyNext ==
    /\ chain.pc = "next" /\ chain.todo # <<>>
    /\ chain' = [chain EXCEPT !.pc = "waits", !.todo = Tail(@)]
    /\ Post(Message("hook", Head(chain.todo), chain.value))
    /\ UNCHANGED <<handler, st, inside, jobs, ran, left, changes>>

ApplyEnds ==
    /\ chain.pc = "next" /\ chain.todo = <<>>
    /\ chain' = [chain EXCEPT !.pc = "applied"]
    /\ UNCHANGED <<handler, st, inside, port, jobs, ran, left, changes>>

\* HOOK_APPLY_TIMEOUT_MS: whoever applies the hook gets an error.
ApplyTimesOut ==
    /\ chain.pc = "waits"
    /\ chain' = [chain EXCEPT !.pc = "failed"]
    /\ UNCHANGED <<handler, st, inside, port, jobs, ran, left, changes>>

\* An undefined answer keeps the value of before the call.
Answered(value) ==
    chain' = IF chain.pc # "waits" THEN chain
             ELSE [chain EXCEPT !.pc = "next",
                                !.value = IF value = Undefined THEN @ ELSE value]

-----------------------------------------------------------------------------
(* The worker *)

\* A message of an event or a hook starts a loop over `loaded`, a load begins, and
\* an unload is done at once.
Take ==
    /\ port # <<>>
    /\ LET msg == Head(port)
       IN  /\ inside' = IF msg.kind = "unload"
                          THEN SelectSeq(inside, LAMBDA e : e # msg.ext) ELSE inside
           /\ jobs' = jobs \union (IF msg.kind \in {"event", "hook"}
                                     THEN {[msg |-> msg, visited |-> {}, value |-> msg.value]}
                                     ELSE {})
    /\ port' = Tail(port)
    /\ UNCHANGED <<handler, st, chain, ran, left, changes>>

\* The setup of e is over: the loops that run will come to its new entry.
Loaded(e) ==
    /\ st[e] = "loading" /\ e \notin Range(inside)
    /\ \A m \in Range(port) : m.kind = "load" => m.ext # e
    /\ inside' = Append(inside, e)
    /\ jobs' = {[j EXCEPT !.visited = @ \ {e}] : j \in jobs}
    /\ UNCHANGED <<handler, st, port, chain, ran, left, changes>>

Unvisited(j) == SelectSeq(inside, LAMBDA e : e \notin j.visited)

\* What `value = await handler(value)` leaves of the value.
Handled(e, value) ==
    IF handler[e] = "observes" THEN Undefined
    ELSE IF value = Undefined THEN {e} ELSE value \union {e}

\* HookAbort, or any other error, ends the loop of a hook and not that of an event.
Stopped(e, j) == j.msg.kind = "hook" /\ handler[e] \in {"aborts", "throws"}

\* The next handler of the loop runs.
Visit(j) ==
    /\ Unvisited(j) # <<>>
    /\ LET e == Head(Unvisited(j))
           seen == [j EXCEPT !.visited = @ \union {e}]
       IN  /\ ran' = [ran EXCEPT ![e] = @ + 1]
           /\ jobs' = (jobs \ {j}) \union
                      (IF j.msg.kind = "event" THEN {seen}
                       ELSE IF Stopped(e, j) THEN {}
                       ELSE {[seen EXCEPT !.value = Handled(e, @)]})
           /\ chain' = IF Stopped(e, j) /\ chain.pc = "waits"
                         THEN [chain EXCEPT !.pc = IF handler[e] = "aborts" THEN "aborted"
                                                   ELSE "failed"]
                         ELSE chain
    /\ UNCHANGED <<handler, st, inside, port, left, changes>>

\* Slip: the loop answers before every extension was asked.
JobEndsEarly(j) ==
    /\ jobs' = jobs \ {j}
    /\ IF j.msg.kind = "hook" THEN Answered(j.value) ELSE UNCHANGED chain
    /\ UNCHANGED <<handler, st, inside, port, ran, left, changes>>
JobEnds(j) ==
    /\ Unvisited(j) = <<>>
    /\ jobs' = jobs \ {j}
    /\ IF j.msg.kind = "hook" THEN Answered(j.value) ELSE UNCHANGED chain
    /\ UNCHANGED <<handler, st, inside, port, ran, left, changes>>

DispatchNext ==
    \/ \E e \in Guests :
          \/ EnableGuest(e) \/ Loaded(e) \/ GuestEnabled(e) \/ DisableGuest(e) \/ GuestDisabled(e)
    \/ Emit \/ Apply \/ ApplyNext \/ ApplyEnds \/ ApplyTimesOut
    \/ Take
    \/ \E j \in jobs : Visit(j) \/ JobEnds(j)

DispatchSpec == DispatchInit /\ [][DispatchNext]_dispatchVars

-----------------------------------------------------------------------------

DispatchTypeOK ==
    /\ handler \in [Guests -> {"rewrites", "observes", "aborts", "throws"}]
    /\ st \in [Guests -> {"off", "loading", "on", "leaving"}]
    /\ Range(inside) \subseteq Guests
    /\ \A m \in Range(port) : m.kind \in {"load", "unload", "event", "hook"}
    /\ \A j \in jobs : j.msg.kind \in {"event", "hook"} /\ j.visited \subseteq Guests
    /\ chain.pc \in {"idle", "emitted", "next", "waits", "applied", "aborted", "failed"}
    /\ chain.value \subseteq Guests
    /\ ran \in [Guests -> Nat]
    /\ left \subseteq Guests /\ changes \in 0..MaxChanges

Staying == chain.who \ left

\* An extension that is active when something is emitted or applied, and stays so,
\* is not passed over, whatever is loaded and unloaded meanwhile.
NobodyPassedOver ==
    \/ chain.pc = "emitted" /\ port = <<>> /\ jobs = {}
    \/ chain.pc = "applied"
    => \A e \in Staying : ran[e] > 0

\* What it has written into the value of a hook is there at the end, unless a
\* handler that only observes has run after it in the worker, where undefined is
\* a value like any other (types/harness.d.ts:185 has it mean "not rewritten").
RewritingKept ==
    chain.pc = "applied" =>
        \/ \E o \in Guests : handler[o] = "observes" /\ ran[o] > 0
        \/ \A e \in Staying : e \in chain.value

DispatchKept == NobodyPassedOver /\ RewritingKept

=============================================================================
