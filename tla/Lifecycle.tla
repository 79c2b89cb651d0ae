------------------------------ MODULE Lifecycle ------------------------------
(***************************************************************************)
(* Boot, abort and shutdown of the kernel (src/kernel/Kernel.ts): boot     *)
(* takes its resources one after the other, any step may fail, and callers *)
(* of shutdown come at any time.  Whoever stops the kernel, boot that      *)
(* failed or a caller, goes through the same list, one await at a time.    *)
(***************************************************************************)
EXTENDS Naturals, FiniteSets, SequencesExt

CONSTANTS
    Providers,   \* the providers, in the order of useProvider
    Callers,     \* calls of shutdown: signals, uncaughtException
    MaxLeaks     \* bound: stops that fail

ASSUME CallersAssumption == MaxLeaks \in Nat /\ "boot" \notin Callers

VARIABLES
    kernel,    \* #state
    bootStep,  \* step that boot is at, 0 before it, one more than there are when it is over
    booted,    \* #booted
    held,      \* the fields that are set: #db, #http, ...
    call,      \* call[c]: "none", "waits", "drains" or "returned"
    stopper,   \* stopper[s]: what s is stopping, if s stops the kernel
    (* observations *)
    live,      \* what has been started and not stopped
    leaked,    \* what could not be stopped
    beside     \* boot has given up beside a shutdown

lifeVars == <<kernel, bootStep, booted, held, call, stopper, live, leaked, beside>>

\* The fields of the kernel in the order in which they are stopped.
StopOrder == <<"extManager", "core", "sandbox", "cron", "http", "hub", "logSink", "db">>

ASSUME ProvidersAssumption ==
    /\ Providers \in Seq(ToSet(Providers)) /\ IsInjective(Providers)
    /\ ToSet(Providers) \intersect (ToSet(StopOrder) \union {"nothing", "hooks"}) = {}

\* #runBoot.  "open" sets a field to something that lives, "make" to something that "start" starts.
Do(op, what) == [op |-> op, what |-> what]
FirstSteps ==
    << Do("open", "hub"), Do("open", "db"), Do("make", "cron"), Do("make", "core"), Do("make", "sandbox"),
       Do("make", "extManager"), Do("open", "logSink"), Do("hook", "kernel.boot") >>
ProviderSteps(op) == [i \in DOMAIN Providers |-> Do(op, Providers[i])]
LastSteps ==
    << Do("make", "http"), Do("start", "core"), Do("start", "sandbox"), Do("start", "extManager"),
       Do("start", "cron"), Do("listen", "http"), Do("hook", "kernel.ready") >>
BootSteps == FirstSteps \o ProviderSteps("register") \o ProviderSteps("boot") \o LastSteps
BootEnd == Len(BootSteps) + 1

Boot == "boot"
Stoppers == Callers \union {Boot}
NotStopping == [at |-> "nothing", next |-> 0, first |-> TRUE, providers |-> <<>>]

LifeInit ==
    /\ kernel = "created" /\ bootStep = 0 /\ booted = <<>> /\ held = {}
    /\ call = [c \in Callers |-> "none"] /\ stopper = [s \in Stoppers |-> NotStopping]
    /\ live = {} /\ leaked = {} /\ beside = FALSE

-----------------------------------------------------------------------------
(* Stopping: #drain and #gracefulAbort *)

Stop1(s, r) == stopper' = [stopper EXCEPT ![s] = r]
IsStopped(x) == \E s \in Stoppers : stopper[s].at = x

\* Stopper s goes on with the first field that is set from place n of the list
\* on, then with the providers, the last one first.
StopFrom(s, n, fields) ==
    LET rest == {i \in n..Len(StopOrder) : StopOrder[i] \in fields}
        i    == CHOOSE j \in rest : \A k \in rest : j <= k
    IN  IF rest # {}
        THEN /\ Stop1(s, [at |-> StopOrder[i], next |-> i + 1, first |-> ~IsStopped(StopOrder[i]), providers |-> <<>>])
             /\ UNCHANGED <<kernel, booted, call, bootStep>>
        ELSE IF booted # <<>>
        THEN /\ Stop1(s, [at |-> Last(booted), next |-> n, first |-> ~IsStopped(Last(booted)), providers |-> Front(booted)])
             /\ UNCHANGED <<kernel, booted, call, bootStep>>
        ELSE /\ Stop1(s, NotStopping)
             /\ kernel' = "stopped"
             /\ call' = IF s = Boot THEN call ELSE [call EXCEPT ![s] = "returned"]
             /\ bootStep' = IF s = Boot THEN BootEnd ELSE bootStep
             /\ UNCHANGED booted

Ends(x, ok) ==
    /\ ok \/ Cardinality(leaked) < MaxLeaks
    /\ leaked' = IF ok THEN leaked ELSE leaked \union {x}

\* The awaited stop of a field ends, well or not; one that another stopper has
\* begun ends at once and stops nothing.
FieldStopped(s, ok) ==
    LET x == stopper[s].at IN
    /\ x \in ToSet(StopOrder)
    /\ held' = held \ {x}
    /\ live' = IF stopper[s].first THEN live \ {x} ELSE live
    /\ Ends(x, ok)
    /\ StopFrom(s, stopper[s].next, held')
    /\ UNCHANGED beside

\* The same for a provider.
ProviderStopped(s, ok) ==
    LET todo == stopper[s].providers IN
    /\ stopper[s].at \in ToSet(Providers)
    /\ live' = IF stopper[s].first THEN live \ {stopper[s].at} ELSE live
    /\ Ends(stopper[s].at, ok)
    /\ IF todo # <<>>
         THEN /\ Stop1(s, [stopper[s] EXCEPT !.at = Last(todo), !.first = ~IsStopped(Last(todo)), !.providers = Front(todo)])
              /\ UNCHANGED <<kernel, booted, call, bootStep>>
         ELSE /\ Stop1(s, NotStopping)
              /\ booted' = <<>>
              /\ kernel' = "stopped"
              /\ call' = IF s = Boot THEN call ELSE [call EXCEPT ![s] = "returned"]
              /\ bootStep' = IF s = Boot THEN BootEnd ELSE bootStep
    /\ UNCHANGED <<held, beside>>

-----------------------------------------------------------------------------
(* Boot *)

BootBegins ==
    /\ kernel = "created" /\ bootStep = 0
    /\ kernel' = "registering" /\ bootStep' = 1
    /\ UNCHANGED <<booted, held, call, stopper, live, leaked, beside>>

Booting == bootStep \in 1..Len(BootSteps) /\ stopper[Boot] = NotStopping
Step    == BootSteps[bootStep]

\* Slip: the server is kept once it listens.
BootStepHoldsLate ==
    /\ Booting
    /\ bootStep' = bootStep + 1
    /\ held'   = IF Step.op \in {"open", "listen"} \/ (Step.op = "make" /\ Step.what # "http") THEN held \union {Step.what} ELSE held
    /\ live'   = IF Step.op \in {"open", "start", "listen", "boot"} THEN live \union {Step.what} ELSE live
    /\ booted' = IF Step.op = "boot" THEN Append(booted, Step.what) ELSE booted
    /\ kernel' = IF Step.op = "boot" THEN "booting" ELSE IF Step.op = "listen" THEN "ready" ELSE kernel
    /\ UNCHANGED <<call, stopper, leaked, beside>>

BootStep ==
    /\ Booting
    /\ bootStep' = bootStep + 1
    /\ held'   = IF Step.op \in {"open", "make"} THEN held \union {Step.what} ELSE held
    /\ live'   = IF Step.op \in {"open", "start", "listen", "boot"} THEN live \union {Step.what} ELSE live
    /\ booted' = IF Step.op = "boot" THEN Append(booted, Step.what) ELSE booted
    /\ kernel' = IF Step.op = "boot" THEN "booting" ELSE IF Step.op = "listen" THEN "ready" ELSE kernel
    /\ UNCHANGED <<call, stopper, leaked, beside>>

\* A step fails, or what comes before it (the migrations, the secret key, the
\* server's factory); part of what it starts may live already: #gracefulAbort.
BootFails(part) ==
    /\ Booting
    /\ part => Step.op \in {"start", "listen"}
    /\ live' = IF part THEN live \union {Step.what} ELSE live
    /\ beside' = (beside \/ kernel = "stopping")
    /\ StopFrom(Boot, 1, held)
    /\ UNCHANGED <<held, leaked>>

-----------------------------------------------------------------------------
(* Shutdown *)

Call1(c, pc) == call' = [call EXCEPT ![c] = pc]

\* #drain begins with the hook and the event of the shutdown.
DrainBegins(c) ==
    /\ kernel' = "stopping"
    /\ Call1(c, "drains")
    /\ Stop1(c, [NotStopping EXCEPT !.at = "hooks", !.next = 1])
    /\ beside' = (beside \/ stopper[Boot] # NotStopping)

DrainHooked(c) ==
    /\ stopper[c].at = "hooks"
    /\ StopFrom(c, 1, held)
    /\ UNCHANGED <<held, live, leaked, beside>>

Shutdown(c) ==
    /\ call[c] = "none"
    /\ CASE kernel \in {"stopping", "stopped"} ->
              Call1(c, "returned") /\ UNCHANGED <<kernel, stopper, beside>>
         [] kernel \in {"registering", "booting"} ->
              Call1(c, "waits") /\ UNCHANGED <<kernel, stopper, beside>>
         [] kernel = "created" ->
              Call1(c, "returned") /\ kernel' = "stopped" /\ UNCHANGED <<stopper, beside>>
         [] kernel = "ready" -> DrainBegins(c)
    /\ UNCHANGED <<bootStep, booted, held, live, leaked>>

\* Boot has settled.
ShutdownGoesOn(c) ==
    /\ call[c] = "waits" /\ bootStep = BootEnd
    /\ IF kernel \in {"stopping", "stopped"}
         THEN Call1(c, "returned") /\ UNCHANGED <<kernel, stopper, beside>>
         ELSE DrainBegins(c)
    /\ UNCHANGED <<bootStep, booted, held, live, leaked>>

LifeNext ==
    \/ BootBegins \/ BootStep \/ \E part \in BOOLEAN : BootFails(part)
    \/ \E c \in Callers : Shutdown(c) \/ ShutdownGoesOn(c) \/ DrainHooked(c)
    \/ \E s \in Stoppers, ok \in BOOLEAN : FieldStopped(s, ok) \/ ProviderStopped(s, ok)

LifeSpec == LifeInit /\ [][LifeNext]_lifeVars

-----------------------------------------------------------------------------
(* Properties *)

Things == ToSet(StopOrder) \union ToSet(Providers)

\* Every variable keeps its type.
LifeTypeOK ==
    /\ kernel \in {"created", "registering", "booting", "ready", "stopping", "stopped"}
    /\ bootStep \in 0..BootEnd
    /\ IsPrefix(booted, Providers)
    /\ held \subseteq ToSet(StopOrder) /\ live \subseteq Things /\ leaked \subseteq Things
    /\ call \in [Callers -> {"none", "waits", "drains", "returned"}]
    /\ \A s \in Stoppers : stopper[s].at \in Things \union {"nothing", "hooks"}
    /\ beside \in BOOLEAN

Remains(x) == x \in live \ leaked

\* However far boot has come when it fails or is to end, and whoever asks for
\* it, nothing that was started outlives the stop, save what fails to stop; and
\* nothing is stopped before all those ahead of it in the list, which use it
\* -- unless boot gives up beside a shutdown.
StopsInOrder ==
    ~beside =>
        /\ kernel = "stopped" => \A x \in Things : ~Remains(x)
        /\ \A s \in Stoppers : \A i \in DOMAIN StopOrder :
             stopper[s].at \notin {"nothing", "hooks"} /\ Remains(StopOrder[i]) =>
                 i >= stopper[s].next - 1 /\ stopper[s].at \notin ToSet(Providers)
        /\ \A s \in Stoppers : \A i, j \in DOMAIN Providers :
             stopper[s].at = Providers[i] /\ i < j => ~Remains(Providers[j])

=============================================================================
