------------------------------- MODULE Browser -------------------------------
(***************************************************************************)
(* The browser engine (kernel/browser/engine.ts): one browser for every    *)
(* caller, operations one after the other, a restart after a crash, an     *)
(* idle timer, the installation in the background and the stop.            *)
(*                                                                         *)
(* The queue orders operations only: the idle timer and the stop close the *)
(* browser beside it.  Closing takes what it closes out of the engine      *)
(* first and then waits for it.                                            *)
(***************************************************************************)
EXTENDS Naturals, Sequences, FiniteSets

CONSTANTS
    Acts,         \* calls: navigate, click, ..., close
    QueueLimit,   \* calls waiting or under way
    MaxLaunches   \* bound: browsers ever launched

BrowserAssumption ==
    /\ IsFiniteSet(Acts) /\ QueueLimit \in Nat \ {0} /\ MaxLaunches \in Nat

NoBrowser == 0

VARIABLES
    act,        \* calls: where they are, and the browser they use or close
    line,       \* the chain of calls, the first one is served
    held,       \* #browser and #page
    browsers,   \* browsers: "none", "up", "closing", "gone"
    launched,   \* how many there were
    idleTimer,  \* #idleTimer is armed
    stopped,    \* #stopped
    installer,  \* the installation: "absent", "running", "installed"
    orphans     \* history: browsers that came up where nobody was left to close them

browserVars == <<act, line, held, browsers, launched, idleTimer, stopped, installer, orphans>>

BrowserInit ==
    /\ act       = [a \in Acts |-> [pc |-> "new"]]
    /\ line      = <<>>
    /\ held      = NoBrowser
    /\ browsers  = [b \in 1 .. MaxLaunches |-> "none"]
    /\ launched  = 0
    /\ idleTimer = FALSE
    /\ stopped   = FALSE
    /\ installer \in {"absent", "installed"}
    /\ orphans   = {}

ActGo(a, rec) == act' = [act EXCEPT ![a] = rec]
Serving(a)    == line # <<>> /\ Head(line) = a
Alive         == held # NoBrowser /\ browsers[held] = "up"
Pending       == Len(line)

-----------------------------------------------------------------------------
(* #enqueue *)

Enqueue(a, last) ==
    /\ act[a].pc = "new"
    /\ IF Pending >= QueueLimit
       THEN ActGo(a, [pc |-> "busy"]) /\ UNCHANGED line
       ELSE ActGo(a, [pc |-> "waits", closes |-> last, again |-> FALSE]) /\ line' = Append(line, a)
    /\ UNCHANGED <<held, browsers, launched, idleTimer, stopped, installer, orphans>>

\* #teardown up to its first await: what was held is closed by the caller.
TakeOut ==
    /\ held' = NoBrowser
    /\ browsers' = [b \in DOMAIN browsers |->
                       IF b = held /\ browsers[b] = "up" THEN "closing" ELSE browsers[b]]

Using(a, pc)      == [act[a] EXCEPT !.pc = pc]
Waiting(a, pc, b) == [closes |-> act[a].closes, again |-> act[a].again, pc |-> pc, closed |-> b]

\* #ensurePage: a live page is used, else the remains are cleared first.
EnsurePage(a) ==
    IF Alive
    THEN ActGo(a, Using(a, "run")) /\ UNCHANGED <<held, browsers>>
    ELSE ActGo(a, Waiting(a, "cleared", held)) /\ TakeOut

\* The call and its answer; #armIdleTimer.
LeaveAs(a, pc) ==
    /\ ActGo(a, [pc |-> pc])
    /\ line' = Tail(line)
    /\ idleTimer' = (~stopped /\ Alive)

Serve(a) ==
    /\ Serving(a) /\ act[a].pc = "waits"
    /\ IF stopped
       THEN LeaveAs(a, "failed") /\ UNCHANGED <<held, browsers>>
       ELSE EnsurePage(a) /\ UNCHANGED <<line, idleTimer>>
    /\ UNCHANGED <<launched, stopped, installer, orphans>>

Closed(b) == b # NoBrowser => browsers[b] = "gone"

Launch(a) ==
    /\ act[a].pc = "cleared" /\ Closed(act[a].closed)
    /\ IF installer = "installed"
       THEN /\ launched < MaxLaunches
            /\ launched' = launched + 1
            /\ browsers' = [browsers EXCEPT ![launched + 1] = "up"]
            /\ ActGo(a, Waiting(a, "page", launched + 1))
            /\ UNCHANGED <<line, idleTimer>>
       ELSE LeaveAs(a, "failed") /\ UNCHANGED <<launched, browsers>>
    /\ UNCHANGED <<held, stopped, installer, orphans>>

LaunchFails(a) ==
    /\ act[a].pc = "cleared" /\ Closed(act[a].closed)
    /\ LeaveAs(a, "failed")
    /\ UNCHANGED <<held, browsers, launched, stopped, installer, orphans>>

\* newPage; nobody looks whether the engine was stopped meanwhile.
PageMade(a) ==
    /\ act[a].pc = "page" /\ browsers[act[a].closed] = "up"
    /\ held' = act[a].closed
    /\ orphans' = IF stopped THEN orphans \union {act[a].closed} ELSE orphans
    /\ ActGo(a, Using(a, "run"))
    /\ UNCHANGED <<line, browsers, launched, idleTimer, stopped, installer>>

\* The browser stays open, and no one knows it.
PageFails(a) ==
    /\ act[a].pc = "page"
    /\ orphans' = orphans \union {act[a].closed}
    /\ LeaveAs(a, "failed")
    /\ UNCHANGED <<held, browsers, launched, stopped, installer>>

-----------------------------------------------------------------------------
(* the call itself *)

ActDone(a) ==
    /\ act[a].pc = "run" /\ ~act[a].closes
    /\ LeaveAs(a, "done")
    /\ UNCHANGED <<held, browsers, launched, stopped, installer, orphans>>

ActRefused(a) ==
    /\ act[a].pc = "run" /\ ~act[a].closes
    /\ LeaveAs(a, "failed")
    /\ UNCHANGED <<held, browsers, launched, stopped, installer, orphans>>

\* The call finds the browser closed: once, another one is launched for it.
ActCrashes(a) ==
    /\ act[a].pc = "run" /\ ~act[a].closes /\ ~Alive
    /\ IF act[a].again
       THEN LeaveAs(a, "failed") /\ UNCHANGED <<held, browsers>>
       ELSE /\ TakeOut
            /\ act' = [act EXCEPT ![a] = [Waiting(a, "torn", held) EXCEPT !.again = TRUE]]
            /\ UNCHANGED <<line, idleTimer>>
    /\ UNCHANGED <<launched, stopped, installer, orphans>>

TryAgain(a) ==
    /\ act[a].pc = "torn" /\ Closed(act[a].closed)
    /\ EnsurePage(a)
    /\ UNCHANGED <<line, launched, idleTimer, stopped, installer, orphans>>

CloseBegins(a) ==
    /\ act[a].pc = "run" /\ act[a].closes
    /\ TakeOut
    /\ ActGo(a, Waiting(a, "shut", held))
    /\ UNCHANGED <<line, launched, idleTimer, stopped, installer, orphans>>

CloseEnds(a) ==
    /\ act[a].pc = "shut" /\ Closed(act[a].closed)
    /\ LeaveAs(a, "done")
    /\ UNCHANGED <<held, browsers, launched, stopped, installer, orphans>>

-----------------------------------------------------------------------------
(* beside the queue *)

\* A browser dies, or has closed itself as it was told.
BrowserGone(b) ==
    /\ browsers[b] \in {"up", "closing"}
    /\ browsers' = [browsers EXCEPT ![b] = "gone"]
    /\ UNCHANGED <<act, line, held, launched, idleTimer, stopped, installer, orphans>>

\* Slip: the timer forgets the browser and does not close it.
IdleForgets ==
    /\ idleTimer
    /\ idleTimer' = FALSE
    /\ IF Alive THEN held' = NoBrowser /\ UNCHANGED browsers ELSE UNCHANGED <<held, browsers>>
    /\ UNCHANGED <<act, line, launched, stopped, installer, orphans>>

IdleCloses ==
    /\ idleTimer
    /\ idleTimer' = FALSE
    /\ IF Pending = 0 /\ Alive THEN TakeOut ELSE UNCHANGED <<held, browsers>>
    /\ UNCHANGED <<act, line, launched, stopped, installer, orphans>>

\* What is launching comes up afterwards, and what is under way tries again.
StopEngine ==
    /\ ~stopped
    /\ stopped'   = TRUE
    /\ idleTimer' = FALSE
    /\ TakeOut
    /\ installer' = IF installer = "running" THEN "absent" ELSE installer
    /\ UNCHANGED <<act, line, launched, orphans>>

Install ==
    /\ installer = "absent"
    /\ installer' = "running"
    /\ UNCHANGED <<act, line, held, browsers, launched, idleTimer, stopped, orphans>>

InstallEnds(ok) ==
    /\ installer = "running"
    /\ installer' = IF ok THEN "installed" ELSE "absent"
    /\ UNCHANGED <<act, line, held, browsers, launched, idleTimer, stopped, orphans>>

BrowserNext ==
    \/ \E a \in Acts :
          \/ \E last \in BOOLEAN : Enqueue(a, last)
          \/ Serve(a) \/ Launch(a) \/ LaunchFails(a) \/ PageMade(a) \/ PageFails(a)
          \/ ActDone(a) \/ ActRefused(a) \/ ActCrashes(a) \/ TryAgain(a)
          \/ CloseBegins(a) \/ CloseEnds(a)
    \/ \E b \in 1 .. launched : BrowserGone(b)
    \/ IdleCloses \/ StopEngine \/ Install \/ \E ok \in BOOLEAN : InstallEnds(ok)

BrowserSpec == BrowserInit /\ [][BrowserNext]_browserVars

-----------------------------------------------------------------------------
\* What a variable may hold; no more calls wait than may.
BrowserTypeOK ==
    /\ held \in 0 .. launched /\ launched \in 0 .. MaxLaunches
    /\ browsers \in [1 .. MaxLaunches -> {"none", "up", "closing", "gone"}]
    /\ line \in Seq(Acts) /\ Pending <= QueueLimit
    /\ {idleTimer, stopped} \subseteq BOOLEAN /\ orphans \subseteq 1 .. launched
    /\ installer \in {"absent", "running", "installed"}

\* Only the call at the head of the queue is beyond waiting, and it alone uses a
\* browser.  An open browser is the one the engine holds, one being closed or the
\* one this call is opening, except where a page could not be made or the engine
\* was stopped during the launch.  A browser that nobody uses has its timer, and
\* after the stop none is held but such a one.  (#enqueue, #ensurePage, #teardown,
\* #armIdleTimer, stop)
OneBrowser ==
    /\ \A a \in Acts : act[a].pc \notin {"new", "busy", "failed", "done", "waits"} => Serving(a)
    /\ \A b \in 1 .. launched : browsers[b] = "up" =>
          \/ b = held \/ b \in orphans
          \/ \E a \in Acts : act[a].pc = "page" /\ act[a].closed = b
    /\ line = <<>> /\ Alive /\ ~stopped => idleTimer
    /\ stopped /\ held # NoBrowser => held \in orphans

=============================================================================
