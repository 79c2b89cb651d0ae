------------------------------- MODULE Coding -------------------------------
(***************************************************************************)
(* The coding engine (kernel/coding/engine.ts): a directory for every      *)
(* session, one process in a session at a time, files of code that live    *)
(* as long as the run that needs them.                                     *)
(*                                                                         *)
(* Everything up to the start of the process is one synchronous step.  The *)
(* process leads a group, which the timeout signals; what leaves the group *)
(* may keep the output open, and with it the run.                          *)
(***************************************************************************)
EXTENDS Naturals, FiniteSets

CONSTANTS
    Spaces,    \* sessions
    CodeRuns,  \* calls of runInSession and runCode
    MaxWipes   \* bound: resets and deletions of a session

CodingAssumption == IsFiniteSet(Spaces) /\ IsFiniteSet(CodeRuns) /\ MaxWipes \in Nat

VARIABLES
    run,      \* calls
    busy,     \* #busy
    folder,   \* directories: whether they exist, and how often they were wiped
    scripts,  \* files of code, by the run that wrote them
    proc      \* processes: the group, what has left it, how far the timeout has come

codingVars == <<run, busy, folder, scripts, proc>>

NoProc == [group |-> FALSE, astray |-> FALSE, timeout |-> "none"]

CodingInit ==
    /\ run     = [r \in CodeRuns |-> [pc |-> "new"]]
    /\ busy    = {}
    /\ folder \in [Spaces -> [exists : BOOLEAN, wipes : {0}]]
    /\ scripts = {}
    /\ proc    = [r \in CodeRuns |-> NoProc]

RunGo(r, rec) == run' = [run EXCEPT ![r] = rec]
In(s)         == {r \in CodeRuns : run[r].pc = "up" /\ run[r].space = s}

\* ensureSession makes the directory, and forgets code that is a day old: no run
\* of this process lasts that long.
Ensured(s, own) ==
    folder' = IF own THEN [folder EXCEPT ![s].exists = TRUE] ELSE folder

Old == {r \in scripts : run[r].pc = "lost"}

\* runInSession, of a command or of code that has been written to a file; the
\* directory may be one of the host instead of the session's own.
Run(r, s, own, code) ==
    /\ run[r].pc = "new"
    /\ Ensured(s, own)
    /\ \E swept \in SUBSET Old :
          scripts' = (scripts \ swept) \union (IF code /\ s \notin busy THEN {r} ELSE {})
    /\ IF s \in busy
       THEN RunGo(r, [pc |-> "refused"]) /\ UNCHANGED <<busy, proc>>
       ELSE /\ busy' = busy \union {s}
            /\ RunGo(r, [pc |-> "up", space |-> s, own |-> own, code |-> code,
                         wipes |-> folder[s].wipes])
            /\ proc' = [proc EXCEPT ![r].group = TRUE]

\* Both ways out: the gate is opened and the file of code removed.
Settled(r, pc) ==
    /\ RunGo(r, [run[r] EXCEPT !.pc = pc])
    /\ busy'    = busy \ {run[r].space}
    /\ scripts' = scripts \ {r}

\* The command is not installed, or the process cannot be started.
SpawnFails(r) ==
    /\ run[r].pc = "up" /\ proc[r] = [NoProc EXCEPT !.group = TRUE]
    /\ proc' = [proc EXCEPT ![r] = NoProc]
    /\ Settled(r, "failed")
    /\ UNCHANGED folder

\* 'close' comes when nobody holds the output any more.
OutputClosed(r) ==
    /\ run[r].pc = "up" /\ ~proc[r].group /\ ~proc[r].astray
    /\ Settled(r, "answered")
    /\ UNCHANGED <<folder, proc>>

TimesOut(r) ==
    /\ run[r].pc = "up" /\ proc[r].timeout = "none"
    /\ proc' = [proc EXCEPT ![r].timeout = "term"]
    /\ UNCHANGED <<run, busy, folder, scripts>>

\* Slip: the leader is killed alone, the rest of the group goes on.
KillLeader(r) ==
    /\ run[r].pc = "up" /\ proc[r].timeout = "term"
    /\ proc' = [proc EXCEPT ![r].timeout = "kill"]
    /\ UNCHANGED <<run, busy, folder, scripts>>

\* A second later; the group is gone if the first signal was not enough.
KillTree(r) ==
    /\ run[r].pc = "up" /\ proc[r].timeout = "term"
    /\ proc' = [proc EXCEPT ![r].timeout = "kill", ![r].group = FALSE]
    /\ UNCHANGED <<run, busy, folder, scripts>>

\* The processes themselves.
Strays(r) ==
    /\ proc[r].group /\ ~proc[r].astray
    /\ proc' = [proc EXCEPT ![r].astray = TRUE]
    /\ UNCHANGED <<run, busy, folder, scripts>>

GroupEnds(r) ==
    /\ proc[r].group
    /\ proc' = [proc EXCEPT ![r].group = FALSE]
    /\ UNCHANGED <<run, busy, folder, scripts>>

StrayEnds(r) ==
    /\ proc[r].astray
    /\ proc' = [proc EXCEPT ![r].astray = FALSE]
    /\ UNCHANGED <<run, busy, folder, scripts>>

\* fsWrite, fsRead and fsList: the directory is there afterwards, whoever runs in it.
UseFiles(s) ==
    /\ folder[s].exists = FALSE
    /\ Ensured(s, TRUE)
    /\ UNCHANGED <<run, busy, scripts, proc>>

\* Slip: the gate is not looked at.
WipeAnyway(s, then) ==
    /\ folder[s].wipes < MaxWipes /\ folder[s].exists
    /\ folder'  = [folder EXCEPT ![s] = [exists |-> then, wipes |-> @.wipes + 1]]
    /\ scripts' = {r \in scripts : run[r].space # s \/ ~run[r].own}
    /\ UNCHANGED <<run, busy, proc>>

\* resetSession makes the directory again, deleteSession does not.
Wipe(s, then) ==
    /\ folder[s].wipes < MaxWipes /\ s \notin busy
    /\ then \/ folder[s].exists
    /\ folder'  = [folder EXCEPT ![s] = [exists |-> then, wipes |-> @.wipes + 1]]
    /\ scripts' = {r \in scripts : run[r].space # s \/ ~run[r].own}
    /\ UNCHANGED <<run, busy, proc>>

\* The kernel ends; the groups of its processes do not.
KernelEnds ==
    /\ \E r \in CodeRuns : run[r].pc = "up"
    /\ run'  = [r \in CodeRuns |-> IF run[r].pc = "up" THEN [run[r] EXCEPT !.pc = "lost"] ELSE run[r]]
    /\ busy' = {}
    /\ UNCHANGED <<folder, scripts, proc>>

CodingNext ==
    \/ \E r \in CodeRuns :
          \/ \E s \in Spaces, own \in BOOLEAN, code \in BOOLEAN : Run(r, s, own, code)
          \/ SpawnFails(r) \/ OutputClosed(r) \/ TimesOut(r) \/ KillTree(r)
          \/ Strays(r) \/ GroupEnds(r) \/ StrayEnds(r)
    \/ \E s \in Spaces : UseFiles(s) \/ \E then \in BOOLEAN : Wipe(s, then)
    \/ KernelEnds

CodingSpec == CodingInit /\ [][CodingNext]_codingVars

-----------------------------------------------------------------------------
\* What a variable may hold.
CodingTypeOK ==
    /\ \A r \in CodeRuns : run[r].pc \in {"new", "refused", "up", "failed", "answered", "lost"}
    /\ busy \subseteq Spaces /\ scripts \subseteq CodeRuns
    /\ folder \in [Spaces -> [exists : BOOLEAN, wipes : 0 .. MaxWipes]]
    /\ proc \in [CodeRuns -> [group : BOOLEAN, astray : BOOLEAN, timeout : {"none", "term", "kill"}]]

\* The gate of a session is closed exactly while one run of it is under way, and
\* processes outlive their run only when the kernel ended first.  Under a run its
\* directory is neither emptied nor deleted and its file of code stays; nothing of
\* either remains when it has ended.  A run that was killed is held up by nothing
\* but what has left its group.  (runInSession, runCode, resetSession, deleteSession)
OneProcess ==
    /\ \A s \in Spaces : Cardinality(In(s)) <= 1 /\ (s \in busy) = (In(s) # {})
    /\ \A r \in CodeRuns :
         /\ proc[r].group \/ proc[r].astray => run[r].pc \in {"up", "lost"}
         /\ run[r].pc = "up" =>
              /\ run[r].own => folder[run[r].space] = [exists |-> TRUE, wipes |-> run[r].wipes]
              /\ run[r].code => r \in scripts
              /\ proc[r].timeout = "kill" => ~proc[r].group
         /\ r \in scripts => run[r].pc \in {"up", "lost"}

=============================================================================
