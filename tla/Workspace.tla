------------------------------ MODULE Workspace ------------------------------
(***************************************************************************)
(* The workspace of a conversation (kernel/workspace/service.ts, and of    *)
(* agents/session.ts the sessions below other sessions).                   *)
(*                                                                         *)
(* A session may have a session for its parent.  Files belong to the root: *)
(* a request for any scope, a session or a subagent, follows the parents   *)
(* one row at a time, while sessions are deleted.  Whoever spawns a        *)
(* subagent gives it no session of origin (mcp/system-tools.ts             *)
(* subagent_spawn, api/subagents.ts), so that its way ends at the main     *)
(* session; what a session of origin would do is left out, and so are the  *)
(* paths within a workspace.                                               *)
(***************************************************************************)
EXTENDS Naturals, FiniteSets

CONSTANTS
    MaxScopes,  \* bound on sessions and subagents, numbered as they appear
    Visits,     \* requests
    MaxHops     \* MAX_CHAIN_DEPTH

WorkspaceAssumption == MaxScopes \in Nat /\ MaxHops \in Nat \ {0}

Scopes == 1 .. MaxScopes

VARIABLES
    row,        \* rows of agent_sessions and subagents
    files,      \* workspaces under dataDir: the scopes that files were written for
    visit,      \* requests
    tree        \* history: of every scope there was, its root, all on the way to it and
                \* whether it has been deleted

workspaceVars == <<row, files, visit, tree>>

None  == 0
NoRow == [kind |-> "none"]
Unborn == [there |-> FALSE]

WorkspaceInit ==
    /\ row = [s \in Scopes |-> NoRow]
    /\ files = [s \in Scopes |-> {}]
    /\ visit = [v \in Visits |-> [pc |-> "idle"]]
    /\ tree = [s \in Scopes |-> Unborn]

Fresh          == Cardinality({s \in Scopes : tree[s].there}) + 1
Is(s, kind)    == row[s].kind = kind
Under(p, kind) == IF p = None THEN TRUE ELSE Is(p, kind)
Go(v, rec)  == visit' = [visit EXCEPT ![v] = rec]
At(v, pc)   == visit[v].pc = pc
Grows(s, up) ==
    tree' = [tree EXCEPT ![s] = [there |-> TRUE, gone |-> FALSE,
                root  |-> IF up = None THEN s ELSE tree[up].root,
                above |-> {s} \union IF up = None THEN {} ELSE tree[up].above]]

-----------------------------------------------------------------------------
(* sessions and subagents come and go *)

\* createSession: the parent is looked for, then the row inserted.
CreateAsks(v, p) ==
    /\ At(v, "idle") /\ Under(p, "session")
    /\ Go(v, [pc |-> "create", up |-> p])
    /\ UNCHANGED <<row, files, tree>>

Creates(v) ==
    /\ At(v, "create") /\ Fresh \in Scopes
    /\ row' = [row EXCEPT ![Fresh] = [kind |-> "session", up |-> visit[v].up]]
    /\ Grows(Fresh, visit[v].up)
    /\ Go(v, [pc |-> "idle"])
    /\ UNCHANGED files

\* A subagent is one of the main session, or of another subagent.
Spawns(p) ==
    /\ Fresh \in Scopes /\ Under(p, "subagent")
    /\ row' = [row EXCEPT ![Fresh] = [kind |-> "subagent", up |-> p]]
    /\ Grows(Fresh, p)
    /\ UNCHANGED <<files, visit>>

\* The row goes; those of its children and its files stay.
Deletes(s) ==
    /\ Is(s, "session")
    /\ row' = [row EXCEPT ![s] = NoRow]
    /\ tree' = [tree EXCEPT ![s].gone = TRUE]
    /\ UNCHANGED <<files, visit>>

-----------------------------------------------------------------------------
(* resolve, and the operation on the files, which follows at once *)

Visiting(v, s, write) ==
    /\ At(v, "idle") /\ tree[s].there
    /\ Go(v, [pc |-> "session", of |-> s, at |-> s, hops |-> 1, write |-> write])
    /\ UNCHANGED <<row, files, tree>>

Ends(v, how) == Go(v, [pc |-> how, of |-> visit[v].of, at |-> visit[v].at])

\* Slip: where there is no parent the workspace is here.
ClimbsHere(v) ==
    LET at == visit[v].at
        up == row[at].up
    IN  IF visit[v].hops = MaxHops THEN Ends(v, "deep")
        ELSE IF Is(up, "none") THEN Go(v, [visit[v] EXCEPT !.pc = "root"])
        ELSE Go(v, [visit[v] EXCEPT !.pc = "session", !.at = up, !.hops = @ + 1])

\* The next turn of the loop.  A scope would be met twice only in a cycle, and a parent
\* is always older.
Climbs(v) ==
    IF visit[v].hops = MaxHops THEN Ends(v, "deep")
    ELSE Go(v, [visit[v] EXCEPT !.pc = "session", !.at = row[visit[v].at].up, !.hops = @ + 1])

FindsSession(v) ==
    /\ At(v, "session")
    /\ LET r == row[visit[v].at] IN
       CASE r.kind = "session" /\ r.up = None -> Go(v, [visit[v] EXCEPT !.pc = "root"])
         [] r.kind = "session"                -> Climbs(v)
         [] OTHER                             -> Go(v, [visit[v] EXCEPT !.pc = "subagent"])
    /\ UNCHANGED <<row, files, tree>>

FindsSubagent(v) ==
    /\ At(v, "subagent")
    /\ LET r == row[visit[v].at] IN
       IF r.kind = "subagent" /\ r.up # None THEN Climbs(v) ELSE Ends(v, "missing")
    /\ UNCHANGED <<row, files, tree>>

\* Of what follows only writing makes the directory; the row of the root may be gone.
Operates(v) ==
    /\ At(v, "root")
    /\ files' = IF visit[v].write THEN [files EXCEPT ![visit[v].at] = @ \union {visit[v].of}] ELSE files
    /\ Ends(v, "found")
    /\ UNCHANGED <<row, tree>>

Answered(v) ==
    /\ visit[v].pc \in {"found", "deep", "missing"}
    /\ Go(v, [pc |-> "idle"])
    /\ UNCHANGED <<row, files, tree>>

WorkspaceNext ==
    \/ \E v \in Visits :
        \/ \E p \in Scopes \union {None} : CreateAsks(v, p)
        \/ \E s \in Scopes, write \in BOOLEAN : Visiting(v, s, write)
        \/ Creates(v) \/ FindsSession(v) \/ FindsSubagent(v) \/ Operates(v) \/ Answered(v)
    \/ \E p \in Scopes \union {None} : Spawns(p)
    \/ \E s \in Scopes : Deletes(s)

WorkspaceSpec == WorkspaceInit /\ [][WorkspaceNext]_workspaceVars
-----------------------------------------------------------------------------
\* Every variable stays within its type.
WorkspaceTypeOK ==
    /\ \A s \in Scopes : row[s].kind \in {"none", "session", "subagent"} /\ files[s] \subseteq Scopes
    /\ \A v \in Visits : visit[v].pc \in {"idle", "create", "session", "subagent", "root",
                                          "found", "deep", "missing"}

\* However sessions are deleted under a request, it ends in the workspace of the root its
\* scope has always had, or nowhere: only if the scope or one above it has been deleted,
\* if it is a subagent, or if there are as many above it as the limit.  A root holds only
\* files written for scopes of its own.
WorkspaceKept ==
    /\ \A v \in Visits :
        LET s == visit[v].of IN
        CASE At(v, "found")   -> visit[v].at = tree[s].root
          [] At(v, "missing") -> (\E a \in tree[s].above : tree[a].gone) \/ Is(s, "subagent")
          [] At(v, "deep")    -> Cardinality(tree[s].above) > MaxHops
          [] OTHER            -> TRUE
    /\ \A r \in Scopes : \A s \in files[r] : tree[s].root = r
=============================================================================
