------------------------------ MODULE ExtRoutes ------------------------------
(***************************************************************************)
(* The route table of one extension (src/kernel/extensions/routes.ts): its *)
(* changes, which wait for the requests that are being served, and the     *)
(* requests, which look the table up before the await of their             *)
(* authentication.  Extensions share nothing here.                         *)
(***************************************************************************)
EXTENDS Naturals, FiniteSets

CONSTANTS
    Visits,        \* requests that are under way at a time
    MaxConcurrent, \* maxConcurrentPerExt
    MaxChanges     \* bound: commits and removals

ASSUME RoutesAssumption ==
    IsFiniteSet(Visits) /\ MaxConcurrent \in Nat \ {0} /\ MaxChanges \in Nat

VARIABLES
    table,      \* tables: number and auth of the route committed, or NoTable
    draining,   \* the extension is in #draining
    drains,     \* changes that wait in drainThenSwap
    inflight,   \* inflight
    visit,      \* progress of the requests
    (* history *)
    wanted,     \* the table asked for last
    changes,    \* number of commits and removals
    overtaken   \* a change was asked for while another one waited

routesVars == <<table, draining, drains, inflight, visit, wanted, changes, overtaken>>

Auths   == {"public", "user", "admin"}
NoTable == [number |-> 0, auth |-> "public"]
Tables  == [number : 0..MaxChanges, auth : Auths]
NoVisit == [pc |-> "idle", entry |-> NoTable]

RoutesInit ==
    /\ table = NoTable /\ draining = FALSE /\ drains = {}
    /\ inflight = 0 /\ visit = [v \in Visits |-> NoVisit]
    /\ wanted = NoTable /\ changes = 0 /\ overtaken = FALSE

-----------------------------------------------------------------------------
(* Changes of the table *)

\* drainThenSwap: at once when nothing is served, else the swap waits.
DrainThenSwap(t) ==
    /\ changes < MaxChanges
    /\ changes' = changes + 1
    /\ wanted' = t
    /\ overtaken' = (overtaken \/ drains # {})
    /\ IF inflight = 0
         THEN table' = t /\ UNCHANGED <<draining, drains>>
         ELSE /\ draining' = TRUE
              /\ drains' = drains \union {[id |-> changes', to |-> t, late |-> FALSE]}
              /\ UNCHANGED table
    /\ UNCHANGED <<inflight, visit>>

CommitRoutes(auth) == DrainThenSwap([number |-> changes + 1, auth |-> auth])
RemoveRoutes       == DrainThenSwap(NoTable)

\* Five seconds have gone by.
DrainLate(d) ==
    /\ d \in drains /\ ~d.late
    /\ drains' = (drains \ {d}) \union {[d EXCEPT !.late = TRUE]}
    /\ UNCHANGED <<table, draining, inflight, visit, wanted, changes, overtaken>>

\* Slip: a drain that was too slow is given up.
PollGivesUp(d) ==
    /\ d \in drains /\ (inflight = 0 \/ d.late)
    /\ drains' = drains \ {d}
    /\ draining' = FALSE
    /\ table' = IF inflight = 0 THEN d.to ELSE table
    /\ UNCHANGED <<inflight, visit, wanted, changes, overtaken>>

\* poll finds nothing served any more, or the deadline behind it.
Poll(d) ==
    /\ d \in drains /\ (inflight = 0 \/ d.late)
    /\ drains' = drains \ {d}
    /\ draining' = FALSE
    /\ table' = d.to
    /\ UNCHANGED <<inflight, visit, wanted, changes, overtaken>>

-----------------------------------------------------------------------------
(* Requests *)

Visit(v, pc, entry) == visit' = [visit EXCEPT ![v] = [pc |-> pc, entry |-> entry]]

\* The gate, and dispatch in the same stretch.
Dispatch(v, entry) ==
    IF inflight >= MaxConcurrent
    THEN Visit(v, "idle", NoTable) /\ UNCHANGED inflight
    ELSE Visit(v, "served", entry) /\ inflight' = inflight + 1

\* handleExtRequest finds a route; a public one is dispatched at once.  A
\* request that finds none, or the extension draining, is refused here.
Arrive(v) ==
    /\ visit[v].pc = "idle"
    /\ table # NoTable /\ ~draining
    /\ IF table.auth = "public"
         THEN Dispatch(v, table)
         ELSE Visit(v, "auth", table) /\ UNCHANGED inflight
    /\ UNCHANGED <<table, draining, drains, wanted, changes, overtaken>>

\* The checker answers with a role, or with null ("nobody").
Authenticated(v, role) ==
    /\ visit[v].pc = "auth"
    /\ IF role = "admin" \/ (role = "normal" /\ visit[v].entry.auth = "user")
         THEN Dispatch(v, visit[v].entry)
         ELSE Visit(v, "idle", NoTable) /\ UNCHANGED inflight
    /\ UNCHANGED <<table, draining, drains, wanted, changes, overtaken>>

\* The worker has answered, or the dispatch has timed out.
Replied(v) ==
    /\ visit[v].pc = "served"
    /\ inflight' = IF inflight = 0 THEN 0 ELSE inflight - 1
    /\ Visit(v, "idle", NoTable)
    /\ UNCHANGED <<table, draining, drains, wanted, changes, overtaken>>

RoutesNext ==
    \/ \E a \in Auths : CommitRoutes(a)
    \/ RemoveRoutes
    \/ \E d \in drains : DrainLate(d) \/ Poll(d)
    \/ \E v \in Visits :
         \/ Arrive(v) \/ Replied(v)
         \/ \E role \in {"admin", "normal", "nobody"} : Authenticated(v, role)

RoutesSpec == RoutesInit /\ [][RoutesNext]_routesVars

-----------------------------------------------------------------------------
(* Properties *)

Served == {v \in Visits : visit[v].pc = "served"}

\* Every variable keeps its type, and the gate counts exactly what is served.
RoutesTypeOK ==
    /\ table \in Tables /\ wanted \in Tables
    /\ draining \in BOOLEAN /\ overtaken \in BOOLEAN
    /\ drains \subseteq [id : 1..MaxChanges, to : Tables, late : BOOLEAN]
    /\ visit \in [Visits -> [pc : {"idle", "auth", "served"}, entry : Tables]]
    /\ changes \in 0..MaxChanges
    /\ inflight = Cardinality(Served) /\ inflight <= MaxConcurrent

\* When no change waits any more, the extension is open again under the table
\* asked for last, however many requests were served and however long they
\* took -- unless a change overtook another one, which comes later and undoes it.
TableSettles ==
    drains = {} => ~draining /\ (~overtaken => table = wanted)

=============================================================================
