------------------------------- MODULE Catalog -------------------------------
(***************************************************************************)
(* One extension that administrators install, from its package to its row  *)
(* in the table (kernel/extensions/installer.ts, api/extensions.ts, and of *)
(* kernel/extensions/manager.ts start, rescan, enable, disable, reload,    *)
(* uninstall and the rows of the table).                                   *)
(*                                                                         *)
(* Installing and rescanning hold no lock; what changes the activation of  *)
(* the extension waits for its turn on the lock.  The directory is not one *)
(* the kernel trusts, so an administrator must confirm it once.  The       *)
(* worker and its failures are those of ExtHost: here a load may fail.     *)
(* The number of a version stands for the package, its manifest and code.  *)
(***************************************************************************)
EXTENDS Naturals, Sequences

CONSTANTS
    Packages,  \* versions
    Managers,  \* requests, one after the other
    MaxOrders  \* bound on the requests

CatalogAssumption == Packages \subseteq Nat \ {0} /\ MaxOrders \in Nat

VARIABLES
    dir,        \* the version under <dataDir>/extensions/<id>, 0 if none
    known,      \* the manifest in #discovered, 0 if none
    row,        \* its row in the table
    cached,     \* its row in #rowCache
    active,     \* rt.active: the manifest it was loaded with and the code that was loaded
    lock,       \* #locks: the requests that hold or await the lock
    order,      \* requests
    confirmed,  \* history: an administrator has confirmed it since it was last uninstalled
    astray,     \* history: renewed, the directory has changed under a manifest that was
                \* known; missed, a confirmation has met no row; late, it was uninstalled
                \* while a rescan was about to write its row; orphaned, the kernel started
                \* without the package of an extension that is enabled
    orders

catalogVars == <<dir, known, row, cached, active, lock, order, confirmed, astray, orders>>

NoRow    == [there |-> FALSE, version |-> 0, enabled |-> FALSE, trusted |-> FALSE]
Inactive == [manifest |-> 0, code |-> 0]
AtRest   == [pc |-> "idle"]

CatalogInit ==
    /\ dir = 0 /\ known = 0 /\ row = NoRow /\ cached = NoRow /\ active = Inactive
    /\ lock = <<>> /\ order = [a \in Managers |-> AtRest]
    /\ confirmed = FALSE /\ astray = {} /\ orders = 0

At(a, pc)  == order[a].pc = pc
Go(a, rec) == order' = [order EXCEPT ![a] = rec]
To(a, pc)  == Go(a, [order[a] EXCEPT !.pc = pc])
Rows       == <<row, cached>>
Histories  == <<confirmed, astray>>
Note(what, so) == astray' = IF so THEN astray \union {what} ELSE astray

New(a) == At(a, "idle") /\ orders < MaxOrders /\ orders' = orders + 1

-----------------------------------------------------------------------------
(* installExtensionZip *)

\* The package is unpacked and checked, and refused when one is there already.
InstallBegins(a, v, overwrite) ==
    /\ New(a) /\ (dir = 0 \/ overwrite)
    /\ Go(a, [pc |-> "staged", v |-> v, over |-> dir # 0])
    /\ UNCHANGED <<dir, known, Rows, active, lock, Histories>>

InstallClears(a) ==
    /\ At(a, "staged") /\ order[a].over
    /\ dir' = 0
    /\ Note("renewed", known # 0)
    /\ Go(a, [order[a] EXCEPT !.pc = "cleared", !.over = FALSE])
    /\ UNCHANGED <<known, Rows, active, lock, confirmed, orders>>

\* A directory that has come meanwhile is in the way.
InstallRenames(a) ==
    /\ order[a].pc \in {"staged", "cleared"} /\ ~order[a].over
    /\ IF dir = 0
       THEN /\ dir' = order[a].v
            /\ Note("renewed", known # 0)
            /\ Go(a, [pc |-> "scan"])
       ELSE /\ Go(a, AtRest)
            /\ UNCHANGED <<dir, astray>>
    /\ UNCHANGED <<known, Rows, active, lock, confirmed, orders>>

-----------------------------------------------------------------------------
(* rescan: a request, and onInstalled *)

RescanAsked(a) ==
    /\ New(a)
    /\ Go(a, [pc |-> "scan"])
    /\ UNCHANGED <<dir, known, Rows, active, lock, Histories>>

\* What is known already is passed over, whatever is in the directory by now.
Rescans(a) ==
    /\ At(a, "scan")
    /\ IF dir = 0 \/ known # 0
       THEN Go(a, AtRest) /\ UNCHANGED known
       ELSE Go(a, [pc |-> "look", v |-> dir]) /\ known' = dir
    /\ UNCHANGED <<dir, Rows, active, lock, Histories, orders>>

RescanLooks(a) ==
    /\ At(a, "look")
    /\ To(a, IF row.there THEN "refresh" ELSE "enter")
    /\ UNCHANGED <<dir, known, Rows, active, lock, Histories, orders>>

Entry(v, enabled) == [there |-> TRUE, version |-> v, enabled |-> enabled, trusted |-> FALSE]
\* A row, or its copy, that is not there is not updated.
Updated(r, patched) == IF r.there THEN patched ELSE r

\* #insertRow: a row that another has entered meanwhile is an error to the client.
RescanEnters(a) ==
    /\ At(a, "enter")
    /\ IF row.there THEN UNCHANGED Rows
                    ELSE row' = Entry(order[a].v, FALSE) /\ cached' = row'
    /\ Go(a, AtRest)
    /\ UNCHANGED <<dir, known, active, lock, Histories, orders>>

RescanRefreshes(a) ==
    /\ At(a, "refresh")
    /\ row'    = Updated(row, [row EXCEPT !.version = order[a].v])
    /\ cached' = Updated(cached, [cached EXCEPT !.version = order[a].v])
    /\ Go(a, AtRest)
    /\ UNCHANGED <<dir, known, active, lock, Histories, orders>>

-----------------------------------------------------------------------------
(* the lock *)

Kinds == {"enable", "confirm", "disable", "reload", "uninstall", "purge"}

Orders(a, kind) ==
    /\ New(a)
    /\ lock' = Append(lock, a)
    /\ Go(a, [pc |-> "turn", kind |-> kind])
    /\ UNCHANGED <<dir, known, Rows, active, Histories>>

HasTurn(a, pc) == At(a, pc) /\ Head(lock) = a
Leaves(a)      == Go(a, AtRest) /\ lock' = Tail(lock)

-----------------------------------------------------------------------------
(* #enableLocked *)

\* found, and the gate for extensions that the kernel does not trust: the copy of the
\* row first, then the row.
Enables(a) ==
    IF known = 0 \/ active # Inactive
    THEN Leaves(a)
    ELSE /\ Go(a, [pc |-> IF cached.trusted THEN "load" ELSE "gate", kind |-> order[a].kind, v |-> known])
         /\ UNCHANGED lock

EnableBegins(a) ==
    /\ HasTurn(a, "turn") /\ order[a].kind \in {"enable", "confirm"}
    /\ Enables(a)
    /\ UNCHANGED <<dir, known, Rows, active, Histories, orders>>

Gate(a) ==
    /\ HasTurn(a, "gate")
    /\ To(a, CASE row.trusted                  -> "load"
               [] order[a].kind = "confirm"    -> "trust"
               [] OTHER                        -> "fail")
    /\ UNCHANGED <<dir, known, Rows, active, lock, Histories, orders>>

\* The confirmation is stored before anything else, and nobody looks whether it was.
Trusts(a) ==
    /\ HasTurn(a, "trust")
    /\ row'    = Updated(row, [row EXCEPT !.trusted = TRUE])
    /\ cached' = Updated(cached, [cached EXCEPT !.trusted = TRUE])
    /\ confirmed' = TRUE
    /\ Note("missed", ~row.there \/ ~cached.there)
    /\ To(a, "load")
    /\ UNCHANGED <<dir, known, active, lock, orders>>

\* The worker reads the code from the directory; it is given the manifest that is known.
Loads(a) ==
    /\ HasTurn(a, "load") /\ dir # 0
    /\ Go(a, [pc |-> "write", kind |-> order[a].kind, v |-> order[a].v, code |-> dir])
    /\ UNCHANGED <<dir, known, Rows, active, lock, Histories, orders>>

LoadFails(a) ==
    /\ HasTurn(a, "load")
    /\ To(a, "fail")
    /\ UNCHANGED <<dir, known, Rows, active, lock, Histories, orders>>

Enabled(a) == order[a].pc \in {"write", "writeRow", "insertRow"}
Then(a)    == IF Enabled(a) THEN active' = [manifest |-> order[a].v, code |-> order[a].code]
                            ELSE UNCHANGED active

\* #writeRow: the copy says that there is a row, or a query does; recordFailure writes
\* in the same way that it is not enabled.
UpdatesRow(a) ==
    /\ HasTurn(a, "write") \/ HasTurn(a, "fail")
    /\ IF cached.there
       THEN /\ row'    = Updated(row, [row EXCEPT !.enabled = Enabled(a)])
            /\ cached' = [cached EXCEPT !.enabled = Enabled(a)]
            /\ Then(a)
            /\ Leaves(a)
       ELSE /\ To(a, CASE row.there /\ Enabled(a) -> "writeRow"
                       [] row.there               -> "failRow"
                       [] Enabled(a)              -> "insertRow"
                       [] OTHER                   -> "failInsert")
            /\ UNCHANGED <<Rows, active, lock>>
    /\ UNCHANGED <<dir, known, Histories, orders>>

WritesFound(a) ==
    /\ HasTurn(a, "writeRow") \/ HasTurn(a, "failRow")
    /\ row'    = Updated(row, [row EXCEPT !.enabled = Enabled(a)])
    /\ cached' = Updated(cached, [cached EXCEPT !.enabled = Enabled(a)])
    /\ Then(a) /\ Leaves(a)
    /\ UNCHANGED <<dir, known, Histories, orders>>

\* An insert that meets a row fails: an activation is rolled back and recorded as
\* failed, the record of a failure is given up.
InsertsRow(a) ==
    /\ HasTurn(a, "insertRow") \/ HasTurn(a, "failInsert")
    /\ IF row.there
       THEN /\ IF Enabled(a) THEN To(a, "fail") /\ UNCHANGED lock ELSE Leaves(a)
            /\ UNCHANGED <<Rows, active>>
       ELSE /\ row' = Entry(order[a].v, Enabled(a)) /\ cached' = row'
            /\ Then(a) /\ Leaves(a)
    /\ UNCHANGED <<dir, known, Histories, orders>>

-----------------------------------------------------------------------------
(* #disableLocked, reload, uninstall *)

\* What was committed is taken back and the worker told; of a reload, only what is
\* enabled.
DisableBegins(a) ==
    /\ HasTurn(a, "turn") /\ order[a].kind \in {"disable", "reload", "uninstall", "purge"}
    /\ LET r == IF cached.there THEN cached ELSE row
       IN  IF order[a].kind = "reload" /\ ~r.enabled
           THEN Leaves(a) /\ UNCHANGED active
           ELSE active' = Inactive /\ To(a, "off") /\ UNCHANGED lock
    /\ UNCHANGED <<dir, known, Rows, Histories, orders>>

DisableEnds(a) ==
    /\ HasTurn(a, "off")
    /\ IF cached.there /\ cached.enabled
       THEN /\ row'    = Updated(row, [row EXCEPT !.enabled = FALSE])
            /\ cached' = [cached EXCEPT !.enabled = FALSE]
       ELSE UNCHANGED Rows
    /\ CASE order[a].kind = "reload"  -> Enables(a)
         [] order[a].kind = "disable" -> Leaves(a)
         [] OTHER                     -> To(a, "drop") /\ UNCHANGED lock
    /\ UNCHANGED <<dir, known, active, Histories, orders>>

Rescanning == \E b \in Managers : order[b].pc \in {"look", "enter", "refresh"}

\* Slip: the row stays, as the files do.
UninstallKeeps(a) ==
    /\ HasTurn(a, "drop")
    /\ row' = row /\ cached' = NoRow /\ known' = 0
    /\ dir' = IF order[a].kind = "purge" THEN 0 ELSE dir
    /\ confirmed' = FALSE
    /\ astray' = (astray \cap {"late"}) \union (IF Rescanning THEN {"late"} ELSE {})
    /\ Leaves(a)
    /\ UNCHANGED <<active, orders>>

\* The row goes, and with it the confirmation; the directory only with purge.
Uninstalls(a) ==
    /\ HasTurn(a, "drop")
    /\ row' = NoRow /\ cached' = NoRow /\ known' = 0
    /\ dir' = IF order[a].kind = "purge" THEN 0 ELSE dir
    /\ confirmed' = FALSE
    /\ astray' = (astray \cap {"late"}) \union (IF Rescanning THEN {"late"} ELSE {})
    /\ Leaves(a)
    /\ UNCHANGED <<active, orders>>

-----------------------------------------------------------------------------
\* The process dies, and start() discovers everything anew, enters or refreshes the row
\* and enables what is enabled and confirmed, which may fail.
Restart(loads) ==
    LET base == IF dir = 0 THEN row
                ELSE IF row.there THEN [row EXCEPT !.version = dir] ELSE Entry(dir, FALSE)
        runs == loads /\ dir # 0 /\ base.enabled /\ base.trusted
    IN  /\ known'  = dir
        /\ row'    = [base EXCEPT !.enabled = IF dir = 0 THEN @ ELSE runs]
        /\ cached' = row'
        /\ active' = IF runs THEN [manifest |-> dir, code |-> dir] ELSE Inactive
        /\ lock' = <<>> /\ order' = [a \in Managers |-> AtRest]
        /\ astray' = IF dir = 0 /\ row.enabled THEN {"orphaned"} ELSE {}
        /\ UNCHANGED <<dir, confirmed, orders>>

CatalogNext ==
    \/ \E a \in Managers :
        \/ \E v \in Packages, o \in BOOLEAN : InstallBegins(a, v, o)
        \/ InstallClears(a) \/ InstallRenames(a)
        \/ RescanAsked(a) \/ Rescans(a) \/ RescanLooks(a) \/ RescanEnters(a) \/ RescanRefreshes(a)
        \/ \E k \in Kinds : Orders(a, k)
        \/ EnableBegins(a) \/ Gate(a) \/ Trusts(a) \/ Loads(a) \/ LoadFails(a)
        \/ UpdatesRow(a) \/ WritesFound(a) \/ InsertsRow(a)
        \/ DisableBegins(a) \/ DisableEnds(a) \/ Uninstalls(a)
    \/ \E loads \in BOOLEAN : Restart(loads)

CatalogSpec == CatalogInit /\ [][CatalogNext]_catalogVars

-----------------------------------------------------------------------------
\* Every variable stays within its type.
CatalogTypeOK ==
    /\ {dir, known} \subseteq Packages \union {0}
    /\ {row, cached} \subseteq [there : BOOLEAN, version : Packages \union {0},
                                enabled : BOOLEAN, trusted : BOOLEAN]
    /\ active \in [manifest : Packages \union {0}, code : Packages \union {0}]
    /\ Len(lock) <= MaxOrders /\ orders \in 0 .. MaxOrders
    /\ confirmed \in BOOLEAN /\ astray \subseteq {"renewed", "missed", "late", "orphaned"}

Quiet == \A a \in Managers : At(a, "idle")

\* The extension runs only if an administrator has confirmed it since it was last
\* uninstalled.  With no request under way the copy of its row is the row; if it is
\* known it has one, which says enabled iff it runs, unless the kernel started without
\* its package, and confirmed if it runs, so that a restart brings it back, unless the
\* confirmation met no row; and what runs, what is known, what the row says and what is in
\* the directory are one version, unless a package was put over a known one.
CatalogAgrees ==
    /\ active # Inactive => confirmed
    /\ Quiet => cached = row
    /\ Quiet /\ known # 0 => row.there
    /\ Quiet /\ known # 0 /\ "orphaned" \notin astray => (row.enabled <=> active # Inactive)
    /\ Quiet /\ active # Inactive /\ "missed" \notin astray => row.trusted
    /\ Quiet /\ known # 0 /\ "renewed" \notin astray =>
           /\ known = dir /\ active \in {Inactive, [manifest |-> dir, code |-> dir]}
           /\ row.version = dir \/ "late" \in astray
=============================================================================
