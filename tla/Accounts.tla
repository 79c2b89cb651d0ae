------------------------------ MODULE Accounts ------------------------------
(***************************************************************************)
(* The accounts of the auth extension (extensions/auth/index.js): users,   *)
(* their sessions and keys, the second factor every user has to bind, the  *)
(* first administrator and the recovery with the root token.               *)
(*                                                                         *)
(* A request reads what it needs and writes it some awaits later, one      *)
(* statement at a time; nothing excludes two requests.  A password is      *)
(* right or wrong, a secret is known by the generation of credentials it   *)
(* was bound in.                                                           *)
(***************************************************************************)
EXTENDS Integers, FiniteSets

CONSTANTS
    Accts,       \* ids of users; one that was deleted does not come back
    OwnerIds,    \* those of them with the name owner
    AuthOps,     \* requests under way
    Slots,       \* bound: sessions ever issued
    Tickets,     \* bound: tokens ever put into memory
    MaxResets,   \* bound: recoveries
    MaxAsked     \* bound: requests

ASSUME AccountsAssumption ==
    /\ IsFiniteSet(Accts) /\ OwnerIds \subseteq Accts /\ IsFiniteSet(AuthOps)
    /\ IsFiniteSet(Slots) /\ IsFiniteSet(Tickets) /\ MaxResets \in Nat /\ MaxAsked \in Nat

Root     == "root"
NoRow    == [user |-> "none"]
Spent    == [user |-> "spent"]
Resting  == [pc |-> "idle"]
Unbound  == [of |-> -1, late |-> FALSE]

VARIABLES
    role,       \* users: "none" before and "gone" after the row
    bound,      \* users.totp_secret: the generation of credentials it was bound in
    sessions,   \* rows of sessions
    keyRow,     \* rows of api_keys, one for a user
    tickets,    \* AUTH_MEM_TOKENS
    authOp,     \* requests
    asked,      \* how many there were
    generation, \* history: resets of a user's credentials
    headless,   \* history: two requests that make administrators fewer overlapped, or the
                \* root token made users before the first administrator
    cutOff      \* history: users whose recovery or deletion was not finished

accountsVars == <<role, bound, sessions, keyRow, tickets, authOp, asked, generation, headless, cutOff>>

Present     == {u \in Accts : role[u] \in {"admin", "normal"}}
Admins      == {u \in Accts : role[u] = "admin"}
Called(u, v) == u = v \/ {u, v} \subseteq OwnerIds
Named(u)     == {v \in Present : Called(u, v)}

\* The extension starts on what it finds: no users, or an administrator and others
\* who have enrolled, with their sessions.
AccountsInit ==
    /\ role \in [Accts -> {"none", "admin", "normal"}]
    /\ Present # {} => Admins # {}
    /\ \A u \in Present : Named(u) = {u}
    /\ bound = [u \in Accts |-> IF u \in Present THEN [of |-> 0, late |-> FALSE] ELSE Unbound]
    /\ sessions \in [Slots -> {NoRow} \union
                               {[user |-> u, of |-> 0, late |-> FALSE] : u \in Present}]
    /\ keyRow   = [u \in Accts |-> [state |-> "none"]]
    /\ tickets  = [k \in Tickets |-> NoRow]
    /\ authOp   = [o \in AuthOps |-> Resting]
    /\ asked    = 0
    /\ generation = [u \in Accts |-> 0]
    /\ headless = FALSE /\ cutOff = {}

AuthGo(o, op)     == authOp' = [authOp EXCEPT ![o] = op]
AuthAt(o, pc)     == authOp[o].pc = pc
AuthNextAt(o, pc) == AuthGo(o, [authOp[o] EXCEPT !.pc = pc])
AuthOver(o)       == AuthGo(o, Resting)
Target(o)         == authOp[o].user

Wiping(u)   == \E o \in AuthOps : /\ authOp[o].pc \in {"sessions", "keys", "row", "tickets"}
                                  /\ Target(o) = u
\* The credentials a request has read are no longer those of the user.
Late(o)     == \/ Target(o) \notin Present \/ Wiping(Target(o))
               \/ authOp[o].of # generation[Target(o)]

Rows        == <<role, bound, sessions, keyRow>>
Ledger      == <<generation, headless, cutOff>>

-----------------------------------------------------------------------------
(* the tokens in memory and the sessions *)

\* authMemPut; authMemGet and the next put forget what has expired.
Put(o, kind) ==
    \E k \in Tickets :
       /\ tickets[k] = NoRow
       /\ tickets' = [tickets EXCEPT ![k] =
                         [kind |-> kind, user |-> Target(o), of |-> authOp[o].of, late |-> Late(o)]]

Held(row) == row \notin {NoRow, Spent}

TicketExpires(k) ==
    /\ Held(tickets[k])
    /\ tickets' = [tickets EXCEPT ![k] = Spent]
    /\ UNCHANGED <<Rows, authOp, Ledger>>

\* authIssueSession.
Issue(o) ==
    /\ AuthAt(o, "issue")
    /\ \E s \in Slots :
         /\ sessions[s] = NoRow
         /\ sessions' = [sessions EXCEPT ![s] = [user |-> Target(o), of |-> authOp[o].of, late |-> Late(o)]]
    /\ AuthOver(o)
    /\ UNCHANGED <<role, bound, keyRow, tickets, Ledger>>

\* The gate of the requests that need a session; an expired one, or one whose user
\* is gone, opens nothing.
Signed(s) == Held(sessions[s]) /\ sessions[s].user \in Present

-----------------------------------------------------------------------------
(* login, with or without the code, and its second step *)

\* The row is read, then the password verified.
Login(o, u) ==
    /\ authOp[o] = Resting /\ u \in Present
    /\ AuthGo(o, [pc |-> "password", user |-> u, bound |-> bound[u], of |-> generation[u]])
    /\ UNCHANGED <<Rows, tickets, Ledger>>

LoginRefused(o) ==
    /\ authOp[o].pc \in {"password", "second", "code"}
    /\ AuthOver(o)
    /\ UNCHANGED <<Rows, tickets, Ledger>>

LoginHasCode(o) ==
    /\ AuthAt(o, "password") /\ authOp[o].bound # Unbound
    /\ AuthNextAt(o, "issue")
    /\ UNCHANGED <<Rows, tickets, Ledger>>

\* Without the code the answer is a ticket for the second step; a user with no
\* secret yet gets one to enrol with, once a secret has been made.
LoginNeedsMore(o) ==
    /\ AuthAt(o, "password")
    /\ Put(o, IF authOp[o].bound # Unbound THEN "mfa" ELSE "enr")
    /\ AuthOver(o)
    /\ UNCHANGED <<Rows, Ledger>>

Second(o, k) ==
    /\ authOp[o] = Resting /\ Held(tickets[k]) /\ tickets[k].kind = "mfa"
    /\ AuthGo(o, [pc |-> "second", ticket |-> k, user |-> tickets[k].user, of |-> tickets[k].of])
    /\ UNCHANGED <<Rows, tickets, Ledger>>

SecondReads(o) ==
    /\ AuthAt(o, "second")
    /\ IF Target(o) \in Present /\ bound[Target(o)] # Unbound
       THEN AuthGo(o, [authOp[o] EXCEPT !.pc = "code", !.of = generation[Target(o)]])
       ELSE AuthOver(o)
    /\ UNCHANGED <<Rows, tickets, Ledger>>

Burn(o) == tickets' = [tickets EXCEPT ![authOp[o].ticket] = Spent]

SecondPasses(o) ==
    /\ AuthAt(o, "code")
    /\ Burn(o)
    /\ AuthNextAt(o, "issue")
    /\ UNCHANGED <<Rows, Ledger>>
-----------------------------------------------------------------------------
(* enrolment *)

\* 2fa/setup makes another secret for the ticket, which changes nothing that is told
\* apart here.  2fa/enroll verifies the code, reads the row, writes and burns.
Enroll(o, k) ==
    /\ authOp[o] = Resting /\ Held(tickets[k]) /\ tickets[k].kind = "enr"
    /\ AuthGo(o, [pc |-> "enroll", ticket |-> k, user |-> tickets[k].user, of |-> tickets[k].of])
    /\ UNCHANGED <<Rows, tickets, Ledger>>

EnrollReads(o) ==
    /\ AuthAt(o, "enroll")
    /\ IF Target(o) \in Present
       THEN AuthNextAt(o, "bind") /\ UNCHANGED tickets
       ELSE AuthOver(o) /\ Burn(o)
    /\ UNCHANGED <<Rows, Ledger>>

Bind(o) ==
    /\ AuthAt(o, "bind")
    /\ bound' = [bound EXCEPT ![Target(o)] =
                     IF Target(o) \in Present THEN [of |-> authOp[o].of, late |-> Late(o)] ELSE @]
    /\ AuthNextAt(o, "burn")
    /\ UNCHANGED <<role, sessions, keyRow, tickets, Ledger>>

EnrollBurns(o) ==
    /\ AuthAt(o, "burn")
    /\ Burn(o)
    /\ AuthNextAt(o, "issue")
    /\ UNCHANGED <<Rows, Ledger>>

-----------------------------------------------------------------------------
(* what a user does with a session: logout, password, second factor, key *)

Gate(o, s, what) ==
    /\ authOp[o] = Resting /\ Signed(s)
    /\ AuthGo(o, [pc |-> what, session |-> s, user |-> sessions[s].user,
                  of |-> generation[sessions[s].user]])
    /\ UNCHANGED <<Rows, tickets, Ledger>>

Logout(o) ==
    /\ AuthAt(o, "logout")
    /\ sessions' = [sessions EXCEPT ![authOp[o].session] = Spent]
    /\ AuthOver(o)
    /\ UNCHANGED <<role, bound, keyRow, tickets, Ledger>>

\* The password is written, then the other sessions are deleted.
ChangePassword(o) ==
    /\ AuthAt(o, "change")
    /\ AuthGo(o, IF Target(o) \in Present THEN [authOp[o] EXCEPT !.pc = "others"] ELSE Resting)
    /\ UNCHANGED <<Rows, tickets, Ledger>>

OthersOut(o) ==
    /\ AuthAt(o, "others")
    /\ sessions' = [s \in Slots |->
          IF sessions[s].user = Target(o) /\ s # authOp[o].session THEN Spent ELSE sessions[s]]
    /\ AuthOver(o)
    /\ UNCHANGED <<role, bound, keyRow, tickets, Ledger>>

Disable2fa(o) ==
    /\ AuthAt(o, "disable")
    /\ AuthGo(o, IF Target(o) \in Present /\ bound[Target(o)] # Unbound
                 THEN [authOp[o] EXCEPT !.pc = "unbind"] ELSE Resting)
    /\ UNCHANGED <<Rows, tickets, Ledger>>

Unbind(o) ==
    /\ AuthAt(o, "unbind")
    /\ bound' = [bound EXCEPT ![Target(o)] = Unbound]
    /\ AuthOver(o)
    /\ UNCHANGED <<role, sessions, keyRow, tickets, Ledger>>

CreateKey(o) ==
    /\ AuthAt(o, "key") /\ keyRow[Target(o)].state = "none"
    /\ keyRow' = [keyRow EXCEPT ![Target(o)] = [state |-> "live", of |-> authOp[o].of, late |-> Late(o)]]
    /\ AuthOver(o)
    /\ UNCHANGED <<role, bound, sessions, tickets, Ledger>>

RevokeKey(o) ==
    /\ AuthAt(o, "revoke")
    /\ keyRow' = [keyRow EXCEPT ![Target(o)] =
                      IF @.state = "live" THEN [@ EXCEPT !.state = "revoked"] ELSE @]
    /\ AuthOver(o)
    /\ UNCHANGED <<role, bound, sessions, tickets, Ledger>>

-----------------------------------------------------------------------------
(* the first administrator, and the recovery *)

\* Without users the first one is made, of any name; else it is the owner's turn.
Onboard(o, u) ==
    /\ authOp[o] = Resting /\ role[u] = "none"
    /\ AuthGo(o, [pc |-> IF Present = {} THEN "first" ELSE "owner", user |-> u, of |-> 0,
                 end |-> "tickets"])
    /\ UNCHANGED <<Rows, tickets, Ledger>>

\* INSERT; a name that is taken meanwhile fails the request.
Insert(o, r, then) ==
    IF role[Target(o)] = "none" /\ Named(Target(o)) = {}
    THEN role' = [role EXCEPT ![Target(o)] = r] /\ then
    ELSE UNCHANGED role /\ AuthOver(o)

FirstInserted(o) ==
    /\ AuthAt(o, "first")
    /\ Insert(o, "admin", AuthNextAt(o, "welcome"))
    /\ UNCHANGED <<bound, sessions, keyRow, tickets, Ledger>>

OwnerRead(o) ==
    /\ AuthAt(o, "owner") /\ Target(o) \in OwnerIds
    /\ IF Present \intersect OwnerIds # {}
       THEN \E u \in Present \intersect OwnerIds :
               AuthGo(o, [authOp[o] EXCEPT !.pc = "reset", !.user = u])
       ELSE AuthNextAt(o, "again")
    /\ UNCHANGED <<Rows, tickets, Ledger>>

OwnerInserted(o) ==
    /\ AuthAt(o, "again")
    /\ Insert(o, "admin", AuthNextAt(o, "sessions"))
    /\ UNCHANGED <<bound, sessions, keyRow, tickets, Ledger>>

\* A new password and no secret: another generation of credentials begins.
OwnerReset(o) ==
    /\ AuthAt(o, "reset") /\ generation[Target(o)] < MaxResets
    /\ bound'      = [bound EXCEPT ![Target(o)] = Unbound]
    /\ generation' = [generation EXCEPT ![Target(o)] = @ + 1]
    /\ AuthGo(o, [authOp[o] EXCEPT !.pc = "sessions", !.of = generation[Target(o)] + 1])
    /\ UNCHANGED <<role, sessions, keyRow, tickets, headless, cutOff>>

\* The rest is common to the recovery and to the deletion of a user: sessions, then
\* keys, then the tokens in memory or the row.
SessionsWiped(o) ==
    /\ AuthAt(o, "sessions")
    /\ sessions' = [s \in Slots |-> IF sessions[s].user = Target(o) THEN Spent ELSE sessions[s]]
    /\ AuthNextAt(o, "keys")
    /\ UNCHANGED <<role, bound, keyRow, tickets, Ledger>>

KeysWiped(o) ==
    /\ AuthAt(o, "keys")
    /\ keyRow' = [keyRow EXCEPT ![Target(o)] = [state |-> "none"]]
    /\ AuthNextAt(o, authOp[o].end)
    /\ UNCHANGED <<role, bound, sessions, tickets, Ledger>>

\* Slip: the tokens of before stay in memory.
TicketsStay(o) ==
    /\ AuthAt(o, "tickets")
    /\ AuthNextAt(o, "welcome")
    /\ UNCHANGED <<Rows, tickets, Ledger>>

TicketsDropped(o) ==
    /\ AuthAt(o, "tickets")
    /\ tickets' = [k \in Tickets |-> IF tickets[k].user = Target(o) THEN Spent ELSE tickets[k]]
    /\ AuthNextAt(o, "welcome")
    /\ UNCHANGED <<Rows, Ledger>>

Welcome(o) ==
    /\ AuthAt(o, "welcome")
    /\ Put(o, "enr")
    /\ AuthOver(o)
    /\ UNCHANGED <<Rows, Ledger>>

-----------------------------------------------------------------------------
(* the administration of users *)

Callers == {Root} \union {u \in Admins : \E s \in Slots : sessions[s].user = u}

\* Two requests that may make administrators fewer: what one has counted the other
\* may change.
Lowering(o) == authOp[o].pc = "demote" \/ (authOp[o].pc \in {"sessions", "keys", "row"} /\ authOp[o].end = "row")
CrossedIf(o) == headless' = (headless \/ \E p \in AuthOps \ {o} : Lowering(p))

CreateUser(o, u, r) ==
    /\ authOp[o] = Resting /\ Callers # {} /\ role[u] = "none" /\ Named(u) = {}
    /\ AuthGo(o, [pc |-> "create", user |-> u, role |-> r])
    /\ UNCHANGED <<Rows, tickets, Ledger>>

UserCreated(o) ==
    /\ AuthAt(o, "create")
    /\ Insert(o, authOp[o].role, AuthOver(o))
    /\ headless' = (headless \/ Admins = {})
    /\ UNCHANGED <<bound, sessions, keyRow, tickets, generation, cutOff>>

\* The role that is read first decides whether the administrators are counted.
PatchUser(o, u, r) ==
    /\ authOp[o] = Resting /\ Callers # {} /\ u \in Present
    /\ IF role[u] = "admin" /\ r # "admin" THEN AuthGo(o, [pc |-> "count", user |-> u, then |-> "demote"])
       ELSE role[u] # r /\ AuthGo(o, [pc |-> "promote", user |-> u])
    /\ UNCHANGED <<Rows, tickets, Ledger>>

DeleteUser(o, u) ==
    /\ authOp[o] = Resting /\ Callers \ {u} # {} /\ u \in Present
    /\ AuthGo(o, [pc |-> IF role[u] = "admin" THEN "count" ELSE "sessions",
                  user |-> u, then |-> "sessions", end |-> "row"])
    /\ UNCHANGED <<Rows, tickets, Ledger>>

CountAdmins(o) ==
    /\ AuthAt(o, "count")
    /\ IF Cardinality(Admins) <= 1 THEN AuthOver(o) ELSE AuthNextAt(o, authOp[o].then)
    /\ UNCHANGED <<Rows, tickets, Ledger>>

RoleWritten(o) ==
    /\ authOp[o].pc \in {"demote", "promote"}
    /\ role' = [role EXCEPT ![Target(o)] =
           IF @ = "gone" THEN @ ELSE IF authOp[o].pc = "demote" THEN "normal" ELSE "admin"]
    /\ CrossedIf(o)
    /\ AuthOver(o)
    /\ UNCHANGED <<bound, sessions, keyRow, tickets, generation, cutOff>>

RowDeleted(o) ==
    /\ AuthAt(o, "row")
    /\ role'  = [role EXCEPT ![Target(o)] = "gone"]
    /\ bound' = [bound EXCEPT ![Target(o)] = Unbound]
    /\ CrossedIf(o)
    /\ AuthOver(o)
    /\ UNCHANGED <<sessions, keyRow, tickets, generation, cutOff>>

\* A statement fails, and with it the request.
StatementFails(o) ==
    /\ authOp[o] # Resting
    /\ cutOff' = IF Wiping(Target(o)) THEN cutOff \union {Target(o)} ELSE cutOff
    /\ AuthOver(o)
    /\ UNCHANGED <<Rows, tickets, generation, headless>>

\* The worker starts again: the tokens and the requests are gone.
AuthRestarts ==
    /\ tickets' = [k \in Tickets |-> IF Held(tickets[k]) THEN Spent ELSE tickets[k]]
    /\ authOp'  = [o \in AuthOps |-> Resting]
    /\ cutOff'  = cutOff \union {u \in Accts : Wiping(u)}
    /\ UNCHANGED <<Rows, generation, headless>>

AuthAsks(o) ==
    \/ \E u \in Accts :
          \/ Login(o, u) \/ Onboard(o, u) \/ DeleteUser(o, u)
          \/ \E r \in {"admin", "normal"} : CreateUser(o, u, r) \/ PatchUser(o, u, r)
    \/ \E k \in Tickets : Second(o, k) \/ Enroll(o, k)
    \/ \E s \in Slots, what \in {"logout", "change", "disable", "key", "revoke"} : Gate(o, s, what)

GoesOn(o) ==
    \/ LoginRefused(o) \/ LoginHasCode(o) \/ LoginNeedsMore(o) \/ StatementFails(o)
    \/ SecondReads(o) \/ SecondPasses(o) \/ EnrollReads(o) \/ Bind(o) \/ EnrollBurns(o) \/ Issue(o)
    \/ Logout(o) \/ ChangePassword(o) \/ OthersOut(o) \/ Disable2fa(o) \/ Unbind(o)
    \/ CreateKey(o) \/ RevokeKey(o)
    \/ FirstInserted(o) \/ OwnerRead(o) \/ OwnerInserted(o) \/ OwnerReset(o)
    \/ SessionsWiped(o) \/ KeysWiped(o) \/ TicketsDropped(o) \/ Welcome(o)
    \/ UserCreated(o) \/ CountAdmins(o) \/ RoleWritten(o) \/ RowDeleted(o)

AccountsNext ==
    \/ asked < MaxAsked /\ asked' = asked + 1 /\ \E o \in AuthOps : AuthAsks(o)
    \/ /\ \/ \E o \in AuthOps : GoesOn(o)
          \/ \E k \in Tickets : TicketExpires(k)
          \/ AuthRestarts
       /\ UNCHANGED asked

AccountsSpec == AccountsInit /\ [][AccountsNext]_accountsVars

-----------------------------------------------------------------------------
\* What a variable may hold.
AccountsTypeOK ==
    /\ role \in [Accts -> {"none", "admin", "normal", "gone"}]
    /\ \A u \in Accts : keyRow[u].state \in {"none", "live", "revoked"}
    /\ \A s \in Slots : Held(sessions[s]) => sessions[s].user \in Accts
    /\ \A k \in Tickets : Held(tickets[k]) => tickets[k].kind \in {"enr", "mfa"}
    /\ asked \in 0 .. MaxAsked /\ generation \in [Accts -> 0 .. MaxResets] /\ headless \in BOOLEAN

\* While there are users one of them is an administrator, unless two requests that
\* make administrators fewer overlapped or the root token made users first.  No two users have a name in common.  A
\* session, a key and a bound secret belong to a user that is there and to the
\* credentials of its last recovery, unless a recovery or the deletion of the user
\* overlapped with the request that wrote them, has not come to them yet or was cut
\* off; the recovery leaves no token of before in memory.  (POST onboarding, PATCH and DELETE
\* users, authIssueSession, POST api-keys, POST 2fa/enroll)
AccountsAgree ==
    /\ Present # {} => Admins # {} \/ headless
    /\ \A u \in Present : Named(u) = {u}
    /\ LET Fits(u, row) == \/ u \in Present /\ row.of = generation[u]
                           \/ row.late \/ Wiping(u) \/ u \in cutOff
       IN  /\ \A s \in Slots : Held(sessions[s]) => Fits(sessions[s].user, sessions[s])
           /\ \A u \in Accts :
                /\ keyRow[u].state = "live" => Fits(u, keyRow[u])
                /\ bound[u] # Unbound => bound[u].late \/ bound[u].of = generation[u]
           /\ \A k \in Tickets : Held(tickets[k]) =>
                \/ tickets[k].user \notin Present
                \/ Fits(tickets[k].user, tickets[k])

=============================================================================
