----------------------------- MODULE McpRegistry -----------------------------
(***************************************************************************)
(* The connections to MCP servers (src/kernel/mcp/registry.ts), with the   *)
(* configuration they follow (config-store.ts) and the requests that       *)
(* change both (src/api/mcp.ts), for one server: servers share nothing.    *)
(* A client is a connection with the process or session at its other end.  *)
(***************************************************************************)
EXTENDS Naturals, FiniteSets

CONSTANTS
    McpOps,      \* requests under way at a time
    MaxClients,  \* bound: clients that are started
    MaxPatches   \* bound: changes of the configuration

ASSUME McpAssumption == MaxClients \in Nat /\ MaxPatches \in Nat

VARIABLES
    config,      \* #cache of the store: "none", "off" or "on"
    connection,  \* #connections: the client, or 0
    clients,     \* the clients that are open
    started,     \* number of clients started
    mcpOp,       \* progress of the requests
    (* history *)
    displaced,   \* clients whose connection another one has replaced in the map
    outdated,    \* the configuration was changed beside a connect, or could not be saved
    patches

mcpVars == <<config, connection, clients, started, mcpOp, displaced, outdated, patches>>

NoOp == [pc |-> "idle", client |-> 0, kind |-> "none"]

McpInit ==
    /\ config = "none" /\ connection = 0 /\ clients = {} /\ started = 0
    /\ mcpOp = [o \in McpOps |-> NoOp]
    /\ displaced = {} /\ outdated = FALSE /\ patches = 0

Go(o, pc, client, kind) == mcpOp' = [mcpOp EXCEPT ![o] = [pc |-> pc, client |-> client, kind |-> kind]]
Leave(o) == mcpOp' = [mcpOp EXCEPT ![o] = NoOp]
Connecting == \E o \in McpOps : mcpOp[o].kind = "connect"

-----------------------------------------------------------------------------
(* Connections *)

\* #teardown up to the close of the client, which is out of the map by then.
Teardown(o, kind) ==
    /\ connection' = 0
    /\ Go(o, "close", connection, kind)

\* connect, and refreshAll for a server that is enabled.
ConnectServer(o) ==
    /\ mcpOp[o].pc = "idle" /\ config = "on"
    /\ Teardown(o, "connect")
    /\ UNCHANGED <<config, clients, started, displaced, outdated, patches>>

\* The close has ended; a connect goes on with a new client and its handshake.
Closed(o) ==
    /\ mcpOp[o].pc = "close"
    /\ IF mcpOp[o].kind = "connect"
         THEN /\ started < MaxClients
              /\ started' = started + 1
              /\ clients' = (clients \ {mcpOp[o].client}) \union {started'}
              /\ Go(o, "handshake", started', "connect")
         ELSE /\ clients' = clients \ {mcpOp[o].client}
              /\ Leave(o)
              /\ UNCHANGED started
    /\ UNCHANGED <<config, connection, displaced, outdated, patches>>

\* The server answers: the connection takes the place of whatever is there.
\* The catalogues are read afterwards; that fails for none.
HandshakeDone(o) ==
    /\ mcpOp[o].pc = "handshake" /\ mcpOp[o].client \in clients
    /\ displaced' = IF connection # 0 THEN displaced \union {connection} ELSE displaced
    /\ connection' = mcpOp[o].client
    /\ Leave(o)
    /\ UNCHANGED <<config, clients, started, outdated, patches>>

\* Slip: a client whose handshake fails is left as it is.
HandshakeLeftOpen(o) ==
    /\ mcpOp[o].pc = "handshake"
    /\ Leave(o)
    /\ UNCHANGED <<config, connection, clients, started, displaced, outdated, patches>>

\* An error, or a timeout: the half open client is closed.
HandshakeFails(o) ==
    /\ mcpOp[o].pc = "handshake"
    /\ Go(o, "close", mcpOp[o].client, "failed")
    /\ UNCHANGED <<config, connection, clients, started, displaced, outdated, patches>>

\* The process or session at the other end is gone: transport.onclose.
ServerGone(n) ==
    /\ n \in clients
    /\ clients' = clients \ {n}
    /\ connection' = IF connection = n THEN 0 ELSE connection
    /\ displaced' = displaced \ {n}
    /\ UNCHANGED <<config, started, mcpOp, outdated, patches>>

-----------------------------------------------------------------------------
(* Configuration *)

\* POST, PATCH and DELETE change the cache at once and wait for the file.
Configure(o, value) ==
    /\ mcpOp[o].pc = "idle" /\ patches < MaxPatches
    /\ value # config /\ (config = "none" => value # "none")
    /\ patches' = patches + 1
    /\ config' = value
    /\ outdated' = IF Connecting THEN TRUE ELSE outdated
    /\ Go(o, "save", 0, IF value = "on" THEN "none" ELSE "disconnect")
    /\ UNCHANGED <<connection, clients, started, displaced>>

\* A server that is disabled or deleted is disconnected once that is saved.
Saved(o) ==
    /\ mcpOp[o].pc = "save"
    /\ IF mcpOp[o].kind = "disconnect" THEN Teardown(o, "disconnect") ELSE Leave(o) /\ UNCHANGED connection
    /\ UNCHANGED <<config, clients, started, displaced, outdated, patches>>

\* The file cannot be written: the request fails, the cache has changed.
NotSaved(o) ==
    /\ mcpOp[o].pc = "save"
    /\ Leave(o)
    /\ outdated' = TRUE
    /\ UNCHANGED <<config, connection, clients, started, displaced, patches>>

\* disconnect: refreshAll for a server that is disabled, and the shutdown.
Disconnect(o) ==
    /\ mcpOp[o].pc = "idle" /\ connection # 0
    /\ Teardown(o, "disconnect")
    /\ UNCHANGED <<config, clients, started, displaced, outdated, patches>>

McpNext ==
    \/ \E o \in McpOps :
         \/ ConnectServer(o) \/ Closed(o) \/ HandshakeDone(o) \/ HandshakeFails(o)
         \/ \E value \in {"none", "off", "on"} : Configure(o, value)
         \/ Saved(o) \/ NotSaved(o) \/ Disconnect(o)
    \/ \E n \in clients : ServerGone(n)

McpSpec == McpInit /\ [][McpNext]_mcpVars

-----------------------------------------------------------------------------
(* Properties *)

\* Every variable keeps its type.
McpTypeOK ==
    /\ config \in {"none", "off", "on"}
    /\ started \in 0..MaxClients /\ connection \in 0..started /\ clients \subseteq 1..started
    /\ mcpOp \in [McpOps -> [pc : {"idle", "close", "handshake", "save"}, client : 0..started,
                             kind : {"none", "connect", "disconnect", "failed"}]]
    /\ displaced \subseteq 1..started /\ outdated \in BOOLEAN /\ patches \in 0..MaxPatches

OwnedByOps == {mcpOp[o].client : o \in McpOps}

\* No client is left behind: one that is open is the connection, or a request
\* is about to close or to register it, or a connect that ran beside replaced it
\* in the map (which closes nothing).  What the map holds is open, and a server
\* at rest is connected only while it is enabled, unless its configuration was
\* changed beside a connect or could not be saved.
ClientsAccounted ==
    /\ clients \subseteq {connection} \union OwnedByOps \union displaced
    /\ connection # 0 => connection \in clients
    /\ connection # 0 /\ (\A o \in McpOps : mcpOp[o].pc = "idle") /\ ~outdated => config = "on"

=============================================================================
