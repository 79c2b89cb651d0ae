--------------------------- MODULE ServicesProofs ---------------------------
(***************************************************************************)
(* Proofs about the services of the kernel: the clients of the MCP         *)
(* registry are accounted for, the route table of an extension settles on  *)
(* what was asked for last, a client of the hub misses nothing that it is  *)
(* not told of, the files of the file service keep their rows and their    *)
(* quota, and a workspace of the code sandbox says what its container      *)
(* does.  Each part begins with the invariant that it rests on, goes       *)
(* through the steps and ends in the theorems.                             *)
(***************************************************************************)
EXTENDS McpRegistry, ExtRoutes, SseHub, Files, Sandbox, CountingTheorems, SequenceTheorems

-----------------------------------------------------------------------------
(* McpRegistry: no client is left behind *)

\* A request at rest or at the file holds no client, one that shakes hands is
\* a connect, no client has two owners, and as long as nothing went past the
\* configuration, a connection or a connect means that the server is enabled.
McpOwners ==
    /\ \A o \in McpOps : mcpOp[o].pc \in {"idle", "save"} => mcpOp[o].client = 0
    /\ \A o \in McpOps : mcpOp[o].pc = "handshake" => mcpOp[o].kind = "connect"
    /\ \A o \in McpOps : mcpOp[o].client # 0 => mcpOp[o].client # connection
    /\ \A o, p \in McpOps : o # p /\ mcpOp[o].client # 0 => mcpOp[o].client # mcpOp[p].client
McpFollows ==
    /\ ~outdated /\ Connecting => config = "on"
    /\ ~outdated /\ connection # 0 =>
         \/ config = "on"
         \/ \E o \in McpOps : mcpOp[o].pc = "save" /\ mcpOp[o].kind = "disconnect"
McpReach ==
    /\ \A n \in clients : n = connection \/ n \in displaced \/ \E o \in McpOps : mcpOp[o].client = n
    /\ connection # 0 => connection \in clients

McpInv == McpTypeOK /\ McpOwners /\ McpFollows /\ McpReach

\* A request moves on, and the others stay where they are.
LEMMA McpMoves ==
    ASSUME McpTypeOK, NEW o \in McpOps, NEW pc, NEW client, NEW kind,
           mcpOp' = [mcpOp EXCEPT ![o] = [pc |-> pc, client |-> client, kind |-> kind]]
    PROVE  /\ mcpOp'[o].pc = pc /\ mcpOp'[o].client = client /\ mcpOp'[o].kind = kind
           /\ \A p \in McpOps : p # o => mcpOp'[p] = mcpOp[p]
BY DEF McpTypeOK

\* The progress of the requests keeps its type, whatever request moves.
LEMMA McpOpTyped ==
    ASSUME McpTypeOK, NEW o \in McpOps, started' \in {started, started + 1},
           NEW pc \in {"idle", "close", "handshake", "save"}, NEW client \in 0..started',
           NEW kind \in {"none", "connect", "disconnect", "failed"},
           mcpOp' = [mcpOp EXCEPT ![o] = [pc |-> pc, client |-> client, kind |-> kind]]
    PROVE  mcpOp' \in [McpOps -> [pc : {"idle", "close", "handshake", "save"}, client : 0..started',
                                  kind : {"none", "connect", "disconnect", "failed"}]]
<1>1. started \in Nat /\ started' >= started
  BY McpAssumption DEF McpTypeOK
<1>2. ASSUME NEW n \in 0..started PROVE n \in 0..started'
  BY <1>1, <1>2
<1> QED
  BY <1>2 DEF McpTypeOK

LEMMA McpTypeStep == McpTypeOK /\ [McpNext]_mcpVars => McpTypeOK'
<1> SUFFICES ASSUME McpTypeOK, [McpNext]_mcpVars PROVE McpTypeOK'
  OBVIOUS
<1> USE McpAssumption DEF Go, Leave, NoOp
<1>0. /\ started \in Nat /\ 0 \in 0..started /\ connection \in 0..started
      /\ \A o \in McpOps : mcpOp[o].client \in 0..started
  BY DEF McpTypeOK
<1>1. ASSUME NEW o \in McpOps, ConnectServer(o) \/ HandshakeFails(o) \/ Disconnect(o) PROVE McpTypeOK'
  <2>1. UNCHANGED started /\ mcpOp' \in [McpOps -> [pc : {"idle", "close", "handshake", "save"},
                client : 0..started', kind : {"none", "connect", "disconnect", "failed"}]]
    BY <1>0, <1>1, McpOpTyped DEF ConnectServer, HandshakeFails, Disconnect, Teardown
  <2> QED
    BY <1>0, <1>1, <2>1 DEF ConnectServer, HandshakeFails, Disconnect, Teardown, McpTypeOK
<1>2. ASSUME NEW o \in McpOps, Closed(o) PROVE McpTypeOK'
  <2>1. CASE mcpOp[o].kind = "connect"
    <3>1. started' = started + 1 /\ started' \in 0..started'
      BY <1>0, <1>2, <2>1 DEF Closed
    <3>2. mcpOp' \in [McpOps -> [pc : {"idle", "close", "handshake", "save"},
                client : 0..started', kind : {"none", "connect", "disconnect", "failed"}]]
      BY <1>2, <2>1, <3>1, McpOpTyped DEF Closed
    <3>3. started' \in 0..MaxClients /\ clients' \subseteq 1..started' /\ displaced \subseteq 1..started'
          /\ connection \in 0..started' /\ UNCHANGED <<config, connection, displaced, outdated, patches>>
      <4>1. /\ \A n \in 0..started : n \in 0..started'
            /\ \A n \in 1..started : n \in 1..started'
            /\ started' \in 1..started'
        BY <1>0, <3>1
      <4>2. started < MaxClients /\ clients' = (clients \ {mcpOp[o].client}) \union {started'}
            /\ UNCHANGED <<config, connection, displaced, outdated, patches>>
        BY <1>2, <2>1 DEF Closed
      <4>3. clients' \subseteq 1..started' /\ displaced \subseteq 1..started'
        BY <4>1, <4>2 DEF McpTypeOK
      <4> QED
        BY <1>0, <3>1, <4>1, <4>2, <4>3
    <3> QED
      BY <3>2, <3>3 DEF McpTypeOK
  <2>2. CASE mcpOp[o].kind # "connect"
    <3>1. UNCHANGED started /\ mcpOp' \in [McpOps -> [pc : {"idle", "close", "handshake", "save"},
                client : 0..started', kind : {"none", "connect", "disconnect", "failed"}]]
      BY <1>0, <1>2, <2>2, McpOpTyped DEF Closed
    <3> QED
      BY <1>2, <2>2, <3>1 DEF Closed, McpTypeOK
  <2> QED
    BY <2>1, <2>2
<1>3. ASSUME NEW o \in McpOps, HandshakeDone(o) PROVE McpTypeOK'
  <2>1. UNCHANGED started /\ mcpOp' \in [McpOps -> [pc : {"idle", "close", "handshake", "save"},
                client : 0..started', kind : {"none", "connect", "disconnect", "failed"}]]
    BY <1>0, <1>3, McpOpTyped DEF HandshakeDone
  <2> QED
    BY <1>0, <1>3, <2>1 DEF HandshakeDone, McpTypeOK
<1>4. ASSUME NEW o \in McpOps, NEW value \in {"none", "off", "on"}, Configure(o, value) PROVE McpTypeOK'
  <2>1. UNCHANGED started /\ mcpOp' \in [McpOps -> [pc : {"idle", "close", "handshake", "save"},
                client : 0..started', kind : {"none", "connect", "disconnect", "failed"}]]
    BY <1>0, <1>4, McpOpTyped DEF Configure
  <2>2. outdated' \in BOOLEAN
    BY <1>4 DEF Configure, McpTypeOK
  <2>3. config' = value /\ patches' \in 0..MaxPatches /\ UNCHANGED <<connection, clients, started, displaced>>
    BY <1>4 DEF Configure, McpTypeOK
  <2> QED
    BY <2>1, <2>2, <2>3 DEF McpTypeOK
<1>5. ASSUME NEW n \in clients, ServerGone(n) PROVE McpTypeOK'
  BY <1>5 DEF ServerGone, McpTypeOK
<1>6. ASSUME NEW o \in McpOps, Saved(o) \/ NotSaved(o) PROVE McpTypeOK'
  <2>1. UNCHANGED started /\ mcpOp' \in [McpOps -> [pc : {"idle", "close", "handshake", "save"},
                client : 0..started', kind : {"none", "connect", "disconnect", "failed"}]]
    BY <1>0, <1>6, McpOpTyped DEF Saved, NotSaved, Teardown
  <2> QED
    BY <1>0, <1>6, <2>1 DEF Saved, NotSaved, Teardown, McpTypeOK
<1>7. CASE UNCHANGED mcpVars
  BY <1>7 DEF mcpVars, McpTypeOK
<1> QED
  BY <1>1, <1>2, <1>3, <1>4, <1>5, <1>6, <1>7 DEF McpNext

LEMMA McpStep == McpInv /\ [McpNext]_mcpVars => McpInv'
<1> SUFFICES ASSUME McpInv, [McpNext]_mcpVars PROVE McpOwners' /\ McpFollows' /\ McpReach'
  BY McpTypeStep DEF McpInv
<1> USE DEF Go, Leave, NoOp, Connecting
<1>t. McpTypeOK /\ McpOwners /\ McpFollows /\ McpReach
  BY DEF McpInv
<1>1. ASSUME NEW o \in McpOps, NEW kind, mcpOp[o].pc \in {"idle", "save"}, Teardown(o, kind),
             kind = "connect" => config = "on", UNCHANGED <<config, clients, displaced, outdated>>
      PROVE  McpOwners' /\ McpFollows' /\ McpReach'
  <2>1. /\ mcpOp'[o].pc = "close" /\ mcpOp'[o].client = connection /\ mcpOp'[o].kind = kind
        /\ \A p \in McpOps : p # o => mcpOp'[p] = mcpOp[p]
    BY <1>t, <1>1, McpMoves DEF Teardown
  <2>2. connection' = 0 /\ mcpOp[o].client = 0
    BY <1>t, <1>1 DEF Teardown, McpOwners
  <2>3. McpOwners'
    BY <1>t, <2>1, <2>2 DEF McpOwners
  <2>4. McpFollows'
    BY <1>t, <1>1, <2>1, <2>2 DEF McpFollows
  <2>5. McpReach'
    BY <1>t, <1>1, <2>1, <2>2 DEF McpReach, McpTypeOK
  <2> QED
    BY <2>3, <2>4, <2>5
<1>2. ASSUME NEW o \in McpOps, Closed(o) PROVE McpOwners' /\ McpFollows' /\ McpReach'
  <2>1. CASE mcpOp[o].kind = "connect"
    <3>0. PICK n : n = started'
      OBVIOUS
    <3>1. /\ mcpOp'[o].pc = "handshake" /\ mcpOp'[o].client = n /\ mcpOp'[o].kind = "connect"
          /\ \A p \in McpOps : p # o => mcpOp'[p] = mcpOp[p]
      BY <1>t, <1>2, <2>1, <3>0, McpMoves DEF Closed
    <3>2. /\ clients' = (clients \ {mcpOp[o].client}) \union {n} /\ n = started + 1
          /\ UNCHANGED <<config, connection, displaced, outdated>>
      BY <1>2, <2>1, <3>0 DEF Closed
    <3>3. McpOwners'
      BY <1>t, <3>1, <3>2 DEF McpOwners, McpTypeOK
    <3>4. McpFollows'
      BY <1>t, <1>2, <2>1, <3>1, <3>2 DEF McpFollows, Closed
    <3>5. McpReach'
      BY <1>t, <3>1, <3>2 DEF McpReach, McpOwners
    <3> QED
      BY <3>3, <3>4, <3>5
  <2>2. CASE mcpOp[o].kind # "connect"
    <3>1. /\ mcpOp'[o].pc = "idle" /\ mcpOp'[o].client = 0 /\ mcpOp'[o].kind = "none"
          /\ \A p \in McpOps : p # o => mcpOp'[p] = mcpOp[p]
      BY <1>t, <1>2, <2>2, McpMoves DEF Closed
    <3>2. /\ clients' = clients \ {mcpOp[o].client}
          /\ UNCHANGED <<config, connection, displaced, outdated>>
      BY <1>2, <2>2 DEF Closed
    <3>3. McpOwners'
      BY <1>t, <3>1, <3>2 DEF McpOwners
    <3>4. McpFollows'
      BY <1>t, <1>2, <3>1, <3>2 DEF McpFollows, Closed
    <3>5. McpReach'
      BY <1>t, <3>1, <3>2 DEF McpReach, McpOwners
    <3> QED
      BY <3>3, <3>4, <3>5
  <2> QED
    BY <2>1, <2>2
<1>3. ASSUME NEW o \in McpOps, HandshakeDone(o) PROVE McpOwners' /\ McpFollows' /\ McpReach'
  <2>1. /\ mcpOp'[o].pc = "idle" /\ mcpOp'[o].client = 0 /\ mcpOp'[o].kind = "none"
        /\ \A p \in McpOps : p # o => mcpOp'[p] = mcpOp[p]
    BY <1>t, <1>3, McpMoves DEF HandshakeDone
  <2>2. /\ connection' = mcpOp[o].client /\ mcpOp[o].client \in clients /\ mcpOp[o].pc = "handshake"
        /\ displaced' = IF connection # 0 THEN displaced \union {connection} ELSE displaced
        /\ UNCHANGED <<config, clients, outdated>>
    BY <1>3 DEF HandshakeDone
  <2>3. McpOwners'
    BY <1>t, <2>1, <2>2 DEF McpOwners, McpTypeOK
  <2>4. McpFollows'
    BY <1>t, <2>1, <2>2 DEF McpFollows, McpOwners
  <2>5. McpReach'
    BY <1>t, <2>1, <2>2 DEF McpReach, McpTypeOK
  <2> QED
    BY <2>3, <2>4, <2>5
<1>4. ASSUME NEW o \in McpOps, HandshakeFails(o) PROVE McpOwners' /\ McpFollows' /\ McpReach'
  <2>1. /\ mcpOp'[o].pc = "close" /\ mcpOp'[o].client = mcpOp[o].client /\ mcpOp'[o].kind = "failed"
        /\ \A p \in McpOps : p # o => mcpOp'[p] = mcpOp[p]
    BY <1>t, <1>4, McpMoves DEF HandshakeFails
  <2>2. mcpOp[o].pc = "handshake" /\ UNCHANGED <<config, connection, clients, displaced, outdated>>
    BY <1>4 DEF HandshakeFails
  <2> QED
    BY <1>t, <2>1, <2>2 DEF McpOwners, McpFollows, McpReach
<1>5. ASSUME NEW n \in clients, ServerGone(n) PROVE McpOwners' /\ McpFollows' /\ McpReach'
  BY <1>t, <1>5 DEF ServerGone, McpOwners, McpFollows, McpReach, McpTypeOK
<1>6. ASSUME NEW o \in McpOps, NEW value \in {"none", "off", "on"}, Configure(o, value)
      PROVE  McpOwners' /\ McpFollows' /\ McpReach'
  <2>1. /\ mcpOp'[o].pc = "save" /\ mcpOp'[o].client = 0
        /\ mcpOp'[o].kind = IF value = "on" THEN "none" ELSE "disconnect"
        /\ \A p \in McpOps : p # o => mcpOp'[p] = mcpOp[p]
    <3>1. PICK kind : kind = IF value = "on" THEN "none" ELSE "disconnect"
      OBVIOUS
    <3>2. mcpOp' = [mcpOp EXCEPT ![o] = [pc |-> "save", client |-> 0, kind |-> kind]]
      BY <1>6, <3>1 DEF Configure, Go
    <3>3. mcpOp'[o] = [pc |-> "save", client |-> 0, kind |-> kind]
      BY <1>t, <3>2 DEF McpTypeOK
    <3>4. \A p \in McpOps : p # o => mcpOp'[p] = mcpOp[p]
      BY <1>t, <3>2 DEF McpTypeOK
    <3> QED
      BY <3>1, <3>3, <3>4
  <2>2. /\ mcpOp[o].pc = "idle" /\ mcpOp[o].client = 0 /\ config' = value
        /\ UNCHANGED <<connection, clients, displaced>>
        /\ outdated' = IF Connecting THEN TRUE ELSE outdated
    BY <1>t, <1>6 DEF Configure, McpOwners
  <2>3. McpOwners' /\ McpReach'
    BY <1>t, <2>1, <2>2 DEF McpOwners, McpReach
  <2>4. McpFollows'
    BY <1>t, <2>1, <2>2 DEF McpFollows
  <2> QED
    BY <2>3, <2>4
<1>7. ASSUME NEW o \in McpOps, mcpOp[o].pc = "save", Leave(o), outdated' \/ mcpOp[o].kind # "disconnect",
             outdated => outdated', UNCHANGED <<config, connection, clients, displaced>>
      PROVE  McpOwners' /\ McpFollows' /\ McpReach'
  <2>1. /\ mcpOp'[o].pc = "idle" /\ mcpOp'[o].client = 0 /\ mcpOp'[o].kind = "none"
        /\ \A p \in McpOps : p # o => mcpOp'[p] = mcpOp[p]
    BY <1>t, <1>7, McpMoves
  <2> QED
    BY <1>t, <1>7, <2>1 DEF McpOwners, McpFollows, McpReach
<1>8. CASE UNCHANGED mcpVars
  BY <1>t, <1>8 DEF mcpVars, McpOwners, McpFollows, McpReach
<1>9. ASSUME NEW o \in McpOps, ConnectServer(o) \/ Disconnect(o) PROVE McpOwners' /\ McpFollows' /\ McpReach'
  BY <1>1, <1>9 DEF ConnectServer, Disconnect
<1>10. ASSUME NEW o \in McpOps, Saved(o) \/ NotSaved(o) PROVE McpOwners' /\ McpFollows' /\ McpReach'
  BY <1>1, <1>7, <1>10 DEF Saved, NotSaved
<1> QED
  BY <1>2, <1>3, <1>4, <1>5, <1>6, <1>8, <1>9, <1>10 DEF McpNext

LEMMA McpStart == McpInit => McpInv
<1> SUFFICES ASSUME McpInit PROVE McpInv
  OBVIOUS
<1>1. \A o \in McpOps : mcpOp[o].pc = "idle" /\ mcpOp[o].client = 0 /\ mcpOp[o].kind = "none"
  BY DEF McpInit, NoOp
<1>2. McpTypeOK
  <2>1. started = 0 /\ 0 \in 0..MaxClients /\ 0 \in 0..started /\ 0 \in 0..MaxPatches
    BY McpAssumption DEF McpInit
  <2>2. mcpOp \in [McpOps -> [pc : {"idle", "close", "handshake", "save"}, client : 0..started,
                             kind : {"none", "connect", "disconnect", "failed"}]]
    BY <2>1 DEF McpInit, NoOp
  <2> QED
    BY <2>1, <2>2 DEF McpInit, McpTypeOK
<1> QED
  BY <1>1, <1>2 DEF McpInit, McpInv, McpOwners, McpFollows, McpReach, Connecting

\* Whatever requests overlap, a client that is open has somebody to close it.
THEOREM McpAccounted == McpSpec => []ClientsAccounted
<1>1. McpInv => ClientsAccounted
  <2> SUFFICES ASSUME McpInv PROVE ClientsAccounted
    OBVIOUS
  <2>1. \A n \in clients : n \in {connection} \union OwnedByOps \union displaced
    BY DEF McpInv, McpReach, OwnedByOps
  <2>2. connection # 0 /\ (\A o \in McpOps : mcpOp[o].pc = "idle") /\ ~outdated => config = "on"
    BY DEF McpInv, McpFollows
  <2> QED
    BY <2>1, <2>2 DEF ClientsAccounted, McpInv, McpReach
<1> QED
  BY <1>1, McpStart, McpStep, PTL DEF McpSpec

-----------------------------------------------------------------------------
(* ExtRoutes: the gate counts what is served, and the table settles *)

\* One change waits at most, for the table asked for last, unless it was
\* overtaken; the extension drains only for a change that waits.
OneDrain ==
    /\ drains = {} => ~draining
    /\ ~overtaken => \/ drains = {} /\ table = wanted
                     \/ \E d \in drains : drains = {d} /\ d.to = wanted

\* A step that neither starts nor ends a request keeps the count.
LEMMA ServedSame == RoutesTypeOK /\ UNCHANGED <<visit, inflight>> =>
    Served' = Served /\ inflight' = Cardinality(Served') /\ inflight' <= MaxConcurrent
BY DEF RoutesTypeOK, Served

\* Request v goes on to pc, and is counted for what it is then.
LEMMA ServedMoves ==
    ASSUME RoutesTypeOK, NEW v \in Visits, NEW pc \in {"idle", "auth", "served"}, NEW entry \in Tables,
           Visit(v, pc, entry),
           inflight' = inflight + (IF pc = "served" THEN 1 ELSE 0) - (IF visit[v].pc = "served" THEN 1 ELSE 0)
    PROVE  /\ visit' \in [Visits -> [pc : {"idle", "auth", "served"}, entry : Tables]]
           /\ inflight' = Cardinality(Served')
<1>1. visit \in [Visits -> [pc : {"idle", "auth", "served"}, entry : Tables]]
      /\ inflight = Cardinality(Served)
  BY DEF RoutesTypeOK
<1>2. visit' = [visit EXCEPT ![v] = [pc |-> pc, entry |-> entry]]
  BY DEF Visit
<1>3. visit' \in [Visits -> [pc : {"idle", "auth", "served"}, entry : Tables]]
      /\ \A u \in Visits : visit'[u].pc = IF u = v THEN pc ELSE visit[u].pc
  BY <1>1, <1>2
<1>4. IsFiniteSet(Served) /\ Cardinality(Served) \in Nat
  BY RoutesAssumption, FS_Subset, FS_CardinalityType DEF Served
<1>5. Served' = IF pc = "served" THEN Served \union {v} ELSE Served \ {v}
  BY <1>3 DEF Served
<1>6. v \in Served <=> visit[v].pc = "served"
  BY DEF Served
<1>7. Cardinality(Served \union {v}) = IF v \in Served THEN Cardinality(Served) ELSE Cardinality(Served) + 1
  BY <1>4, FS_AddElement
<1>8. Cardinality(Served \ {v}) = IF v \in Served THEN Cardinality(Served) - 1 ELSE Cardinality(Served)
  BY <1>4, FS_RemoveElement
<1> QED
  BY <1>1, <1>3, <1>4, <1>5, <1>6, <1>7, <1>8

LEMMA RoutesChange ==
    ASSUME RoutesTypeOK, OneDrain, NEW t \in Tables, DrainThenSwap(t)
    PROVE  RoutesTypeOK' /\ OneDrain'
<1>0. PICK n : n = changes + 1
  OBVIOUS
<1>1. /\ inflight' = Cardinality(Served') /\ inflight' <= MaxConcurrent
      /\ UNCHANGED visit
  BY ServedSame DEF DrainThenSwap
<1>2. n \in 1..MaxChanges /\ n \in 0..MaxChanges /\ changes' = n /\ wanted' = t
      /\ (overtaken' <=> (overtaken \/ drains # {})) /\ overtaken' \in BOOLEAN
  <2>1. n \in 1..MaxChanges /\ n \in 0..MaxChanges /\ changes' = n /\ wanted' = t
    BY <1>0, RoutesAssumption DEF DrainThenSwap, RoutesTypeOK
  <2>2. overtaken' = (overtaken \/ drains # {})
    BY DEF DrainThenSwap
  <2>3. overtaken' \in BOOLEAN
    BY <2>2, Zenon
  <2> QED
    BY <2>1, <2>2, <2>3, Zenon
<1>3. CASE inflight = 0
  <2>1. table' = t /\ UNCHANGED <<draining, drains>>
    BY <1>3 DEF DrainThenSwap
  <2> QED
    BY <1>1, <1>2, <2>1 DEF RoutesTypeOK, OneDrain
<1>4. CASE inflight # 0
  <2>1. PICK d : d = [id |-> n, to |-> t, late |-> FALSE]
    OBVIOUS
  <2>2. draining' = TRUE /\ drains' = drains \union {d} /\ UNCHANGED table
    BY <1>0, <1>2, <1>4, <2>1 DEF DrainThenSwap
  <2>3. d \in [id : 1..MaxChanges, to : Tables, late : BOOLEAN] /\ d.to = t
    BY <1>2, <2>1
  <2>4. RoutesTypeOK'
    BY <1>1, <1>2, <2>2, <2>3 DEF RoutesTypeOK
  <2>5. OneDrain'
    BY <1>2, <2>2, <2>3 DEF OneDrain
  <2> QED
    BY <2>4, <2>5
<1> QED
  BY <1>3, <1>4

\* The swaps that have waited.
LEMMA RoutesSwap ==
    ASSUME RoutesTypeOK, OneDrain, NEW d \in drains, DrainLate(d) \/ Poll(d)
    PROVE  RoutesTypeOK' /\ OneDrain'
<1>1. /\ inflight' = Cardinality(Served') /\ inflight' <= MaxConcurrent
      /\ UNCHANGED <<visit, wanted, changes, overtaken>>
  BY ServedSame DEF DrainLate, Poll
<1>2. d \in [id : 1..MaxChanges, to : Tables, late : BOOLEAN]
  BY DEF RoutesTypeOK
<1>3. CASE DrainLate(d)
  <2>1. PICK e : e = [d EXCEPT !.late = TRUE]
    OBVIOUS
  <2>2. e \in [id : 1..MaxChanges, to : Tables, late : BOOLEAN] /\ e.to = d.to
    BY <1>2, <2>1
  <2>3. drains' = (drains \ {d}) \union {e} /\ UNCHANGED <<table, draining>>
    BY <1>3, <2>1 DEF DrainLate
  <2>4. RoutesTypeOK'
    BY <1>1, <2>2, <2>3 DEF RoutesTypeOK
  <2>5. OneDrain'
    BY <1>1, <2>2, <2>3 DEF OneDrain
  <2> QED
    BY <2>4, <2>5
<1>4. CASE Poll(d)
  <2>1. drains' = drains \ {d} /\ draining' = FALSE /\ table' = d.to
    BY <1>4 DEF Poll
  <2>2. RoutesTypeOK'
    BY <1>1, <1>2, <2>1 DEF RoutesTypeOK
  <2>3. OneDrain'
    BY <1>1, <2>1 DEF OneDrain
  <2> QED
    BY <2>2, <2>3
<1> QED
  BY <1>3, <1>4

\* The requests: each takes its place among the served ones or is turned away.
LEMMA RoutesVisit ==
    ASSUME RoutesTypeOK, NEW v \in Visits, NEW role \in {"admin", "normal", "nobody"},
           Arrive(v) \/ Authenticated(v, role) \/ Replied(v)
    PROVE  RoutesTypeOK' /\ UNCHANGED <<table, draining, drains, wanted, overtaken>>
<1>1. UNCHANGED <<table, draining, drains, wanted, changes, overtaken>>
  BY DEF Arrive, Authenticated, Replied
<1>2. /\ visit[v] \in [pc : {"idle", "auth", "served"}, entry : Tables] /\ table \in Tables
      /\ inflight = Cardinality(Served) /\ inflight <= MaxConcurrent
  BY DEF RoutesTypeOK
<1>3. NoTable \in Tables
  BY RoutesAssumption DEF NoTable, Tables, Auths
<1>4. inflight \in Nat
  BY <1>2, RoutesAssumption, FS_Subset, FS_CardinalityType DEF Served
<1>5. ASSUME NEW entry \in Tables, visit[v].pc # "served",
             Dispatch(v, entry) \/ ((Visit(v, "idle", NoTable) \/ Visit(v, "auth", entry)) /\ UNCHANGED inflight)
      PROVE  RoutesTypeOK'
  <2>1. \/ Visit(v, "served", entry) /\ inflight' = inflight + 1 /\ inflight < MaxConcurrent
        \/ Visit(v, "idle", NoTable) /\ UNCHANGED inflight
        \/ Visit(v, "auth", entry) /\ UNCHANGED inflight
    BY <1>2, <1>4, <1>5, RoutesAssumption DEF Dispatch
  <2>2. /\ visit' \in [Visits -> [pc : {"idle", "auth", "served"}, entry : Tables]]
        /\ inflight' = Cardinality(Served')
    BY <1>3, <1>4, <1>5, <2>1, ServedMoves
  <2>3. inflight' <= MaxConcurrent
    BY <1>2, <1>4, <2>1, RoutesAssumption
  <2> QED
    BY <1>1, <2>2, <2>3 DEF RoutesTypeOK
<1>6. CASE Arrive(v)
  <2>1. visit[v].pc # "served"
    BY <1>6 DEF Arrive
  <2>2. PICK entry \in Tables : entry = table
    BY <1>2
  <2>3. Dispatch(v, entry) \/ ((Visit(v, "idle", NoTable) \/ Visit(v, "auth", entry)) /\ UNCHANGED inflight)
    BY <1>6, <2>2 DEF Arrive
  <2> QED
    BY <1>1, <1>5, <2>1, <2>3
<1>7. CASE Authenticated(v, role)
  <2>1. visit[v].pc # "served"
    BY <1>7 DEF Authenticated
  <2>2. PICK entry \in Tables : entry = visit[v].entry
    BY <1>2
  <2>3. Dispatch(v, entry) \/ ((Visit(v, "idle", NoTable) \/ Visit(v, "auth", entry)) /\ UNCHANGED inflight)
    BY <1>7, <2>2 DEF Authenticated
  <2> QED
    BY <1>1, <1>5, <2>1, <2>3
<1>8. CASE Replied(v)
  <2>1. v \in Served
    BY <1>8 DEF Served, Replied
  <2>2. inflight # 0
    BY <1>2, <2>1, RoutesAssumption, FS_Subset, FS_EmptySet DEF Served
  <2>3. inflight' = inflight - 1 /\ Visit(v, "idle", NoTable) /\ visit[v].pc = "served"
    BY <1>8, <2>2 DEF Replied
  <2>4. /\ visit' \in [Visits -> [pc : {"idle", "auth", "served"}, entry : Tables]]
        /\ inflight' = Cardinality(Served')
    BY <1>3, <1>4, <2>3, ServedMoves
  <2> QED
    BY <1>1, <1>2, <1>4, <2>3, <2>4, RoutesAssumption DEF RoutesTypeOK
<1> QED
  BY <1>1, <1>6, <1>7, <1>8

LEMMA RoutesStep == RoutesTypeOK /\ OneDrain /\ [RoutesNext]_routesVars => RoutesTypeOK' /\ OneDrain'
<1> SUFFICES ASSUME RoutesTypeOK, OneDrain, [RoutesNext]_routesVars PROVE RoutesTypeOK' /\ OneDrain'
  OBVIOUS
<1>1. ASSUME NEW a \in Auths, CommitRoutes(a) PROVE RoutesTypeOK' /\ OneDrain'
  <2>1. changes + 1 \in 0..MaxChanges
    BY <1>1, RoutesAssumption DEF CommitRoutes, DrainThenSwap, RoutesTypeOK
  <2>2. [number |-> changes + 1, auth |-> a] \in Tables
    BY <2>1 DEF Tables
  <2> QED
    BY <1>1, <2>2, RoutesChange DEF CommitRoutes
<1>2. CASE RemoveRoutes
  <2>1. NoTable \in Tables
    BY RoutesAssumption DEF NoTable, Tables, Auths
  <2> QED
    BY <1>2, <2>1, RoutesChange DEF RemoveRoutes
<1>3. ASSUME NEW d \in drains, DrainLate(d) \/ Poll(d) PROVE RoutesTypeOK' /\ OneDrain'
  BY <1>3, RoutesSwap
<1>4. ASSUME NEW v \in Visits, NEW role \in {"admin", "normal", "nobody"},
             Arrive(v) \/ Authenticated(v, role) \/ Replied(v)
      PROVE  RoutesTypeOK' /\ OneDrain'
  <2>1. RoutesTypeOK' /\ UNCHANGED <<table, draining, drains, wanted, overtaken>>
    BY <1>4, RoutesVisit
  <2> QED
    BY <2>1 DEF OneDrain
<1>5. CASE UNCHANGED routesVars
  BY <1>5, ServedSame DEF routesVars, RoutesTypeOK, OneDrain
<1> QED
  BY <1>1, <1>2, <1>3, <1>4, <1>5 DEF RoutesNext

LEMMA RoutesStart == RoutesInit => RoutesTypeOK /\ OneDrain
<1> SUFFICES ASSUME RoutesInit PROVE RoutesTypeOK /\ OneDrain
  OBVIOUS
<1>1. NoTable \in Tables
  BY RoutesAssumption DEF NoTable, Tables, Auths
<1>2. Served = {}
  BY DEF RoutesInit, Served, NoVisit
<1>3. Cardinality(Served) = 0
  BY <1>2, FS_EmptySet
<1>4. visit \in [Visits -> [pc : {"idle", "auth", "served"}, entry : Tables]]
  BY <1>1 DEF RoutesInit, NoVisit
<1>5. RoutesTypeOK
  <2>1. 0 \in 0..MaxChanges /\ inflight = 0 /\ inflight <= MaxConcurrent
    BY RoutesAssumption DEF RoutesInit
  <2>2. drains \subseteq [id : 1..MaxChanges, to : Tables, late : BOOLEAN]
    BY DEF RoutesInit
  <2> QED
    BY <1>1, <1>3, <1>4, <2>1, <2>2 DEF RoutesInit, RoutesTypeOK
<1> QED
  BY <1>5 DEF RoutesInit, OneDrain

\* The gate never lets more than maxConcurrentPerExt requests through.
THEOREM RoutesTyped == RoutesSpec => []RoutesTypeOK
BY RoutesStart, RoutesStep, PTL DEF RoutesSpec

\* However long requests take, an extension ends under the table asked for last.
THEOREM RoutesSettle == RoutesSpec => []TableSettles
<1>1. OneDrain => TableSettles
  BY DEF OneDrain, TableSettles
<1> QED
  BY <1>1, RoutesStart, RoutesStep, PTL DEF RoutesSpec

-----------------------------------------------------------------------------
(* SseHub: nothing is missed *)

\* A ring holds the latest numbers of its topic, without a hole.
RingInv ==
    /\ topicSeq \in [Topics -> Nat] /\ ring \in [Topics -> Seq(Nat)]
    /\ \A t \in Topics :
         /\ Len(ring[t]) <= topicSeq[t]
         /\ \A i \in 1..Len(ring[t]) : ring[t][i] = topicSeq[t] - Len(ring[t]) + i

\* What a client has of this process: its cursor is no newer than the topic and
\* than what the client knows, which is everything as long as it is connected.
Knows(c, t) ==
    /\ last[c][t].from = life => last[c][t].cursor <= topicSeq[t]
    /\ last[c][t].from = life /\ last[c][t].life = life => last[c][t].cursor <= last[c][t].seq
    /\ last[c][t].life = life => last[c][t].seq <= topicSeq[t]
    /\ link[c] = "on" /\ last[c][t].life = life => last[c][t].seq = topicSeq[t]
Known == [seq : Nat, life : 0..life, cursor : Nat, from : 0..life]
HubKnown ==
    /\ life \in Nat \ {0} /\ link \in [Clients -> {"off", "auth", "on"}]
    /\ last = [c \in Clients |-> last[c]]
    /\ \A c \in Clients : last[c] \in [TopicsOf[c] -> Known]
    /\ \A c \in Clients : \A t \in TopicsOf[c] : Knows(c, t)

\* An event is buffered: the ring goes on without a hole, or is given up.
LEMMA RingPublished ==
    ASSUME RingInv, HubAssumption, NEW t \in Topics, Publish(t)
    PROVE  RingInv'
<1>1. /\ topicSeq \in [Topics -> Nat] /\ ring \in [Topics -> Seq(Nat)] /\ RingSize \in Nat
      /\ topicSeq' = [topicSeq EXCEPT ![t] = topicSeq[t] + 1]
  BY HubAssumption DEF RingInv, Publish
<1>2. PICK n \in Nat : n = topicSeq[t] + 1
  BY <1>1
<1>3. topicSeq' \in [Topics -> Nat] /\ topicSeq'[t] = n /\ \A s \in Topics : s # t => topicSeq'[s] = topicSeq[s]
  BY <1>1, <1>2
<1>4. PICK r \in Seq(Nat) : r = ring[t]
  BY <1>1
<1>5. PICK l \in Nat : l = Len(r)
  BY LenProperties
<1>6. PICK e \in Seq(Nat) : e = Append(r, n)
  BY AppendProperties
<1>7. /\ Len(e) = l + 1 /\ l + 1 <= n
      /\ \A i \in 1..(l + 1) : e[i] = n - (l + 1) + i
  <2>1. Len(e) = l + 1 /\ e[l + 1] = n /\ \A i \in 1..l : e[i] = r[i]
    BY <1>5, <1>6, AppendProperties
  <2>2. l <= n - 1 /\ \A i \in 1..l : r[i] = (n - 1) - l + i
    BY <1>2, <1>4, <1>5 DEF RingInv
  <2>3. \A i \in 1..(l + 1) : i \in 1..l \/ i = l + 1
    OBVIOUS
  <2>4. \A i \in 1..l : (n - 1) - l + i = n - (l + 1) + i
    OBVIOUS
  <2>5. n - (l + 1) + (l + 1) = n
    OBVIOUS
  <2>6. \A i \in 1..(l + 1) : e[i] = n - (l + 1) + i
    BY <2>1, <2>2, <2>3, <2>4, <2>5
  <2> QED
    BY <2>1, <2>2, <2>6
<1>8. PICK m \in Nat : m = IF l + 1 > RingSize THEN l + 1 - RingSize ELSE 0
  <2>1. (IF l + 1 > RingSize THEN l + 1 - RingSize ELSE 0) \in Nat
    BY <1>1
  <2> QED
    BY <2>1
<1>9. PICK g : g = SubSeq(e, m + 1, l + 1)
  OBVIOUS
<1>a. /\ ring'[t] = g /\ ring' = [s \in Topics |-> ring'[s]]
      /\ \A s \in Topics : s # t => ring'[s] \in {ring[s], <<>>}
  <2>1. Buffer(t, n)
    BY <1>3 DEF Publish
  <2>2. m = IF Len(e) > RingSize THEN Len(e) - RingSize ELSE 0
    BY <1>7, <1>8
  <2>3. g = SubSeq(e, (IF Len(e) > RingSize THEN Len(e) - RingSize ELSE 0) + 1, Len(e))
    BY <1>7, <1>9, <2>2
  <2>4. \E kept : ring' = [s \in Topics |-> IF s = t THEN g ELSE IF Contains(kept, s) THEN ring[s] ELSE <<>>]
    BY <1>4, <1>6, <2>1, <2>3, Zenon DEF Buffer
  <2> QED
    BY <2>4
<1>b. g \in Seq(Nat) /\ Len(g) = l + 1 - m /\ \A i \in 1..(l + 1 - m) : g[i] = n - (l + 1 - m) + i
  <2>1. m + 1 \in Int /\ l + 1 \in Int /\ m <= l + 1
    BY <1>1, <1>8
  <2>2. \A i \in (m + 1)..(l + 1) : e[i] \in Nat
    BY <1>7
  <2>3. /\ g \in Seq(Nat)
        /\ Len(g) = IF m + 1 <= l + 1 THEN (l + 1) - (m + 1) + 1 ELSE 0
        /\ \A i \in 1..((l + 1) - (m + 1) + 1) : g[i] = e[(m + 1) + i - 1]
    BY <1>9, <2>1, <2>2, SubSeqProperties
  <2>4. (l + 1) - (m + 1) + 1 = l + 1 - m /\ (m + 1 <= l + 1 \/ l + 1 - m = 0)
    BY <2>1
  <2>5. Len(g) = l + 1 - m /\ \A i \in 1..(l + 1 - m) : g[i] = e[(m + 1) + i - 1]
    BY <2>3, <2>4
  <2>6. ASSUME NEW i \in 1..(l + 1 - m) PROVE g[i] = n - (l + 1 - m) + i
    <3>1. (m + 1) + i - 1 \in 1..(l + 1) /\ n - (l + 1) + ((m + 1) + i - 1) = n - (l + 1 - m) + i
      BY <2>1, <2>6
    <3> QED
      BY <1>7, <2>5, <3>1
  <2> QED
    BY <2>3, <2>5, <2>6
<1>10. ASSUME NEW s \in Topics
       PROVE  /\ ring'[s] \in Seq(Nat) /\ Len(ring'[s]) <= topicSeq'[s]
              /\ \A i \in 1..Len(ring'[s]) : ring'[s][i] = topicSeq'[s] - Len(ring'[s]) + i
  <2>1. CASE s = t
    <3>1. l + 1 - m <= n
      BY <1>7
    <3> QED
      BY <1>3, <1>a, <1>b, <2>1, <3>1
  <2>2. CASE s # t /\ ring'[s] = ring[s]
    BY <1>1, <1>3, <2>2 DEF RingInv
  <2>3. CASE s # t /\ ring'[s] = <<>>
    BY <1>3, <2>3, EmptySeq
  <2> QED
    BY <1>a, <2>1, <2>2, <2>3
<1> QED
  BY <1>3, <1>a, <1>10 DEF RingInv

\* The clients that are connected get the frame and know everything again.
LEMMA KnownPublished ==
    ASSUME RingInv, HubKnown, HubAssumption, NEW t \in Topics, Publish(t)
    PROVE  HubKnown'
<1>1. PICK n \in Nat : n = topicSeq[t] + 1
  BY DEF RingInv
<1>2. topicSeq'[t] = n /\ (\A s \in Topics : s # t => topicSeq'[s] = topicSeq[s]) /\ topicSeq[t] \in Nat
  BY <1>1 DEF RingInv, Publish
<1>3. UNCHANGED <<link, life>> /\ life \in Nat \ {0}
  BY DEF Publish, HubKnown
<1>4. last' = [c \in Clients |-> IF link[c] = "on" /\ t \in TopicsOf[c]
                                 THEN [last[c] EXCEPT ![t] = Got(c, t, n)] ELSE last[c]]
  BY <1>2 DEF Publish
<1>5. ASSUME NEW c \in Clients, t \in TopicsOf[c]
      PROVE  /\ Got(c, t, n) \in Known
             /\ Got(c, t, n).from = life /\ Got(c, t, n).cursor = n
             /\ Got(c, t, n).life = last[c][t].life
             /\ link[c] = "on" /\ last[c][t].life = life => Got(c, t, n).seq = n
  <2>1. PICK k \in Known : k = last[c][t]
    BY <1>5 DEF HubKnown
  <2>2. Got(c, t, n) = [k EXCEPT !.seq = IF k.seq = n - 1 /\ k.life = life THEN n ELSE k.seq,
                                 !.cursor = n, !.from = life]
    BY <2>1 DEF Got, Known
  <2>3. PICK v \in Nat : v = IF k.seq = n - 1 /\ k.life = life THEN n ELSE k.seq
    BY <1>1 DEF Known
  <2>4. life \in 0..life
    BY <1>3
  <2>5. Got(c, t, n) = [seq |-> v, life |-> k.life, cursor |-> n, from |-> life]
    BY <2>2, <2>3 DEF Known
  <2>6. link[c] = "on" /\ k.life = life => k.seq = n - 1
    BY <1>1, <1>2, <1>5, <2>1 DEF HubKnown, Knows
  <2> QED
    BY <1>1, <2>1, <2>3, <2>4, <2>5, <2>6 DEF Known
<1>6. ASSUME NEW c \in Clients, NEW s \in TopicsOf[c]
      PROVE  last'[c] \in [TopicsOf[c] -> Known] /\ Knows(c, s)'
  <2>0. s \in Topics /\ last[c] \in [TopicsOf[c] -> Known] /\ Knows(c, s)
    BY HubAssumption DEF HubKnown
  <2>1. CASE link[c] = "on" /\ t \in TopicsOf[c]
    <3>1. PICK g \in Known : g = Got(c, t, n)
      BY <1>5, <2>1
    <3>2. last'[c] = [last[c] EXCEPT ![t] = g]
      BY <1>4, <2>1, <3>1
    <3>3. last'[c] \in [TopicsOf[c] -> Known] /\ last'[c][s] = IF s = t THEN g ELSE last[c][s]
      BY <2>0, <3>1, <3>2
    <3>4. CASE s = t
      BY <1>1, <1>2, <1>3, <1>5, <2>1, <3>1, <3>3, <3>4 DEF Knows, Known
    <3>5. CASE s # t
      BY <1>2, <1>3, <2>0, <3>3, <3>5 DEF Knows
    <3> QED
      BY <3>3, <3>4, <3>5
  <2>2. CASE ~(link[c] = "on" /\ t \in TopicsOf[c])
    <3>1. last'[c] = last[c]
      BY <1>4, <2>2
    <3>2. CASE s # t
      BY <1>2, <1>3, <2>0, <3>1, <3>2 DEF Knows
    <3>3. CASE s = t
      BY <1>1, <1>2, <1>3, <2>0, <2>2, <3>1, <3>3 DEF Knows, Known
    <3> QED
      BY <2>0, <3>1, <3>2, <3>3
  <2> QED
    BY <2>1, <2>2
<1>7. Known' = Known
  BY <1>3 DEF Known
<1>8. \A c \in Clients : last'[c] \in [TopicsOf[c] -> Known]
  <2> SUFFICES ASSUME NEW c \in Clients PROVE last'[c] \in [TopicsOf[c] -> Known]
    OBVIOUS
  <2>1. last[c] \in [TopicsOf[c] -> Known]
    BY DEF HubKnown
  <2>2. CASE t \in TopicsOf[c] /\ link[c] = "on"
    BY <1>6, <2>2
  <2>3. CASE ~(t \in TopicsOf[c] /\ link[c] = "on")
    BY <1>4, <2>1, <2>3
  <2> QED
    BY <2>2, <2>3
<1>9. last' = [c \in Clients |-> last'[c]]
  BY <1>4
<1> QED
  BY <1>3, <1>6, <1>7, <1>8, <1>9 DEF HubKnown

\* The answer to a cursor: events of the ring, or the word of a gap.
LEMMA Replayed ==
    ASSUME RingInv, HubKnown, HubAssumption, NEW c \in Clients, NEW t \in TopicsOf[c]
    PROVE  /\ AfterReplay(c, t) \in Known
           /\ AfterReplay(c, t).from = life => AfterReplay(c, t).cursor <= topicSeq[t]
           /\ AfterReplay(c, t).from = life /\ AfterReplay(c, t).life = life =>
                AfterReplay(c, t).cursor <= AfterReplay(c, t).seq
           /\ AfterReplay(c, t).life = life => AfterReplay(c, t).seq = topicSeq[t]
<1>1. PICK k \in Known : k = last[c][t]
  BY DEF HubKnown
<1>2. PICK n \in Nat : n = topicSeq[t]
  BY HubAssumption DEF RingInv
<1>3. PICK r \in Seq(Nat) : r = ring[t]
  BY HubAssumption DEF RingInv
<1>4. PICK a : a = AfterReplay(c, t)
  OBVIOUS
<1>5. Len(r) \in Nat /\ Len(r) <= n /\ \A i \in 1..Len(r) : r[i] = n - Len(r) + i
  BY <1>2, <1>3, HubAssumption, LenProperties DEF RingInv
<1>6. /\ k.from = life => k.cursor <= n
      /\ k.from = life /\ k.life = life => k.cursor <= k.seq
      /\ k.life = life => k.seq <= n
  BY <1>1, <1>2 DEF HubKnown, Knows
<1>7. life \in Nat \ {0} /\ life \in 0..life /\ 0 \in 0..life
  BY DEF HubKnown
<1>8. k.seq \in Nat /\ k.cursor \in Nat /\ k.life \in 0..life /\ k.from \in 0..life
      /\ k = [seq |-> k.seq, life |-> k.life, cursor |-> k.cursor, from |-> k.from]
  BY DEF Known
<1>9. CASE k.from = 0 \/ Gap(t, k.cursor)
  <2>1. a = [k EXCEPT !.seq = n, !.life = life]
    BY <1>1, <1>2, <1>4, <1>9 DEF AfterReplay
  <2>2. a = [seq |-> n, life |-> life, cursor |-> k.cursor, from |-> k.from]
    BY <1>8, <2>1
  <2> QED
    BY <1>2, <1>4, <1>6, <1>7, <1>8, <2>2 DEF Known
<1>10. CASE ~(k.from = 0 \/ Gap(t, k.cursor)) /\ k.from # life
  <2>1. a = [k EXCEPT !.life = 0]
    BY <1>1, <1>4, <1>10 DEF AfterReplay
  <2>2. a = [seq |-> k.seq, life |-> 0, cursor |-> k.cursor, from |-> k.from]
    BY <1>8, <2>1
  <2> QED
    BY <1>2, <1>4, <1>6, <1>7, <1>8, <1>10, <2>2 DEF Known
<1>11. CASE ~(k.from = 0 \/ Gap(t, k.cursor)) /\ k.from = life
  <2>1. PICK newer : newer = {seq \in ToSet(r) : seq > k.cursor}
    OBVIOUS
  <2>2. a = IF newer = {} THEN k
            ELSE [k EXCEPT !.seq = IF \E seq \in newer : seq <= k.seq + 1 THEN n ELSE k.seq, !.cursor = n]
    BY <1>1, <1>2, <1>3, <1>4, <1>11, <2>1, Zenon DEF AfterReplay
  <2>3. newer = {n - Len(r) + i : i \in 1..Len(r)} \cap {x \in Nat : x > k.cursor}
    <3>1. ToSet(r) = {n - Len(r) + i : i \in 1..Len(r)}
      <4>1. DOMAIN r = 1..Len(r)
        BY <1>3, LenProperties
      <4> QED
        BY <1>5, <4>1 DEF ToSet, Range
    <3>2. \A i \in 1..Len(r) : n - Len(r) + i \in Nat
      BY <1>2, <1>5
    <3>3. \A x : x \in newer <=> x \in ToSet(r) /\ x > k.cursor
      BY <2>1
    <3>4. \A x \in ToSet(r) : x \in Nat
      BY <3>1, <3>2
    <3>5. newer = ToSet(r) \cap {x \in Nat : x > k.cursor}
      BY <3>3, <3>4
    <3> QED
      BY <3>1, <3>5, Zenon
  <2>4. k.cursor <= n /\ k.cursor + 1 >= IF r = <<>> THEN n + 1 ELSE r[1]
    <3>1. PICK o : o = IF r = <<>> THEN n + 1 ELSE r[1]
      OBVIOUS
    <3>2. o \in Nat
      BY <1>3, <3>1, ElementOfSeq, EmptySeq
    <3>3. ~(k.cursor > n \/ k.cursor + 1 < o)
      BY <1>2, <1>3, <1>11, <3>1 DEF Gap, OldestKept
    <3> QED
      BY <1>8, <3>1, <3>2, <3>3
  <2>5. CASE k.cursor = n
    <3>1. newer = {}
      BY <1>2, <1>5, <2>3, <2>5
    <3>2. a = k
      BY <2>2, <3>1
    <3> QED
      BY <1>2, <1>4, <1>6, <1>8, <1>11, <2>5, <3>2
  <2>6. CASE k.cursor < n
    <3>1. r # <<>> /\ Len(r) >= 1
      BY <1>2, <1>5, <1>8, <2>4, <2>6, EmptySeq
    <3>2. r[1] = n - Len(r) + 1
      BY <1>5, <3>1
    <3>a. PICK l \in Nat : l = Len(r)
      BY <1>5
    <3>b. PICK x \in Nat : x = k.cursor
      BY <1>8
    <3>3. PICK i : i = x + 1 - n + l
      OBVIOUS
    <3>4. i \in 1..Len(r) /\ n - Len(r) + i = k.cursor + 1
      <4>1. x + 1 >= n - l + 1 /\ x < n
        BY <2>4, <2>6, <3>1, <3>2, <3>a, <3>b
      <4>2. i \in 1..l /\ n - l + i = x + 1
        BY <3>3, <4>1
      <4> QED
        BY <3>a, <3>b, <4>2
    <3>5. k.cursor + 1 \in newer
      <4>1. k.cursor + 1 \in {n - Len(r) + m : m \in 1..Len(r)}
        BY <3>4
      <4>2. k.cursor + 1 \in {y \in Nat : y > k.cursor}
        BY <1>8
      <4> QED
        BY <2>3, <4>1, <4>2, Zenon
    <3>6. k.life = life => k.cursor + 1 <= k.seq + 1
      BY <1>6, <1>8, <1>11
    <3>7. PICK v \in Nat : v = IF \E seq \in newer : seq <= k.seq + 1 THEN n ELSE k.seq
      BY <1>2, <1>8
    <3>8. a = [seq |-> v, life |-> k.life, cursor |-> n, from |-> k.from]
      BY <1>8, <2>2, <3>5, <3>7
    <3>9. k.life = life => v = n
      BY <3>5, <3>6, <3>7
    <3> QED
      BY <1>2, <1>4, <1>7, <1>8, <3>8, <3>9 DEF Known
  <2> QED
    BY <1>2, <1>8, <2>4, <2>5, <2>6
<1> QED
  BY <1>9, <1>10, <1>11

\* A connection that is not accepted changes nothing of what is known.
LEMMA HubFrame ==
    ASSUME RingInv, HubKnown, UNCHANGED <<topicSeq, ring, last, life>>,
           link' \in [Clients -> {"off", "auth", "on"}],
           \A c \in Clients : link'[c] = "on" => link[c] = "on"
    PROVE  RingInv' /\ HubKnown'
<1>1. RingInv'
  BY DEF RingInv
<1>2. \A c \in Clients : \A t \in TopicsOf[c] : Knows(c, t)'
  BY DEF HubKnown, Knows
<1>3. Known' = Known
  BY DEF Known
<1> QED
  BY <1>1, <1>2, <1>3 DEF HubKnown

LEMMA KnownAccepted ==
    ASSUME RingInv, HubKnown, HubAssumption, NEW c \in Clients, Accepted(c)
    PROVE  RingInv' /\ HubKnown'
<1>1. UNCHANGED <<topicSeq, ring, life>> /\ RingInv'
  BY DEF Accepted, RingInv
<1>2. CASE link' = [link EXCEPT ![c] = "off"] /\ UNCHANGED last
  BY <1>1, <1>2, HubFrame DEF HubKnown
<1>3. CASE /\ link' = [link EXCEPT ![c] = "on"]
           /\ last' = [last EXCEPT ![c] = [t \in TopicsOf[c] |-> AfterReplay(c, t)]]
  <2>1. PICK f : f = [t \in TopicsOf[c] |-> AfterReplay(c, t)]
    OBVIOUS
  <2>2. f \in [TopicsOf[c] -> Known] /\ \A t \in TopicsOf[c] : f[t] = AfterReplay(c, t)
    BY <2>1, Replayed
  <2>3. /\ last' = [b \in Clients |-> last'[b]] /\ last'[c] = f
        /\ \A b \in Clients : b # c => last'[b] = last[b] /\ link'[b] = link[b]
        /\ link' \in [Clients -> {"off", "auth", "on"}]
    BY <1>3, <2>1 DEF HubKnown
  <2>4. \A t \in TopicsOf[c] : Knows(c, t)'
    <3> SUFFICES ASSUME NEW t \in TopicsOf[c] PROVE Knows(c, t)'
      OBVIOUS
    <3>1. PICK a : a = AfterReplay(c, t)
      OBVIOUS
    <3>2. last'[c][t] = a
      BY <2>2, <2>3, <3>1
    <3>3. topicSeq[t] \in Nat
      BY HubAssumption DEF RingInv
    <3>4. /\ a.from = life => a.cursor <= topicSeq[t]
          /\ a.from = life /\ a.life = life => a.cursor <= a.seq
          /\ a.life = life => a.seq = topicSeq[t]
      BY <3>1, Replayed
    <3> QED
      BY <1>1, <3>2, <3>3, <3>4 DEF Knows
  <2>5. \A b \in Clients : \A t \in TopicsOf[b] : b # c => Knows(b, t)'
    BY <1>1, <2>3 DEF HubKnown, Knows
  <2>6. Known' = Known
    BY <1>1 DEF Known
  <2>7. \A b \in Clients : last'[b] \in [TopicsOf[b] -> Known]
    BY <2>2, <2>3 DEF HubKnown
  <2> QED
    BY <1>1, <2>3, <2>4, <2>5, <2>6, <2>7 DEF HubKnown
<1> QED
  BY <1>2, <1>3 DEF Accepted

LEMMA HubStep == RingInv /\ HubKnown /\ [HubNext]_hubVars => RingInv' /\ HubKnown'
<1> SUFFICES ASSUME RingInv, HubKnown, [HubNext]_hubVars PROVE RingInv' /\ HubKnown'
  OBVIOUS
<1> USE HubAssumption
<1>1. ASSUME NEW t \in Topics, Publish(t) PROVE RingInv' /\ HubKnown'
  BY <1>1, RingPublished, KnownPublished
<1>2. ASSUME NEW c \in Clients, Accepted(c) PROVE RingInv' /\ HubKnown'
  BY <1>2, KnownAccepted
<1>3. ASSUME NEW c \in Clients, Connect(c) \/ Refused(c) \/ LinkBreaks(c) \/ Detach(c)
      PROVE  RingInv' /\ HubKnown'
  <2>1. UNCHANGED <<topicSeq, ring, last, life>>
        /\ (UNCHANGED link \/ \E x \in {"auth", "off"} : link' = [link EXCEPT ![c] = x])
    BY <1>3 DEF Connect, Refused, LinkBreaks, Detach
  <2>2. link' \in [Clients -> {"off", "auth", "on"}] /\ \A b \in Clients : link'[b] = "on" => link[b] = "on"
    BY <2>1 DEF HubKnown
  <2> QED
    BY <2>1, <2>2, HubFrame
<1>4. CASE HubRestarts
  <2>1. RingInv'
    BY <1>4, EmptySeq DEF HubRestarts, RingInv
  <2>2. PICK n \in Nat : n = life
    BY DEF HubKnown
  <2>3. life' = n + 1 /\ UNCHANGED last /\ link' = [c \in Clients |-> "off"]
    BY <1>4, <2>2 DEF HubRestarts
  <2>4. \A k \in Known : k \in Known' /\ k.life # life' /\ k.from # life'
    BY <2>2, <2>3 DEF Known
  <2>5. \A c \in Clients : last'[c] \in [TopicsOf[c] -> Known'] /\ \A t \in TopicsOf[c] : last'[c][t] \in Known
    BY <2>3, <2>4 DEF HubKnown
  <2>6. \A c \in Clients : \A t \in TopicsOf[c] : Knows(c, t)'
    BY <2>4, <2>5 DEF Knows
  <2> QED
    BY <2>1, <2>2, <2>3, <2>5, <2>6 DEF HubKnown
<1>5. CASE UNCHANGED hubVars
  BY <1>5, HubFrame DEF hubVars, HubKnown
<1> QED
  BY <1>1, <1>2, <1>3, <1>4, <1>5 DEF HubNext

LEMMA HubStart == HubInit => RingInv /\ HubKnown
<1> SUFFICES ASSUME HubInit PROVE RingInv /\ HubKnown
  OBVIOUS
<1>1. RingInv
  BY EmptySeq DEF HubInit, RingInv
<1>2. Unknown \in Known
  BY DEF HubInit, Known, Unknown
<1>3. \A c \in Clients : last[c] \in [TopicsOf[c] -> Known]
  BY <1>2 DEF HubInit
<1>4. \A c \in Clients : \A t \in TopicsOf[c] : Knows(c, t)
  BY DEF HubInit, Knows, Unknown
<1> QED
  BY <1>1, <1>3, <1>4 DEF HubInit, HubKnown

\* However connections break and rings fill, nothing is missed in silence.
THEOREM HubTells == HubSpec => []NothingMissed
<1>1. HubKnown => NothingMissed
  BY DEF HubKnown, Knows, NothingMissed
<1> QED
  BY <1>1, HubStart, HubStep, PTL DEF HubSpec

-----------------------------------------------------------------------------
(* Files: rows and files are paired, and the quota is kept but for a race *)

\* The file of an upload is nobody else's and has no row yet; what is to be
\* deleted from the table is off the disk, and what is to be entered on it.
Uploads == {"put", "insert", "undo"}
FilesApart ==
    /\ \A o \in FileOps : fileOp[o].pc \in Uploads => fileOp[o].file \notin DOMAIN fileRows
    /\ \A o, p \in FileOps :
         o # p /\ fileOp[o].pc \in Uploads /\ fileOp[p].pc \in Uploads \union {"unlink", "delete"} =>
             fileOp[o].file # fileOp[p].file
    /\ \A o \in FileOps : fileOp[o].pc = "delete" => fileOp[o].file \notin onDisk
    /\ \A o \in FileOps : fileOp[o].pc = "insert" => fileOp[o].file \in onDisk
FilesAgree ==
    /\ \A f \in onDisk : f \in DOMAIN fileRows \/ f \in litter \/ FileInHand(f, {"insert", "undo"})
    /\ \A f \in DOMAIN fileRows : f \in onDisk \/ f \in hollow \/ FileInHand(f, {"delete"})

\* Bytes that a request which has passed the quota is about to store for e.
Claim(r, e) == IF r.pc \in {"hook", "put", "insert"} /\ r.owner = e THEN r.size ELSE 0
Claims(e) == [o \in FileOps |-> Claim(fileOp[o], e)]
FilesWithin ==
    \A e \in Owners :
        UsedBytes(e) + SumFunctionOnSet(Claims(e), FileOps)
            <= StorageQuota + (Cardinality(FileOps) - 1) * MaxUpload + grown[e]

FileRequests(top) ==
    [pc : {"idle", "quota", "hook", "put", "insert", "undo", "unlink", "delete"},
     owner : Owners \union {Kernel}, size : 0..MaxUpload, file : 0..top]

\* A request moves on, and the others stay where they are.
LEMMA FileMoves ==
    ASSUME FilesTypeOK, NEW o \in FileOps, lastFile' \in {lastFile, lastFile + 1},
           NEW pc \in {"idle", "quota", "hook", "put", "insert", "undo", "unlink", "delete"},
           NEW owner \in Owners \union {Kernel}, NEW size \in 0..MaxUpload, NEW file \in 0..lastFile',
           FileGo(o, FileRequest(pc, owner, size, file))
    PROVE  /\ fileOp' \in [FileOps -> FileRequests(lastFile')]
           /\ fileOp'[o].pc = pc /\ fileOp'[o].owner = owner
           /\ fileOp'[o].size = size /\ fileOp'[o].file = file
           /\ \A p \in FileOps : p # o => fileOp'[p] = fileOp[p]
<1>1. fileOp \in [FileOps -> FileRequests(lastFile)] /\ lastFile \in Nat
  BY FilesAssumption DEF FilesTypeOK, FileRequests
<1>2. \A n \in 0..lastFile : n \in 0..lastFile'
  BY <1>1
<1>3. \A r \in FileRequests(lastFile) : r \in FileRequests(lastFile')
  BY <1>2 DEF FileRequests
<1>4. PICK r : r = FileRequest(pc, owner, size, file)
  OBVIOUS
<1>5. r \in FileRequests(lastFile') /\ r.pc = pc /\ r.owner = owner /\ r.size = size /\ r.file = file
  BY <1>4 DEF FileRequest, FileRequests
<1>6. fileOp' = [fileOp EXCEPT ![o] = r]
  BY <1>4 DEF FileGo
<1> QED
  BY <1>1, <1>3, <1>5, <1>6

\* A request that only gets to its next step.
LEMMA FileGoesOn ==
    ASSUME FilesTypeOK, NEW o \in FileOps
    PROVE  /\ \A pc : [fileOp[o] EXCEPT !.pc = pc] =
                          FileRequest(pc, fileOp[o].owner, fileOp[o].size, fileOp[o].file)
           /\ fileOp[o].owner \in Owners \union {Kernel} /\ fileOp[o].size \in 0..MaxUpload
           /\ fileOp[o].file \in 0..lastFile /\ lastFile \in Nat /\ 0 \in 0..MaxUpload /\ 0 \in 0..lastFile
<1>1. PICK r \in FileRequests(lastFile) : r = fileOp[o]
  BY DEF FilesTypeOK, FileRequests
<1>2. \A pc : [r EXCEPT !.pc = pc] = FileRequest(pc, r.owner, r.size, r.file)
  BY DEF FileRequests, FileRequest
<1>3. lastFile \in Nat /\ MaxUpload \in Nat
  BY FilesAssumption DEF FilesTypeOK
<1> QED
  BY <1>1, <1>2, <1>3 DEF FileRequests

\* The rest of the type, for a step that gives out no id.
LEMMA FilesTypeFrame ==
    ASSUME FilesTypeOK, UNCHANGED lastFile, fileOp' \in [FileOps -> FileRequests(lastFile)],
           UNCHANGED grown \/ grown' \in [Owners -> Nat],
           UNCHANGED fileRows \/ (DOMAIN fileRows' \subseteq 1..lastFile
                 /\ \A f \in DOMAIN fileRows' : fileRows'[f] \in [owner : Owners \union {Kernel}, size : Sizes]),
           onDisk' \subseteq 1..lastFile, litter' \subseteq 1..lastFile, hollow' \subseteq 1..lastFile
    PROVE  FilesTypeOK'
BY DEF FilesTypeOK, FileRequests

\* What is entered, and what is taken out of the table.
LEMMA RowsEntered ==
    ASSUME FilesTypeOK, NEW o \in FileOps, fileOp[o].pc = "insert", fileOp[o].file \in 1..lastFile,
           fileOp[o].size \in Sizes, Entered(o)
    PROVE  /\ DOMAIN fileRows' = DOMAIN fileRows \union {fileOp[o].file}
           /\ DOMAIN fileRows' \subseteq 1..lastFile
           /\ fileRows'[fileOp[o].file] = [owner |-> fileOp[o].owner, size |-> fileOp[o].size]
           /\ \A f \in DOMAIN fileRows : f # fileOp[o].file => fileRows'[f] = fileRows[f]
           /\ \A f \in DOMAIN fileRows' : fileRows'[f] \in [owner : Owners \union {Kernel}, size : Sizes]
<1>1. PICK n : n = fileOp[o].file
  OBVIOUS
<1>2. PICK r : r = [owner |-> fileOp[o].owner, size |-> fileOp[o].size]
  OBVIOUS
<1>3. fileRows' = [f \in DOMAIN fileRows \union {n} |-> IF f = n THEN r ELSE fileRows[f]]
  BY <1>1, <1>2 DEF Entered
<1>4. r \in [owner : Owners \union {Kernel}, size : Sizes]
  BY <1>2, FileGoesOn
<1>5. /\ DOMAIN fileRows' = DOMAIN fileRows \union {n}
      /\ \A f \in DOMAIN fileRows \union {n} : fileRows'[f] = IF f = n THEN r ELSE fileRows[f]
  BY <1>3
<1>6. /\ DOMAIN fileRows \subseteq 1..lastFile
      /\ \A f \in DOMAIN fileRows : fileRows[f] \in [owner : Owners \union {Kernel}, size : Sizes]
  BY DEF FilesTypeOK
<1> QED
  BY <1>1, <1>2, <1>4, <1>5, <1>6

LEMMA RowsDeleted ==
    ASSUME FilesTypeOK, NEW n, fileRows' = [f \in DOMAIN fileRows \ {n} |-> fileRows[f]]
    PROVE  /\ DOMAIN fileRows' = DOMAIN fileRows \ {n}
           /\ \A f \in DOMAIN fileRows' : fileRows'[f] = fileRows[f]
           /\ DOMAIN fileRows' \subseteq 1..lastFile
           /\ \A f \in DOMAIN fileRows' : fileRows'[f] \in [owner : Owners \union {Kernel}, size : Sizes]
BY DEF FilesTypeOK

\* The size and the id that a request carries, once it has them.
FilesCarry ==
    \A o \in FileOps :
        /\ fileOp[o].pc \in {"quota", "hook", "put", "insert", "undo"} => fileOp[o].size \in Sizes
        /\ fileOp[o].pc \in Uploads \union {"unlink", "delete"} => fileOp[o].file \in 1..lastFile

LEMMA FilesTypeStep == FilesTypeOK /\ FilesCarry /\ [FilesNext]_filesVars => FilesTypeOK' /\ FilesCarry'
<1> SUFFICES ASSUME FilesTypeOK, FilesCarry, [FilesNext]_filesVars PROVE FilesTypeOK' /\ FilesCarry'
  OBVIOUS
<1> USE FilesAssumption
<1>0. /\ fileOp \in [FileOps -> FileRequests(lastFile)] /\ lastFile \in Nat /\ grown \in [Owners -> Nat]
      /\ onDisk \subseteq 1..lastFile /\ litter \subseteq 1..lastFile /\ hollow \subseteq 1..lastFile
      /\ DOMAIN fileRows \subseteq 1..lastFile
  BY DEF FilesTypeOK, FileRequests
\* A request that moves on with what it carries, or comes to rest.
<1>1. ASSUME NEW o \in FileOps, UNCHANGED <<fileRows, lastFile, grown>>,
             NEW pc \in {"idle", "quota", "hook", "put", "insert", "undo", "unlink", "delete"},
             NEW owner \in Owners \union {Kernel}, NEW size \in 0..MaxUpload, NEW file \in 0..lastFile,
             FileGo(o, FileRequest(pc, owner, size, file)),
             pc \in {"quota", "hook", "put", "insert", "undo"} => size \in Sizes,
             pc \in Uploads \union {"unlink", "delete"} => file \in 1..lastFile,
             onDisk' \subseteq 1..lastFile, litter' \subseteq 1..lastFile, hollow' \subseteq 1..lastFile
      PROVE  FilesTypeOK' /\ FilesCarry'
  <2>1. /\ fileOp' \in [FileOps -> FileRequests(lastFile)]
        /\ fileOp'[o].pc = pc /\ fileOp'[o].size = size /\ fileOp'[o].file = file
        /\ \A p \in FileOps : p # o => fileOp'[p] = fileOp[p]
    BY <1>1, FileMoves
  <2>2. FilesTypeOK'
    BY <1>1, <2>1, FilesTypeFrame
  <2>3. FilesCarry'
    BY <1>1, <2>1 DEF FilesCarry
  <2> QED
    BY <2>2, <2>3
<1>2. ASSUME NEW o \in FileOps, NEW e \in Owners \union {Kernel}, NEW size \in Sizes, Store(o, e, size)
      PROVE  FilesTypeOK' /\ FilesCarry'
  <2>1. PICK pc \in {"hook", "quota"} : FileGo(o, FileRequest(pc, e, size, 0))
    BY <1>2 DEF Store
  <2>2. 0 \in 0..lastFile /\ size \in 0..MaxUpload
    BY <1>0 DEF Sizes
  <2>3. UNCHANGED <<fileRows, onDisk, lastFile, litter, hollow, grown>>
    BY <1>2 DEF Store
  <2> QED
    BY <1>0, <1>1, <2>1, <2>2, <2>3 DEF Uploads
<1>3. ASSUME NEW o \in FileOps, UNCHANGED <<fileRows, lastFile, grown>>, FileGo(o, NoFileOp),
             onDisk' \subseteq 1..lastFile, litter' \subseteq 1..lastFile, hollow' \subseteq 1..lastFile
      PROVE  FilesTypeOK' /\ FilesCarry'
  <2>1. 0 \in 0..MaxUpload /\ 0 \in 0..lastFile
    BY FileGoesOn
  <2>2. FileGo(o, FileRequest("idle", Kernel, 0, 0))
    BY <1>3 DEF NoFileOp
  <2> QED
    BY <1>1, <1>3, <2>1, <2>2 DEF Uploads
<1>4. ASSUME NEW o \in FileOps, UNCHANGED <<fileRows, lastFile, grown>>, NEW pc \in {"hook", "insert", "undo", "delete"},
             FileGo(o, [fileOp[o] EXCEPT !.pc = pc]), pc # "delete" => fileOp[o].size \in Sizes,
             pc # "hook" => fileOp[o].file \in 1..lastFile,
             onDisk' \subseteq 1..lastFile, litter' \subseteq 1..lastFile, hollow' \subseteq 1..lastFile
      PROVE  FilesTypeOK' /\ FilesCarry'
  <2>1. PICK owner \in Owners \union {Kernel}, size \in 0..MaxUpload, file \in 0..lastFile :
            owner = fileOp[o].owner /\ size = fileOp[o].size /\ file = fileOp[o].file
    BY FileGoesOn
  <2>2. FileGo(o, FileRequest(pc, owner, size, file))
    BY <1>4, <2>1, FileGoesOn
  <2> QED
    BY <1>1, <1>4, <2>1, <2>2 DEF Uploads
<1>5. ASSUME NEW o \in FileOps, QuotaRead(o) PROVE FilesTypeOK' /\ FilesCarry'
  <2>1. fileOp[o].pc = "quota" /\ UNCHANGED <<fileRows, onDisk, lastFile, litter, hollow, grown>>
    BY <1>5 DEF QuotaRead, FileAt
  <2>2. FileGo(o, [fileOp[o] EXCEPT !.pc = "hook"]) \/ FileGo(o, NoFileOp)
    BY <1>5 DEF QuotaRead
  <2>3. fileOp[o].size \in Sizes
    BY <2>1 DEF FilesCarry
  <2> QED
    BY <1>0, <1>3, <1>4, <2>1, <2>2, <2>3
<1>6. ASSUME NEW o \in FileOps, Hooked(o) PROVE FilesTypeOK' /\ FilesCarry'
  <2>1. UNCHANGED <<fileRows, onDisk, litter, hollow>>
    BY <1>6 DEF Hooked
  <2>2. CASE FileGo(o, NoFileOp) /\ UNCHANGED <<lastFile, grown>>
    BY <1>0, <1>3, <2>1, <2>2
  <2>3. CASE lastFile < MaxFiles /\ ~(FileGo(o, NoFileOp) /\ UNCHANGED <<lastFile, grown>>)
    <3>1. PICK n \in 1..MaxFiles : n = lastFile + 1
      BY <1>0, <2>3
    <3>2. PICK e \in Owners \union {Kernel}, size \in Sizes :
              /\ FileGo(o, FileRequest("put", e, size, n))
              /\ grown' = IF e = Kernel \/ (e = fileOp[o].owner /\ size <= fileOp[o].size) THEN grown
                          ELSE [grown EXCEPT ![e] = @ + size - (IF e = fileOp[o].owner THEN fileOp[o].size ELSE 0)]
      BY <1>6, <2>3, <3>1 DEF Hooked
    <3>3. lastFile' = n
      BY <1>6, <2>3, <3>1 DEF Hooked
    <3>4. size \in 0..MaxUpload /\ n \in 0..lastFile' /\ lastFile' \in {lastFile, lastFile + 1}
      BY <3>1, <3>3 DEF Sizes
    <3>5. /\ fileOp' \in [FileOps -> FileRequests(lastFile')]
          /\ fileOp'[o].pc = "put" /\ fileOp'[o].size = size /\ fileOp'[o].file = n
          /\ \A p \in FileOps : p # o => fileOp'[p] = fileOp[p]
      BY <3>2, <3>4, FileMoves
    <3>6. grown' \in [Owners -> Nat]
      <4>1. CASE grown' = grown
        BY <1>0, <4>1
      <4>2. CASE e \in Owners /\ ~(e = fileOp[o].owner /\ size <= fileOp[o].size)
        <5>1. PICK d \in Nat : d = IF e = fileOp[o].owner THEN fileOp[o].size ELSE 0
          BY FileGoesOn
        <5>2. d <= size /\ grown[e] \in Nat
          BY <1>0, <4>2, <5>1, FileGoesOn DEF Sizes
        <5>3. grown[e] + size - d \in Nat
          BY <5>2 DEF Sizes
        <5>4. grown' = [grown EXCEPT ![e] = grown[e] + size - d]
          BY <3>2, <4>2, <5>1
        <5> QED
          BY <1>0, <5>3, <5>4
      <4> QED
        BY <3>2, <4>1, <4>2
    <3>7. \A m \in 1..lastFile : m \in 1..lastFile'
      BY <1>0, <3>1, <3>3
    <3>8. FilesTypeOK'
      BY <1>0, <2>1, <3>1, <3>3, <3>5, <3>6, <3>7 DEF FilesTypeOK, FileRequests
    <3>9. n \in 1..lastFile'
      BY <3>1, <3>3
    <3>10. FilesCarry'
      BY <3>5, <3>7, <3>9 DEF FilesCarry
    <3> QED
      BY <3>8, <3>10
  <2> QED
    BY <1>6, <2>2, <2>3 DEF Hooked
<1>7. ASSUME NEW o \in FileOps, PutFile(o) PROVE FilesTypeOK' /\ FilesCarry'
  <2>1. fileOp[o].pc = "put" /\ UNCHANGED <<fileRows, lastFile, hollow, grown>>
    BY <1>7 DEF PutFile, FileAt
  <2>2. fileOp[o].size \in Sizes /\ fileOp[o].file \in 1..lastFile
    BY <2>1 DEF FilesCarry, Uploads
  <2>3. onDisk' \subseteq 1..lastFile /\ litter' \subseteq 1..lastFile /\ hollow' \subseteq 1..lastFile
    BY <1>0, <1>7, <2>1, <2>2 DEF PutFile
  <2>4. FileGo(o, [fileOp[o] EXCEPT !.pc = "insert"]) \/ FileGo(o, NoFileOp)
    BY <1>7 DEF PutFile
  <2> QED
    BY <1>3, <1>4, <2>1, <2>2, <2>3, <2>4
<1>8. ASSUME NEW o \in FileOps, Insert(o) PROVE FilesTypeOK' /\ FilesCarry'
  <2>1. fileOp[o].pc = "insert" /\ UNCHANGED <<onDisk, lastFile, litter, hollow, grown>>
    BY <1>8 DEF Insert, FileAt
  <2>2. fileOp[o].size \in Sizes /\ fileOp[o].file \in 1..lastFile
    BY <2>1 DEF FilesCarry, Uploads
  <2>3. CASE FileGo(o, [fileOp[o] EXCEPT !.pc = "undo"]) /\ UNCHANGED fileRows
    BY <1>0, <1>4, <2>1, <2>2, <2>3
  <2>4. CASE Entered(o) /\ FileGo(o, NoFileOp)
    <3>1. /\ fileOp' \in [FileOps -> FileRequests(lastFile)]
          /\ fileOp'[o].pc = "idle"
          /\ \A p \in FileOps : p # o => fileOp'[p] = fileOp[p]
      BY <2>1, <2>4, FileMoves, FileGoesOn DEF NoFileOp
    <3>2. FilesTypeOK'
      BY <1>0, <2>1, <2>2, <2>4, <3>1, RowsEntered, FilesTypeFrame
    <3>3. FilesCarry'
      BY <2>1, <3>1 DEF FilesCarry, Uploads
    <3> QED
      BY <3>2, <3>3
  <2> QED
    BY <1>8, <2>3, <2>4 DEF Insert
<1>9. ASSUME NEW o \in FileOps, Undo(o) PROVE FilesTypeOK' /\ FilesCarry'
  <2>1. fileOp[o].pc = "undo" /\ FileGo(o, NoFileOp) /\ UNCHANGED <<fileRows, lastFile, hollow, grown>>
    BY <1>9 DEF Undo, FileAt
  <2>2. fileOp[o].file \in 1..lastFile
    BY <2>1 DEF FilesCarry, Uploads
  <2>3. onDisk' \subseteq 1..lastFile /\ litter' \subseteq 1..lastFile /\ hollow' \subseteq 1..lastFile
    BY <1>0, <1>9, <2>1, <2>2 DEF Undo
  <2> QED
    BY <1>3, <2>1, <2>3
<1>10. ASSUME NEW o \in FileOps, NEW f \in 1..lastFile, RemoveFile(o, f) PROVE FilesTypeOK' /\ FilesCarry'
  <2>1. FileGo(o, FileRequest("unlink", Kernel, 0, f)) /\ UNCHANGED <<fileRows, onDisk, lastFile, litter, hollow, grown>>
    BY <1>10 DEF RemoveFile
  <2>2. 0 \in 0..MaxUpload /\ f \in 0..lastFile
    BY FileGoesOn
  <2> QED
    BY <1>0, <1>1, <2>1, <2>2
<1>11. ASSUME NEW o \in FileOps, Unlink(o) PROVE FilesTypeOK' /\ FilesCarry'
  <2>1. fileOp[o].pc = "unlink" /\ UNCHANGED <<fileRows, lastFile, litter, hollow, grown>>
    BY <1>11 DEF Unlink, FileAt
  <2>2. fileOp[o].file \in 1..lastFile
    BY <2>1 DEF FilesCarry
  <2>3. onDisk' \subseteq 1..lastFile /\ litter' \subseteq 1..lastFile /\ hollow' \subseteq 1..lastFile
    BY <1>0, <1>11, <2>1 DEF Unlink
  <2>4. FileGo(o, [fileOp[o] EXCEPT !.pc = "delete"]) \/ FileGo(o, NoFileOp)
    BY <1>11 DEF Unlink
  <2> QED
    BY <1>3, <1>4, <2>1, <2>2, <2>3, <2>4
<1>12. ASSUME NEW o \in FileOps, Delete(o) PROVE FilesTypeOK' /\ FilesCarry'
  <2>1. fileOp[o].pc = "delete" /\ FileGo(o, NoFileOp) /\ UNCHANGED <<onDisk, lastFile, litter, grown>>
    BY <1>12 DEF Delete, FileAt
  <2>2. fileOp[o].file \in 1..lastFile
    BY <2>1 DEF FilesCarry
  <2>3. CASE UNCHANGED fileRows
    <3>1. onDisk' \subseteq 1..lastFile /\ litter' \subseteq 1..lastFile /\ hollow' \subseteq 1..lastFile
      BY <1>0, <1>12, <2>1, <2>2 DEF Delete
    <3> QED
      BY <1>3, <2>1, <2>3, <3>1
  <2>4. CASE fileRows' = [f \in DOMAIN fileRows \ {fileOp[o].file} |-> fileRows[f]] /\ UNCHANGED hollow
    <3>1. /\ fileOp' \in [FileOps -> FileRequests(lastFile)]
          /\ fileOp'[o].pc = "idle"
          /\ \A p \in FileOps : p # o => fileOp'[p] = fileOp[p]
      BY <2>1, FileMoves, FileGoesOn DEF NoFileOp
    <3>2. PICK n : n = fileOp[o].file
      OBVIOUS
    <3>3. FilesTypeOK'
      BY <1>0, <2>1, <2>4, <3>1, <3>2, RowsDeleted, FilesTypeFrame
    <3>4. FilesCarry'
      BY <2>1, <3>1 DEF FilesCarry, Uploads
    <3> QED
      BY <3>3, <3>4
  <2> QED
    BY <1>12, <2>3, <2>4 DEF Delete
<1>13. CASE FilesCrash
  <2>1. /\ UNCHANGED <<fileRows, onDisk, lastFile, grown>>
        /\ fileOp' = [o \in FileOps |-> NoFileOp]
        /\ litter' \subseteq 1..lastFile /\ hollow' \subseteq 1..lastFile
    BY <1>0, <1>13 DEF FilesCrash
  <2>2. NoFileOp \in FileRequests(lastFile) /\ NoFileOp.pc = "idle"
    BY <1>0 DEF NoFileOp, FileRequest, FileRequests
  <2>3. FilesTypeOK'
    BY <1>0, <2>1, <2>2, FilesTypeFrame
  <2> QED
    BY <2>1, <2>2, <2>3 DEF FilesCarry, Uploads
<1>14. CASE UNCHANGED filesVars
  <2>1. FilesTypeOK'
    BY <1>0, <1>14, FilesTypeFrame DEF filesVars
  <2> QED
    BY <1>14, <2>1 DEF filesVars, FilesCarry
<1> QED
  BY <1>2, <1>5, <1>6, <1>7, <1>8, <1>9, <1>10, <1>11, <1>12, <1>13, <1>14 DEF FilesNext

\* Rows and files stay paired, step by step.
LEMMA FilesPairStep ==
    FilesTypeOK /\ FilesCarry /\ FilesApart /\ FilesAgree /\ [FilesNext]_filesVars => FilesApart' /\ FilesAgree'
<1> SUFFICES ASSUME FilesTypeOK, FilesCarry, FilesApart, FilesAgree, [FilesNext]_filesVars
             PROVE  FilesApart' /\ FilesAgree'
  OBVIOUS
<1>0. /\ lastFile \in Nat /\ DOMAIN fileRows \subseteq 1..lastFile
      /\ fileOp \in [FileOps -> FileRequests(lastFile)]
  BY FilesAssumption DEF FilesTypeOK, FileRequests
\* A request comes to rest, or gets to a step that concerns no file.
<1>1. ASSUME NEW o \in FileOps, UNCHANGED <<fileRows, hollow>>, fileOp[o].pc \notin {"insert", "delete", "undo"},
             \A p \in FileOps : p # o => fileOp'[p] = fileOp[p], fileOp'[o].pc \in {"idle", "quota", "hook"},
             \/ UNCHANGED <<onDisk, litter>>
             \/ /\ fileOp[o].pc = "put" /\ onDisk' = onDisk \union {fileOp[o].file}
                /\ litter' = litter \union {fileOp[o].file}
      PROVE  FilesApart' /\ FilesAgree'
  <2>1. FilesApart'
    BY <1>1 DEF FilesApart, Uploads
  <2>2. \A g, P : P \subseteq {"insert", "delete", "undo"} /\ FileInHand(g, P) => FileInHand(g, P)'
    BY <1>1 DEF FileInHand
  <2>3. FilesAgree'
    BY <1>1, <2>2 DEF FilesAgree
  <2> QED
    BY <2>1, <2>3
\* Who asks to be at rest is.
<1>2. ASSUME NEW o \in FileOps, FileGo(o, NoFileOp), UNCHANGED lastFile
      PROVE  /\ fileOp'[o].pc = "idle" /\ \A p \in FileOps : p # o => fileOp'[p] = fileOp[p]
  BY <1>2, FileMoves, FileGoesOn DEF NoFileOp
<1>3. ASSUME NEW o \in FileOps, UNCHANGED lastFile, NEW pc \in {"hook", "insert", "undo", "delete"},
             FileGo(o, [fileOp[o] EXCEPT !.pc = pc])
      PROVE  /\ fileOp'[o].pc = pc /\ fileOp'[o].file = fileOp[o].file
             /\ \A p \in FileOps : p # o => fileOp'[p] = fileOp[p]
  <2>1. PICK owner \in Owners \union {Kernel}, size \in 0..MaxUpload, file \in 0..lastFile :
            owner = fileOp[o].owner /\ size = fileOp[o].size /\ file = fileOp[o].file
    BY FileGoesOn
  <2>2. FileGo(o, FileRequest(pc, owner, size, file))
    BY <1>3, <2>1, FileGoesOn
  <2>3. /\ file \in 0..lastFile' /\ lastFile' \in {lastFile, lastFile + 1}
        /\ pc \in {"idle", "quota", "hook", "put", "insert", "undo", "unlink", "delete"}
    BY <1>0, <1>3
  <2>4. /\ fileOp'[o].pc = pc /\ fileOp'[o].file = file
        /\ \A p \in FileOps : p # o => fileOp'[p] = fileOp[p]
    BY <2>2, <2>3, FileMoves
  <2> QED
    BY <2>1, <2>4
<1>4. ASSUME NEW o \in FileOps, NEW e \in Owners \union {Kernel}, NEW size \in Sizes, Store(o, e, size)
      PROVE  FilesApart' /\ FilesAgree'
  <2>1. PICK pc \in {"hook", "quota"} : FileGo(o, FileRequest(pc, e, size, 0))
    BY <1>4 DEF Store
  <2>2. 0 \in 0..lastFile /\ size \in 0..MaxUpload
    BY <1>0 DEF Sizes
  <2>3. fileOp[o].pc = "idle" /\ UNCHANGED <<fileRows, onDisk, lastFile, litter, hollow, grown>>
    BY <1>4 DEF Store, FileAt
  <2>4. fileOp'[o].pc = pc /\ \A p \in FileOps : p # o => fileOp'[p] = fileOp[p]
    BY <2>1, <2>2, <2>3, FileMoves
  <2> QED
    BY <1>1, <2>3, <2>4
<1>5. ASSUME NEW o \in FileOps, QuotaRead(o) PROVE FilesApart' /\ FilesAgree'
  <2>1. fileOp[o].pc = "quota" /\ UNCHANGED <<fileRows, onDisk, lastFile, litter, hollow, grown>>
    BY <1>5 DEF QuotaRead, FileAt
  <2>2. FileGo(o, [fileOp[o] EXCEPT !.pc = "hook"]) \/ FileGo(o, NoFileOp)
    BY <1>5 DEF QuotaRead
  <2>3. fileOp'[o].pc \in {"hook", "idle"} /\ \A p \in FileOps : p # o => fileOp'[p] = fileOp[p]
    BY <1>2, <1>3, <2>1, <2>2
  <2> QED
    BY <1>1, <2>1, <2>3
<1>6. ASSUME NEW o \in FileOps, Hooked(o) PROVE FilesApart' /\ FilesAgree'
  <2>1. fileOp[o].pc = "hook" /\ UNCHANGED <<fileRows, onDisk, litter, hollow>>
    BY <1>6 DEF Hooked, FileAt
  <2>2. CASE FileGo(o, NoFileOp) /\ UNCHANGED <<lastFile, grown>>
    BY <1>1, <1>2, <2>1, <2>2
  <2>3. CASE ~(FileGo(o, NoFileOp) /\ UNCHANGED <<lastFile, grown>>)
    <3>1. PICK n \in Nat : n = lastFile + 1
      BY <1>0
    <3>2. PICK e \in Owners \union {Kernel}, size \in Sizes : FileGo(o, FileRequest("put", e, size, n))
      BY <1>6, <2>3, <3>1 DEF Hooked
    <3>3. lastFile' = n /\ size \in 0..MaxUpload /\ n \in 0..lastFile' /\ lastFile' \in {lastFile, lastFile + 1}
      BY <1>6, <2>3, <3>1 DEF Hooked, Sizes
    <3>4. /\ fileOp'[o].pc = "put" /\ fileOp'[o].file = n
          /\ \A p \in FileOps : p # o => fileOp'[p] = fileOp[p]
      BY <3>2, <3>3, FileMoves
    <3>5. n \notin 1..lastFile
      BY <1>0, <3>1
    <3>6. FilesApart'
      BY <1>0, <2>1, <3>4, <3>5 DEF FilesApart, FilesCarry, Uploads
    <3>7. \A g, P : P \subseteq {"insert", "delete", "undo"} /\ FileInHand(g, P) => FileInHand(g, P)'
      BY <2>1, <3>4 DEF FileInHand
    <3>8. FilesAgree'
      BY <2>1, <3>7 DEF FilesAgree
    <3> QED
      BY <3>6, <3>8
  <2> QED
    BY <2>2, <2>3
<1>7. ASSUME NEW o \in FileOps, PutFile(o) PROVE FilesApart' /\ FilesAgree'
  <2>1. fileOp[o].pc = "put" /\ UNCHANGED <<fileRows, lastFile, hollow, grown>>
    BY <1>7 DEF PutFile, FileAt
  <2>2. CASE FileGo(o, NoFileOp)
    <3>1. \/ UNCHANGED <<onDisk, litter>>
          \/ onDisk' = onDisk \union {fileOp[o].file} /\ litter' = litter \union {fileOp[o].file}
          \/ FileGo(o, [fileOp[o] EXCEPT !.pc = "insert"])
      BY <1>7 DEF PutFile
    <3> QED
      BY <1>1, <1>2, <1>3, <2>1, <2>2, <3>1
  <2>3. CASE /\ onDisk' = onDisk \union {fileOp[o].file} /\ UNCHANGED litter
             /\ FileGo(o, [fileOp[o] EXCEPT !.pc = "insert"])
    <3>1. /\ fileOp'[o].pc = "insert" /\ fileOp'[o].file = fileOp[o].file
          /\ \A p \in FileOps : p # o => fileOp'[p] = fileOp[p]
      BY <1>3, <2>1, <2>3
    <3>2. FilesApart'
      BY <2>1, <2>3, <3>1 DEF FilesApart, Uploads
    <3>3. \A g, P : P \subseteq {"insert", "delete", "undo"} /\ FileInHand(g, P) => FileInHand(g, P)'
      BY <2>1, <3>1 DEF FileInHand
    <3>4. PICK n : n = fileOp[o].file
      OBVIOUS
    <3>5. FileInHand(n, {"insert", "undo"})'
      BY <3>1, <3>4 DEF FileInHand
    <3>6. /\ \A g : FileInHand(g, {"insert", "undo"}) => FileInHand(g, {"insert", "undo"})'
          /\ \A g : FileInHand(g, {"delete"}) => FileInHand(g, {"delete"})'
      BY <3>3
    <3>7. FilesAgree'
      BY <2>1, <2>3, <3>4, <3>5, <3>6 DEF FilesAgree
    <3> QED
      BY <3>2, <3>7
  <2> QED
    BY <1>7, <2>2, <2>3 DEF PutFile
<1>8. ASSUME NEW o \in FileOps, Insert(o) PROVE FilesApart' /\ FilesAgree'
  <2>1. fileOp[o].pc = "insert" /\ UNCHANGED <<onDisk, lastFile, litter, hollow, grown>>
    BY <1>8 DEF Insert, FileAt
  <2>2. CASE FileGo(o, [fileOp[o] EXCEPT !.pc = "undo"]) /\ UNCHANGED fileRows
    <3>1. /\ fileOp'[o].pc = "undo" /\ fileOp'[o].file = fileOp[o].file
          /\ \A p \in FileOps : p # o => fileOp'[p] = fileOp[p]
      BY <1>3, <2>1, <2>2
    <3>2. FilesApart'
      BY <2>1, <2>2, <3>1 DEF FilesApart, Uploads
    <3>3. \A g : /\ FileInHand(g, {"insert", "undo"}) => FileInHand(g, {"insert", "undo"})'
                 /\ FileInHand(g, {"delete"}) => FileInHand(g, {"delete"})'
      BY <2>1, <3>1 DEF FileInHand
    <3>4. FilesAgree'
      BY <2>1, <2>2, <3>3 DEF FilesAgree
    <3> QED
      BY <3>2, <3>4
  <2>3. CASE Entered(o) /\ FileGo(o, NoFileOp)
    <3>1. fileOp'[o].pc = "idle" /\ \A p \in FileOps : p # o => fileOp'[p] = fileOp[p]
      BY <1>2, <2>1, <2>3
    <3>2. DOMAIN fileRows' = DOMAIN fileRows \union {fileOp[o].file}
      <4>1. fileOp[o].size \in Sizes /\ fileOp[o].file \in 1..lastFile
        BY <2>1 DEF FilesCarry, Uploads
      <4> QED
        BY <2>1, <2>3, <4>1, RowsEntered
    <3>3. FilesApart'
      BY <2>1, <3>1, <3>2 DEF FilesApart, Uploads
    <3>4. \A g : /\ FileInHand(g, {"insert", "undo"}) => g = fileOp[o].file \/ FileInHand(g, {"insert", "undo"})'
                 /\ FileInHand(g, {"delete"}) => FileInHand(g, {"delete"})'
      BY <2>1, <3>1 DEF FileInHand
    <3>5. fileOp[o].file \in onDisk
      BY <2>1 DEF FilesApart
    <3>6. FilesAgree'
      BY <2>1, <3>2, <3>4, <3>5 DEF FilesAgree
    <3> QED
      BY <3>3, <3>6
  <2> QED
    BY <1>8, <2>2, <2>3 DEF Insert
<1>9. ASSUME NEW o \in FileOps, Undo(o) PROVE FilesApart' /\ FilesAgree'
  <2>1. fileOp[o].pc = "undo" /\ FileGo(o, NoFileOp) /\ UNCHANGED <<fileRows, lastFile, hollow, grown>>
    BY <1>9 DEF Undo, FileAt
  <2>2. \/ onDisk' = onDisk \ {fileOp[o].file} /\ UNCHANGED litter
        \/ litter' = litter \union {fileOp[o].file} /\ UNCHANGED onDisk
    BY <1>9 DEF Undo
  <2>3. fileOp'[o].pc = "idle" /\ \A p \in FileOps : p # o => fileOp'[p] = fileOp[p]
    BY <1>2, <2>1
  <2>4. FilesApart'
    BY <2>1, <2>2, <2>3 DEF FilesApart, Uploads
  <2>5. \A g : /\ FileInHand(g, {"insert", "undo"}) => g = fileOp[o].file \/ FileInHand(g, {"insert", "undo"})'
               /\ FileInHand(g, {"delete"}) => FileInHand(g, {"delete"})'
    BY <2>1, <2>3 DEF FileInHand
  <2>6. fileOp[o].file \notin DOMAIN fileRows
    BY <2>1 DEF FilesApart, Uploads
  <2>7. FilesAgree'
    BY <2>1, <2>2, <2>5, <2>6 DEF FilesAgree
  <2> QED
    BY <2>4, <2>7
<1>10. ASSUME NEW o \in FileOps, NEW f \in 1..lastFile, RemoveFile(o, f) PROVE FilesApart' /\ FilesAgree'
  <2>1. /\ FileGo(o, FileRequest("unlink", Kernel, 0, f)) /\ f \in DOMAIN fileRows /\ fileOp[o].pc = "idle"
        /\ UNCHANGED <<fileRows, onDisk, lastFile, litter, hollow, grown>>
    BY <1>10 DEF RemoveFile, FileAt
  <2>2. 0 \in 0..MaxUpload /\ f \in 0..lastFile
    BY FileGoesOn
  <2>3. /\ fileOp'[o].pc = "unlink" /\ fileOp'[o].file = f
        /\ \A p \in FileOps : p # o => fileOp'[p] = fileOp[p]
    BY <2>1, <2>2, FileMoves
  <2>4. FilesApart'
    BY <2>1, <2>3 DEF FilesApart, Uploads
  <2>5. \A g, P : P \subseteq {"insert", "delete", "undo"} /\ FileInHand(g, P) => FileInHand(g, P)'
    BY <2>1, <2>3 DEF FileInHand
  <2>6. FilesAgree'
    BY <2>1, <2>5 DEF FilesAgree
  <2> QED
    BY <2>4, <2>6
<1>11. ASSUME NEW o \in FileOps, Unlink(o) PROVE FilesApart' /\ FilesAgree'
  <2>1. fileOp[o].pc = "unlink" /\ UNCHANGED <<fileRows, lastFile, litter, hollow, grown>>
    BY <1>11 DEF Unlink, FileAt
  <2>2. CASE FileGo(o, NoFileOp) /\ UNCHANGED onDisk
    BY <1>1, <1>2, <2>1, <2>2
  <2>3. CASE onDisk' = onDisk \ {fileOp[o].file} /\ FileGo(o, [fileOp[o] EXCEPT !.pc = "delete"])
    <3>1. /\ fileOp'[o].pc = "delete" /\ fileOp'[o].file = fileOp[o].file
          /\ \A p \in FileOps : p # o => fileOp'[p] = fileOp[p]
      BY <1>3, <2>1, <2>3
    <3>2. FilesApart'
      BY <2>1, <2>3, <3>1 DEF FilesApart, Uploads
    <3>3. \A g, P : P \subseteq {"insert", "delete", "undo"} /\ FileInHand(g, P) => FileInHand(g, P)'
      BY <2>1, <3>1 DEF FileInHand
    <3>4. PICK n : n = fileOp[o].file
      OBVIOUS
    <3>5. FileInHand(n, {"delete"})'
      BY <3>1, <3>4 DEF FileInHand
    <3>6. /\ \A g : FileInHand(g, {"insert", "undo"}) => FileInHand(g, {"insert", "undo"})'
          /\ \A g : FileInHand(g, {"delete"}) => FileInHand(g, {"delete"})'
      BY <3>3
    <3>7. FilesAgree'
      BY <2>1, <2>3, <3>4, <3>5, <3>6 DEF FilesAgree
    <3> QED
      BY <3>2, <3>7
  <2> QED
    BY <1>11, <2>2, <2>3 DEF Unlink
<1>12. ASSUME NEW o \in FileOps, Delete(o) PROVE FilesApart' /\ FilesAgree'
  <2>1. fileOp[o].pc = "delete" /\ FileGo(o, NoFileOp) /\ UNCHANGED <<onDisk, lastFile, litter, grown>>
    BY <1>12 DEF Delete, FileAt
  <2>2. fileOp'[o].pc = "idle" /\ \A p \in FileOps : p # o => fileOp'[p] = fileOp[p]
    BY <1>2, <2>1
  <2>3. PICK n : n = fileOp[o].file
    OBVIOUS
  <2>4. \/ DOMAIN fileRows' = DOMAIN fileRows \ {n} /\ UNCHANGED hollow
        \/ hollow' = hollow \union {n} /\ UNCHANGED fileRows
    BY <1>12, <2>3, RowsDeleted DEF Delete
  <2>5. FilesApart'
    BY <2>1, <2>2, <2>4 DEF FilesApart, Uploads
  <2>6. \A g : /\ FileInHand(g, {"insert", "undo"}) => FileInHand(g, {"insert", "undo"})'
               /\ FileInHand(g, {"delete"}) => g = n \/ FileInHand(g, {"delete"})'
    BY <2>1, <2>2, <2>3 DEF FileInHand
  <2>7. n \notin onDisk
    BY <2>1, <2>3 DEF FilesApart
  <2>8. FilesAgree'
    BY <2>1, <2>4, <2>6, <2>7 DEF FilesAgree
  <2> QED
    BY <2>5, <2>8
<1>13. CASE FilesCrash
  <2>1. \A o \in FileOps : fileOp'[o].pc = "idle"
    BY <1>13 DEF FilesCrash, NoFileOp, FileRequest
  <2>2. FilesApart'
    BY <2>1 DEF FilesApart, Uploads
  <2>3. FilesAgree'
    BY <1>13 DEF FilesCrash, FilesAgree
  <2> QED
    BY <2>2, <2>3
<1>14. CASE UNCHANGED filesVars
  BY <1>14 DEF filesVars, FilesApart, FilesAgree, FileInHand
<1> QED
  BY <1>4, <1>5, <1>6, <1>7, <1>8, <1>9, <1>10, <1>11, <1>12, <1>13, <1>14 DEF FilesNext

\* What the requests are about to store, with one of them taken apart.
LEMMA ClaimsMove ==
    ASSUME FilesTypeOK, FilesTypeOK', NEW o \in FileOps, \A p \in FileOps : p # o => fileOp'[p] = fileOp[p],
           NEW e \in Owners
    PROVE  \E q \in Nat :
             /\ q <= (Cardinality(FileOps) - 1) * MaxUpload
             /\ Claim(fileOp[o], e) \in 0..MaxUpload /\ Claim(fileOp'[o], e) \in 0..MaxUpload
             /\ SumFunctionOnSet(Claims(e), FileOps) = Claim(fileOp[o], e) + q
             /\ SumFunctionOnSet(Claims(e), FileOps)' = Claim(fileOp'[o], e) + q
<1> USE FilesAssumption
<1>1. PICK F : F = Claims(e)
  OBVIOUS
<1>2. PICK G : G = Claims(e)'
  OBVIOUS
<1>3. 0 \in 0..MaxUpload /\ \A n \in 0..MaxUpload : n \in Nat
  OBVIOUS
<1>4. \A p \in FileOps : F[p] \in 0..MaxUpload /\ F[p] \in Nat /\ F[p] = Claim(fileOp[p], e)
  BY <1>1, <1>3 DEF FilesTypeOK, Claims, Claim
<1>5. \A p \in FileOps : G[p] \in 0..MaxUpload /\ G[p] \in Nat /\ G[p] = Claim(fileOp'[p], e)
  BY <1>2, <1>3 DEF FilesTypeOK, Claims, Claim
<1>6. \A p \in FileOps \ {o} : F[p] = G[p]
  BY <1>4, <1>5
<1>7. IsFiniteSet(FileOps \ {o}) /\ Cardinality(FileOps \ {o}) = Cardinality(FileOps) - 1
  BY SmallerSet
<1>8. PICK q : q = SumFunctionOnSet(F, FileOps \ {o})
  OBVIOUS
<1>9. q \in Nat
  BY <1>4, <1>7, <1>8, SumIsNat
<1>10. q <= (Cardinality(FileOps) - 1) * MaxUpload
  BY <1>4, <1>7, <1>8, SumBound
<1>11. q = SumFunctionOnSet(G, FileOps \ {o})
  BY <1>6, <1>7, <1>8, SumSame
<1>12. SumFunctionOnSet(F, FileOps) = F[o] + q
  BY <1>4, <1>8, SumRemove
<1>13. SumFunctionOnSet(G, FileOps) = G[o] + q
  BY <1>5, <1>11, SumRemove
<1> QED
  BY <1>1, <1>2, <1>4, <1>5, <1>9, <1>10, <1>12, <1>13

\* The rows of an owner, as a set and with their sizes.
RowSizes == [f \in DOMAIN fileRows |-> fileRows[f].size]
RowsOf(e) == {f \in DOMAIN fileRows : fileRows[f].owner = e}
LEMMA RowsFinite ==
    ASSUME FilesTypeOK, NEW e
    PROVE  /\ IsFiniteSet(RowsOf(e)) /\ \A f \in RowsOf(e) : RowSizes[f] \in Nat
           /\ UsedBytes(e) = SumFunctionOnSet(RowSizes, RowsOf(e)) /\ UsedBytes(e) \in Nat
<1>1. PICK m \in Nat : m = lastFile
  BY FilesAssumption DEF FilesTypeOK
<1>2. IsFiniteSet(RowsOf(e))
  <2>0. PICK T : T = RowsOf(e)
    OBVIOUS
  <2>1. T \subseteq 1..m
    BY <1>1, <2>0 DEF FilesTypeOK, RowsOf
  <2>2. IsFiniteSet(1..m)
    BY FS_Interval
  <2> QED
    BY <2>0, <2>1, <2>2, FS_Subset
<1>3. \A f \in RowsOf(e) : RowSizes[f] \in Nat
  BY FilesAssumption DEF FilesTypeOK, RowsOf, RowSizes, Sizes
<1>4. UsedBytes(e) = SumFunctionOnSet(RowSizes, RowsOf(e))
  BY DEF UsedBytes, RowSizes, RowsOf
<1> QED
  BY <1>2, <1>3, <1>4, SumIsNat

\* A row that is entered adds its size to what its owner uses.
LEMMA UsedEntered ==
    ASSUME FilesTypeOK, FilesTypeOK', NEW o \in FileOps, fileOp[o].pc = "insert", fileOp[o].file \in 1..lastFile,
           fileOp[o].size \in Sizes, Entered(o), fileOp[o].file \notin DOMAIN fileRows, NEW e
    PROVE  UsedBytes(e)' = UsedBytes(e) + (IF fileOp[o].owner = e THEN fileOp[o].size ELSE 0)
<1>1. PICK n, r : n = fileOp[o].file /\ r = [owner |-> fileOp[o].owner, size |-> fileOp[o].size]
  OBVIOUS
<1>2. /\ DOMAIN fileRows' = DOMAIN fileRows \union {n} /\ n \notin DOMAIN fileRows
      /\ fileRows'[n] = r /\ \A f \in DOMAIN fileRows : fileRows'[f] = fileRows[f]
  BY <1>1, RowsEntered
<1>3. PICK F, G, T, V : F = RowSizes /\ G = RowSizes' /\ T = RowsOf(e) /\ V = RowsOf(e)'
  OBVIOUS
<1>4. \A f \in T : F[f] = G[f]
  BY <1>2, <1>3 DEF RowSizes, RowsOf
<1>5. IsFiniteSet(T) /\ UsedBytes(e) = SumFunctionOnSet(F, T) /\ UsedBytes(e) \in Nat
  BY <1>3, RowsFinite
<1>6. IsFiniteSet(V) /\ UsedBytes(e)' = SumFunctionOnSet(G, V) /\ \A f \in V : G[f] \in Nat
  <2>1. PICK m \in Nat : m = lastFile'
    BY FilesAssumption DEF FilesTypeOK
  <2>2. V \subseteq 1..m /\ IsFiniteSet(1..m)
    BY <1>3, <2>1, FS_Interval DEF FilesTypeOK, RowsOf
  <2>3. \A f \in V : G[f] \in Nat
    BY <1>3, FilesAssumption DEF FilesTypeOK, RowsOf, RowSizes, Sizes
  <2>4. UsedBytes(e)' = SumFunctionOnSet(G, V)
    BY <1>3 DEF UsedBytes, RowSizes, RowsOf
  <2> QED
    BY <2>2, <2>3, <2>4, FS_Subset
<1>7. SumFunctionOnSet(G, T) = SumFunctionOnSet(F, T)
  BY <1>4, <1>5, SumSame
<1>8. CASE fileOp[o].owner = e
  <2>1. V \ {n} = T /\ n \in V /\ G[n] = fileOp[o].size
    BY <1>1, <1>2, <1>3, <1>8 DEF RowsOf, RowSizes
  <2>2. SumFunctionOnSet(G, V) = G[n] + SumFunctionOnSet(G, T)
    BY <1>6, <2>1, SumRemove
  <2>3. fileOp[o].size \in Nat
    BY FilesAssumption DEF Sizes
  <2> QED
    BY <1>5, <1>6, <1>7, <1>8, <2>1, <2>2, <2>3
<1>9. CASE fileOp[o].owner # e
  <2>1. V = T
    BY <1>1, <1>2, <1>3, <1>9 DEF RowsOf
  <2> QED
    BY <1>5, <1>6, <1>7, <1>9, <2>1
<1> QED
  BY <1>8, <1>9

\* A row that is deleted takes nothing but its own size away.
LEMMA UsedDeleted ==
    ASSUME FilesTypeOK, FilesTypeOK', NEW n, fileRows' = [f \in DOMAIN fileRows \ {n} |-> fileRows[f]], NEW e
    PROVE  UsedBytes(e)' \in Nat /\ UsedBytes(e)' <= UsedBytes(e)
<1>1. PICK F, G, T, V : F = RowSizes /\ G = RowSizes' /\ T = RowsOf(e) /\ V = RowsOf(e)'
  OBVIOUS
<1>2. V = T \ {n} /\ \A f \in V : G[f] = F[f]
  BY <1>1, RowsDeleted DEF RowsOf, RowSizes
<1>3. IsFiniteSet(T) /\ UsedBytes(e) = SumFunctionOnSet(F, T) /\ UsedBytes(e) \in Nat /\ \A f \in T : F[f] \in Nat
  BY <1>1, RowsFinite
<1>4. IsFiniteSet(V) /\ UsedBytes(e)' = SumFunctionOnSet(G, V) /\ UsedBytes(e)' \in Nat
  <2>1. IsFiniteSet(V)
    BY <1>2, <1>3, FS_Subset
  <2>2. UsedBytes(e)' = SumFunctionOnSet(G, V)
    BY <1>1 DEF UsedBytes, RowSizes, RowsOf
  <2>3. \A f \in V : G[f] \in Nat
    BY <1>2, <1>3
  <2> QED
    BY <2>1, <2>2, <2>3, SumIsNat
<1>5. SumFunctionOnSet(G, V) = SumFunctionOnSet(F, V)
  BY <1>2, <1>4, SumSame
<1>6. CASE n \in T
  <2>1. SumFunctionOnSet(F, T) = F[n] + SumFunctionOnSet(F, V)
    BY <1>2, <1>3, <1>6, SumRemove
  <2> QED
    BY <1>3, <1>4, <1>5, <1>6, <2>1
<1>7. CASE n \notin T
  <2>1. V = T
    BY <1>2, <1>7
  <2>2. UsedBytes(e)' = UsedBytes(e)
    BY <1>3, <1>4, <1>5, <2>1
  <2> QED
    BY <1>3, <1>4, <2>2
<1> QED
  BY <1>6, <1>7

LEMMA OthersFit == (Cardinality(FileOps) - 1) * MaxUpload \in Nat
<1>1. PICK n \in Nat \ {0} : n = Cardinality(FileOps)
  BY SmallerSet, FilesAssumption
<1>2. n - 1 \in Nat
  OBVIOUS
<1>3. (n - 1) * MaxUpload \in Nat
  BY <1>2, FilesAssumption
<1> QED
  BY <1>1, <1>3

\* A step that adds no more to what is used and pending than hooks add.
LEMMA WithinFrame ==
    ASSUME FilesTypeOK, FilesTypeOK', FilesWithin, NEW o \in FileOps,
           \A p \in FileOps : p # o => fileOp'[p] = fileOp[p],
           \A e \in Owners :
               /\ UsedBytes(e)' \in Nat
               /\ UsedBytes(e)' + Claim(fileOp'[o], e) + grown[e]
                    <= UsedBytes(e) + Claim(fileOp[o], e) + grown'[e]
    PROVE  FilesWithin'
<1> USE FilesAssumption
<1>0. PICK K : K = StorageQuota + (Cardinality(FileOps) - 1) * MaxUpload
  OBVIOUS
<1>1. K \in Nat
  BY <1>0, OthersFit
<1> SUFFICES ASSUME NEW e \in Owners
             PROVE  UsedBytes(e)' + SumFunctionOnSet(Claims(e), FileOps)' <= K + grown'[e]
  BY <1>0 DEF FilesWithin
<1>2. UsedBytes(e) \in Nat /\ UsedBytes(e)' \in Nat /\ grown[e] \in Nat /\ grown'[e] \in Nat
  BY RowsFinite DEF FilesTypeOK
<1>3. UsedBytes(e) + SumFunctionOnSet(Claims(e), FileOps) <= K + grown[e]
  BY <1>0 DEF FilesWithin
<1>4. PICK q \in Nat :
        /\ Claim(fileOp[o], e) \in 0..MaxUpload /\ Claim(fileOp'[o], e) \in 0..MaxUpload
        /\ SumFunctionOnSet(Claims(e), FileOps) = Claim(fileOp[o], e) + q
        /\ SumFunctionOnSet(Claims(e), FileOps)' = Claim(fileOp'[o], e) + q
  BY ClaimsMove
<1>5. PICK a, b \in Nat : a = Claim(fileOp[o], e) /\ b = Claim(fileOp'[o], e)
  BY <1>4
<1>6. PICK u, v, g, h \in Nat : u = UsedBytes(e) /\ v = UsedBytes(e)' /\ g = grown[e] /\ h = grown'[e]
  BY <1>2
<1>7. v + b + g <= u + a + h
  BY <1>5, <1>6
<1>8. u + (a + q) <= K + g
  BY <1>3, <1>4, <1>5, <1>6
<1>9. v + (b + q) <= K + h
  BY <1>1, <1>7, <1>8
<1> QED
  BY <1>4, <1>5, <1>6, <1>9

\* What an owner uses, and is about to, stays within the quota but for the others
\* that passed it, step by step.
LEMMA FilesWithinStep ==
    /\ FilesTypeOK /\ FilesCarry /\ FilesApart /\ FilesWithin /\ FilesTypeOK' /\ [FilesNext]_filesVars
    => FilesWithin'
<1> SUFFICES ASSUME FilesTypeOK, FilesCarry, FilesApart, FilesWithin, FilesTypeOK', [FilesNext]_filesVars
             PROVE  FilesWithin'
  OBVIOUS
<1> USE FilesAssumption
<1>0. /\ lastFile \in Nat /\ grown \in [Owners -> Nat] /\ grown' \in [Owners -> Nat]
      /\ fileOp \in [FileOps -> FileRequests(lastFile)]
  BY DEF FilesTypeOK, FileRequests
<1>a. \A e : UsedBytes(e) \in Nat
  BY RowsFinite
<1>b. UNCHANGED fileRows => \A e : UsedBytes(e)' = UsedBytes(e)
  BY DEF UsedBytes
<1>c. \A p \in FileOps : \A e \in Owners : Claim(fileOp[p], e) \in Nat /\ Claim(fileOp'[p], e) \in Nat
  <2>1. \A n \in 0..MaxUpload : n \in Nat
    OBVIOUS
  <2>2. \A p \in FileOps : fileOp[p].size \in 0..MaxUpload /\ fileOp'[p].size \in 0..MaxUpload
    BY DEF FilesTypeOK
  <2> QED
    BY <2>1, <2>2 DEF Claim
\* A request that comes to rest, or moves on with what it carries, while the
\* table stays.
<1>1. ASSUME NEW o \in FileOps, FileGo(o, NoFileOp), UNCHANGED lastFile
      PROVE  /\ \A e : Claim(fileOp'[o], e) = 0
             /\ \A p \in FileOps : p # o => fileOp'[p] = fileOp[p]
  BY <1>1, FileMoves, FileGoesOn DEF NoFileOp, Claim
<1>2. ASSUME NEW o \in FileOps, UNCHANGED lastFile, NEW pc \in {"hook", "insert", "undo", "delete"},
             FileGo(o, [fileOp[o] EXCEPT !.pc = pc])
      PROVE  /\ fileOp'[o].pc = pc /\ fileOp'[o].owner = fileOp[o].owner /\ fileOp'[o].size = fileOp[o].size
             /\ \A p \in FileOps : p # o => fileOp'[p] = fileOp[p]
  <2>1. PICK owner \in Owners \union {Kernel}, size \in 0..MaxUpload, file \in 0..lastFile :
            owner = fileOp[o].owner /\ size = fileOp[o].size /\ file = fileOp[o].file
    BY FileGoesOn
  <2>2. FileGo(o, FileRequest(pc, owner, size, file))
    BY <1>2, <2>1, FileGoesOn
  <2>3. /\ file \in 0..lastFile' /\ lastFile' \in {lastFile, lastFile + 1}
        /\ pc \in {"idle", "quota", "hook", "put", "insert", "undo", "unlink", "delete"}
    BY <1>0, <1>2
  <2>4. /\ fileOp'[o].pc = pc /\ fileOp'[o].owner = owner /\ fileOp'[o].size = size
        /\ \A p \in FileOps : p # o => fileOp'[p] = fileOp[p]
    BY <2>2, <2>3, FileMoves
  <2> QED
    BY <2>1, <2>4
<1>3. ASSUME NEW o \in FileOps, UNCHANGED <<fileRows, grown>>, \A p \in FileOps : p # o => fileOp'[p] = fileOp[p],
             \A e \in Owners : Claim(fileOp'[o], e) <= Claim(fileOp[o], e)
      PROVE  FilesWithin'
  <2>1. ASSUME NEW e \in Owners
        PROVE  /\ UsedBytes(e)' \in Nat
               /\ UsedBytes(e)' + Claim(fileOp'[o], e) + grown[e]
                    <= UsedBytes(e) + Claim(fileOp[o], e) + grown'[e]
    <3>1. PICK u, a, b, g \in Nat : /\ u = UsedBytes(e) /\ a = Claim(fileOp[o], e) /\ b = Claim(fileOp'[o], e)
                                    /\ g = grown[e]
      BY <1>0, <1>a, <1>c
    <3>2. UsedBytes(e)' = u /\ grown'[e] = g /\ b <= a
      BY <1>3, <1>b, <3>1
    <3> QED
      BY <3>1, <3>2
  <2> QED
    BY <1>3, <2>1, WithinFrame
<1>d. ASSUME NEW o \in FileOps, FileGo(o, NoFileOp), UNCHANGED <<fileRows, grown, lastFile>>
      PROVE  FilesWithin'
  <2>1. /\ \A e : Claim(fileOp'[o], e) = 0
        /\ \A p \in FileOps : p # o => fileOp'[p] = fileOp[p]
    BY <1>1, <1>d
  <2>2. ASSUME NEW e \in Owners PROVE Claim(fileOp'[o], e) <= Claim(fileOp[o], e)
    <3>1. PICK a \in Nat : a = Claim(fileOp[o], e)
      BY <1>c
    <3> QED
      BY <2>1, <3>1
  <2> QED
    BY <1>3, <1>d, <2>1, <2>2
<1>4. ASSUME NEW o \in FileOps, NEW e \in Owners \union {Kernel}, NEW size \in Sizes, Store(o, e, size)
      PROVE  FilesWithin'
  <2>1. /\ FileGo(o, FileRequest(IF e = Kernel THEN "hook" ELSE "quota", e, size, 0))
        /\ UNCHANGED <<fileRows, onDisk, lastFile, litter, hollow, grown>>
    BY <1>4 DEF Store
  <2>2. PICK pc \in {"hook", "quota"} : pc = IF e = Kernel THEN "hook" ELSE "quota"
    OBVIOUS
  <2>3. 0 \in 0..lastFile' /\ size \in 0..MaxUpload
    BY <1>0, <2>1 DEF Sizes
  <2>4. /\ fileOp'[o].pc = pc /\ fileOp'[o].owner = e
        /\ \A p \in FileOps : p # o => fileOp'[p] = fileOp[p]
    BY <2>1, <2>2, <2>3, FileMoves
  <2>5. \A x \in Owners : Claim(fileOp'[o], x) = 0
    BY <2>2, <2>4 DEF Claim
  <2> QED
    BY <1>3, <1>c, <2>1, <2>4, <2>5
<1>5. ASSUME NEW o \in FileOps, QuotaRead(o) PROVE FilesWithin'
  <2>1. fileOp[o].pc = "quota" /\ UNCHANGED <<fileRows, onDisk, lastFile, litter, hollow, grown>>
    BY <1>5 DEF QuotaRead, FileAt
  <2>2. CASE FileGo(o, NoFileOp)
    BY <1>d, <2>1, <2>2
  <2>3. CASE Fits(fileOp[o]) /\ FileGo(o, [fileOp[o] EXCEPT !.pc = "hook"])
    <3>1. /\ fileOp'[o].pc = "hook" /\ fileOp'[o].owner = fileOp[o].owner /\ fileOp'[o].size = fileOp[o].size
          /\ \A p \in FileOps : p # o => fileOp'[p] = fileOp[p]
      BY <1>2, <2>1, <2>3
    <3> SUFFICES ASSUME NEW e \in Owners
                 PROVE  UsedBytes(e)' + SumFunctionOnSet(Claims(e), FileOps)'
                            <= StorageQuota + (Cardinality(FileOps) - 1) * MaxUpload + grown'[e]
      BY DEF FilesWithin
    <3>2. PICK q \in Nat :
            /\ q <= (Cardinality(FileOps) - 1) * MaxUpload
            /\ SumFunctionOnSet(Claims(e), FileOps) = Claim(fileOp[o], e) + q
            /\ SumFunctionOnSet(Claims(e), FileOps)' = Claim(fileOp'[o], e) + q
      BY <3>1, ClaimsMove
    <3>3. PICK u, g, b \in Nat : u = UsedBytes(e) /\ g = grown[e] /\ b = Claim(fileOp'[o], e)
      BY <1>0, <1>a, <1>c
    <3>4. UsedBytes(e)' = u /\ grown'[e] = g
      BY <1>b, <2>1, <3>3
    <3>5. CASE fileOp[o].owner = e
      <4>1. u + b <= StorageQuota
        BY <2>3, <3>1, <3>3, <3>5 DEF Fits, Claim
      <4>2. PICK k \in Nat : k = (Cardinality(FileOps) - 1) * MaxUpload
        BY OthersFit
      <4>3. u + (b + q) <= StorageQuota + k + g
        BY <3>2, <4>1, <4>2
      <4> QED
        BY <3>2, <3>3, <3>4, <4>2, <4>3
    <3>6. CASE fileOp[o].owner # e
      <4>1. Claim(fileOp[o], e) = 0 /\ b = 0
        BY <2>1, <3>1, <3>3, <3>6 DEF Claim
      <4>2. SumFunctionOnSet(Claims(e), FileOps)' = SumFunctionOnSet(Claims(e), FileOps)
        BY <3>2, <3>3, <4>1
      <4>3. UsedBytes(e) + SumFunctionOnSet(Claims(e), FileOps)
                <= StorageQuota + (Cardinality(FileOps) - 1) * MaxUpload + grown[e]
        BY DEF FilesWithin
      <4> QED
        BY <3>3, <3>4, <4>2, <4>3
    <3> QED
      BY <3>5, <3>6
  <2> QED
    BY <1>5, <2>2, <2>3 DEF QuotaRead
<1>6. ASSUME NEW o \in FileOps, Hooked(o) PROVE FilesWithin'
  <2>1. fileOp[o].pc = "hook" /\ UNCHANGED <<fileRows, onDisk, litter, hollow>>
    BY <1>6 DEF Hooked, FileAt
  <2>2. CASE FileGo(o, NoFileOp) /\ UNCHANGED <<lastFile, grown>>
    BY <1>d, <2>1, <2>2
  <2>3. CASE ~(FileGo(o, NoFileOp) /\ UNCHANGED <<lastFile, grown>>)
    <3>1. PICK n \in Nat : n = lastFile + 1
      BY <1>0
    <3>2. PICK e \in Owners \union {Kernel}, size \in Sizes :
              /\ FileGo(o, FileRequest("put", e, size, n))
              /\ grown' = IF e = Kernel \/ (e = fileOp[o].owner /\ size <= fileOp[o].size) THEN grown
                          ELSE [grown EXCEPT ![e] = @ + size - (IF e = fileOp[o].owner THEN fileOp[o].size ELSE 0)]
      BY <1>6, <2>3, <3>1 DEF Hooked
    <3>3. lastFile' = n /\ size \in 0..MaxUpload /\ n \in 0..lastFile' /\ lastFile' \in {lastFile, lastFile + 1}
      BY <1>6, <2>3, <3>1 DEF Hooked, Sizes
    <3>4. /\ fileOp'[o].pc = "put" /\ fileOp'[o].owner = e /\ fileOp'[o].size = size
          /\ \A p \in FileOps : p # o => fileOp'[p] = fileOp[p]
      BY <3>2, <3>3, FileMoves
    <3>5. ASSUME NEW x \in Owners
          PROVE  /\ UsedBytes(x)' \in Nat
                 /\ UsedBytes(x)' + Claim(fileOp'[o], x) + grown[x]
                      <= UsedBytes(x) + Claim(fileOp[o], x) + grown'[x]
      <4>1. PICK u, a, g \in Nat : u = UsedBytes(x) /\ a = Claim(fileOp[o], x) /\ g = grown[x]
        BY <1>0, <1>a, <1>c
      <4>2. UsedBytes(x)' = u
        BY <1>b, <2>1, <4>1
      <4>3. CASE x # e
        <5>1. Claim(fileOp'[o], x) = 0 /\ grown'[x] = g
          BY <1>0, <3>2, <3>4, <4>1, <4>3 DEF Claim
        <5> QED
          BY <4>1, <4>2, <5>1
      <4>4. CASE x = e
        <5>1. Claim(fileOp'[o], x) = size /\ x # Kernel /\ size \in Nat
          BY <3>4, <4>4 DEF Claim, Sizes
        <5>2. a = IF e = fileOp[o].owner THEN fileOp[o].size ELSE 0
          BY <2>1, <4>1, <4>4 DEF Claim
        <5>3. CASE e = fileOp[o].owner /\ size <= fileOp[o].size
          <6>1. size <= a /\ grown'[x] = g
            BY <3>2, <4>1, <5>2, <5>3
          <6> QED
            BY <4>1, <4>2, <5>1, <6>1
        <5>4. CASE ~(e = fileOp[o].owner /\ size <= fileOp[o].size)
          <6>1. grown' = [grown EXCEPT ![e] = grown[e] + size - a]
            BY <3>2, <4>4, <5>1, <5>2, <5>4
          <6>2. grown'[x] = g + size - a
            BY <1>0, <4>1, <4>4, <6>1
          <6> QED
            BY <4>1, <4>2, <5>1, <6>2
        <5> QED
          BY <5>3, <5>4
      <4> QED
        BY <4>3, <4>4
    <3> QED
      BY <3>4, <3>5, WithinFrame
  <2> QED
    BY <2>2, <2>3
<1>7. ASSUME NEW o \in FileOps, PutFile(o) PROVE FilesWithin'
  <2>1. fileOp[o].pc = "put" /\ UNCHANGED <<fileRows, lastFile, hollow, grown>>
    BY <1>7 DEF PutFile, FileAt
  <2>2. CASE FileGo(o, NoFileOp)
    BY <1>d, <2>1, <2>2
  <2>3. CASE FileGo(o, [fileOp[o] EXCEPT !.pc = "insert"])
    <3>1. /\ fileOp'[o].pc = "insert" /\ fileOp'[o].owner = fileOp[o].owner /\ fileOp'[o].size = fileOp[o].size
          /\ \A p \in FileOps : p # o => fileOp'[p] = fileOp[p]
      BY <1>2, <2>1, <2>3
    <3>2. \A e \in Owners : Claim(fileOp'[o], e) = Claim(fileOp[o], e)
      BY <2>1, <3>1 DEF Claim
    <3> QED
      BY <1>3, <1>c, <2>1, <3>1, <3>2
  <2> QED
    BY <1>7, <2>2, <2>3 DEF PutFile
<1>8. ASSUME NEW o \in FileOps, Insert(o) PROVE FilesWithin'
  <2>1. fileOp[o].pc = "insert" /\ UNCHANGED <<onDisk, lastFile, litter, hollow, grown>>
    BY <1>8 DEF Insert, FileAt
  <2>2. CASE FileGo(o, [fileOp[o] EXCEPT !.pc = "undo"]) /\ UNCHANGED fileRows
    <3>1. /\ fileOp'[o].pc = "undo" /\ \A p \in FileOps : p # o => fileOp'[p] = fileOp[p]
      BY <1>2, <2>1, <2>2
    <3>2. \A e \in Owners : Claim(fileOp'[o], e) = 0
      BY <3>1 DEF Claim
    <3> QED
      BY <1>3, <1>c, <2>1, <2>2, <3>1, <3>2
  <2>3. CASE Entered(o) /\ FileGo(o, NoFileOp)
    <3>1. fileOp[o].size \in Sizes /\ fileOp[o].file \in 1..lastFile /\ fileOp[o].file \notin DOMAIN fileRows
      BY <2>1 DEF FilesCarry, FilesApart, Uploads
    <3>2. /\ \A e : Claim(fileOp'[o], e) = 0
          /\ \A p \in FileOps : p # o => fileOp'[p] = fileOp[p]
      BY <1>1, <2>1, <2>3
    <3>3. ASSUME NEW x \in Owners
          PROVE  /\ UsedBytes(x)' \in Nat
                 /\ UsedBytes(x)' + Claim(fileOp'[o], x) + grown[x]
                      <= UsedBytes(x) + Claim(fileOp[o], x) + grown'[x]
      <4>1. PICK u, a, g \in Nat : u = UsedBytes(x) /\ a = Claim(fileOp[o], x) /\ g = grown[x]
        BY <1>0, <1>a, <1>c
      <4>2. UsedBytes(x)' = UsedBytes(x) + (IF fileOp[o].owner = x THEN fileOp[o].size ELSE 0)
        BY <2>1, <2>3, <3>1, UsedEntered
      <4>3. UsedBytes(x)' = u + a
        BY <2>1, <4>1, <4>2 DEF Claim
      <4>4. grown'[x] = g /\ Claim(fileOp'[o], x) = 0
        BY <2>1, <3>2, <4>1
      <4> QED
        BY <4>1, <4>3, <4>4
    <3> QED
      BY <3>2, <3>3, WithinFrame
  <2> QED
    BY <1>8, <2>2, <2>3 DEF Insert
<1>9. ASSUME NEW o \in FileOps, Undo(o) PROVE FilesWithin'
  BY <1>d, <1>9 DEF Undo
<1>10. ASSUME NEW o \in FileOps, NEW f \in 1..lastFile, RemoveFile(o, f) PROVE FilesWithin'
  <2>1. FileGo(o, FileRequest("unlink", Kernel, 0, f)) /\ UNCHANGED <<fileRows, onDisk, lastFile, litter, hollow, grown>>
    BY <1>10 DEF RemoveFile
  <2>2. 0 \in 0..MaxUpload /\ f \in 0..lastFile'
    BY <1>0, <2>1
  <2>3. /\ fileOp'[o].pc = "unlink" /\ \A p \in FileOps : p # o => fileOp'[p] = fileOp[p]
    BY <2>1, <2>2, FileMoves
  <2>4. \A e \in Owners : Claim(fileOp'[o], e) = 0
    BY <2>3 DEF Claim
  <2> QED
    BY <1>3, <1>c, <2>1, <2>3, <2>4
<1>11. ASSUME NEW o \in FileOps, Unlink(o) PROVE FilesWithin'
  <2>1. UNCHANGED <<fileRows, lastFile, litter, hollow, grown>>
    BY <1>11 DEF Unlink
  <2>2. CASE FileGo(o, NoFileOp)
    BY <1>d, <2>1, <2>2
  <2>3. CASE FileGo(o, [fileOp[o] EXCEPT !.pc = "delete"])
    <3>1. /\ fileOp'[o].pc = "delete" /\ \A p \in FileOps : p # o => fileOp'[p] = fileOp[p]
      BY <1>2, <2>1, <2>3
    <3>2. \A e \in Owners : Claim(fileOp'[o], e) = 0
      BY <3>1 DEF Claim
    <3> QED
      BY <1>3, <1>c, <2>1, <3>1, <3>2
  <2> QED
    BY <1>11, <2>2, <2>3 DEF Unlink
<1>12. ASSUME NEW o \in FileOps, Delete(o) PROVE FilesWithin'
  <2>1. FileGo(o, NoFileOp) /\ UNCHANGED <<onDisk, lastFile, litter, grown>>
    BY <1>12 DEF Delete
  <2>2. CASE UNCHANGED fileRows
    BY <1>d, <2>1, <2>2
  <2>3. CASE fileRows' = [f \in DOMAIN fileRows \ {fileOp[o].file} |-> fileRows[f]]
    <3>1. PICK n : n = fileOp[o].file
      OBVIOUS
    <3>2. /\ \A e : Claim(fileOp'[o], e) = 0
          /\ \A p \in FileOps : p # o => fileOp'[p] = fileOp[p]
      BY <1>1, <2>1
    <3>3. ASSUME NEW x \in Owners
          PROVE  /\ UsedBytes(x)' \in Nat
                 /\ UsedBytes(x)' + Claim(fileOp'[o], x) + grown[x]
                      <= UsedBytes(x) + Claim(fileOp[o], x) + grown'[x]
      <4>1. PICK u, a, g \in Nat : u = UsedBytes(x) /\ a = Claim(fileOp[o], x) /\ g = grown[x]
        BY <1>0, <1>a, <1>c
      <4>2. UsedBytes(x)' <= u
        <5>1. fileRows' = [f \in DOMAIN fileRows \ {n} |-> fileRows[f]]
          BY <2>3, <3>1
        <5> QED
          BY <4>1, <5>1, UsedDeleted
      <4>3. UsedBytes(x)' \in Nat
        <5>1. fileRows' = [f \in DOMAIN fileRows \ {n} |-> fileRows[f]]
          BY <2>3, <3>1
        <5> QED
          BY <5>1, UsedDeleted
      <4>4. grown'[x] = g /\ Claim(fileOp'[o], x) = 0
        BY <2>1, <3>2, <4>1
      <4> QED
        BY <4>1, <4>2, <4>3, <4>4
    <3> QED
      BY <3>2, <3>3, WithinFrame
  <2> QED
    BY <1>12, <2>2, <2>3 DEF Delete
<1>13. CASE FilesCrash
  <2>1. /\ UNCHANGED <<fileRows, grown>> /\ \A o \in FileOps : fileOp'[o].pc = "idle"
    BY <1>13 DEF FilesCrash, NoFileOp, FileRequest
  <2> SUFFICES ASSUME NEW e \in Owners
               PROVE  UsedBytes(e)' + SumFunctionOnSet(Claims(e), FileOps)'
                          <= StorageQuota + (Cardinality(FileOps) - 1) * MaxUpload + grown'[e]
    BY DEF FilesWithin
  <2>2. PICK F, G : F = Claims(e) /\ G = Claims(e)'
    OBVIOUS
  <2>3. \A p \in FileOps : F[p] \in Nat /\ G[p] \in 0..0
    BY <1>c, <2>1, <2>2 DEF Claims, Claim
  <2>a. SumFunctionOnSet(F, FileOps) \in Nat
    BY <2>3, SumIsNat
  <2>b. \A p \in FileOps : G[p] \in Nat
    BY <2>3
  <2>c. SumFunctionOnSet(G, FileOps) \in Nat
    BY <2>b, SumIsNat
  <2>4. PICK s, t, u, g \in Nat : /\ s = SumFunctionOnSet(F, FileOps) /\ t = SumFunctionOnSet(G, FileOps)
                                  /\ u = UsedBytes(e) /\ g = grown[e]
    BY <1>0, <1>a, <2>a, <2>c
  <2>5. t = 0
    <3>1. SumFunctionOnSet(G, FileOps) <= Cardinality(FileOps) * 0
      BY <2>3, SumBound
    <3>2. Cardinality(FileOps) \in Nat
      BY FS_CardinalityType
    <3> QED
      BY <2>4, <3>1, <3>2
  <2>6. u + s <= StorageQuota + (Cardinality(FileOps) - 1) * MaxUpload + g
    BY <2>2, <2>4 DEF FilesWithin
  <2>7. UsedBytes(e)' = u /\ grown'[e] = g
    BY <1>b, <2>1, <2>4
  <2>8. PICK k \in Nat : k = (Cardinality(FileOps) - 1) * MaxUpload
    BY OthersFit
  <2>9. u + t <= StorageQuota + k + g
    BY <2>4, <2>5, <2>6, <2>8
  <2> QED
    BY <2>2, <2>4, <2>7, <2>8, <2>9
<1>14. CASE UNCHANGED filesVars
  <2>1. PICK o : o \in FileOps
    OBVIOUS
  <2> QED
    BY <1>3, <1>14, <1>c, <2>1 DEF filesVars
<1> QED
  BY <1>4, <1>5, <1>6, <1>7, <1>8, <1>9, <1>10, <1>11, <1>12, <1>13, <1>14 DEF FilesNext

FilesInv == FilesTypeOK /\ FilesCarry /\ FilesApart /\ FilesAgree /\ FilesWithin

LEMMA FilesStart == FilesInit => FilesInv
<1> SUFFICES ASSUME FilesInit PROVE FilesInv
  OBVIOUS
<1> USE FilesAssumption DEF FilesInit
<1>1. \A o \in FileOps : fileOp[o] = NoFileOp /\ NoFileOp.pc = "idle" /\ NoFileOp \in FileRequests(0)
  BY DEF NoFileOp, FileRequest, FileRequests
<1>2. FilesTypeOK
  BY <1>1 DEF FilesTypeOK, FileRequests
<1>3. FilesCarry /\ FilesApart /\ FilesAgree
  BY <1>1 DEF FilesCarry, FilesApart, FilesAgree, Uploads
<1>4. FilesWithin
  <2> SUFFICES ASSUME NEW e \in Owners
               PROVE  UsedBytes(e) + SumFunctionOnSet(Claims(e), FileOps)
                          <= StorageQuota + (Cardinality(FileOps) - 1) * MaxUpload + grown[e]
    BY DEF FilesWithin
  <2>1. PICK F, G, T : F = Claims(e) /\ G = RowSizes /\ T = RowsOf(e)
    OBVIOUS
  <2>2. \A p \in FileOps : F[p] \in 0..0
    BY <1>1, <2>1 DEF Claims, Claim
  <2>3. T = {} /\ UsedBytes(e) = SumFunctionOnSet(G, T)
    BY <2>1 DEF RowsOf, RowSizes, UsedBytes
  <2>4. UsedBytes(e) = 0
    BY <2>3, SumEmpty
  <2>5. SumFunctionOnSet(F, FileOps) \in Nat /\ SumFunctionOnSet(F, FileOps) <= Cardinality(FileOps) * 0
    BY <2>2, SumIsNat, SumBound
  <2>6. PICK k \in Nat : k = (Cardinality(FileOps) - 1) * MaxUpload
    BY OthersFit
  <2>7. SumFunctionOnSet(F, FileOps) = 0 /\ grown[e] = 0
    BY <2>5, FS_CardinalityType
  <2> QED
    BY <2>1, <2>4, <2>6, <2>7
<1> QED
  BY <1>2, <1>3, <1>4 DEF FilesInv

\* However uploads and deletions overlap, fail and end, a file on the disk and
\* its row stay paired, but for what the code is known to leave, and what an
\* owner stores exceeds its quota by no more than one upload for each of the other
\* requests and what hooks have added.
THEOREM FilesStayPaired == FilesSpec => []FilesPaired
<1>1. FilesInit => FilesInv
  BY FilesStart
<1>2. FilesInv /\ [FilesNext]_filesVars => FilesInv'
  BY FilesTypeStep, FilesPairStep, FilesWithinStep DEF FilesInv
<1>3. FilesInv => FilesPaired
  <2> SUFFICES ASSUME FilesInv, NEW e \in Owners
               PROVE  UsedBytes(e) <= StorageQuota + (Cardinality(FileOps) - 1) * MaxUpload + grown[e]
    BY DEF FilesInv, FilesAgree, FilesPaired
  <2>1. PICK F : F = Claims(e)
    OBVIOUS
  <2>2. \A p \in FileOps : F[p] \in Nat
    <3>1. \A n \in 0..MaxUpload : n \in Nat
      BY FilesAssumption
    <3> QED
      BY <2>1, <3>1, FilesAssumption DEF FilesInv, FilesTypeOK, Claims, Claim
  <2>3. PICK s, u, g \in Nat : s = SumFunctionOnSet(F, FileOps) /\ u = UsedBytes(e) /\ g = grown[e]
    BY <2>2, SumIsNat, RowsFinite, FilesAssumption DEF FilesInv, FilesTypeOK
  <2>4. PICK k \in Nat : k = (Cardinality(FileOps) - 1) * MaxUpload
    BY OthersFit
  <2>5. u + s <= StorageQuota + k + g
    BY <2>1, <2>3, <2>4 DEF FilesInv, FilesWithin
  <2>6. u <= StorageQuota + k + g
    BY <2>3, <2>4, <2>5, FilesAssumption
  <2> QED
    BY <2>3, <2>4, <2>6
<1> QED
  BY <1>1, <1>2, <1>3, PTL DEF FilesSpec

\* Every variable of the file service keeps its type: no id is used that was not
\* given out, and a request carries what its step needs.
THEOREM FilesTyped == FilesSpec => [](FilesTypeOK /\ FilesCarry)
<1>1. FilesInit => FilesInv
  BY FilesStart
<1>2. FilesInv /\ [FilesNext]_filesVars => FilesInv'
  BY FilesTypeStep, FilesPairStep, FilesWithinStep DEF FilesInv
<1>3. FilesInv => FilesTypeOK /\ FilesCarry
  BY DEF FilesInv
<1> QED
  BY <1>1, <1>2, <1>3, PTL DEF FilesSpec

-----------------------------------------------------------------------------
(* Sandbox: workspaces and containers.  The invariant says who may refer to a  *)
(* container: its workspace by record and handle, the one request that sets it *)
(* up, and the requests and the sweep that were begun on the workspace as it   *)
(* is.  An object that is held is never numbered again, so that what comes     *)
(* back late is written to the right object or to none.                        *)

BoxRequests ==
    [pc : {"make", "boot", "remove", "start", "enter", "run", "alone"}, w : Boxes, obj : Nat, k : Containers \union {0}]
Sweeps ==
    [pc : {"scan"}, todo : SUBSET Boxes]
        \union [pc : {"stop"}, todo : SUBSET Boxes, w : Boxes, obj : Nat, k : Containers]
BoxStates == [status : {"absent", "creating", "running", "stopped", "error"}, cont : Containers \union {0}, obj : Nat]
SandboxTypes ==
    /\ box \in [Boxes -> BoxStates] /\ handle \in [Boxes -> Containers \union {0}]
    /\ fresh \in [Boxes -> BOOLEAN]
    /\ boxOp \in [BoxOps -> {NoBoxOp} \union BoxRequests]
    /\ sweep \in {NoSweep} \union Sweeps
    /\ docker \in [Containers -> {"none", "created", "running", "exited", "killed", "gone"}]
    /\ kills \subseteq Containers /\ strays \subseteq Containers

Making == {"make", "boot"}               \* the pcs of a workspace that is being created
Owning == {"boot", "alone"}              \* ... whose container nobody else knows of
Using  == {"remove", "start", "enter", "run"}

\* What anybody refers to has been made.
BoxesKnown ==
    /\ \A w \in Boxes : \A k \in {handle[w], box[w].cont} \ {0} : docker[k] # "none"
    /\ \A o \in BoxOps : boxOp[o].pc \in Owning \union Using => boxOp[o].k # 0 /\ docker[boxOp[o].k] # "none"
    /\ sweep.pc = "stop" => docker[sweep.k] # "none"

\* A workspace that has a container has a handle of it and can be used; a handle
\* names the container that the record does, or a stray; no two name the same.
RecordsBacked ==
    \A w \in Boxes : box[w].cont # 0 =>
        handle[w] # 0 /\ box[w].obj # 0 /\ box[w].status \in {"running", "stopped"}
HandlesFollow == \A w \in Boxes : handle[w] # 0 => handle[w] = box[w].cont \/ handle[w] \in strays
HandlesApart  == \A v, w \in Boxes : v # w /\ handle[v] # 0 => handle[v] # handle[w]

\* A container that is being set up belongs to its request alone.
NewUnused ==
    \A o, p \in BoxOps : boxOp[o].pc \in Owning /\ p # o /\ boxOp[p].pc \in Owning \union Using =>
        boxOp[p].k # boxOp[o].k
NewUnswept == \A o \in BoxOps : boxOp[o].pc \in Owning /\ sweep.pc = "stop" => sweep.k # boxOp[o].k
NewUnlisted ==
    \A o \in BoxOps : \A w \in Boxes : boxOp[o].pc \in Owning =>
        handle[w] # boxOp[o].k /\ box[w].cont # boxOp[o].k

\* The objects in use are numbered: 0 is what a restart finds.
ObjectsNumbered ==
    /\ \A w \in Boxes : box[w].status = "running" => box[w].obj # 0
    /\ \A o \in BoxOps : boxOp[o].pc \in Making \union {"start"} => boxOp[o].obj # 0
    /\ sweep.pc = "stop" => sweep.obj # 0

\* One request creates an object; nobody uses it before that is over.
MakingIsNew ==
    \A o \in BoxOps : \A w \in Boxes :
        boxOp[o].pc \in Making /\ boxOp[o].w = w /\ box[w].obj = boxOp[o].obj =>
            box[w].status = "creating" /\ box[w].cont = 0
MakersApart ==
    \A o, p \in BoxOps :
        o # p /\ boxOp[o].pc \in Making /\ boxOp[p].pc \in Making \union {"start"} /\ boxOp[p].w = boxOp[o].w =>
            boxOp[p].obj # boxOp[o].obj
SweepApart ==
    \A o \in BoxOps :
        boxOp[o].pc \in Making /\ sweep.pc = "stop" /\ sweep.w = boxOp[o].w => sweep.obj # boxOp[o].obj

\* The requests on the container of a workspace are made for this workspace as it is,
\* and those that will say what became of it mean its container.
UsesAgree ==
    \A o \in BoxOps : \A w \in Boxes :
        boxOp[o].pc \in Using /\ handle[w] = boxOp[o].k =>
            boxOp[o].w = w /\ (handle[w] \in strays \/ boxOp[o].obj = box[w].obj)
SweepAgrees ==
    \A w \in Boxes :
        sweep.pc = "stop" /\ handle[w] = sweep.k =>
            sweep.w = w /\ (handle[w] \in strays \/ sweep.obj = box[w].obj)
StartMeansIt ==
    \A o \in BoxOps : \A w \in Boxes :
        boxOp[o].pc = "start" /\ boxOp[o].w = w /\ boxOp[o].obj = box[w].obj =>
            handle[w] = boxOp[o].k \/ handle[w] \in strays
SweepMeansIt ==
    \A w \in Boxes :
        sweep.pc = "stop" /\ sweep.w = w /\ sweep.obj = box[w].obj =>
            handle[w] = sweep.k \/ handle[w] \in strays

\* The status says what the container does.
StatusTrue ==
    \A w \in Boxes : box[w].cont # 0 /\ handle[w] \notin strays =>
        /\ box[w].status = "running" => docker[box[w].cont] \in {"running", "killed"}
        /\ box[w].status = "stopped" => docker[box[w].cont] = "exited"

\* Who keeps a container, if it is not given up.
NoneForgotten ==
    \A k \in Containers : Exists(k) =>
        \/ k \in strays \/ \E w \in Boxes : handle[w] = k
        \/ \E o \in BoxOps : boxOp[o].pc \in Owning /\ boxOp[o].k = k

SandboxInv ==
    /\ SandboxTypes /\ BoxesKnown /\ RecordsBacked /\ HandlesFollow /\ HandlesApart
    /\ NewUnused /\ NewUnswept /\ NewUnlisted
    /\ ObjectsNumbered /\ MakingIsNew /\ MakersApart /\ SweepApart
    /\ UsesAgree /\ SweepAgrees /\ StartMeansIt /\ SweepMeansIt
    /\ StatusTrue /\ NoneForgotten

\* A request in its next state, and the others where they are.
LEMMA RequestMoves ==
    ASSUME SandboxTypes, NEW o \in BoxOps, NEW r \in {NoBoxOp} \union BoxRequests, BoxGo(o, r)
    PROVE  /\ boxOp' \in [BoxOps -> {NoBoxOp} \union BoxRequests] /\ boxOp'[o] = r
           /\ \A p \in BoxOps : p # o => boxOp'[p] = boxOp[p]
BY DEF SandboxTypes, BoxGo

LEMMA RequestEnds ==
    ASSUME SandboxTypes, NEW o \in BoxOps, BoxDone(o)
    PROVE  /\ boxOp' \in [BoxOps -> {NoBoxOp} \union BoxRequests] /\ boxOp'[o].pc = "idle"
           /\ \A p \in BoxOps : p # o => boxOp'[p] = boxOp[p]
<1>1. boxOp'[o] = NoBoxOp /\ boxOp' \in [BoxOps -> {NoBoxOp} \union BoxRequests]
  BY RequestMoves DEF BoxDone
<1>2. NoBoxOp.pc = "idle"
  BY DEF NoBoxOp
<1> QED
  BY <1>1, <1>2, RequestMoves DEF BoxDone

\* What a request under way carries, and keeps when it goes on.
LEMMA RequestHas ==
    ASSUME SandboxTypes, NEW o \in BoxOps, boxOp[o].pc # "idle"
    PROVE  /\ boxOp[o] \in BoxRequests /\ boxOp[o].w \in Boxes /\ boxOp[o].obj \in Nat
           /\ boxOp[o].k \in Containers \union {0}
<1>1. boxOp[o] # NoBoxOp
  BY DEF NoBoxOp
<1> QED
  BY <1>1 DEF SandboxTypes, BoxRequests

LEMMA RequestWithPc ==
    ASSUME NEW r \in BoxRequests, NEW pc \in {"boot", "enter", "run"}
    PROVE  /\ [r EXCEPT !.pc = pc] = [pc |-> pc, w |-> r.w, obj |-> r.obj, k |-> r.k]
           /\ [r EXCEPT !.pc = pc] \in BoxRequests
BY DEF BoxRequests

LEMMA RequestWithContainer ==
    ASSUME NEW r \in BoxRequests, NEW pc \in {"boot", "enter", "run"}, NEW k \in Containers
    PROVE  /\ [r EXCEPT !.pc = pc, !.k = k] = [pc |-> pc, w |-> r.w, obj |-> r.obj, k |-> k]
           /\ [r EXCEPT !.pc = pc, !.k = k] \in BoxRequests
<1>1. PICK q \in BoxRequests : q = [r EXCEPT !.pc = pc]
  BY RequestWithPc
<1>2. q = [pc |-> pc, w |-> r.w, obj |-> r.obj, k |-> r.k]
  BY <1>1, RequestWithPc
<1>3. [r EXCEPT !.pc = pc, !.k = k] = [q EXCEPT !.k = k]
  BY <1>1
<1>4. [q EXCEPT !.k = k] = [pc |-> q.pc, w |-> q.w, obj |-> q.obj, k |-> k]
  BY DEF BoxRequests
<1> QED
  BY <1>2, <1>3, <1>4 DEF BoxRequests

\* A request changes the status of the object it holds, if that is still in the table.
LEMMA Marked ==
    ASSUME SandboxTypes, NEW r, r.w \in Boxes, NEW st \in {"running", "stopped", "error"}, Mark(r, st)
    PROVE  /\ box' \in [Boxes -> BoxStates]
           /\ \A v \in Boxes :
                /\ box'[v].cont = box[v].cont /\ box'[v].obj = box[v].obj
                /\ box'[v].status = IF v = r.w /\ box[v].obj = r.obj THEN st ELSE box[v].status
<1>1. box \in [Boxes -> BoxStates]
  BY DEF SandboxTypes
<1>2. CASE Current(r)
  <2>1. PICK b \in BoxStates : b = [box[r.w] EXCEPT !.status = st]
    BY <1>1 DEF BoxStates
  <2>2. b.cont = box[r.w].cont /\ b.obj = box[r.w].obj /\ b.status = st
    BY <1>1, <2>1 DEF BoxStates
  <2>3. box' = [box EXCEPT ![r.w] = b]
    BY <1>2, <2>1 DEF Mark
  <2> QED
    BY <1>1, <1>2, <2>2, <2>3 DEF Current
<1>3. CASE ~Current(r)
  BY <1>1, <1>3 DEF Mark, Current
<1> QED
  BY <1>2, <1>3

\* A request that comes to rest, or goes on with what it has.
LEMMA RequestRests ==
    ASSUME SandboxInv, NEW o \in BoxOps, UNCHANGED <<box, handle, sweep, docker, strays, fresh>>,
           kills' \subseteq Containers, boxOp[o].pc \notin Owning,
           boxOp' \in [BoxOps -> {NoBoxOp} \union BoxRequests],
           \A p \in BoxOps : p # o => boxOp'[p] = boxOp[p],
           \/ boxOp'[o].pc = "idle"
           \/ /\ boxOp'[o].pc \in Using \ {"start"} /\ boxOp[o].pc \in Using
              /\ boxOp'[o].w = boxOp[o].w /\ boxOp'[o].obj = boxOp[o].obj /\ boxOp'[o].k = boxOp[o].k
    PROVE  SandboxInv'
<1> USE DEF Making, Owning, Using
<1>11. SandboxTypes'
  BY DEF SandboxInv, SandboxTypes
<1>12. BoxesKnown'
  BY DEF SandboxInv, BoxesKnown
<1>13. RecordsBacked'
  BY DEF SandboxInv, RecordsBacked
<1>14. HandlesFollow'
  BY DEF SandboxInv, HandlesFollow
<1>15. HandlesApart'
  BY DEF SandboxInv, HandlesApart
<1>16. NewUnused'
  BY DEF SandboxInv, NewUnused
<1>17. NewUnswept'
  BY DEF SandboxInv, NewUnswept
<1>18. NewUnlisted'
  BY DEF SandboxInv, NewUnlisted
<1>19. ObjectsNumbered'
  BY DEF SandboxInv, ObjectsNumbered
<1>20. MakingIsNew'
  BY DEF SandboxInv, MakingIsNew
<1>21. MakersApart'
  BY DEF SandboxInv, MakersApart
<1>22. SweepApart'
  BY DEF SandboxInv, SweepApart
<1>23. UsesAgree'
  BY DEF SandboxInv, UsesAgree
<1>24. SweepAgrees'
  BY DEF SandboxInv, SweepAgrees
<1>25. StartMeansIt'
  BY DEF SandboxInv, StartMeansIt
<1>26. SweepMeansIt'
  BY DEF SandboxInv, SweepMeansIt
<1>27. StatusTrue'
  BY DEF SandboxInv, StatusTrue
<1>28. NoneForgotten'
  BY DEF SandboxInv, NoneForgotten, Exists, AtRest
<1> QED
  BY <1>11, <1>12, <1>13, <1>14, <1>15, <1>16, <1>17, <1>18, <1>19,
     <1>20, <1>21, <1>22, <1>23, <1>24, <1>25, <1>26, <1>27, <1>28 DEF SandboxInv

LEMMA RequestsRest ==
    ASSUME SandboxInv, NEW o \in BoxOps
    PROVE  /\ ExecEntered(o) => SandboxInv'
           /\ ExecOver(o) => SandboxInv'
<1>0. SandboxTypes
  BY DEF SandboxInv
<1>1. ASSUME ExecEntered(o) PROVE SandboxInv'
  <2>1. boxOp[o].pc = "enter" /\ UNCHANGED <<box, handle, fresh, sweep, docker, kills, strays>>
    BY <1>1 DEF ExecEntered, At
  <2>2. CASE BoxDone(o)
    BY <1>0, <2>1, <2>2, RequestEnds, RequestRests DEF SandboxTypes, Owning
  <2>3. CASE BoxGo(o, [boxOp[o] EXCEPT !.pc = "run"])
    <3>1. PICK r \in BoxRequests : r = boxOp[o]
      BY <1>0, <2>1, RequestHas
    <3>2. PICK q \in BoxRequests : q = [r EXCEPT !.pc = "run"]
      BY RequestWithPc
    <3>3. q = [pc |-> "run", w |-> r.w, obj |-> r.obj, k |-> r.k]
      BY <3>2, RequestWithPc
    <3>4. BoxGo(o, q)
      BY <2>3, <3>1, <3>2
    <3>5. boxOp'[o] = q
      BY <1>0, <3>4, RequestMoves
    <3> QED
      BY <1>0, <2>1, <3>1, <3>3, <3>4, <3>5, RequestMoves, RequestRests DEF SandboxTypes, Owning, Using
  <2> QED
    BY <1>1, <2>2, <2>3 DEF ExecEntered
<1>2. ASSUME ExecOver(o) PROVE SandboxInv'
  <2>1. boxOp[o].pc = "run" /\ UNCHANGED <<box, handle, fresh, sweep, docker, strays>> /\ BoxDone(o)
    BY <1>2 DEF ExecOver, At
  <2>2. boxOp[o].k \in Containers
    BY <1>0, <2>1, RequestHas DEF SandboxInv, BoxesKnown, Using
  <2>3. kills' \subseteq Containers
    BY <1>0, <1>2, <2>2 DEF ExecOver, SandboxTypes
  <2> QED
    BY <1>0, <2>1, <2>3, RequestEnds, RequestRests DEF Owning
<1> QED
  BY <1>1, <1>2

\* What the sweep that stops a container carries.
LEMMA SweepHas ==
    ASSUME SandboxTypes, sweep.pc = "stop"
    PROVE  /\ sweep.w \in Boxes /\ sweep.obj \in Nat /\ sweep.k \in Containers /\ sweep.todo \in SUBSET Boxes
<1>1. sweep # NoSweep
  BY DEF NoSweep
<1> QED
  BY <1>1 DEF SandboxTypes, Sweeps

\* A workspace is created: as an object that nobody holds.
LEMMA BoxCreated ==
    ASSUME SandboxInv, NEW o \in BoxOps, NEW w \in Boxes, CreateWorkspace(o, w)
    PROVE  SandboxInv'
<1> USE DEF Making, Owning, Using
<1>1. PICK obj \in 1..(Cardinality(BoxOps) + 1) :
        /\ ~Held(w, obj)
        /\ box' = [box EXCEPT ![w] = [status |-> "creating", cont |-> 0, obj |-> obj]]
        /\ BoxGo(o, [pc |-> "make", w |-> w, obj |-> obj, k |-> 0])
  BY DEF CreateWorkspace
<1>2. obj \in Nat /\ obj # 0
  OBVIOUS
<1>3. PICK b \in BoxStates : b = [status |-> "creating", cont |-> 0, obj |-> obj]
  BY <1>2 DEF BoxStates
<1>4. PICK r \in BoxRequests : r = [pc |-> "make", w |-> w, obj |-> obj, k |-> 0]
  BY <1>2 DEF BoxRequests
<1>5. /\ b.status = "creating" /\ b.cont = 0 /\ b.obj = obj
      /\ r.pc = "make" /\ r.w = w /\ r.obj = obj /\ r.k = 0
  BY <1>3, <1>4
<1>6. /\ box' \in [Boxes -> BoxStates] /\ box'[w] = b
      /\ \A v \in Boxes : v # w => box'[v] = box[v]
  BY <1>1, <1>3 DEF SandboxInv, SandboxTypes
<1>7. /\ boxOp' \in [BoxOps -> {NoBoxOp} \union BoxRequests] /\ boxOp'[o] = r
      /\ \A p \in BoxOps : p # o => boxOp'[p] = boxOp[p]
  BY <1>1, <1>4, RequestMoves DEF SandboxInv
<1>8. boxOp[o].pc = "idle" /\ box[w].status = "absent" /\ UNCHANGED <<handle, sweep, docker, kills, strays>>
  BY DEF CreateWorkspace, At, Present
<1>9. fresh' \in [Boxes -> BOOLEAN]
  BY DEF CreateWorkspace, SandboxInv, SandboxTypes
<1>9a. sweep.pc = "stop" => sweep.k # 0
  BY SweepHas DEF SandboxInv, Containers
<1>10. /\ \A p \in BoxOps : boxOp[p].pc # "idle" /\ boxOp[p].w = w => boxOp[p].obj # obj
       /\ sweep.pc = "stop" /\ sweep.w = w => sweep.obj # obj
  BY <1>1 DEF Held
<1>11. SandboxTypes'
  BY <1>2, <1>5, <1>6, <1>7, <1>8, <1>9, <1>9a, <1>10 DEF SandboxInv, SandboxTypes
<1>12. BoxesKnown'
  BY <1>2, <1>5, <1>6, <1>7, <1>8, <1>9, <1>9a, <1>10 DEF SandboxInv, BoxesKnown
<1>13. RecordsBacked'
  BY <1>2, <1>5, <1>6, <1>7, <1>8, <1>9, <1>9a, <1>10 DEF SandboxInv, RecordsBacked, MakingIsNew, ObjectsNumbered
<1>14. HandlesFollow'
  BY <1>2, <1>5, <1>6, <1>7, <1>8, <1>9, <1>9a, <1>10 DEF SandboxInv, HandlesFollow, RecordsBacked
<1>15. HandlesApart'
  BY <1>2, <1>5, <1>6, <1>7, <1>8, <1>9, <1>9a, <1>10 DEF SandboxInv, HandlesApart
<1>16. NewUnused'
  BY <1>2, <1>5, <1>6, <1>7, <1>8, <1>9, <1>9a, <1>10 DEF SandboxInv, NewUnused
<1>17. NewUnswept'
  BY <1>2, <1>5, <1>6, <1>7, <1>8, <1>9, <1>9a, <1>10 DEF SandboxInv, NewUnswept
<1>18. NewUnlisted'
  BY <1>2, <1>5, <1>6, <1>7, <1>8, <1>9, <1>9a, <1>10 DEF SandboxInv, NewUnlisted, BoxesKnown
<1>19. ObjectsNumbered'
  BY <1>2, <1>5, <1>6, <1>7, <1>8, <1>9, <1>9a, <1>10 DEF SandboxInv, ObjectsNumbered, RecordsBacked
<1>20. MakingIsNew'
  BY <1>2, <1>5, <1>6, <1>7, <1>8, <1>9, <1>9a, <1>10 DEF SandboxInv, MakingIsNew, MakersApart, SweepApart, RecordsBacked, ObjectsNumbered
<1>21. MakersApart'
  BY <1>2, <1>5, <1>6, <1>7, <1>8, <1>9, <1>9a, <1>10 DEF SandboxInv, MakersApart, MakingIsNew
<1>22. SweepApart'
  BY <1>2, <1>5, <1>6, <1>7, <1>8, <1>9, <1>9a, <1>10 DEF SandboxInv, SweepApart, MakingIsNew
<1>23. UsesAgree'
  BY <1>2, <1>5, <1>6, <1>7, <1>8, <1>9, <1>9a, <1>10 DEF SandboxInv, UsesAgree, RecordsBacked, HandlesFollow, HandlesApart, NewUnused, BoxesKnown
<1>24. SweepAgrees'
  BY <1>2, <1>5, <1>6, <1>7, <1>8, <1>9, <1>9a, <1>10 DEF SandboxInv, SweepAgrees, RecordsBacked, HandlesFollow, HandlesApart, NewUnswept, BoxesKnown
<1>25. StartMeansIt'
  BY <1>2, <1>5, <1>6, <1>7, <1>8, <1>9, <1>9a, <1>10 DEF SandboxInv, StartMeansIt, RecordsBacked, HandlesFollow, MakersApart, ObjectsNumbered, BoxesKnown
<1>26. SweepMeansIt'
  BY <1>2, <1>5, <1>6, <1>7, <1>8, <1>9, <1>9a, <1>10 DEF SandboxInv, SweepMeansIt, RecordsBacked, HandlesFollow, SweepApart, ObjectsNumbered, BoxesKnown
<1>27. StatusTrue'
  BY <1>2, <1>5, <1>6, <1>7, <1>8, <1>9, <1>9a, <1>10 DEF SandboxInv, StatusTrue, RecordsBacked, HandlesFollow, HandlesApart, MakingIsNew, NewUnlisted
<1>28. NoneForgotten'
  BY <1>2, <1>5, <1>6, <1>7, <1>8, <1>9, <1>9a, <1>10 DEF SandboxInv, NoneForgotten, Exists, AtRest, BoxesKnown
<1> QED
  BY <1>11, <1>12, <1>13, <1>14, <1>15, <1>16, <1>17, <1>18, <1>19,
     <1>20, <1>21, <1>22, <1>23, <1>24, <1>25, <1>26, <1>27, <1>28 DEF SandboxInv

\* A request to create a workspace fails, and gives its container up if it has one.
LEMMA BoxFails ==
    ASSUME SandboxInv, NEW o \in BoxOps, boxOp[o].pc \in Making, Mark(boxOp[o], "error"), BoxDone(o),
           UNCHANGED <<handle, fresh, sweep, docker, kills>>,
           strays' \subseteq Containers, strays \subseteq strays',
           boxOp[o].pc = "boot" => boxOp[o].k \in strays'
    PROVE  SandboxInv'
<1> USE DEF Making, Owning, Using
<1>1. boxOp[o].w \in Boxes
  BY RequestHas DEF SandboxInv
<1>2. /\ box' \in [Boxes -> BoxStates]
      /\ \A v \in Boxes :
           /\ box'[v].cont = box[v].cont /\ box'[v].obj = box[v].obj
           /\ box'[v].status = IF v = boxOp[o].w /\ box[v].obj = boxOp[o].obj THEN "error" ELSE box[v].status
  <2>1. PICK r : r = boxOp[o]
    OBVIOUS
  <2>2. Mark(r, "error") /\ r.w \in Boxes
    BY <1>1, <2>1
  <2> QED
    BY <2>1, <2>2, Marked DEF SandboxInv
<1>3. /\ boxOp' \in [BoxOps -> {NoBoxOp} \union BoxRequests] /\ boxOp'[o].pc = "idle"
      /\ \A p \in BoxOps : p # o => boxOp'[p] = boxOp[p]
  BY RequestEnds DEF SandboxInv
<1>11. SandboxTypes'
  BY <1>1, <1>2, <1>3 DEF SandboxInv, SandboxTypes
<1>12. BoxesKnown'
  BY <1>1, <1>2, <1>3 DEF SandboxInv, BoxesKnown
<1>13. RecordsBacked'
  BY <1>1, <1>2, <1>3 DEF SandboxInv, RecordsBacked, MakingIsNew, ObjectsNumbered
<1>14. HandlesFollow'
  BY <1>1, <1>2, <1>3 DEF SandboxInv, HandlesFollow, RecordsBacked
<1>15. HandlesApart'
  BY <1>1, <1>2, <1>3 DEF SandboxInv, HandlesApart
<1>16. NewUnused'
  BY <1>1, <1>2, <1>3 DEF SandboxInv, NewUnused
<1>17. NewUnswept'
  BY <1>1, <1>2, <1>3 DEF SandboxInv, NewUnswept
<1>18. NewUnlisted'
  BY <1>1, <1>2, <1>3 DEF SandboxInv, NewUnlisted, BoxesKnown
<1>19. ObjectsNumbered'
  BY <1>1, <1>2, <1>3 DEF SandboxInv, ObjectsNumbered, RecordsBacked
<1>20. MakingIsNew'
  BY <1>1, <1>2, <1>3 DEF SandboxInv, MakingIsNew, MakersApart, SweepApart, RecordsBacked
<1>21. MakersApart'
  BY <1>1, <1>2, <1>3 DEF SandboxInv, MakersApart, MakingIsNew
<1>22. SweepApart'
  BY <1>1, <1>2, <1>3 DEF SandboxInv, SweepApart, MakingIsNew
<1>23. UsesAgree'
  BY <1>1, <1>2, <1>3 DEF SandboxInv, UsesAgree, RecordsBacked, HandlesFollow, HandlesApart, NewUnused, BoxesKnown
<1>24. SweepAgrees'
  BY <1>1, <1>2, <1>3 DEF SandboxInv, SweepAgrees, RecordsBacked, HandlesFollow, HandlesApart, NewUnswept, BoxesKnown
<1>25. StartMeansIt'
  BY <1>1, <1>2, <1>3 DEF SandboxInv, StartMeansIt, RecordsBacked, HandlesFollow, MakersApart, ObjectsNumbered, BoxesKnown
<1>26. SweepMeansIt'
  BY <1>1, <1>2, <1>3 DEF SandboxInv, SweepMeansIt, RecordsBacked, HandlesFollow, SweepApart, ObjectsNumbered, BoxesKnown
<1>27. StatusTrue'
  BY <1>1, <1>2, <1>3 DEF SandboxInv, StatusTrue, RecordsBacked, HandlesFollow, HandlesApart, MakingIsNew, NewUnlisted
<1>28. NoneForgotten'
  BY <1>1, <1>2, <1>3 DEF SandboxInv, NoneForgotten, Exists, AtRest, BoxesKnown
<1> QED
  BY <1>11, <1>12, <1>13, <1>14, <1>15, <1>16, <1>17, <1>18, <1>19,
     <1>20, <1>21, <1>22, <1>23, <1>24, <1>25, <1>26, <1>27, <1>28 DEF SandboxInv

\* A container is made, for the request that will start it or that runs its command in it.
LEMMA ContainerIsMade ==
    ASSUME SandboxInv, NEW o \in BoxOps, NEW k \in NewContainer, NEW d \in {"created", "running"},
           NEW r \in BoxRequests, r.k = k, r.pc \in Owning,
           docker' = [docker EXCEPT ![k] = d], BoxGo(o, r),
           \/ boxOp[o].pc = "make" /\ r.pc = "boot" /\ r.w = boxOp[o].w /\ r.obj = boxOp[o].obj
           \/ boxOp[o].pc = "idle" /\ r.pc = "alone",
           fresh' \in [Boxes -> BOOLEAN], UNCHANGED <<box, handle, sweep, kills, strays>>
    PROVE  SandboxInv'
<1> USE DEF Making, Owning, Using
<1>1. k \in Containers /\ docker[k] = "none" /\ k # 0
  BY DEF NewContainer, Containers
<1>2. /\ docker' \in [Containers -> {"none", "created", "running", "exited", "killed", "gone"}]
      /\ docker'[k] = d /\ \A i \in Containers : i # k => docker'[i] = docker[i]
  BY <1>1 DEF SandboxInv, SandboxTypes
<1>3. /\ boxOp' \in [BoxOps -> {NoBoxOp} \union BoxRequests] /\ boxOp'[o] = r
      /\ \A p \in BoxOps : p # o => boxOp'[p] = boxOp[p]
  BY RequestMoves DEF SandboxInv
<1>4. /\ \A w \in Boxes : handle[w] \in Containers \union {0} /\ box[w].cont \in Containers \union {0}
      /\ \A p \in BoxOps : boxOp[p].pc \in Owning \union Using => boxOp[p].k \in Containers
      /\ sweep.pc = "stop" => sweep.k \in Containers
  BY RequestHas, SweepHas DEF SandboxInv, SandboxTypes, BoxStates, BoxesKnown
<1>5. /\ \A w \in Boxes : handle[w] # k /\ box[w].cont # k
      /\ \A p \in BoxOps : boxOp[p].pc \in Owning \union Using => boxOp[p].k # k
      /\ sweep.pc = "stop" => sweep.k # k
  BY <1>1 DEF SandboxInv, BoxesKnown
<1>11. SandboxTypes'
  BY <1>1, <1>2, <1>3, <1>4, <1>5 DEF SandboxInv, SandboxTypes
<1>12. BoxesKnown'
  BY <1>1, <1>2, <1>3, <1>4, <1>5 DEF SandboxInv, BoxesKnown
<1>13. RecordsBacked'
  BY <1>1, <1>2, <1>3, <1>4, <1>5 DEF SandboxInv, RecordsBacked, MakingIsNew, ObjectsNumbered
<1>14. HandlesFollow'
  BY <1>1, <1>2, <1>3, <1>4, <1>5 DEF SandboxInv, HandlesFollow, RecordsBacked
<1>15. HandlesApart'
  BY <1>1, <1>2, <1>3, <1>4, <1>5 DEF SandboxInv, HandlesApart
<1>16. NewUnused'
  BY <1>1, <1>2, <1>3, <1>4, <1>5 DEF SandboxInv, NewUnused
<1>17. NewUnswept'
  BY <1>1, <1>2, <1>3, <1>4, <1>5 DEF SandboxInv, NewUnswept
<1>18. NewUnlisted'
  BY <1>1, <1>2, <1>3, <1>4, <1>5 DEF SandboxInv, NewUnlisted, BoxesKnown
<1>19. ObjectsNumbered'
  BY <1>1, <1>2, <1>3, <1>4, <1>5 DEF SandboxInv, ObjectsNumbered, RecordsBacked
<1>20. MakingIsNew'
  BY <1>1, <1>2, <1>3, <1>4, <1>5 DEF SandboxInv, MakingIsNew, MakersApart, SweepApart, RecordsBacked
<1>21. MakersApart'
  BY <1>1, <1>2, <1>3, <1>4, <1>5 DEF SandboxInv, MakersApart, MakingIsNew
<1>22. SweepApart'
  BY <1>1, <1>2, <1>3, <1>4, <1>5 DEF SandboxInv, SweepApart, MakingIsNew
<1>23. UsesAgree'
  BY <1>1, <1>2, <1>3, <1>4, <1>5 DEF SandboxInv, UsesAgree, RecordsBacked, HandlesFollow, HandlesApart, NewUnused, BoxesKnown
<1>24. SweepAgrees'
  BY <1>1, <1>2, <1>3, <1>4, <1>5 DEF SandboxInv, SweepAgrees, RecordsBacked, HandlesFollow, HandlesApart, NewUnswept, BoxesKnown
<1>25. StartMeansIt'
  BY <1>1, <1>2, <1>3, <1>4, <1>5 DEF SandboxInv, StartMeansIt, RecordsBacked, HandlesFollow, MakersApart, ObjectsNumbered, BoxesKnown
<1>26. SweepMeansIt'
  BY <1>1, <1>2, <1>3, <1>4, <1>5 DEF SandboxInv, SweepMeansIt, RecordsBacked, HandlesFollow, SweepApart, ObjectsNumbered, BoxesKnown
<1>27. StatusTrue'
  BY <1>1, <1>2, <1>3, <1>4, <1>5 DEF SandboxInv, StatusTrue, RecordsBacked, HandlesFollow, HandlesApart, MakingIsNew, NewUnlisted
<1>28. NoneForgotten'
  BY <1>1, <1>2, <1>3, <1>4, <1>5 DEF SandboxInv, NoneForgotten, Exists, AtRest, BoxesKnown
<1> QED
  BY <1>11, <1>12, <1>13, <1>14, <1>15, <1>16, <1>17, <1>18, <1>19,
     <1>20, <1>21, <1>22, <1>23, <1>24, <1>25, <1>26, <1>27, <1>28 DEF SandboxInv

\* A container k starts for a workspace, which has it if it is still the object it
\* was; what else was there is given up.
BoxStarted(o, w, k, obj) ==
    /\ boxOp[o].pc = "boot" /\ boxOp[o].w = w /\ boxOp[o].k = k /\ boxOp[o].obj = obj
    /\ k # 0 /\ docker[k] # "none" /\ obj # 0
    /\ boxOp' \in [BoxOps -> {NoBoxOp} \union BoxRequests] /\ boxOp'[o].pc = "idle"
    /\ \A p \in BoxOps : p # o => boxOp'[p] = boxOp[p]
    /\ docker' \in [Containers -> {"none", "created", "running", "exited", "killed", "gone"}]
    /\ docker'[k] = "running" /\ \A i \in Containers : i # k => docker'[i] = docker[i]
    /\ box' \in [Boxes -> BoxStates] /\ \A v \in Boxes : v # w => box'[v] = box[v]
    /\ \/ box[w].obj # obj /\ box'[w] = box[w] /\ k \in strays'
       \/ /\ box[w].obj = obj
          /\ box'[w].status = "running" /\ box'[w].cont = k /\ box'[w].obj = obj
    /\ handle' \in [Boxes -> Containers \union {0}] /\ handle'[w] = k
    /\ \A v \in Boxes : v # w => handle'[v] = handle[v]
    /\ strays' \subseteq Containers /\ strays \subseteq strays'
    /\ handle[w] # 0 => handle[w] \in strays'
    /\ UNCHANGED <<fresh, sweep, kills>>

LEMMA BoxStarts ==
    ASSUME SandboxInv, NEW o \in BoxOps, NEW w \in Boxes, NEW k \in Containers, NEW obj \in Nat,
           BoxStarted(o, w, k, obj)
    PROVE  SandboxInv'
<1> USE DEF BoxStarted, Making, Owning, Using
<1>1. /\ \A p \in BoxOps : p # o /\ boxOp[p].pc \in Owning \union Using => boxOp[p].k # k
      /\ sweep.pc = "stop" => sweep.k # k
      /\ \A v \in Boxes : handle[v] # k /\ box[v].cont # k
  BY DEF SandboxInv, NewUnused, NewUnswept, NewUnlisted
<1>2. /\ \A v \in Boxes : handle[v] \in Containers \union {0} /\ box[v].cont \in Containers \union {0}
      /\ \A p \in BoxOps : boxOp[p].pc \in Owning \union Using => boxOp[p].k \in Containers
      /\ sweep.pc = "stop" => sweep.k \in Containers
  BY RequestHas, SweepHas DEF SandboxInv, SandboxTypes, BoxStates, BoxesKnown
<1>11. SandboxTypes'
  BY <1>1, <1>2 DEF SandboxInv, SandboxTypes
<1>12. BoxesKnown'
  BY <1>1, <1>2 DEF SandboxInv, BoxesKnown
<1>13. RecordsBacked'
  BY <1>1, <1>2 DEF SandboxInv, RecordsBacked, MakingIsNew, ObjectsNumbered
<1>14. HandlesFollow'
  BY <1>1, <1>2 DEF SandboxInv, HandlesFollow, RecordsBacked
<1>15. HandlesApart'
  BY <1>1, <1>2 DEF SandboxInv, HandlesApart
<1>16. NewUnused'
  BY <1>1, <1>2 DEF SandboxInv, NewUnused
<1>17. NewUnswept'
  BY <1>1, <1>2 DEF SandboxInv, NewUnswept
<1>18. NewUnlisted'
  BY <1>1, <1>2 DEF SandboxInv, NewUnlisted, BoxesKnown
<1>19. ObjectsNumbered'
  BY <1>1, <1>2 DEF SandboxInv, ObjectsNumbered, RecordsBacked
<1>20. MakingIsNew'
  BY <1>1, <1>2 DEF SandboxInv, MakingIsNew, MakersApart, SweepApart, RecordsBacked, ObjectsNumbered
<1>21. MakersApart'
  BY <1>1, <1>2 DEF SandboxInv, MakersApart, MakingIsNew
<1>22. SweepApart'
  BY <1>1, <1>2 DEF SandboxInv, SweepApart, MakingIsNew
<1>23. UsesAgree'
  BY <1>1, <1>2 DEF SandboxInv, UsesAgree, RecordsBacked, HandlesFollow, HandlesApart, NewUnused, BoxesKnown
<1>24. SweepAgrees'
  BY <1>1, <1>2 DEF SandboxInv, SweepAgrees, RecordsBacked, HandlesFollow, HandlesApart, NewUnswept, BoxesKnown
<1>25. StartMeansIt'
  BY <1>1, <1>2 DEF SandboxInv, StartMeansIt, RecordsBacked, HandlesFollow, MakersApart, ObjectsNumbered, BoxesKnown
<1>26. SweepMeansIt'
  BY <1>1, <1>2 DEF SandboxInv, SweepMeansIt, RecordsBacked, HandlesFollow, SweepApart, ObjectsNumbered, BoxesKnown
<1>27. StatusTrue'
  BY <1>1, <1>2 DEF SandboxInv, StatusTrue, RecordsBacked, HandlesFollow, HandlesApart, MakingIsNew, NewUnlisted
<1>28. NoneForgotten'
  <2> SUFFICES ASSUME NEW i \in Containers, Exists(i)'
               PROVE  (\/ i \in strays \/ \E v \in Boxes : handle[v] = i
                       \/ \E p \in BoxOps : boxOp[p].pc \in Owning /\ boxOp[p].k = i)'
    BY DEF NoneForgotten
  <2>1. CASE i = k
    BY <2>1
  <2>2. CASE i # k
    <3>1. Exists(i)
      BY <2>2 DEF Exists, AtRest
    <3>2. CASE i \in strays
      BY <3>2
    <3>3. ASSUME NEW v \in Boxes, handle[v] = i PROVE i \in strays' \/ \E u \in Boxes : handle'[u] = i
      BY <1>2, <3>3, 0 \notin Containers DEF Containers
    <3>4. ASSUME NEW p \in BoxOps, boxOp[p].pc \in Owning, boxOp[p].k = i
          PROVE  \E q \in BoxOps : boxOp'[q].pc \in Owning /\ boxOp'[q].k = i
      BY <2>2, <3>4
    <3> QED
      BY <3>1, <3>2, <3>3, <3>4 DEF SandboxInv, NoneForgotten
  <2> QED
    BY <2>1, <2>2
<1> QED
  BY <1>11, <1>12, <1>13, <1>14, <1>15, <1>16, <1>17, <1>18, <1>19,
     <1>20, <1>21, <1>22, <1>23, <1>24, <1>25, <1>26, <1>27, <1>28 DEF SandboxInv

LEMMA BoxIsUp ==
    ASSUME SandboxInv, NEW o \in BoxOps, boxOp[o].pc = "boot", BoxDone(o),
           docker' = [docker EXCEPT ![boxOp[o].k] = "running"],
           box' = IF Current(boxOp[o])
                    THEN [box EXCEPT ![boxOp[o].w].status = "running", ![boxOp[o].w].cont = boxOp[o].k] ELSE box,
           handle' = [handle EXCEPT ![boxOp[o].w] = boxOp[o].k],
           strays' = (strays \union IF Current(boxOp[o]) THEN {} ELSE {boxOp[o].k})
                        \union ({handle[boxOp[o].w]} \ {0}),
           UNCHANGED <<fresh, sweep, kills>>
    PROVE  SandboxInv'
<1> USE DEF Making, Owning, Using
<1>0. PICK k, w, obj : k = boxOp[o].k /\ w = boxOp[o].w /\ obj = boxOp[o].obj
  OBVIOUS
<1>1. k \in Containers /\ k # 0 /\ w \in Boxes /\ docker[k] # "none" /\ obj \in Nat \ {0}
  BY <1>0, RequestHas DEF SandboxInv, BoxesKnown, ObjectsNumbered
<1>2. /\ docker' \in [Containers -> {"none", "created", "running", "exited", "killed", "gone"}]
      /\ docker'[k] = "running" /\ \A i \in Containers : i # k => docker'[i] = docker[i]
  BY <1>0, <1>1 DEF SandboxInv, SandboxTypes
<1>3. /\ boxOp' \in [BoxOps -> {NoBoxOp} \union BoxRequests] /\ boxOp'[o].pc = "idle"
      /\ \A p \in BoxOps : p # o => boxOp'[p] = boxOp[p]
  BY RequestEnds DEF SandboxInv
<1>4. /\ handle' \in [Boxes -> Containers \union {0}] /\ handle'[w] = k
      /\ \A v \in Boxes : v # w => handle'[v] = handle[v]
  BY <1>0, <1>1 DEF SandboxInv, SandboxTypes
<1>5. /\ box' \in [Boxes -> BoxStates]
      /\ \A v \in Boxes : v # w => box'[v] = box[v]
      /\ \/ box[w].obj # obj /\ box'[w] = box[w]
         \/ /\ box[w].obj = obj
            /\ box'[w].status = "running" /\ box'[w].cont = k /\ box'[w].obj = obj
  <2>1. CASE Current(boxOp[o])
    <3>1. box[w] \in BoxStates /\ box \in [Boxes -> BoxStates]
      BY <1>1 DEF SandboxInv, SandboxTypes
    <3>2. PICK c \in BoxStates : c = [box[w] EXCEPT !.status = "running"]
      BY <3>1 DEF BoxStates
    <3>3. c.status = "running" /\ c.obj = box[w].obj
      BY <3>1, <3>2 DEF BoxStates
    <3>4. PICK b \in BoxStates : b = [c EXCEPT !.cont = k]
      BY <1>1 DEF BoxStates
    <3>5. b.status = "running" /\ b.obj = box[w].obj /\ b.cont = k
      BY <3>3, <3>4 DEF BoxStates
    <3>6. box' = [box EXCEPT ![w] = b]
      <4>1. PICK m : m = [box EXCEPT ![w] = c]
        OBVIOUS
      <4>2. m[w] = c /\ m = [box EXCEPT ![w].status = "running"]
        BY <1>1, <3>1, <3>2, <4>1
      <4>3. box' = [m EXCEPT ![w].cont = k]
        BY <1>0, <2>1, <4>2
      <4>4. box' = [m EXCEPT ![w] = b]
        BY <3>4, <4>2, <4>3
      <4> QED
        BY <1>1, <3>1, <4>1, <4>4
    <3> QED
      BY <1>0, <1>1, <2>1, <3>1, <3>5, <3>6 DEF Current
  <2>2. CASE ~Current(boxOp[o])
    BY <1>0, <2>2 DEF Current, SandboxInv, SandboxTypes
  <2> QED
    BY <2>1, <2>2
<1>6. /\ strays' \subseteq Containers /\ strays \subseteq strays'
      /\ handle[w] # 0 => handle[w] \in strays'
      /\ box[w].obj # obj => k \in strays'
  BY <1>0, <1>1 DEF SandboxInv, SandboxTypes, Current
<1>7. \/ box[w].obj # obj /\ box'[w] = box[w] /\ k \in strays'
      \/ /\ box[w].obj = obj
         /\ box'[w].status = "running" /\ box'[w].cont = k /\ box'[w].obj = obj
  BY <1>5, <1>6
<1>8. boxOp[o].w = w /\ boxOp[o].k = k /\ boxOp[o].obj = obj
  BY <1>0
<1>9. BoxStarted(o, w, k, obj)
  BY <1>1, <1>2, <1>3, <1>4, <1>5, <1>6, <1>7, <1>8 DEF BoxStarted
<1> QED
  BY <1>1, <1>9, BoxStarts

\* A workspace is forgotten; its container is gone or given up.
LEMMA BoxDropped ==
    ASSUME SandboxInv, NEW w \in Boxes, Drop(w), UNCHANGED <<fresh, sweep, kills>>,
           boxOp' \in [BoxOps -> {NoBoxOp} \union BoxRequests],
           \A p \in BoxOps : \/ boxOp'[p] = boxOp[p]
                             \/ boxOp'[p].pc = "idle" /\ boxOp[p].pc \notin Owning,
           strays' \subseteq Containers, strays \subseteq strays',
           docker' \in [Containers -> {"none", "created", "running", "exited", "killed", "gone"}],
           \A i \in Containers : docker'[i] # docker[i] =>
               /\ docker'[i] = "gone" /\ docker[i] # "none"
               /\ \A v \in Boxes : v # w /\ box[v].cont = i => handle[v] \in strays,
           handle[w] # 0 => handle[w] \in strays' \/ docker'[handle[w]] = "gone"
    PROVE  SandboxInv'
<1> USE DEF Making, Owning, Using
<1>1. PICK b \in BoxStates : b = NoBox
  BY DEF BoxStates, NoBox
<1>2. b.status = "absent" /\ b.cont = 0 /\ b.obj = 0
  BY <1>1 DEF NoBox
<1>3. /\ box' \in [Boxes -> BoxStates] /\ box'[w] = b /\ \A v \in Boxes : v # w => box'[v] = box[v]
  BY <1>1 DEF Drop, SandboxInv, SandboxTypes
<1>4. /\ handle' \in [Boxes -> Containers \union {0}] /\ handle'[w] = 0
      /\ \A v \in Boxes : v # w => handle'[v] = handle[v]
  BY DEF Drop, SandboxInv, SandboxTypes
<1>5. /\ \A v \in Boxes : handle[v] \in Containers \union {0} /\ box[v].cont \in Containers \union {0}
      /\ \A p \in BoxOps : boxOp[p].pc \in Owning \union Using => boxOp[p].k \in Containers
      /\ sweep.pc = "stop" => sweep.k \in Containers
  BY RequestHas, SweepHas DEF SandboxInv, SandboxTypes, BoxStates, BoxesKnown
<1>6. \A i \in Containers : docker[i] # "none" => docker'[i] # "none"
  OBVIOUS
<1>7. \A p \in BoxOps : boxOp'[p].pc # "idle" => boxOp'[p] = boxOp[p]
  OBVIOUS
<1>8. sweep.pc = "stop" => sweep.k # 0
  BY SweepHas DEF SandboxInv, Containers
<1>11. SandboxTypes'
  BY <1>2, <1>3, <1>4, <1>5, <1>6, <1>7, <1>8 DEF SandboxInv, SandboxTypes
<1>12. BoxesKnown'
  BY <1>2, <1>3, <1>4, <1>5, <1>6, <1>7, <1>8 DEF SandboxInv, BoxesKnown
<1>13. RecordsBacked'
  BY <1>2, <1>3, <1>4, <1>5, <1>6, <1>7, <1>8 DEF SandboxInv, RecordsBacked, MakingIsNew, ObjectsNumbered
<1>14. HandlesFollow'
  BY <1>2, <1>3, <1>4, <1>5, <1>6, <1>7, <1>8 DEF SandboxInv, HandlesFollow, RecordsBacked
<1>15. HandlesApart'
  BY <1>2, <1>3, <1>4, <1>5, <1>6, <1>7, <1>8 DEF SandboxInv, HandlesApart
<1>16. NewUnused'
  BY <1>2, <1>3, <1>4, <1>5, <1>6, <1>7, <1>8 DEF SandboxInv, NewUnused
<1>17. NewUnswept'
  BY <1>2, <1>3, <1>4, <1>5, <1>6, <1>7, <1>8 DEF SandboxInv, NewUnswept
<1>18. NewUnlisted'
  BY <1>2, <1>3, <1>4, <1>5, <1>6, <1>7, <1>8 DEF SandboxInv, NewUnlisted, BoxesKnown
<1>19. ObjectsNumbered'
  BY <1>2, <1>3, <1>4, <1>5, <1>6, <1>7, <1>8 DEF SandboxInv, ObjectsNumbered, RecordsBacked
<1>20. MakingIsNew'
  BY <1>2, <1>3, <1>4, <1>5, <1>6, <1>7, <1>8 DEF SandboxInv, MakingIsNew, MakersApart, SweepApart, RecordsBacked, ObjectsNumbered
<1>21. MakersApart'
  BY <1>2, <1>3, <1>4, <1>5, <1>6, <1>7, <1>8 DEF SandboxInv, MakersApart, MakingIsNew
<1>22. SweepApart'
  BY <1>2, <1>3, <1>4, <1>5, <1>6, <1>7, <1>8 DEF SandboxInv, SweepApart, MakingIsNew
<1>23. UsesAgree'
  BY <1>2, <1>3, <1>4, <1>5, <1>6, <1>7, <1>8 DEF SandboxInv, UsesAgree, RecordsBacked, HandlesFollow, HandlesApart, NewUnused, BoxesKnown
<1>24. SweepAgrees'
  BY <1>2, <1>3, <1>4, <1>5, <1>6, <1>7, <1>8 DEF SandboxInv, SweepAgrees, RecordsBacked, HandlesFollow, HandlesApart, NewUnswept, BoxesKnown
<1>25. StartMeansIt'
  BY <1>2, <1>3, <1>4, <1>5, <1>6, <1>7, <1>8 DEF SandboxInv, StartMeansIt, RecordsBacked, HandlesFollow, MakersApart, ObjectsNumbered, BoxesKnown
<1>26. SweepMeansIt'
  BY <1>2, <1>3, <1>4, <1>5, <1>6, <1>7, <1>8 DEF SandboxInv, SweepMeansIt, RecordsBacked, HandlesFollow, SweepApart, ObjectsNumbered, BoxesKnown
<1>27. StatusTrue'
  BY <1>2, <1>3, <1>4, <1>5, <1>6, <1>7, <1>8 DEF SandboxInv, StatusTrue, RecordsBacked, HandlesFollow, HandlesApart, MakingIsNew, NewUnlisted
<1>28. NoneForgotten'
  BY <1>2, <1>3, <1>4, <1>5, <1>6, <1>7, <1>8 DEF SandboxInv, NoneForgotten, Exists, AtRest, BoxesKnown
<1> QED
  BY <1>11, <1>12, <1>13, <1>14, <1>15, <1>16, <1>17, <1>18, <1>19,
     <1>20, <1>21, <1>22, <1>23, <1>24, <1>25, <1>26, <1>27, <1>28 DEF SandboxInv

\* A request takes up the container of a workspace.
LEMMA BoxUsed ==
    ASSUME SandboxInv, NEW o \in BoxOps, NEW w \in Boxes, NEW r \in BoxRequests, boxOp[o].pc = "idle",
           r.pc \in Using, r.w = w, r.obj = box[w].obj, r.k = handle[w], handle[w] # 0,
           r.pc = "start" => box[w].cont # 0,
           BoxGo(o, r), fresh' \in [Boxes -> BOOLEAN],
           UNCHANGED <<box, handle, sweep, docker, kills, strays>>
    PROVE  SandboxInv'
<1> USE DEF Making, Owning, Using
<1>1. /\ boxOp' \in [BoxOps -> {NoBoxOp} \union BoxRequests] /\ boxOp'[o] = r
      /\ \A p \in BoxOps : p # o => boxOp'[p] = boxOp[p]
  BY RequestMoves DEF SandboxInv
<1>11. SandboxTypes'
  BY <1>1 DEF SandboxInv, SandboxTypes
<1>12. BoxesKnown'
  BY <1>1 DEF SandboxInv, BoxesKnown
<1>13. RecordsBacked'
  BY <1>1 DEF SandboxInv, RecordsBacked, MakingIsNew, ObjectsNumbered
<1>14. HandlesFollow'
  BY <1>1 DEF SandboxInv, HandlesFollow, RecordsBacked
<1>15. HandlesApart'
  BY <1>1 DEF SandboxInv, HandlesApart
<1>16. NewUnused'
  BY <1>1 DEF SandboxInv, NewUnused, NewUnlisted
<1>17. NewUnswept'
  BY <1>1 DEF SandboxInv, NewUnswept, NewUnlisted
<1>18. NewUnlisted'
  BY <1>1 DEF SandboxInv, NewUnlisted, BoxesKnown
<1>19. ObjectsNumbered'
  BY <1>1 DEF SandboxInv, ObjectsNumbered, RecordsBacked
<1>20. MakingIsNew'
  BY <1>1 DEF SandboxInv, MakingIsNew, MakersApart, SweepApart, RecordsBacked, ObjectsNumbered
<1>21. MakersApart'
  BY <1>1 DEF SandboxInv, MakersApart, MakingIsNew
<1>22. SweepApart'
  BY <1>1 DEF SandboxInv, SweepApart, MakingIsNew
<1>23. UsesAgree'
  BY <1>1 DEF SandboxInv, UsesAgree, RecordsBacked, HandlesFollow, HandlesApart, NewUnused, BoxesKnown
<1>24. SweepAgrees'
  BY <1>1 DEF SandboxInv, SweepAgrees, RecordsBacked, HandlesFollow, HandlesApart, NewUnswept, BoxesKnown
<1>25. StartMeansIt'
  BY <1>1 DEF SandboxInv, StartMeansIt, RecordsBacked, HandlesFollow, MakersApart, ObjectsNumbered, BoxesKnown
<1>26. SweepMeansIt'
  BY <1>1 DEF SandboxInv, SweepMeansIt, RecordsBacked, HandlesFollow, SweepApart, ObjectsNumbered, BoxesKnown
<1>27. StatusTrue'
  BY <1>1 DEF SandboxInv, StatusTrue, RecordsBacked, HandlesFollow, HandlesApart, MakingIsNew, NewUnlisted
<1>28. NoneForgotten'
  BY <1>1 DEF SandboxInv, NoneForgotten, Exists, AtRest, BoxesKnown
<1> QED
  BY <1>11, <1>12, <1>13, <1>14, <1>15, <1>16, <1>17, <1>18, <1>19,
     <1>20, <1>21, <1>22, <1>23, <1>24, <1>25, <1>26, <1>27, <1>28 DEF SandboxInv

\* What a container does is changed, and told to the object it was done for.
BoxTold(w, obj, k, st, d) ==
    /\ Exists(k) /\ docker[k] # "none" /\ obj # 0
    /\ (st = "running" /\ d = "running") \/ (st = "stopped" /\ d = "exited")
    /\ \A v \in Boxes : handle[v] = k => v = w /\ (handle[v] \in strays \/ obj = box[v].obj)
    /\ obj = box[w].obj => handle[w] = k \/ handle[w] \in strays
    /\ \A p \in BoxOps : boxOp[p].pc \in Making /\ boxOp[p].w = w => boxOp[p].obj # obj
    /\ \A p \in BoxOps : boxOp[p].pc \in Owning => boxOp[p].k # k
    /\ docker' \in [Containers -> {"none", "created", "running", "exited", "killed", "gone"}]
    /\ docker'[k] = d /\ \A i \in Containers : i # k => docker'[i] = docker[i]
    /\ box' \in [Boxes -> BoxStates]
    /\ \A v \in Boxes :
         /\ box'[v].cont = box[v].cont /\ box'[v].obj = box[v].obj
         /\ box'[v].status = IF v = w /\ box[v].obj = obj THEN st ELSE box[v].status
    /\ boxOp' \in [BoxOps -> {NoBoxOp} \union BoxRequests]
    /\ \A p \in BoxOps :
         \/ boxOp'[p] = boxOp[p]
         \/ /\ boxOp[p].pc = "start" /\ boxOp'[p].pc = "enter"
            /\ boxOp'[p].w = boxOp[p].w /\ boxOp'[p].obj = boxOp[p].obj /\ boxOp'[p].k = boxOp[p].k
    /\ sweep' \in {NoSweep} \union Sweeps /\ (sweep' = sweep \/ sweep'.pc # "stop")
    /\ UNCHANGED <<handle, fresh, kills, strays>>

LEMMA BoxIsTold ==
    ASSUME SandboxInv, NEW w \in Boxes, NEW obj \in Nat, NEW k \in Containers,
           NEW st \in {"running", "stopped"}, NEW d \in {"running", "exited"}, BoxTold(w, obj, k, st, d)
    PROVE  SandboxInv'
<1> USE DEF BoxTold, Making, Owning, Using
<1>1. /\ \A v \in Boxes : handle[v] \in Containers \union {0} /\ box[v].cont \in Containers \union {0}
      /\ \A p \in BoxOps : boxOp[p].pc \in Owning \union Using => boxOp[p].k \in Containers
      /\ sweep.pc = "stop" => sweep.k \in Containers
  BY RequestHas, SweepHas DEF SandboxInv, SandboxTypes, BoxStates, BoxesKnown
<1>11. SandboxTypes'
  BY <1>1 DEF SandboxInv, SandboxTypes
<1>12. BoxesKnown'
  BY <1>1 DEF SandboxInv, BoxesKnown
<1>13. RecordsBacked'
  BY <1>1 DEF SandboxInv, RecordsBacked, MakingIsNew, ObjectsNumbered
<1>14. HandlesFollow'
  BY <1>1 DEF SandboxInv, HandlesFollow, RecordsBacked
<1>15. HandlesApart'
  BY <1>1 DEF SandboxInv, HandlesApart
<1>16. NewUnused'
  BY <1>1 DEF SandboxInv, NewUnused, NewUnlisted
<1>17. NewUnswept'
  BY <1>1 DEF SandboxInv, NewUnswept, NewUnlisted
<1>18. NewUnlisted'
  BY <1>1 DEF SandboxInv, NewUnlisted, BoxesKnown
<1>19. ObjectsNumbered'
  BY <1>1 DEF SandboxInv, ObjectsNumbered, RecordsBacked
<1>20. MakingIsNew'
  BY <1>1 DEF SandboxInv, MakingIsNew, MakersApart, SweepApart, RecordsBacked, ObjectsNumbered
<1>21. MakersApart'
  BY <1>1 DEF SandboxInv, MakersApart, MakingIsNew
<1>22. SweepApart'
  BY <1>1 DEF SandboxInv, SweepApart, MakingIsNew
<1>23. UsesAgree'
  BY <1>1 DEF SandboxInv, UsesAgree, RecordsBacked, HandlesFollow, HandlesApart, NewUnused, BoxesKnown
<1>24. SweepAgrees'
  BY <1>1 DEF SandboxInv, SweepAgrees, RecordsBacked, HandlesFollow, HandlesApart, NewUnswept, BoxesKnown
<1>25. StartMeansIt'
  BY <1>1 DEF SandboxInv, StartMeansIt, RecordsBacked, HandlesFollow, MakersApart, ObjectsNumbered, BoxesKnown
<1>26. SweepMeansIt'
  BY <1>1 DEF SandboxInv, SweepMeansIt, RecordsBacked, HandlesFollow, SweepApart, ObjectsNumbered, BoxesKnown
<1>27. StatusTrue'
  BY <1>1 DEF SandboxInv, StatusTrue, RecordsBacked, HandlesFollow, HandlesApart, MakingIsNew, NewUnlisted
<1>28. NoneForgotten'
  BY <1>1 DEF SandboxInv, NoneForgotten, Exists, AtRest, BoxesKnown
<1> QED
  BY <1>11, <1>12, <1>13, <1>14, <1>15, <1>16, <1>17, <1>18, <1>19,
     <1>20, <1>21, <1>22, <1>23, <1>24, <1>25, <1>26, <1>27, <1>28 DEF SandboxInv

\* A container that runs is killed, or one that belongs to its request alone is removed or given up.
ContainerLost ==
    /\ docker' \in [Containers -> {"none", "created", "running", "exited", "killed", "gone"}]
    /\ \A i \in Containers :
         \/ docker'[i] = docker[i]
         \/ docker[i] = "running" /\ docker'[i] = "killed"
         \/ /\ docker[i] # "none" /\ docker'[i] = "gone"
            /\ \A v \in Boxes : handle[v] # i /\ box[v].cont # i
    /\ boxOp' \in [BoxOps -> {NoBoxOp} \union BoxRequests]
    /\ \A p \in BoxOps :
         \/ boxOp'[p] = boxOp[p]
         \/ /\ boxOp'[p].pc = "idle"
            /\ boxOp[p].pc \in Owning => docker'[boxOp[p].k] = "gone" \/ boxOp[p].k \in strays'
    /\ kills' \subseteq Containers /\ strays \subseteq strays' /\ strays' \subseteq Containers
    /\ UNCHANGED <<box, handle, fresh, sweep>>

LEMMA ContainerIsLost ==
    ASSUME SandboxInv, ContainerLost
    PROVE  SandboxInv'
<1> USE DEF ContainerLost, Making, Owning, Using
<1>1. /\ \A v \in Boxes : handle[v] \in Containers \union {0} /\ box[v].cont \in Containers \union {0}
      /\ \A p \in BoxOps : boxOp[p].pc \in Owning \union Using => boxOp[p].k \in Containers
      /\ sweep.pc = "stop" => sweep.k \in Containers
  BY RequestHas, SweepHas DEF SandboxInv, SandboxTypes, BoxStates, BoxesKnown
<1>11. SandboxTypes'
  BY <1>1 DEF SandboxInv, SandboxTypes
<1>12. BoxesKnown'
  BY <1>1 DEF SandboxInv, BoxesKnown
<1>13. RecordsBacked'
  BY <1>1 DEF SandboxInv, RecordsBacked, MakingIsNew, ObjectsNumbered
<1>14. HandlesFollow'
  BY <1>1 DEF SandboxInv, HandlesFollow, RecordsBacked
<1>15. HandlesApart'
  BY <1>1 DEF SandboxInv, HandlesApart
<1>16. NewUnused'
  BY <1>1 DEF SandboxInv, NewUnused, NewUnlisted
<1>17. NewUnswept'
  BY <1>1 DEF SandboxInv, NewUnswept, NewUnlisted
<1>18. NewUnlisted'
  BY <1>1 DEF SandboxInv, NewUnlisted, BoxesKnown
<1>19. ObjectsNumbered'
  BY <1>1 DEF SandboxInv, ObjectsNumbered, RecordsBacked
<1>20. MakingIsNew'
  BY <1>1 DEF SandboxInv, MakingIsNew, MakersApart, SweepApart, RecordsBacked, ObjectsNumbered
<1>21. MakersApart'
  BY <1>1 DEF SandboxInv, MakersApart, MakingIsNew
<1>22. SweepApart'
  BY <1>1 DEF SandboxInv, SweepApart, MakingIsNew
<1>23. UsesAgree'
  BY <1>1 DEF SandboxInv, UsesAgree, RecordsBacked, HandlesFollow, HandlesApart, NewUnused, BoxesKnown
<1>24. SweepAgrees'
  BY <1>1 DEF SandboxInv, SweepAgrees, RecordsBacked, HandlesFollow, HandlesApart, NewUnswept, BoxesKnown
<1>25. StartMeansIt'
  BY <1>1 DEF SandboxInv, StartMeansIt, RecordsBacked, HandlesFollow, MakersApart, ObjectsNumbered, BoxesKnown
<1>26. SweepMeansIt'
  BY <1>1 DEF SandboxInv, SweepMeansIt, RecordsBacked, HandlesFollow, SweepApart, ObjectsNumbered, BoxesKnown
<1>27. StatusTrue'
  BY <1>1 DEF SandboxInv, StatusTrue, RecordsBacked, HandlesFollow, HandlesApart, MakingIsNew, NewUnlisted
<1>28. NoneForgotten'
  BY <1>1 DEF SandboxInv, NoneForgotten, Exists, AtRest, BoxesKnown
<1> QED
  BY <1>11, <1>12, <1>13, <1>14, <1>15, <1>16, <1>17, <1>18, <1>19,
     <1>20, <1>21, <1>22, <1>23, <1>24, <1>25, <1>26, <1>27, <1>28 DEF SandboxInv

\* The sweep goes on, with no container in hand; a workspace that never had one is called stopped.
LEMMA SweepMoves ==
    ASSUME SandboxInv, sweep' \in {NoSweep} \union Sweeps, sweep' = sweep \/ sweep'.pc # "stop",
           fresh' \in [Boxes -> BOOLEAN], box' \in [Boxes -> BoxStates],
           \A v \in Boxes :
               /\ box'[v].cont = box[v].cont /\ box'[v].obj = box[v].obj
               /\ \/ box'[v].status = box[v].status
                  \/ box[v].cont = 0 /\ box[v].status = "running" /\ box'[v].status = "stopped",
           UNCHANGED <<handle, boxOp, docker, kills, strays>>
    PROVE  SandboxInv'
<1> USE DEF Making, Owning, Using
<1>11. SandboxTypes'
  BY DEF SandboxInv, SandboxTypes
<1>12. BoxesKnown'
  BY DEF SandboxInv, BoxesKnown
<1>13. RecordsBacked'
  BY DEF SandboxInv, RecordsBacked, MakingIsNew, ObjectsNumbered
<1>14. HandlesFollow'
  BY DEF SandboxInv, HandlesFollow, RecordsBacked
<1>15. HandlesApart'
  BY DEF SandboxInv, HandlesApart
<1>16. NewUnused'
  BY DEF SandboxInv, NewUnused, NewUnlisted
<1>17. NewUnswept'
  BY DEF SandboxInv, NewUnswept, NewUnlisted
<1>18. NewUnlisted'
  BY DEF SandboxInv, NewUnlisted, BoxesKnown
<1>19. ObjectsNumbered'
  BY DEF SandboxInv, ObjectsNumbered, RecordsBacked
<1>20. MakingIsNew'
  BY DEF SandboxInv, MakingIsNew, MakersApart, SweepApart, RecordsBacked, ObjectsNumbered
<1>21. MakersApart'
  BY DEF SandboxInv, MakersApart, MakingIsNew
<1>22. SweepApart'
  BY DEF SandboxInv, SweepApart, MakingIsNew
<1>23. UsesAgree'
  BY DEF SandboxInv, UsesAgree, RecordsBacked, HandlesFollow, HandlesApart, NewUnused, BoxesKnown
<1>24. SweepAgrees'
  BY DEF SandboxInv, SweepAgrees, RecordsBacked, HandlesFollow, HandlesApart, NewUnswept, BoxesKnown
<1>25. StartMeansIt'
  BY DEF SandboxInv, StartMeansIt, RecordsBacked, HandlesFollow, MakersApart, ObjectsNumbered, BoxesKnown
<1>26. SweepMeansIt'
  BY DEF SandboxInv, SweepMeansIt, RecordsBacked, HandlesFollow, SweepApart, ObjectsNumbered, BoxesKnown
<1>27. StatusTrue'
  BY DEF SandboxInv, StatusTrue, RecordsBacked, HandlesFollow, HandlesApart, MakingIsNew, NewUnlisted
<1>28. NoneForgotten'
  BY DEF SandboxInv, NoneForgotten, Exists, AtRest, BoxesKnown
<1> QED
  BY <1>11, <1>12, <1>13, <1>14, <1>15, <1>16, <1>17, <1>18, <1>19,
     <1>20, <1>21, <1>22, <1>23, <1>24, <1>25, <1>26, <1>27, <1>28 DEF SandboxInv

\* The sweep takes up the container of an idle workspace.
LEMMA SweepTakes ==
    ASSUME SandboxInv, NEW w \in Boxes, box[w].status = "running", handle[w] # 0,
           sweep' \in {NoSweep} \union Sweeps,
           sweep'.pc = "stop", sweep'.w = w, sweep'.obj = box[w].obj, sweep'.k = handle[w],
           UNCHANGED <<box, handle, fresh, boxOp, docker, kills, strays>>
    PROVE  SandboxInv'
<1> USE DEF Making, Owning, Using
<1>11. SandboxTypes'
  BY DEF SandboxInv, SandboxTypes
<1>12. BoxesKnown'
  BY DEF SandboxInv, BoxesKnown
<1>13. RecordsBacked'
  BY DEF SandboxInv, RecordsBacked, MakingIsNew, ObjectsNumbered
<1>14. HandlesFollow'
  BY DEF SandboxInv, HandlesFollow, RecordsBacked
<1>15. HandlesApart'
  BY DEF SandboxInv, HandlesApart
<1>16. NewUnused'
  BY DEF SandboxInv, NewUnused, NewUnlisted
<1>17. NewUnswept'
  BY DEF SandboxInv, NewUnswept, NewUnlisted
<1>18. NewUnlisted'
  BY DEF SandboxInv, NewUnlisted, BoxesKnown
<1>19. ObjectsNumbered'
  BY DEF SandboxInv, ObjectsNumbered, RecordsBacked
<1>20. MakingIsNew'
  BY DEF SandboxInv, MakingIsNew, MakersApart, SweepApart, RecordsBacked, ObjectsNumbered
<1>21. MakersApart'
  BY DEF SandboxInv, MakersApart, MakingIsNew
<1>22. SweepApart'
  BY DEF SandboxInv, SweepApart, MakingIsNew
<1>23. UsesAgree'
  BY DEF SandboxInv, UsesAgree, RecordsBacked, HandlesFollow, HandlesApart, NewUnused, BoxesKnown
<1>24. SweepAgrees'
  BY DEF SandboxInv, SweepAgrees, RecordsBacked, HandlesFollow, HandlesApart, NewUnswept, BoxesKnown
<1>25. StartMeansIt'
  BY DEF SandboxInv, StartMeansIt, RecordsBacked, HandlesFollow, MakersApart, ObjectsNumbered, BoxesKnown
<1>26. SweepMeansIt'
  BY DEF SandboxInv, SweepMeansIt, RecordsBacked, HandlesFollow, SweepApart, ObjectsNumbered, BoxesKnown
<1>27. StatusTrue'
  BY DEF SandboxInv, StatusTrue, RecordsBacked, HandlesFollow, HandlesApart, MakingIsNew, NewUnlisted
<1>28. NoneForgotten'
  BY DEF SandboxInv, NoneForgotten, Exists, AtRest, BoxesKnown
<1> QED
  BY <1>11, <1>12, <1>13, <1>14, <1>15, <1>16, <1>17, <1>18, <1>19,
     <1>20, <1>21, <1>22, <1>23, <1>24, <1>25, <1>26, <1>27, <1>28 DEF SandboxInv

\* A restart finds no container and knows nobody.
LEMMA BoxesRestart ==
    ASSUME SandboxInv, BoxesRecovered
    PROVE  SandboxInv'
<1> USE DEF Making, Owning, Using
<1>1. /\ \A p \in BoxOps : boxOp'[p].pc = "idle" /\ boxOp'[p] = NoBoxOp
      /\ boxOp' \in [BoxOps -> {NoBoxOp} \union BoxRequests]
  BY DEF BoxesRecovered, NoBoxOp
<1>2. sweep'.pc = "idle" /\ sweep' = NoSweep /\ kills' = {}
  BY DEF BoxesRecovered, NoSweep
<1>3. /\ \A v \in Boxes : box'[v].cont = 0 /\ handle'[v] = 0 /\ box'[v].status \in {"stopped", "absent"}
      /\ handle' \in [Boxes -> Containers \union {0}] /\ fresh' \in [Boxes -> BOOLEAN]
      /\ box' \in [Boxes -> BoxStates]
  BY DEF BoxesRecovered, NoBox, BoxStates
<1>4. strays' = {k \in Containers : Exists(k)} /\ docker' = docker
  BY DEF BoxesRecovered
<1>11. SandboxTypes'
  BY <1>1, <1>2, <1>3, <1>4 DEF SandboxInv, SandboxTypes
<1>12. BoxesKnown'
  BY <1>1, <1>2, <1>3, <1>4 DEF SandboxInv, BoxesKnown
<1>13. RecordsBacked'
  BY <1>1, <1>2, <1>3, <1>4 DEF SandboxInv, RecordsBacked, MakingIsNew, ObjectsNumbered
<1>14. HandlesFollow'
  BY <1>1, <1>2, <1>3, <1>4 DEF SandboxInv, HandlesFollow, RecordsBacked
<1>15. HandlesApart'
  BY <1>1, <1>2, <1>3, <1>4 DEF SandboxInv, HandlesApart
<1>16. NewUnused'
  BY <1>1, <1>2, <1>3, <1>4 DEF SandboxInv, NewUnused, NewUnlisted
<1>17. NewUnswept'
  BY <1>1, <1>2, <1>3, <1>4 DEF SandboxInv, NewUnswept, NewUnlisted
<1>18. NewUnlisted'
  BY <1>1, <1>2, <1>3, <1>4 DEF SandboxInv, NewUnlisted, BoxesKnown
<1>19. ObjectsNumbered'
  BY <1>1, <1>2, <1>3, <1>4 DEF SandboxInv, ObjectsNumbered, RecordsBacked
<1>20. MakingIsNew'
  BY <1>1, <1>2, <1>3, <1>4 DEF SandboxInv, MakingIsNew, MakersApart, SweepApart, RecordsBacked, ObjectsNumbered
<1>21. MakersApart'
  BY <1>1, <1>2, <1>3, <1>4 DEF SandboxInv, MakersApart, MakingIsNew
<1>22. SweepApart'
  BY <1>1, <1>2, <1>3, <1>4 DEF SandboxInv, SweepApart, MakingIsNew
<1>23. UsesAgree'
  BY <1>1, <1>2, <1>3, <1>4 DEF SandboxInv, UsesAgree, RecordsBacked, HandlesFollow, HandlesApart, NewUnused, BoxesKnown
<1>24. SweepAgrees'
  BY <1>1, <1>2, <1>3, <1>4 DEF SandboxInv, SweepAgrees, RecordsBacked, HandlesFollow, HandlesApart, NewUnswept, BoxesKnown
<1>25. StartMeansIt'
  BY <1>1, <1>2, <1>3, <1>4 DEF SandboxInv, StartMeansIt, RecordsBacked, HandlesFollow, MakersApart, ObjectsNumbered, BoxesKnown
<1>26. SweepMeansIt'
  BY <1>1, <1>2, <1>3, <1>4 DEF SandboxInv, SweepMeansIt, RecordsBacked, HandlesFollow, SweepApart, ObjectsNumbered, BoxesKnown
<1>27. StatusTrue'
  BY <1>1, <1>2, <1>3, <1>4 DEF SandboxInv, StatusTrue, RecordsBacked, HandlesFollow, HandlesApart, MakingIsNew, NewUnlisted
<1>28. NoneForgotten'
  BY <1>1, <1>2, <1>3, <1>4 DEF SandboxInv, NoneForgotten, Exists, AtRest, BoxesKnown
<1> QED
  BY <1>11, <1>12, <1>13, <1>14, <1>15, <1>16, <1>17, <1>18, <1>19,
     <1>20, <1>21, <1>22, <1>23, <1>24, <1>25, <1>26, <1>27, <1>28 DEF SandboxInv

\* Nobody has a workspace in the beginning.
LEMMA SandboxStart == SandboxInit => SandboxInv
<1> SUFFICES ASSUME SandboxInit PROVE SandboxInv
  OBVIOUS
<1> USE DEF Making, Owning, Using
<1>1. /\ \A w \in Boxes : box[w] = NoBox /\ handle[w] = 0 /\ NoBox \in BoxStates
      /\ box \in [Boxes -> BoxStates] /\ handle \in [Boxes -> Containers \union {0}]
      /\ fresh \in [Boxes -> BOOLEAN]
  BY DEF SandboxInit, NoBox, BoxStates
<1>2. NoBox.status = "absent" /\ NoBox.cont = 0
  BY DEF NoBox
<1>3. /\ \A o \in BoxOps : boxOp[o] = NoBoxOp
      /\ boxOp \in [BoxOps -> {NoBoxOp} \union BoxRequests]
  BY DEF SandboxInit
<1>4. NoBoxOp.pc = "idle" /\ sweep.pc = "idle" /\ sweep = NoSweep
  BY DEF NoBoxOp, NoSweep, SandboxInit
<1>5. /\ \A k \in Containers : docker[k] = "none"
      /\ docker \in [Containers -> {"none", "created", "running", "exited", "killed", "gone"}]
      /\ kills \subseteq Containers /\ strays \subseteq Containers
  BY DEF SandboxInit
<1>6. SandboxTypes
  BY <1>1, <1>3, <1>4, <1>5 DEF SandboxTypes
<1>7. BoxesKnown /\ RecordsBacked /\ HandlesFollow /\ HandlesApart
  BY <1>1, <1>2, <1>3, <1>4 DEF BoxesKnown, RecordsBacked, HandlesFollow, HandlesApart
<1>8. /\ NewUnused /\ NewUnswept /\ NewUnlisted
      /\ ObjectsNumbered /\ MakingIsNew /\ MakersApart /\ SweepApart
  BY <1>1, <1>2, <1>3, <1>4
     DEF NewUnused, NewUnswept, NewUnlisted, ObjectsNumbered, MakingIsNew, MakersApart, SweepApart
<1>9. UsesAgree /\ SweepAgrees /\ StartMeansIt /\ SweepMeansIt
  BY <1>1, <1>2, <1>3, <1>4 DEF UsesAgree, SweepAgrees, StartMeansIt, SweepMeansIt
<1>10. StatusTrue /\ NoneForgotten
  BY <1>1, <1>2, <1>5 DEF StatusTrue, NoneForgotten, Exists, AtRest
<1> QED
  BY <1>6, <1>7, <1>8, <1>9, <1>10 DEF SandboxInv

\* createWorkspace keeps the invariant ...
LEMMA CreationsKeep ==
    ASSUME SandboxInv, NEW o \in BoxOps
    PROVE  /\ ContainerMade(o) => SandboxInv'
           /\ ContainerUp(o) => SandboxInv'
<1>0. SandboxTypes
  BY DEF SandboxInv
<1>1. ASSUME ContainerMade(o) PROVE SandboxInv'
  <2>1. boxOp[o].pc = "make" /\ UNCHANGED <<handle, fresh, sweep, kills, strays>>
    BY <1>1 DEF ContainerMade, At
  <2>2. ASSUME NEW k \in NewContainer, docker' = [docker EXCEPT ![k] = "created"],
               BoxGo(o, [boxOp[o] EXCEPT !.pc = "boot", !.k = k]), UNCHANGED box
        PROVE  SandboxInv'
    <3>1. k \in Containers
      BY DEF NewContainer
    <3>2. PICK r \in BoxRequests : r = boxOp[o]
      BY <1>0, <2>1, RequestHas
    <3>3. PICK q \in BoxRequests : q = [r EXCEPT !.pc = "boot", !.k = k]
      BY <3>1, RequestWithContainer
    <3>4. q.pc = "boot" /\ q.w = boxOp[o].w /\ q.obj = boxOp[o].obj /\ q.k = k
      <4>1. q = [pc |-> "boot", w |-> r.w, obj |-> r.obj, k |-> k]
        BY <3>1, <3>3, RequestWithContainer
      <4> QED
        BY <3>2, <4>1
    <3>5. BoxGo(o, q)
      BY <2>2, <3>2, <3>3
    <3>6. fresh' \in [Boxes -> BOOLEAN]
      BY <1>0, <2>1 DEF SandboxTypes
    <3> QED
      BY <2>1, <2>2, <3>4, <3>5, <3>6, ContainerIsMade DEF Owning
  <2>3. CASE Mark(boxOp[o], "error") /\ BoxDone(o) /\ UNCHANGED docker
    BY <1>0, <2>1, <2>3, BoxFails DEF Making, SandboxTypes
  <2> QED
    BY <1>1, <2>2, <2>3 DEF ContainerMade
<1>2. ASSUME ContainerUp(o) PROVE SandboxInv'
  <2>1. boxOp[o].pc = "boot" /\ BoxDone(o) /\ UNCHANGED <<fresh, sweep, kills>>
    BY <1>2 DEF ContainerUp, At
  <2>2. CASE Mark(boxOp[o], "error") /\ strays' = strays \union {boxOp[o].k} /\ UNCHANGED <<docker, handle>>
    <3>1. boxOp[o].k \in Containers
      BY <1>0, <2>1, RequestHas DEF SandboxInv, BoxesKnown, Owning
    <3>2. strays' \subseteq Containers /\ strays \subseteq strays' /\ boxOp[o].k \in strays'
      BY <1>0, <2>2, <3>1 DEF SandboxTypes
    <3> QED
      BY <2>1, <2>2, <3>2, BoxFails DEF Making
  <2>3. CASE ~(Mark(boxOp[o], "error") /\ strays' = strays \union {boxOp[o].k} /\ UNCHANGED <<docker, handle>>)
    <3>1. /\ docker' = [docker EXCEPT ![boxOp[o].k] = "running"]
          /\ box' = IF Current(boxOp[o])
                      THEN [box EXCEPT ![boxOp[o].w].status = "running", ![boxOp[o].w].cont = boxOp[o].k] ELSE box
          /\ handle' = [handle EXCEPT ![boxOp[o].w] = boxOp[o].k]
          /\ strays' = (strays \union IF Current(boxOp[o]) THEN {} ELSE {boxOp[o].k})
                          \union ({handle[boxOp[o].w]} \ {0})
      BY <1>2, <2>3 DEF ContainerUp
    <3> QED
      BY <2>1, <3>1, BoxIsUp
  <2> QED
    BY <2>2, <2>3
<1> QED
  BY <1>1, <1>2

\* ... and so does removeWorkspace, ...
LEMMA ContainerOfBox ==
    ASSUME SandboxInv, NEW w \in Boxes
    PROVE  ContainerOf(w) = handle[w]
BY DEF SandboxInv, SandboxTypes, BoxStates, RecordsBacked, ContainerOf

LEMMA RemovalsKeep ==
    ASSUME SandboxInv, NEW o \in BoxOps
    PROVE  /\ \A w \in Boxes : RemoveWorkspace(o, w) => SandboxInv'
           /\ Removed(o) => SandboxInv'
<1>0. SandboxTypes
  BY DEF SandboxInv
<1>1. ASSUME NEW w \in Boxes, RemoveWorkspace(o, w) PROVE SandboxInv'
  <2>1. boxOp[o].pc = "idle" /\ UNCHANGED <<fresh, sweep, docker, kills, strays>>
    BY <1>1 DEF RemoveWorkspace, At
  <2>2. CASE ContainerOf(w) = 0
    <3>1. Drop(w) /\ UNCHANGED boxOp /\ handle[w] = 0
      BY <1>1, <2>2, ContainerOfBox DEF RemoveWorkspace
    <3>2. /\ boxOp' \in [BoxOps -> {NoBoxOp} \union BoxRequests]
          /\ docker' \in [Containers -> {"none", "created", "running", "exited", "killed", "gone"}]
          /\ strays' \subseteq Containers /\ strays \subseteq strays'
          /\ \A i \in Containers : docker'[i] = docker[i]
          /\ \A p \in BoxOps : boxOp'[p] = boxOp[p]
      BY <1>0, <2>1, <3>1 DEF SandboxTypes
    <3> QED
      BY <2>1, <3>1, <3>2, BoxDropped
  <2>3. CASE ContainerOf(w) # 0
    <3>1. /\ BoxGo(o, [pc |-> "remove", w |-> w, obj |-> box[w].obj, k |-> handle[w]])
          /\ handle[w] # 0 /\ UNCHANGED <<box, handle>>
      BY <1>1, <2>3, ContainerOfBox DEF RemoveWorkspace
    <3>2. PICK r \in BoxRequests : r = [pc |-> "remove", w |-> w, obj |-> box[w].obj, k |-> handle[w]]
      BY <1>0 DEF SandboxTypes, BoxStates, BoxRequests
    <3>3. r.pc = "remove" /\ r.w = w /\ r.obj = box[w].obj /\ r.k = handle[w] /\ BoxGo(o, r)
      BY <3>1, <3>2
    <3> QED
      BY <1>0, <2>1, <3>1, <3>3, BoxUsed DEF Using, SandboxTypes
  <2> QED
    BY <2>2, <2>3
<1>2. ASSUME Removed(o) PROVE SandboxInv'
  <2>1. boxOp[o].pc = "remove" /\ BoxDone(o) /\ UNCHANGED <<fresh, sweep, kills>>
    BY <1>2 DEF Removed, At
  <2>2. /\ boxOp' \in [BoxOps -> {NoBoxOp} \union BoxRequests] /\ boxOp'[o].pc = "idle"
        /\ \A p \in BoxOps : p # o => boxOp'[p] = boxOp[p]
    BY <1>0, <2>1, RequestEnds
  <2>3. CASE UNCHANGED <<docker, strays, box, handle>>
    BY <1>0, <2>1, <2>2, <2>3, RequestRests DEF SandboxTypes, Owning
  <2>4. CASE ~UNCHANGED <<docker, strays, box, handle>>
    <3>1. PICK w, k : w = boxOp[o].w /\ k = boxOp[o].k
      OBVIOUS
    <3>2. w \in Boxes /\ k \in Containers
      BY <1>0, <2>1, <3>1, RequestHas DEF SandboxInv, BoxesKnown, Using
    <3>3. /\ AtRest(k) /\ docker' = [docker EXCEPT ![k] = "gone"] /\ Drop(w)
          /\ strays' = strays \union ({box[w].cont, handle[w]} \ {0, k})
      BY <1>2, <2>4, <3>1 DEF Removed
    <3>4. /\ docker' \in [Containers -> {"none", "created", "running", "exited", "killed", "gone"}]
          /\ docker'[k] = "gone" /\ \A i \in Containers : i # k => docker'[i] = docker[i]
      BY <1>0, <3>2, <3>3 DEF SandboxTypes
    <3>5. strays' \subseteq Containers /\ strays \subseteq strays'
      BY <1>0, <3>2, <3>3 DEF SandboxTypes, BoxStates
    <3>6. handle[w] # 0 => handle[w] \in strays' \/ docker'[handle[w]] = "gone"
      BY <3>3, <3>4
    <3>7. \A v \in Boxes : v # w /\ box[v].cont = k => handle[v] \in strays
      <4>1. \A v \in Boxes : handle[v] = k => v = w
        BY <2>1, <3>1 DEF SandboxInv, UsesAgree, Using
      <4>2. \A v \in Boxes : box[v].cont = k => handle[v] = k \/ handle[v] \in strays
        BY <3>2 DEF SandboxInv, RecordsBacked, HandlesFollow, Containers
      <4> QED
        BY <4>1, <4>2
    <3>8. \A i \in Containers : docker'[i] # docker[i] =>
             /\ docker'[i] = "gone" /\ docker[i] # "none"
             /\ \A v \in Boxes : v # w /\ box[v].cont = i => handle[v] \in strays
      BY <3>3, <3>4, <3>7 DEF AtRest
    <3>9. \A p \in BoxOps : \/ boxOp'[p] = boxOp[p]
                            \/ boxOp'[p].pc = "idle" /\ boxOp[p].pc \notin Owning
      BY <2>1, <2>2 DEF Owning
    <3> QED
      BY <2>1, <2>2, <3>2, <3>3, <3>4, <3>5, <3>6, <3>8, <3>9, BoxDropped
  <2> QED
    BY <2>3, <2>4
<1> QED
  BY <1>1, <1>2

\* ... the commands that are run, ...
LEMMA CommandsKeep ==
    ASSUME SandboxInv, NEW o \in BoxOps
    PROVE  /\ \A w \in Boxes : Exec(o, w) => SandboxInv'
           /\ \A w \in Boxes : ExecIsolated(o, w) => SandboxInv'
           /\ ExecStarted(o) => SandboxInv'
           /\ IsolatedOver(o) => SandboxInv'
<1>0. SandboxTypes
  BY DEF SandboxInv
<1>1. ASSUME NEW w \in Boxes, Exec(o, w) PROVE SandboxInv'
  <2>1. boxOp[o].pc = "idle" /\ Runnable(w) /\ UNCHANGED <<box, handle, sweep, docker, kills, strays>>
    BY <1>1 DEF Exec, At
  <2>2. PICK pc \in {"start", "enter"} : pc = IF box[w].status = "stopped" THEN "start" ELSE "enter"
    OBVIOUS
  <2>3. PICK r \in BoxRequests : r = [pc |-> pc, w |-> w, obj |-> box[w].obj, k |-> ContainerOf(w)]
    BY <1>0, ContainerOfBox DEF SandboxTypes, BoxStates, BoxRequests
  <2>4. r.pc = pc /\ r.w = w /\ r.obj = box[w].obj /\ r.k = handle[w]
    BY <2>3, ContainerOfBox
  <2>5. BoxGo(o, r)
    BY <1>1, <2>2, <2>3 DEF Exec
  <2>6. box[w].cont # 0 /\ handle[w] # 0
    BY <2>1 DEF Runnable, SandboxInv, RecordsBacked
  <2>7. fresh' \in [Boxes -> BOOLEAN]
    BY <1>0, <1>1 DEF Exec, SandboxTypes
  <2> QED
    BY <2>1, <2>4, <2>5, <2>6, <2>7, BoxUsed DEF Using
<1>2. ASSUME NEW w \in Boxes, ExecIsolated(o, w) PROVE SandboxInv'
  <2>1. boxOp[o].pc = "idle" /\ UNCHANGED <<box, handle, sweep, kills, strays>>
    BY <1>2 DEF ExecIsolated, At
  <2>2. PICK k \in NewContainer, up \in {"created", "running"} :
          /\ docker' = [docker EXCEPT ![k] = up]
          /\ BoxGo(o, [pc |-> "alone", w |-> w, obj |-> box[w].obj, k |-> k])
    BY <1>2 DEF ExecIsolated
  <2>3. PICK r \in BoxRequests : r = [pc |-> "alone", w |-> w, obj |-> box[w].obj, k |-> k]
    BY <1>0 DEF NewContainer, SandboxTypes, BoxStates, BoxRequests
  <2>4. r.pc = "alone" /\ r.k = k /\ BoxGo(o, r)
    BY <2>2, <2>3
  <2>5. fresh' \in [Boxes -> BOOLEAN]
    BY <1>0, <1>2 DEF ExecIsolated, SandboxTypes
  <2> QED
    BY <2>1, <2>2, <2>4, <2>5, ContainerIsMade DEF Owning
<1>3. ASSUME ExecStarted(o) PROVE SandboxInv'
  <2>1. boxOp[o].pc = "start" /\ UNCHANGED <<handle, fresh, sweep, kills, strays>>
    BY <1>3 DEF ExecStarted, At
  <2>2. PICK r \in BoxRequests : r = boxOp[o]
    BY <1>0, <2>1, RequestHas
  <2>3. r.w \in Boxes /\ r.obj \in Nat \ {0} /\ r.k \in Containers
    BY <1>0, <2>1, <2>2, RequestHas DEF SandboxInv, BoxesKnown, ObjectsNumbered, Using
  <2>4. CASE BoxDone(o) /\ UNCHANGED <<docker, box>>
    BY <1>0, <2>1, <2>4, RequestEnds, RequestRests DEF SandboxTypes, Owning
  <2>5. CASE ~(BoxDone(o) /\ UNCHANGED <<docker, box>>)
    <3>1. /\ AtRest(r.k) /\ docker' = [docker EXCEPT ![r.k] = "running"] /\ Mark(r, "running")
          /\ BoxGo(o, [r EXCEPT !.pc = "enter"])
      BY <1>3, <2>2, <2>5 DEF ExecStarted
    <3>2. PICK q \in BoxRequests : q = [r EXCEPT !.pc = "enter"]
      BY RequestWithPc
    <3>3. q = [pc |-> "enter", w |-> r.w, obj |-> r.obj, k |-> r.k]
      BY <3>2, RequestWithPc
    <3>4. BoxGo(o, q)
      BY <3>1, <3>2
    <3>5. /\ boxOp' \in [BoxOps -> {NoBoxOp} \union BoxRequests]
          /\ \A p \in BoxOps :
               \/ boxOp'[p] = boxOp[p]
               \/ /\ boxOp[p].pc = "start" /\ boxOp'[p].pc = "enter"
                  /\ boxOp'[p].w = boxOp[p].w /\ boxOp'[p].obj = boxOp[p].obj /\ boxOp'[p].k = boxOp[p].k
      BY <1>0, <2>1, <2>2, <3>3, <3>4, RequestMoves
    <3>6. /\ docker' \in [Containers -> {"none", "created", "running", "exited", "killed", "gone"}]
          /\ docker'[r.k] = "running" /\ \A i \in Containers : i # r.k => docker'[i] = docker[i]
      BY <1>0, <2>3, <3>1 DEF SandboxTypes
    <3>7. /\ box' \in [Boxes -> BoxStates]
          /\ \A v \in Boxes :
               /\ box'[v].cont = box[v].cont /\ box'[v].obj = box[v].obj
               /\ box'[v].status = IF v = r.w /\ box[v].obj = r.obj THEN "running" ELSE box[v].status
      BY <1>0, <2>3, <3>1, Marked
    <3>8. Exists(r.k) /\ docker[r.k] # "none"
      BY <3>1 DEF Exists, AtRest
    <3>9. /\ \A v \in Boxes : handle[v] = r.k => v = r.w /\ (handle[v] \in strays \/ r.obj = box[v].obj)
          /\ r.obj = box[r.w].obj => handle[r.w] = r.k \/ handle[r.w] \in strays
      BY <2>1, <2>2, <2>3 DEF SandboxInv, UsesAgree, StartMeansIt, Using
    <3>10. /\ \A p \in BoxOps : boxOp[p].pc \in Making /\ boxOp[p].w = r.w => boxOp[p].obj # r.obj
           /\ \A p \in BoxOps : boxOp[p].pc \in Owning => boxOp[p].k # r.k
      BY <2>1, <2>2 DEF SandboxInv, MakersApart, NewUnused, Making, Owning, Using
    <3>11. sweep' \in {NoSweep} \union Sweeps /\ sweep' = sweep
      BY <1>0, <2>1 DEF SandboxTypes
    <3>12. BoxTold(r.w, r.obj, r.k, "running", "running")
      <4>1. UNCHANGED <<handle, fresh, kills, strays>> /\ r.obj # 0
        BY <2>1, <2>3
      <4> QED
        BY <4>1, <3>5, <3>6, <3>7, <3>8, <3>9, <3>10, <3>11 DEF BoxTold
    <3> QED
      BY <2>3, <3>12, BoxIsTold
  <2> QED
    BY <2>4, <2>5
<1>4. ASSUME IsolatedOver(o) PROVE SandboxInv'
  <2>1. boxOp[o].pc = "alone" /\ BoxDone(o) /\ UNCHANGED <<box, handle, fresh, sweep>>
    BY <1>4 DEF IsolatedOver, At
  <2>2. PICK k \in Containers : k = boxOp[o].k
    BY <1>0, <2>1, RequestHas DEF SandboxInv, BoxesKnown, Owning
  <2>3. docker[k] # "none" /\ \A v \in Boxes : handle[v] # k /\ box[v].cont # k
    BY <2>1, <2>2 DEF SandboxInv, BoxesKnown, NewUnlisted, Owning
  <2>4. /\ \/ docker' = [docker EXCEPT ![k] = "gone"] /\ strays' = strays
           \/ docker' = docker /\ strays' = strays \union {k}
        /\ kills' = kills \/ kills' = kills \union {k}
    BY <1>4, <2>2 DEF IsolatedOver
  <2>5. /\ docker' \in [Containers -> {"none", "created", "running", "exited", "killed", "gone"}]
        /\ docker'[k] = "gone" \/ k \in strays'
        /\ \A i \in Containers : docker'[i] = docker[i] \/ (i = k /\ docker'[i] = "gone")
        /\ kills' \subseteq Containers /\ strays \subseteq strays' /\ strays' \subseteq Containers
    BY <1>0, <2>4 DEF SandboxTypes
  <2>6. /\ boxOp' \in [BoxOps -> {NoBoxOp} \union BoxRequests] /\ boxOp'[o].pc = "idle"
        /\ \A p \in BoxOps : p # o => boxOp'[p] = boxOp[p]
    BY <1>0, <2>1, RequestEnds
  <2>7. ContainerLost
    BY <2>1, <2>2, <2>3, <2>5, <2>6 DEF ContainerLost
  <2> QED
    BY <2>7, ContainerIsLost
<1> QED
  BY <1>1, <1>2, <1>3, <1>4

\* ... and the sweep of those that are idle.
LEMMA SweepsKeep ==
    ASSUME SandboxInv
    PROVE  /\ \A w \in Boxes : BecomesIdle(w) => SandboxInv'
           /\ SweepBegins => SandboxInv'
           /\ \A w \in Boxes : SweepLooks(w) => SandboxInv'
           /\ SweepStopped => SandboxInv'
           /\ SweepEnds => SandboxInv'
<1>0. SandboxTypes /\ box \in [Boxes -> BoxStates] /\ fresh \in [Boxes -> BOOLEAN]
  BY DEF SandboxInv, SandboxTypes
<1>1. ASSUME NEW w \in Boxes, BecomesIdle(w) PROVE SandboxInv'
  <2>1. /\ fresh' \in [Boxes -> BOOLEAN] /\ sweep' \in {NoSweep} \union Sweeps /\ sweep' = sweep
        /\ UNCHANGED <<box, handle, boxOp, docker, kills, strays>>
    BY <1>0, <1>1 DEF BecomesIdle, SandboxTypes
  <2> QED
    BY <1>0, <2>1, SweepMoves
<1>2. ASSUME SweepBegins PROVE SandboxInv'
  <2>1. PICK T \in SUBSET Boxes : T = {w \in Boxes : ~fresh[w]}
    OBVIOUS
  <2>2. sweep' = [pc |-> "scan", todo |-> T] /\ UNCHANGED <<box, handle, fresh, boxOp, docker, kills, strays>>
    BY <1>2, <2>1 DEF SweepBegins
  <2>3. sweep' \in {NoSweep} \union Sweeps /\ sweep'.pc # "stop"
    BY <2>2 DEF Sweeps
  <2> QED
    BY <1>0, <2>2, <2>3, SweepMoves
<1>3. ASSUME NEW w \in Boxes, SweepLooks(w) PROVE SandboxInv'
  <2>1. sweep.pc = "scan" /\ UNCHANGED <<handle, fresh, boxOp, docker, kills, strays>>
    BY <1>3 DEF SweepLooks
  <2>2. PICK T \in SUBSET Boxes : sweep = [pc |-> "scan", todo |-> T]
    <3>1. sweep # NoSweep
      BY <2>1 DEF NoSweep
    <3> QED
      BY <1>0, <2>1, <3>1 DEF SandboxTypes, Sweeps
  <2>3. PICK D \in SUBSET Boxes : D = T \ {w}
    OBVIOUS
  <2>4. sweep.todo = T
    BY <2>2
  <2>5. CASE Idle(w) /\ handle[w] # 0
    <3>1. /\ box' = box
          /\ sweep' = [pc |-> "stop", todo |-> D, w |-> w, obj |-> box[w].obj, k |-> handle[w]]
      BY <1>3, <2>3, <2>4, <2>5 DEF SweepLooks
    <3>2. box[w].obj \in Nat /\ handle[w] \in Containers
      BY <1>0, <2>5 DEF SandboxTypes, BoxStates
    <3>3. sweep' \in {NoSweep} \union Sweeps
      BY <3>1, <3>2 DEF Sweeps
    <3>4. sweep'.pc = "stop" /\ sweep'.w = w /\ sweep'.obj = box[w].obj /\ sweep'.k = handle[w]
      BY <3>1
    <3> QED
      BY <2>1, <2>5, <3>1, <3>3, <3>4, SweepTakes DEF Idle
  <2>6. CASE ~(Idle(w) /\ handle[w] # 0)
    <3>1. sweep' = [pc |-> "scan", todo |-> D]
      BY <1>3, <2>2, <2>3, <2>6 DEF SweepLooks
    <3>2. sweep' \in {NoSweep} \union Sweeps /\ sweep'.pc # "stop"
      BY <3>1 DEF Sweeps
    <3>3. /\ box' \in [Boxes -> BoxStates]
          /\ \A v \in Boxes :
               /\ box'[v].cont = box[v].cont /\ box'[v].obj = box[v].obj
               /\ \/ box'[v].status = box[v].status
                  \/ box[v].cont = 0 /\ box[v].status = "running" /\ box'[v].status = "stopped"
      <4>1. CASE Idle(w) /\ handle[w] = 0
        <5>1. box' = [box EXCEPT ![w].status = "stopped"]
          BY <1>3, <4>1 DEF SweepLooks
        <5>2. PICK b \in BoxStates : b = [box[w] EXCEPT !.status = "stopped"]
          BY <1>0 DEF BoxStates
        <5>3. b.status = "stopped" /\ b.cont = box[w].cont /\ b.obj = box[w].obj
          BY <1>0, <5>2 DEF BoxStates
        <5>4. box' = [box EXCEPT ![w] = b]
          BY <5>1, <5>2
        <5>5. box[w].cont = 0 /\ box[w].status = "running"
          BY <4>1 DEF SandboxInv, RecordsBacked, Idle
        <5> QED
          BY <1>0, <5>3, <5>4, <5>5
      <4>2. CASE ~(Idle(w) /\ handle[w] = 0)
        BY <1>0, <1>3, <4>2 DEF SweepLooks
      <4> QED
        BY <4>1, <4>2
    <3> QED
      BY <1>0, <2>1, <3>2, <3>3, SweepMoves
  <2> QED
    BY <2>5, <2>6
<1>4. ASSUME SweepStopped PROVE SandboxInv'
  <2>1. sweep.pc = "stop" /\ UNCHANGED <<handle, fresh, boxOp, kills, strays>>
    BY <1>4 DEF SweepStopped
  <2>2. /\ sweep.w \in Boxes /\ sweep.obj \in Nat /\ sweep.obj # 0 /\ sweep.k \in Containers
        /\ sweep.todo \in SUBSET Boxes /\ docker[sweep.k] # "none"
    BY <1>0, <2>1, SweepHas DEF SandboxInv, ObjectsNumbered, BoxesKnown
  <2>3. PICK T \in SUBSET Boxes : T = sweep.todo
    BY <2>2
  <2>4. sweep' = [pc |-> "scan", todo |-> T]
    BY <1>4, <2>3 DEF SweepStopped
  <2>5. sweep' \in {NoSweep} \union Sweeps /\ sweep'.pc # "stop"
    BY <2>4 DEF Sweeps
  <2>6. CASE UNCHANGED <<docker, box>>
    BY <1>0, <2>1, <2>5, <2>6, SweepMoves
  <2>7. CASE ~UNCHANGED <<docker, box>>
    <3>1. PICK r : r = sweep
      OBVIOUS
    <3>2. docker[r.k] = "running" /\ docker' = [docker EXCEPT ![r.k] = "exited"] /\ Mark(r, "stopped")
      BY <1>4, <2>7, <3>1 DEF SweepStopped
    <3>3. r.w \in Boxes /\ r.obj \in Nat /\ r.obj # 0 /\ r.k \in Containers
      BY <2>2, <3>1
    <3>4. /\ docker' \in [Containers -> {"none", "created", "running", "exited", "killed", "gone"}]
          /\ docker'[r.k] = "exited" /\ \A i \in Containers : i # r.k => docker'[i] = docker[i]
      BY <1>0, <3>2, <3>3 DEF SandboxTypes
    <3>5. /\ box' \in [Boxes -> BoxStates]
          /\ \A v \in Boxes :
               /\ box'[v].cont = box[v].cont /\ box'[v].obj = box[v].obj
               /\ box'[v].status = IF v = r.w /\ box[v].obj = r.obj THEN "stopped" ELSE box[v].status
      BY <1>0, <3>2, <3>3, Marked
    <3>6. Exists(r.k) /\ docker[r.k] # "none"
      BY <3>2 DEF Exists
    <3>7. /\ \A v \in Boxes : handle[v] = r.k => v = r.w /\ (handle[v] \in strays \/ r.obj = box[v].obj)
          /\ r.obj = box[r.w].obj => handle[r.w] = r.k \/ handle[r.w] \in strays
      BY <2>1, <3>1, <3>3 DEF SandboxInv, SweepAgrees, SweepMeansIt
    <3>8. /\ \A p \in BoxOps : boxOp[p].pc \in Making /\ boxOp[p].w = r.w => boxOp[p].obj # r.obj
          /\ \A p \in BoxOps : boxOp[p].pc \in Owning => boxOp[p].k # r.k
      BY <2>1, <3>1 DEF SandboxInv, SweepApart, NewUnswept
    <3>9. boxOp' \in [BoxOps -> {NoBoxOp} \union BoxRequests] /\ \A p \in BoxOps : boxOp'[p] = boxOp[p]
      BY <1>0, <2>1 DEF SandboxTypes
    <3>10. BoxTold(r.w, r.obj, r.k, "stopped", "exited")
      BY <2>1, <2>5, <3>3, <3>4, <3>5, <3>6, <3>7, <3>8, <3>9 DEF BoxTold
    <3> QED
      BY <3>3, <3>10, BoxIsTold
  <2> QED
    BY <2>6, <2>7
<1>5. ASSUME SweepEnds PROVE SandboxInv'
  <2>1. sweep' = NoSweep /\ UNCHANGED <<box, handle, fresh, boxOp, docker, kills, strays>>
    BY <1>5 DEF SweepEnds
  <2>2. sweep' \in {NoSweep} \union Sweeps /\ sweep'.pc # "stop"
    BY <2>1 DEF NoSweep
  <2> QED
    BY <1>0, <2>1, <2>2, SweepMoves
<1> QED
  BY <1>1, <1>2, <1>3, <1>4, <1>5

LEMMA SandboxSteps == SandboxInv /\ [SandboxNext]_sandboxVars => SandboxInv'
<1> SUFFICES ASSUME SandboxInv, [SandboxNext]_sandboxVars PROVE SandboxInv'
  OBVIOUS
<1>1. CASE UNCHANGED sandboxVars
  <2>1. /\ sweep' \in {NoSweep} \union Sweeps /\ sweep' = sweep
        /\ fresh' \in [Boxes -> BOOLEAN] /\ box' \in [Boxes -> BoxStates] /\ box' = box
        /\ UNCHANGED <<handle, boxOp, docker, kills, strays>>
    BY <1>1 DEF sandboxVars, SandboxInv, SandboxTypes
  <2> QED
    BY <2>1, SweepMoves
<1>2. ASSUME NEW o \in BoxOps,
             \/ ContainerMade(o) \/ ContainerUp(o) \/ Removed(o)
             \/ ExecStarted(o) \/ ExecEntered(o) \/ ExecOver(o) \/ IsolatedOver(o)
      PROVE  SandboxInv'
  BY <1>2, CreationsKeep, RemovalsKeep, CommandsKeep, RequestsRest
<1>3. ASSUME NEW o \in BoxOps, NEW w \in Boxes,
             CreateWorkspace(o, w) \/ RemoveWorkspace(o, w) \/ Exec(o, w) \/ ExecIsolated(o, w)
      PROVE  SandboxInv'
  BY <1>3, BoxCreated, RemovalsKeep, CommandsKeep
<1>4. ASSUME NEW k \in Containers, KillArrives(k) PROVE SandboxInv'
  <2>1. PICK d : d = IF docker[k] = "running" THEN "killed" ELSE docker[k]
    OBVIOUS
  <2>2. docker' = [docker EXCEPT ![k] = d] /\ docker \in [Containers -> {"none", "created", "running", "exited", "killed", "gone"}]
    BY <1>4, <2>1 DEF KillArrives, SandboxInv, SandboxTypes
  <2>3. /\ docker' \in [Containers -> {"none", "created", "running", "exited", "killed", "gone"}]
        /\ \A i \in Containers : docker'[i] = docker[i] \/ (docker[i] = "running" /\ docker'[i] = "killed")
    <3>1. d \in {"none", "created", "running", "exited", "killed", "gone"}
      BY <2>1, <2>2
    <3>2. docker'[k] = d /\ \A i \in Containers : i # k => docker'[i] = docker[i]
      BY <2>2
    <3> QED
      BY <2>1, <2>2, <3>1, <3>2
  <2>4. kills' \subseteq Containers
    BY <1>4 DEF KillArrives, SandboxInv, SandboxTypes
  <2>5. ContainerLost
    BY <1>4, <2>3, <2>4 DEF KillArrives, ContainerLost, SandboxInv, SandboxTypes
  <2> QED
    BY <2>5, ContainerIsLost
<1>5. ASSUME NEW w \in Boxes, BecomesIdle(w) \/ SweepLooks(w) PROVE SandboxInv'
  BY <1>5, SweepsKeep
<1>6. CASE SweepBegins \/ SweepStopped \/ SweepEnds
  BY <1>6, SweepsKeep
<1>7. CASE BoxesRecovered
  BY <1>7, BoxesRestart
<1> QED
  BY <1>1, <1>2, <1>3, <1>4, <1>5, <1>6, <1>7 DEF SandboxNext

\* However creating, removing, running, timing out, sweeping and restarting
\* overlap, a workspace nobody works on says what its container does, and every
\* container has a workspace, a request, or is one of those known to be given up.
THEOREM BoxesAgree == SandboxSpec => []BoxesMatch
<1>1. SandboxInv => BoxesMatch
  <2> SUFFICES ASSUME SandboxInv PROVE BoxesMatch
    OBVIOUS
  <2>1. ASSUME NEW w \in Boxes, box[w].cont # 0, ContainerOf(w) \notin strays
        PROVE  /\ ContainerOf(w) = box[w].cont
               /\ box[w].status = "running" => docker[box[w].cont] \in {"running", "killed"}
               /\ box[w].status = "stopped" => docker[box[w].cont] = "exited"
    BY <2>1, ContainerOfBox DEF SandboxInv, RecordsBacked, HandlesFollow, StatusTrue
  <2>2. ASSUME NEW k \in Containers, Exists(k)
        PROVE  k \in strays \/ InHand(k) \/ \E w \in Boxes : handle[w] = k
    BY <2>2 DEF SandboxInv, NoneForgotten, InHand, Owning
  <2> QED
    BY <2>1, <2>2 DEF BoxesMatch
<1> QED
  BY <1>1, SandboxStart, SandboxSteps, PTL DEF SandboxSpec

=============================================================================
