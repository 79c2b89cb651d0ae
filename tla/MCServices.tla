----------------------------- MODULE MCServices -----------------------------
(***************************************************************************)
(* The services of one process that the other runs do not show, checked    *)
(* together.  They share no state that is modelled, so that interleaving   *)
(* them would only multiply their states: a behaviour takes the steps of   *)
(* the one service that its initial state has chosen.                      *)
(***************************************************************************)
EXTENDS Cron, ExtHost, ExtRoutes, SseHub, Lifecycle, McpRegistry, Sandbox, Files, TLC

CONSTANTS
    v1, v2, v3, c1, c2, s1, s2, m1, m2, x1, x2, f1, f2  \* actors of each service

VARIABLE focus

Periods      == <<1, 2>>
AppNeedsBase == [e \in {"base", "app"} |-> IF e = "app" THEN {"base"} ELSE {}]
BothOnA      == [c \in {c1, c2} |-> {"a"}]
TwoProviders == <<"p1", "p2">>
AllFocuses   == {"cron", "host", "routes", "hub", "lifecycle", "mcp", "sandbox", "files"}

ServicesInit ==
    /\ focus \in AllFocuses
    /\ CronInit /\ HostInit /\ RoutesInit /\ HubInit /\ LifeInit /\ McpInit /\ SandboxInit /\ FilesInit
    /\ focus # "host" => On = Exts  \* one state is enough for a service that rests

CronTurn ==
    /\ focus = "cron" /\ CronNext
    /\ UNCHANGED <<focus, hostVars, routesVars, hubVars, lifeVars, mcpVars, sandboxVars, filesVars>>
HostTurn ==
    /\ focus = "host" /\ HostNext
    /\ UNCHANGED <<focus, cronVars, routesVars, hubVars, lifeVars, mcpVars, sandboxVars, filesVars>>
RoutesTurn ==
    /\ focus = "routes" /\ RoutesNext
    /\ UNCHANGED <<focus, cronVars, hostVars, hubVars, lifeVars, mcpVars, sandboxVars, filesVars>>
HubTurn ==
    /\ focus = "hub" /\ HubNext
    /\ UNCHANGED <<focus, cronVars, hostVars, routesVars, lifeVars, mcpVars, sandboxVars, filesVars>>
LifeTurn ==
    /\ focus = "lifecycle" /\ LifeNext
    /\ UNCHANGED <<focus, cronVars, hostVars, routesVars, hubVars, mcpVars, sandboxVars, filesVars>>
McpTurn ==
    /\ focus = "mcp" /\ McpNext
    /\ UNCHANGED <<focus, cronVars, hostVars, routesVars, hubVars, lifeVars, sandboxVars, filesVars>>
SandboxTurn ==
    /\ focus = "sandbox" /\ SandboxNext
    /\ UNCHANGED <<focus, cronVars, hostVars, routesVars, hubVars, lifeVars, mcpVars, filesVars>>
FilesTurn ==
    /\ focus = "files" /\ FilesNext
    /\ UNCHANGED <<focus, cronVars, hostVars, routesVars, hubVars, lifeVars, mcpVars, sandboxVars>>

ServicesNext ==
    \/ CronTurn \/ HostTurn \/ RoutesTurn \/ HubTurn
    \/ LifeTurn \/ McpTurn \/ SandboxTurn \/ FilesTurn

servicesVars ==
    <<focus, cronVars, hostVars, routesVars, hubVars, lifeVars, mcpVars, sandboxVars, filesVars>>

ServicesSpec == ServicesInit /\ [][ServicesNext]_servicesVars

\* Every variable of the service in turn stays within its type, and what is
\* counted within its limit: requests in an extension, clients of a topic,
\* workspaces.
ServicesTypeOK ==
    /\ focus = "cron"      => CronTypeOK
    /\ focus = "host"      => HostTypeOK
    /\ focus = "routes"    => RoutesTypeOK
    /\ focus = "hub"       => HubTypeOK
    /\ focus = "lifecycle" => LifeTypeOK
    /\ focus = "mcp"       => McpTypeOK
    /\ focus = "sandbox"   => SandboxTypeOK
    /\ focus = "files"     => FilesTypeOK

=============================================================================
