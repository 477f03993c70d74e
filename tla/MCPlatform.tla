----------------------------- MODULE MCPlatform -----------------------------
(***************************************************************************)
(* The kernel's platform and messaging services on small instances.  A     *)
(* behaviour is one of ten scenes: callers of the guard, with policies and *)
(* grants changing under them; installs, syncs and restarts; agents        *)
(* executing tasks while the installed package is installed again; the     *)
(* vault on its own; the gateway taking tokens from the vault while they   *)
(* are rotated; the gateway in use; the cluster; the event bus, with two   *)
(* interchangeable events of any of two types, two subscribers of one type *)
(* and a waiter for each type; the two HTTP transports of the MCP server.  *)
(***************************************************************************)
EXTENDS AgentRuntime, McpGateway, Cluster, EventBus, StreamableHttp, SseTransport, TLC

CONSTANTS p1, c1, c2, i1, i2, a1, cap1, mcp1, star, u1, v1, v2, t1, s1, s2, tool,
          x1, x2, y1, y2

MCOps == {[action |-> "execute", resource |-> cap1]}
MCPolicies == {[permissions |-> {[action |-> "execute", resource |-> star]},
                max_calls |-> 1, cpu_ms |-> 1],
               [permissions |-> {}, max_calls |-> 1, cpu_ms |-> 1]}

Manifest(p, policy, deps, sound, needs, caps) ==
  [package |-> p, policy |-> policy, dependencies |-> deps, sound |-> sound,
   secrets |-> needs, capabilities |-> caps]

\* A package as its author ships it (one policy allows, one does not), as a
\* catalog lists it, and another it depends on.
MCManifests ==
  {Manifest(p1, pol, {}, TRUE, pol.permissions # {}, {cap1}) : pol \in MCPolicies}
  \cup {Manifest(p1, None, {mcp1}, TRUE, FALSE, {cap1})}

MCSkills == [a \in {a1} |-> {}]

\* The entries of a small CPython dictionary: the array has room for two thirds of
\* the smallest power of two, from 8, that exceeds three times its keys.
DictRoom == [n \in 0 .. 3 |-> IF n <= 2 THEN 5 ELSE 10]

SameType == x1 :> "a" @@ x2 :> "a"
OneTypeEach == y1 :> {"a"} @@ y2 :> {"b"}

MCBatches == {<<"call", "call">>, <<"note", "bad", "call">>}

VARIABLE scene

\* The third scene starts where an install of the package has just ended.
InstalledInit ==
  \E m \in MCManifests :
    /\ m.policy # None
    /\ AgentInit
    /\ policies = [p \in Packages |-> m.policy]
    /\ grants = [p \in Packages |-> {}]
    /\ usage = [p \in Packages |-> NoUsage]
    /\ audit = <<>> /\ trail = <<>>
    /\ inside = [c \in Callers |-> None]
    /\ base = [p \in Packages |-> 0]
    /\ restarts = 0
    /\ obj = [o \in Objs |-> IF o = 1 THEN [m |-> m, status |-> "installed"] ELSE None]
    /\ row = [p \in Packages |-> 1]
    /\ disk = [p \in Packages |-> obj[1]]
    /\ installed = row
    /\ catalog = {}
    /\ installs = [i \in Installers |-> None]

MCInit ==
  /\ VaultInit /\ GatewayInit /\ ClusterInit /\ BusInit /\ StreamInit /\ SseInit
  /\ \/ /\ scene \in {"guard", "market", "vault", "tokens", "calls", "cluster", "bus", "stream",
                       "sse"}
        /\ PluginInit
     \/ scene = "agents" /\ InstalledInit

-----------------------------------------------------------------------------
Plugins ==
  \/ scene = "guard" /\ GuardNext /\ UNCHANGED <<marketVars, agentVars>>
  \/ scene = "market" /\ MarketNext /\ UNCHANGED agentVars
  \/ scene = "market" /\ GuardRestart /\ MarketRestart /\ AgentRestart
  \/ scene = "agents" /\ AgentNext /\ UNCHANGED marketVars
  \/ /\ scene = "agents"
     /\ \E i \in Installers : InstallEnds(i) \/ \E o \in Objs : InstallBegins(i, o, TRUE)
     /\ UNCHANGED agentVars

\* Next to a gateway, a user stores or rotates the token of a server.
TokenWrites ==
  \E c \in Users :
    /\ rpc[c] = Absent
    /\ \/ \E k \in Keys : WriteBegins(c, "rotate", k, v1)
       \/ WriteEnds(c)

Gateway ==
  \/ scene = "vault" /\ (VaultNext \/ VaultStops) /\ UNCHANGED gatewayVars
  \/ scene = "tokens" /\ \E c \in Users : Connecting(c)
  \/ scene = "tokens" /\ TokenWrites /\ UNCHANGED gatewayVars
  \/ scene = "calls" /\ GatewayNext /\ auth' = auth  \* no token is passed
  \/ scene = "calls" /\ VaultStops /\ GatewayRestart

Messages ==
  \/ scene = "cluster" /\ ClusterNext /\ UNCHANGED <<busVars, streamVars, sseVars>>
  \/ scene = "bus" /\ BusNext /\ UNCHANGED <<clusterVars, streamVars, sseVars>>
  \/ scene = "stream" /\ StreamNext /\ UNCHANGED <<clusterVars, busVars, sseVars>>
  \/ scene = "sse" /\ SseNext /\ UNCHANGED <<clusterVars, busVars, streamVars>>

messageVars == <<clusterVars, busVars, streamVars, sseVars>>

MCNext ==
  /\ UNCHANGED scene
  /\ \/ Plugins /\ UNCHANGED <<vaultVars, gatewayVars, messageVars>>
     \/ Gateway /\ UNCHANGED <<pluginVars, messageVars>>
     \/ Messages /\ UNCHANGED <<pluginVars, vaultVars, gatewayVars>>

\* c1 and c2 are the callers, users, events, pushers and two of the nodes, s1 and s2
\* the sessions and the streams: each scene has its own use of them.
Symmetry == Permutations({c1, c2}) \cup Permutations({s1, s2})

MCSpec == MCInit /\ [][MCNext]_<<pluginVars, vaultVars, gatewayVars, messageVars, scene>>
=============================================================================
