---------------------------- MODULE AgentRuntime ----------------------------
(***************************************************************************)
(* kernel/agent.py: AgentRuntime starts, stops and executes agents.  A     *)
(* task is interpolated from the vault, then goes to the MCP gateway, to a *)
(* swarm member, through the capability guard, or to the agent directly    *)
(* (retried, in the sandbox).  The package that provides the capability is *)
(* looked up in the marketplace of PluginMarketplace when the task is      *)
(* dispatched; each await in between lets the other callers run.           *)
(***************************************************************************)
EXTENDS PluginMarketplace

CONSTANTS Agents,
          Capabilities, McpCapabilities,  \* the latter start with "mcp:"
          Skills,        \* Skills[a]: what the agent itself declares
          MaxAttempts    \* max_attempts of the retry policy

ASSUME AgentAssumption ==
  /\ McpCapabilities \subseteq Capabilities
  /\ Skills \in [Agents -> SUBSET Capabilities]
  /\ \A m \in Manifests : m.capabilities \subseteq Capabilities
  \* the guard is asked about the execution of any capability that is not a tool
  /\ \A cap \in Capabilities \ McpCapabilities : [action |-> "execute", resource |-> cap] \in Ops
  /\ MaxAttempts \in Nat \ {0}

VARIABLES
  agents,    \* _agents: the registered agents, monitored by the health monitor
  stopping,  \* agents whose stop is suspended in agent.stop
  swarmed,   \* _swarm_ids: agents that joined a swarm
  exec       \* per caller: the execute under way, None: none

agentVars == <<agents, stopping, swarmed, exec>>
pluginVars == <<guardVars, marketVars, agentVars>>

AgentInit == agents = {} /\ stopping = {} /\ swarmed = {}
             /\ exec = [c \in Callers |-> None]

PluginInit == GuardInit /\ MarketInit /\ AgentInit

-----------------------------------------------------------------------------
(* Lifecycle.  The registry and the monitor are changed after the agent's   *)
(* own start or stop returns, so a stop can drop an agent started meanwhile.*)

StartAgent(a) == agents' = agents \cup {a} /\ UNCHANGED <<stopping, swarmed, exec>>

StopAgent(a) == /\ a \in agents
                /\ stopping' = stopping \cup {a}
                /\ UNCHANGED <<agents, swarmed, exec>>

AgentStopped(a) == /\ a \in stopping
                   /\ stopping' = stopping \ {a}
                   /\ agents' = agents \ {a}
                   /\ UNCHANGED <<swarmed, exec>>

JoinSwarm(a) == /\ a \in agents
                /\ swarmed' = swarmed \cup {a}
                /\ UNCHANGED <<agents, stopping, exec>>

LeaveSwarm(a) == /\ a \in swarmed
                 /\ swarmed' = swarmed \ {a}
                 /\ UNCHANGED <<agents, stopping, exec>>

-----------------------------------------------------------------------------
(* execute. *)

\* _capability_package_id: a listed package that declares the capability.
Providers(cap) == {p \in Listed : cap \in obj[row[p]].m.capabilities}

Set(c, e) == exec' = [exec EXCEPT ![c] = e] /\ UNCHANGED <<agents, stopping, swarmed>>
At(c, where) == Set(c, [exec[c] EXCEPT !.at = where])
Done(c) == Set(c, None)

\* Everything up to the interpolation of the task's parameters.
Execute(c, a, cap) ==
  /\ exec[c] = None /\ a \in agents
  /\ Set(c, [agent |-> a, cap |-> cap, at |-> "interpolate", attempt |-> 0])

Dispatching(c) == exec[c] # None /\ exec[c].at = "interpolate"

InterpolationFails(c) == Dispatching(c) /\ Done(c)

\* _execute_mcp, and the gateway's answer: an artifact or an exception.
ToGateway(c) == /\ Dispatching(c) /\ exec[c].cap \in McpCapabilities
                /\ At(c, "mcp")

GatewayAnswers(c) == exec[c] # None /\ exec[c].at = "mcp" /\ Done(c)

\* The coordinator delegates and completes in one step; without an eligible
\* member the task is executed here.
Delegate(c) ==
  /\ Dispatching(c) /\ exec[c].cap \notin McpCapabilities
  /\ exec[c].cap \notin Skills[exec[c].agent]
  /\ exec[c].agent \in swarmed
  /\ Done(c)

Local(c) == /\ Dispatching(c) /\ exec[c].cap \notin McpCapabilities
            \* in a swarm without an eligible member, too

GuardedOp(c) == [action |-> "execute", resource |-> exec[c].cap]

\* The guarded path has neither retry nor sandbox.
GuardRefuses(c) ==
  /\ Local(c)
  /\ \E p \in Providers(exec[c].cap) :
       Deny(c, p, GuardedOp(c)) \/ ExceedLimit(c, p, GuardedOp(c))
  /\ Done(c)

GuardAdmits(c) ==
  /\ Local(c)
  /\ \E p \in Providers(exec[c].cap) : Admit(c, p, GuardedOp(c))
  /\ At(c, "guarded")

GuardedCallEnds(c, ms, errored) ==
  /\ exec[c] # None /\ exec[c].at = "guarded"
  /\ CallEnds(c, ms, errored)
  /\ Done(c)

ToAgent(c) ==
  /\ Local(c) /\ Providers(exec[c].cap) = {}
  /\ Set(c, [exec[c] EXCEPT !.at = "agent", !.attempt = 1])

Attempting(c) == exec[c] # None /\ exec[c].at = "agent"

AgentReturns(c) == Attempting(c) /\ Done(c)

\* A failure is retried after a backoff until the attempts are used up.
AgentFails(c) ==
  /\ Attempting(c)
  /\ IF exec[c].attempt >= MaxAttempts THEN Done(c) ELSE At(c, "backoff")

RetryAttempt(c) ==
  /\ exec[c] # None /\ exec[c].at = "backoff"
  /\ Set(c, [exec[c] EXCEPT !.at = "agent", !.attempt = @ + 1])

\* A breach of the sandbox cancels the attempts and stops the agent itself; the
\* runtime keeps it registered.
SandboxBreach(c) == exec[c] # None /\ exec[c].at \in {"agent", "backoff"} /\ Done(c)

AgentNext ==
  \/ /\ \/ \E a \in Agents : \/ StartAgent(a) \/ StopAgent(a) \/ AgentStopped(a)
                             \/ JoinSwarm(a) \/ LeaveSwarm(a)
        \/ \E c \in Callers :
             \/ \E a \in Agents, cap \in Capabilities : Execute(c, a, cap)
             \/ InterpolationFails(c) \/ ToGateway(c) \/ GatewayAnswers(c)
             \/ Delegate(c) \/ ToAgent(c) \/ AgentReturns(c) \/ AgentFails(c)
             \/ RetryAttempt(c) \/ SandboxBreach(c)
     /\ UNCHANGED guardVars
  \/ \E c \in Callers :
       \/ GuardRefuses(c) \/ GuardAdmits(c)
       \/ \E ms \in {0, 1}, errored \in BOOLEAN : GuardedCallEnds(c, ms, errored)

AgentRestart == /\ agents' = {} /\ stopping' = {} /\ swarmed' = {}
                /\ exec' = [c \in Callers |-> None]

\* The guard, the marketplace and the runtime in one process.
PluginNext == \/ GuardUse /\ UNCHANGED <<marketVars, agentVars>>
              \/ MarketNext /\ UNCHANGED agentVars
              \/ AgentNext /\ UNCHANGED marketVars
              \/ GuardRestart /\ MarketRestart /\ AgentRestart

PluginSpec == PluginInit /\ [][PluginNext]_pluginVars

-----------------------------------------------------------------------------
Exec == [agent : Agents, cap : Capabilities, attempt : Nat,
         at : {"interpolate", "mcp", "guarded", "agent", "backoff"}]

AgentTypeOK ==
  /\ agents \subseteq Agents /\ stopping \subseteq Agents /\ swarmed \subseteq Agents
  /\ exec \in [Callers -> Exec \cup {None}]
=============================================================================
