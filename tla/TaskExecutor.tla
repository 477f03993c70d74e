---------------------------- MODULE TaskExecutor ----------------------------
(***************************************************************************)
(* kernel/executor.py with the registries it resolves from                 *)
(* (kernel/capability.py, kernel/registry.py).  A task goes from QUEUED    *)
(* through RUNNING to COMPLETED or FAILED.  The locks are never held       *)
(* across a suspension, so submit runs without one up to the await of the  *)
(* handler, which is where runs of other tasks, or of the same task,       *)
(* interleave.                                                             *)
(***************************************************************************)
EXTENDS Naturals, FiniteSets

CONSTANTS Tasks, Workers,   \* coroutines that submit tasks
          Names,            \* capability names; Default is the "__default__" one
          Default, NoTask,
          Needs,            \* Needs[t]: task.capability, Default without one
          CapIds, ToolIds, PluginIds

ASSUME ExecutorAssumption ==
  /\ Default \in Names /\ Needs \in [Tasks -> Names] /\ NoTask \notin Tasks \cup Names

VARIABLES
  status,     \* task.status
  handlers,   \* names in _handlers
  running,    \* per worker: the task whose handler it awaits
  cancelled,  \* history: tasks a run of which was cancelled
  caps,       \* CapabilityRegistry._caps: id -> name
  tools,      \* ToolRegistry._tools: ids
  plugins,    \* PluginRegistry._plugins: ids
  disabled    \* PluginRegistry._disabled: ids

executorVars == <<status, handlers, running, cancelled, caps, tools, plugins, disabled>>
registries == <<caps, tools, plugins, disabled>>

ExecutorInit == /\ status = [t \in Tasks |-> "NEW"]
                /\ handlers = {}
                /\ running = [w \in Workers |-> NoTask]
                /\ cancelled = {}
                /\ caps = [i \in CapIds |-> NoTask]
                /\ tools = {} /\ plugins = {} /\ disabled = {}

-----------------------------------------------------------------------------
(* The registries. *)

\* register: a name already taken is refused.
RegisterCapability(i, name) ==
  /\ \A j \in CapIds : caps[j] # name
  /\ caps' = [caps EXCEPT ![i] = name]
  /\ UNCHANGED <<tools, plugins, disabled>>

UnregisterCapability(i) ==
  /\ caps[i] # NoTask
  /\ caps' = [caps EXCEPT ![i] = NoTask]
  /\ UNCHANGED <<tools, plugins, disabled>>

RegisterTool(i) == i \notin tools /\ tools' = tools \cup {i} /\ UNCHANGED <<caps, plugins, disabled>>

UnregisterTool(i) == i \in tools /\ tools' = tools \ {i} /\ UNCHANGED <<caps, plugins, disabled>>

\* register clears a marker that an unregistered plugin left behind.
RegisterPlugin(i) == /\ i \notin plugins
                     /\ plugins' = plugins \cup {i}
                     /\ disabled' = disabled \ {i}
                     /\ UNCHANGED <<caps, tools>>

UnregisterPlugin(i) == i \in plugins /\ plugins' = plugins \ {i} /\ UNCHANGED <<caps, tools, disabled>>

DisablePlugin(i) == i \in plugins /\ disabled' = disabled \cup {i} /\ UNCHANGED <<caps, tools, plugins>>

EnablePlugin(i) == i \in plugins /\ disabled' = disabled \ {i} /\ UNCHANGED <<caps, tools, plugins>>

-----------------------------------------------------------------------------
(* The executor. *)

RegisterHandler(name) ==
  /\ handlers' = handlers \cup {name}
  /\ UNCHANGED <<status, running, cancelled, registries>>

\* submit, then run: without a handler for its capability the task stays QUEUED,
Refuse(t) ==
  /\ Needs[t] # Default /\ Needs[t] \notin handlers
  /\ status' = [status EXCEPT ![t] = "QUEUED"]
  /\ UNCHANGED <<handlers, running, cancelled, registries>>

\* without a capability and a default handler it fails,
FailUnhandled(t) ==
  /\ Needs[t] = Default /\ Default \notin handlers
  /\ status' = [status EXCEPT ![t] = "FAILED"]
  /\ UNCHANGED <<handlers, running, cancelled, registries>>

\* and otherwise its handler is awaited, with the tools that can be resolved now.
StartTask(w, t) ==
  /\ running[w] = NoTask /\ Needs[t] \in handlers
  /\ status' = [status EXCEPT ![t] = "RUNNING"]
  /\ running' = [running EXCEPT ![w] = t]
  /\ UNCHANGED <<handlers, cancelled, registries>>

\* Seeded fault: a failure is raised to the caller and nothing else.
FaultEndTask(w, result) ==
  /\ running[w] # NoTask
  /\ status' = IF result = "FAILED" THEN status ELSE [status EXCEPT ![running[w]] = result]
  /\ running' = [running EXCEPT ![w] = NoTask]
  /\ UNCHANGED <<handlers, cancelled, registries>>

EndTask(w, result) ==
  /\ running[w] # NoTask
  /\ status' = [status EXCEPT ![running[w]] = result]
  /\ running' = [running EXCEPT ![w] = NoTask]
  /\ UNCHANGED <<handlers, cancelled, registries>>

\* Cancellation is no Exception: the task stays RUNNING and no event says so.
CancelTask(w) ==
  /\ running[w] # NoTask
  /\ running' = [running EXCEPT ![w] = NoTask]
  /\ cancelled' = cancelled \cup {running[w]}
  /\ UNCHANGED <<status, handlers, registries>>

Ends(w) == EndTask(w, "COMPLETED") \/ EndTask(w, "FAILED")

ExecutorNext ==
  \/ \E name \in Names : RegisterHandler(name)
  \/ \E t \in Tasks : \/ Refuse(t) \/ FailUnhandled(t)
                      \/ \E w \in Workers : StartTask(w, t)
  \/ \E w \in Workers : Ends(w) \/ CancelTask(w)
  \/ /\ \/ \E i \in CapIds : UnregisterCapability(i) \/ \E n \in Names : RegisterCapability(i, n)
        \/ \E i \in ToolIds : RegisterTool(i) \/ UnregisterTool(i)
        \/ \E i \in PluginIds : \/ RegisterPlugin(i) \/ UnregisterPlugin(i)
                                \/ DisablePlugin(i) \/ EnablePlugin(i)
     /\ UNCHANGED <<status, handlers, running, cancelled>>

\* A handler that runs ends.
ExecutorFairness == \A w \in Workers : WF_executorVars(Ends(w))

-----------------------------------------------------------------------------
(* Properties. *)

\* A task is RUNNING only as long as a handler works on it: whether the handler
\* returns or raises, and although the same task may be submitted again meanwhile,
\* it does not stay RUNNING; only a cancelled run leaves it so
\* (executor.py run).
RunningEnds ==
  \A t \in Tasks : status[t] = "RUNNING" /\ t \notin cancelled
                     ~> status[t] # "RUNNING" \/ t \in cancelled
=============================================================================
