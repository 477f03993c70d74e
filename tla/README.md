# Verification of the Hermes kernel

TLA+ models of the concurrent and failure-handling core of `kernel/` and `mcp/`, the TLC
configurations that check them on small instances, and TLAPS proofs of the
results that hold for every instance. `PROJECT.json` maps every definition to
the source lines it models and lists runs, seeded faults (definitions whose
names begin with `Fault`), findings, hazards and theorems.

Everything in the kernel runs on one asyncio event loop. Two coroutines
interleave only where one of them really suspends: at an `await` of a body, a
handler, a probe, an agent, a cipher or an HTTP post, and in `asyncio.sleep`. `await self._events.append(...)`
and the `_emit` helpers do not suspend (`EventStore.append` awaits nothing), so the code on both sides
of them is one step; nor do the locks of executor and registries, which are never held across
a suspension. Cancellation (`asyncio.CancelledError`, a `BaseException`) passes
by every `except Exception`. It is an outcome of its own at the awaits of the two breakers, of the bus, of the
workflow engine with its planner (bodies, compensations, backoffs, vault, LLM), of the executor, of the client's
callers, of the resilience dead letters' replays and of the monitors' loops; the guard treats it as any other end of a call.
At the other awaits it is not modelled.
The HTTP transports of `mcp/` are different: every request is a thread, and the models
of the two transports interleave them between any two operations on shared state.

## 1. Inventory

| Component (source) | State | Operations | Interacts with | What is hard | What makes it correct |
|---|---|---|---|---|---|
| Circuit breaker (`kernel/health.py`) | one `_BreakerState` per capability | `call`, `state`, `reset` | workflow engine, agent runtime | calls that end after the breaker has moved or was reset; cancelled test calls | counters agree with the position; the test slot has an owner; OPEN is left only through HALF_OPEN; a recovered capability is reached again |
| Health monitor, recovery engine (`kernel/health.py`, `kernel/agent.py`) | registrations, records, probe tasks, restart counts | `register`, `unregister`, `start`, `stop`, probe loop, `check_now`, `on_unhealthy` | event bus, agent runtime, dead-letter queue | recoveries overlap; a probe outlives its registration; a start inside a stop | an unhealthy component is restarted or escalated; restarts are bounded; one loop per component |
| Dead-letter queue (`kernel/health.py`) | append-only entries | `append`, `recover`, `replay` | recovery engine, workflow engine | handlers are awaited between test and mark | an entry is handled once |
| Event bus (`kernel/bus.py`) | subscriptions, waiters, dispatch tasks | `subscribe`, `unsubscribe`, `publish`, `wait_for`, `clear`, `close` | every publisher | one task per event; subscriptions and timeouts change under a dispatch | exactly-once delivery to a stable audience; the `wait_for` barrier; no lost wake-up |
| Resilience circuit (`kernel/resilience.py`) | runtime per name, saved row | `register_circuit`, `call_with_circuit`, `get_circuit_status` | MCP gateway, `resilience_store.py` | stale calls, cancelled trials, re-registration | as the breaker; the row tells the position |
| Resilience dead-letter queue (`kernel/resilience.py`, `resilience_store.py`) | entry objects, rows | `enqueue_dead_letter`, `replay_dead_letter`, `discard_dead_letter` | workflow engine | one id, several objects; restarts | a discarded or replayed entry stays so |
| Workflow engine (`kernel/workflow.py`) | instance status, current step, attempts | `execute_step`, `approve`, `execute_adaptive`, `execute_step_swarm`, compensation | guard, MCP gateway, sandbox, planner, swarm, dead letters | two drivers of one instance; failures inside compensation | approval, order, compensation, termination |
| Dynamic planner (`kernel/dynamic_planner.py`) | plan, retry budget | retry and re-plan | workflow engine | interprets outcomes it has not produced | as the workflow engine |
| Sandbox (`kernel/sandbox.py`) | policies | `run` | workflow engine, agent runtime | a breach in the middle of a step | a breach is handled like a failure |
| Swarm coordinator, store (`kernel/swarm.py`, `swarm_store.py`) | swarm and its row, heartbeat ages, delegations | join, leave, heartbeat, `check_partitions`, `delegate_task`, `complete_delegation` | team manager, workflow engine | silence, death, restarts, sweeps | the leader is a live member; the row is current; dead members are found |
| Team manager (`kernel/team_manager.py`) | - | `create_team`, `assign_role`, `disband_team`, `execute_distributed` | swarm coordinator | executors raise while membership changes, and others delegate the same tasks | a retry moves on to another agent |
| Cluster manager (`kernel/cluster.py`) | node table, leader, heartbeats | `join_cluster`, `leave_cluster`, `heartbeat`, `prune_timed_out`, `elect_leader`, `broadcast` | transport, bus | the node table changes while a broadcast awaits; the leader expires | there is a leader exactly when there are nodes; a broadcast reaches whoever stays, as long as the dictionary does not move its entries |
| Distributed health monitor (`kernel/distributed_health.py`) | beat loop, last heartbeats | `start`, `stop`, `send_heartbeat`, `record_heartbeat`, `track_node`, `get_node_health` | cluster | a start inside a stop | a node that runs looks healthy |
| Capability guard (`kernel/capability_guard.py`, `security_store.py`) | policies, grants, usage, audit ring and table | `register_policy`, `grant`, `check`, `call` | marketplace, agent runtime, workflow engine | the budget is tested before and charged after an await | by how much concurrent calls can exceed the budget |
| Marketplace (`kernel/marketplace.py`, `marketplace_store.py`) | package objects, rows, installed and listed packages | `discover`, `discover_mcp_tools`, `register_local`, `install`, `uninstall` | guard, vault, MCP gateway | installs, syncs and uninstalls of one package overlap; the store shares objects | a listed package with a policy is known to the guard |
| Agent runtime (`kernel/agent.py`) | agents, running tasks | `start`, `stop`, `join_swarm`, `leave_swarm`, `install_capability`, `execute` | vault, MCP gateway, swarm, guard, marketplace, sandbox | the installed package changes between two awaits of one task | as the guard's |
| Config and secrets vault (`kernel/config_vault.py`, `config_store.py`) | cached entries and secrets, three tables | `set`, `get`, `delete`, `set_secret`, `rotate_secret`, `resolve_secret`, `reload` | MCP gateway, marketplace, agents | version computed before, and written after, an awaited encryption; secret and marker are two commits | the marker shows the secret that is stored, or its version tells that it does not |
| MCP gateway (`kernel/mcp_gateway.py`, `mcp_store.py`) | sessions, tools, tokens, rows | `connect`, `close_session`, `list_tools`, `call_tool`, `read_resource`, `resolve_capability` | vault, resilience engine | reconnects and closes overlap with retried posts | no call starts under a closed session, and every recorded call refers to a saved one |
| Streamable HTTP transport (`mcp/server_streamable.py`, `kernel/persistence.py`) | session, sequence number, queue, event log | POST, GET with replay, `push_event`, eviction, `start`, `stop` | base server, persistence | threads; a frame is queued before it is logged; connections die | a client that resumes misses no frame between log and queue |
| SSE transport (`mcp/server_sse.py`) | session registry, queues, loop | GET stream, POST batch, `start`, `stop` | base server | a stream ends while POSTs hold its session | answers arrive once and in order while the stream lasts |
| Base MCP server (`mcp/server.py`) | framed loop | `start`, `stop`, dispatch, `notify_tools_changed` | tools | malformed and truncated frames, a client that hangs up | requests are answered, also after frames that are no JSON |
| MCP client (`mcp/client.py`) | process, pipes, pending futures, read task | `connect`, `list_tools`, `call_tool`, `disconnect` | external process | answers out of order, a dying process, callers that give up | a call is answered while the connection lasts |
| Executor and registries (`kernel/executor.py`, `registry.py`, `capability.py`) | tasks, handlers, capabilities, tools | `submit`, `run`, `register*`, enable, disable | bus | one task submitted twice; handlers that raise | a task does not stay RUNNING |
| Observability (`kernel/observability.py`, `observability_store.py`) | spans, metrics, logs with limits, rows | `start_span`, `finish_span`, `record_metric`, `log` | workflow engine, agent runtime | a running span is evicted by newer ones | recent spans are closed by their runs |
| Plugins, discovery; event sourcing and CQRS; knowledge pipeline; access control; domain model | data | transformation and lookup | all others | sequential | not modelled (section 7), except as data of the others |

`PROJECT.json` lists every component with what is left out of it and why, and
under `hazards` the places where this code is hard to test, each at its line.

## 2. Modules

| Module | Models | Kind |
|---|---|---|
| `BreakerSpec` | what either circuit breaker promises its callers | abstract specification |
| `CircuitBreaker`, `CircuitBreakerProofs` | breaker of `health.py`; refines `BreakerSpec` | component, proofs |
| `ResilienceCircuit`, `ResilienceCircuitProofs` | circuit of `resilience.py` and its row; refines `BreakerSpec` | component, proofs |
| `EventBus` | `bus.py` | component |
| `ResilienceDlq` | dead letters of `resilience.py` over SQLite, one entry id | component |
| `DeadLetterQueue` | dead letters of `health.py` | component |
| `MessagingProofs` | theorems about bus and dead letters | proofs |
| `WorkflowEngine`, `WorkflowProofs` | one instance under `workflow.py`, `dynamic_planner.py` and the breaches of `sandbox.py` | composition, proofs |
| `HealthRecovery` | `HealthMonitor`, `RecoveryEngine` and the lifecycle part of `AgentRuntime` for one component | composition |
| `MonitorLoops` | start, stop and loops of `HealthMonitor` and `DistributedHealthMonitor` | component |
| `Swarm` | membership, elections, sweeps and the saved row of one swarm | component |
| `SwarmDelegation` | delegation, batches of `team_manager.py` and workflow steps sent to a swarm; implements `Swarm` | composition (EXTENDS `Swarm`) |
| `SwarmProofs` | theorems about the swarm, and about delegation on top of it | proofs |
| `Cluster`, `ClusterProofs` | `cluster.py` | component, proofs |
| `CapabilityGuard` | `capability_guard.py` over `security_store.py` | component |
| `PluginMarketplace` | `marketplace.py` over `marketplace_store.py`, with the guard wired in | composition (EXTENDS `CapabilityGuard`) |
| `AgentRuntime` | `agent.py`: tasks of agents on top of marketplace and guard; implements `CapabilityGuard` | composition (EXTENDS `PluginMarketplace`) |
| `ConfigVault` | `config_vault.py` over `config_store.py` | component |
| `McpGateway` | `mcp_gateway.py` over `mcp_store.py`, with tokens from the vault; implements `ConfigVault` | composition (EXTENDS `ConfigVault`) |
| `PlatformProofs` | theorems about guard, marketplace, agents, vault and gateway | proofs |
| `StreamableHttp`, `SseTransport`, `StdioServer` | the three server transports of `mcp/` | components |
| `McpClient` | `mcp/client.py` with its external server process | component |
| `TaskExecutor` | `executor.py` with the registries | component |
| `Observability` | `observability.py`, its store, and the runs that report to it | component |
| `ServicesProofs` | theorems about the two HTTP transports, the monitors, health recovery and observability | proofs |
| `MC*` | constants for TLC; they replace no definition | |

`MCPlatform` and `MCServices` are suites: the components in one of them that
share no state are scenes of which each behaviour plays one.

### How state and actions correspond to the code

* **CircuitBreaker.** `call` is two steps. `Admit`, `AdmitTest` and `Reject` are the code
  up to `await coro`; `FinishOk`, `FinishFail` and `FinishCancelled` what follows it.
  `reset()` deletes the state object while calls may hold it, so `st` is a table
  of objects, `cur` the installed one and `ref[c]` the one call `c` holds. `opened_at`
  with the clock is `none`, `recent` or `elapsed`; `failure_count` is only compared with
  its threshold and saturates there. `Peek` is the `state()` query, which moves an
  OPEN breaker too. `up` says that the capability has recovered for good; it is
  read only by the failing outcome and exists for liveness.
* **ResilienceCircuit.** The same split at the `yield` of `call_with_circuit`.
  `OnSuccess`, `OnFailure` and `MaybeRecover` are functions from runtime to runtime;
  `Persisted` says when they write the row. HALF_OPEN is never written.
* **EventBus.** One step is what a dispatch task does between two awaited handlers:
  `StartDispatch` takes the snapshot, `HandlerReturns`, `HandlerRaises` and `HandlerCancelled`
  end a handler and go on to the next (`Continue`) or resolve the waiters. `subs` is one list of handlers
  per event type, as `_subscribers` is. `pub`,
  `audience` and `old` are history variables for the properties.
* **ResilienceDlq.** Entries are mutable Python objects. `heap` is the table of
  objects, `mem` the one in `_dlq`, `held[p]` the one a suspended replay refers to,
  `row` the table row. `Restart` keeps only `row`.
* **WorkflowEngine.** A driver is a coroutine running the linear loop, the planner's
  loop or a single step. Its `pc` is the place in `execute_step`; a driver whose `pc`
  is in `Holding` has not suspended, and `Turn` lets nobody else move. Entering a
  step is `EnterCompleted`, `EnterGate` or `EnterStep`; the vault then resolves the tokens of its inputs
  (`VaultOk`, `VaultFails`), before the `try` of `execute_step`; and `StepUnwired`, `StepDenied` or
  `StepBody` is what comes of it. The end of a body is one action per outcome. Compensation is
  `Rollback` (what `compensate` goes through), from which `Due` passes over the steps that
  declare none, then one step per compensation. `Cancelled` ends a driver at any place where it waits
  (`Waiting`), and `dropped` remembers where and at which step. `Approve(d, t)` takes the step the caller names and,
  as the code, does not look at it; `approved` pairs the step the instance was paused at with the one named. `LlmPlans`
  are the sizes of the plans an LLM may return to `replan`; `Wirings` says with which of sandbox, gateway and LLM an
  engine is built, and each behaviour has one wiring.
* **HealthRecovery.** Registrations are numbered, and probe loop `g` is the task created
  with registration `g`; `held[p]` is the registration whose probe `p` awaits. A recovery
  is `HandleEscalate`, `HandleWorkflow`, `HandleMissing` or `HandleRestart`, the last one
  followed by `AgentStopped` and `AgentStarted` or `RestartFails`.
* **DeadLetterQueue.** `replay()` iterates a copy of the list. Entries are only added,
  so the copy is a prefix, and `rep[r]` is the prefix with the cursor in it.
* **Swarm.** `sw` is the Swarm object and `row` what the store has saved. Ages are
  classes of `now - last_beat` (`fresh`, `late`, `lost`). `check_partitions` is one `CheckMember`
  per member, with nothing in between. `Restart` reads the row and forgets the
  heartbeats.
* **SwarmDelegation.** `Delegate`, `NoEligible`, `ExecutorReturns` and `ExecutorRaises` are the
  body of the loop in `execute_distributed`; `Coordinated` and `Beats` let the swarm
  underneath move between them. The other callers of `delegate_task` are there too: `AgentRuntime.execute`, which passes the
  executing agent and not the assignee as `from_agent`, `schedule_swarm` and `execute_step_swarm`. Each delegation in
  `deleg` keeps which of them made it.
* **MonitorLoops.** One table of loops for each monitor. `stop` is two steps, around the await
  of the cancelled loop; a `start` or a second `stop` in between finds the task still set. `Register` replaces the
  entry of the component and its task without cancelling it, as `register` does; `Unregister` cancels. Time passes in
  intervals, and a loop whose sleep is over runs before the next one.
* **Cluster.** `slots` is the entry array of the dictionary in insertion order, with `NoNode` where
  an entry was deleted, and `room` how many entries the array can take. A join into a full array first moves the
  entries to a new one without the holes (`Compacted`). A broadcast iterates over positions and awaits the transport at each; as
  in CPython it raises when the size of the dictionary has changed when it looks again, or when it finds more keys than it
  expects. `prune_timed_out` removes all expired nodes and then elects, in one step.
* **CapabilityGuard.** `Admit`, `Deny` and `ExceedLimit` are the check before a guarded call, `CallEnds`
  the charge after it. `audit` is the ring buffer, `trail` the table behind it; `base` is a history
  variable, what was charged and under way when a policy was registered. A caller is one guarded call: a workflow step run by
  an agent nests two of one package (`workflow.py:434` around `agent.py:298`), which are two callers here.
* **PluginMarketplace.** The store keeps references: `obj` is the table of package objects, `row` which one the
  store lists, `disk` the SQLite copy. `install` is one step up to the resolution of the secrets and one from
  the `INSTALLING` suspension to its end, each with its own failures. An install through
  `AgentRuntime.install_capability` registers the policy also when the install has failed (`AgentRegisters`).
* **AgentRuntime.** `execute` is one action per path (MCP, swarm, guard, retry with or without sandbox), each
  split where it awaits; the package providing a capability is looked up when the task is dispatched.
* **ConfigVault.** A write is `WriteBegins`, which computes the version and awaits the cipher, and `WriteEnds`,
  which commits the secret and then the marker; a crash comes between two actions (`VaultRestart`) or
  between the two commits (`WriteCut`). The cipher is injective and may fail. Values marked encrypted
  stand for their ciphertext. Nonce and tag, which `set_secret` reads from the shared cipher after the await, are left out: they are
  stored and read by nothing.
* **McpGateway.** `connect`, `call_tool` and `read_resource` are sequences of posts with a backoff
  after each failure, up to `MaxRetries`, inside up to `MaxRuns` attempts of the resilience engine. Tokens
  come from the caller or from `resolve_secret` of `ConfigVault`. `rpc[c].session` is the session a call read
  before its posts and is recorded under, `outlived` that it was closed meanwhile. `last_used`, which `_touch` changes in memory
  without saving, is left out: nothing reads it to decide.
* **StreamableHttp.** A push is three steps of its thread: `TakeNumber` under the lock, `PutFrame` into the queue,
  `PersistFrame` into the log. A GET thread replays from the log and then drains the queue;
  its connection may die at either, with a frame it has taken from the queue. `gone` is a history variable, and so is what a GET
  thread notes when it replays: the id it resumed from (`since`), whether it is the only stream and
  could read the log (`sure`), and the frames between their number and the log at that moment (`underway`).
* **SseTransport.** A GET thread registers its session and drains its queue; a POST thread dispatches a batch
  message by message on the loop. Both hold the session object after it has left the registry.
* **StdioServer.** Messages are of the kinds the reader and the handler tell apart: a call, a notification, a `tools/call`
  whose parameters are of a wrong type, a body that is no JSON, a blank one, a frame without length or with one that is no number,
  JSON that is no object, half a frame. The client goes on reading after it has closed its end.
* **McpClient.** Two pipes, `pending`, the read loop, and one disconnect waiting for the process. Client and
  base server are not composed: the client reads lines, the server writes `Content-Length` frames, and
  the client's peer is an external process.
* **TaskExecutor.** `submit` and `run` are one step up to the await of the handler. The registries are part of
  the state because `run` resolves from them.
* **Observability.** A run is its list of open spans; `rows` is the table, `spans` the newest ones in memory.
  `RunStarted` and `RunFinished` are the one or two spans of a run in the order the code starts and finishes them.
  `left` is a history variable: spans that `execute_with_context` left open.

## 3. Runs

`V` marks a run that shows a disagreement between the code and a statement of its
documentation (section 6); all other runs pass.

| Run | Question |
|---|---|
| `breaker` | With stale calls, cancellation and a reset: is a taken test slot owned by a running test call, does the breaker implement `BreakerSpec`, and does a recovered capability end behind a CLOSED breaker? |
| `breaker_one_test` V | Is there at most one test call at a time? |
| `circuit` | Does the row tell the circuit's position, does the trial budget count the running trials, does it implement `BreakerSpec`, and is it CLOSED in the end? |
| `workflow_linear` | Approval (two gates, approvals that name another step), order and compensation under one linear driver with cancellations, with and without a sandbox and a gateway; and at which step an instance may be left RUNNING without a driver. |
| `workflow_shared` | A driver of any kind and the one an approval starts, with and without a sandbox and an LLM: is an instance left COMPENSATING only by a cancelled compensation, and do drivers end? |
| `workflow_planned` V | Is the approval respected under the planner? |
| `health` | For an agent and for a workflow, with overlapping recoveries: nothing is forgotten, a broken component is escalated, and restarts are bounded. |
| `swarm` | The leader is not unhealthy if elected, and not deposed without a reason; while the loop runs, dead members are found. |
| `delegation` | Does a retry by `execute_distributed` go to another agent than the one that got the task last, whoever delegated it then? |
| `delegation_turns` V | Do the fresh tasks go round among three healthy members of equal load? |
| `platform` | By how much can concurrent calls exceed a budget? Is a listed package with a policy known to the guard? Does the marker of a secret show the stored one, also after a crash between the two commits? Does no call start under a closed session, and has every recorded call a saved one? Has the cluster a leader exactly when it has nodes, and does a broadcast reach every node that stays? Does the bus deliver exactly once, behind its barrier and without a lost wake-up, with raising and cancelled handlers? Is there a gap between what a resumed event stream replays and what it then gets? Do the answers of an SSE stream arrive once and in order? |
| `services` | Does a discarded or replayed dead letter (*resilience.py*) stay so, and does a caller handle an entry of *health.py* once? Does a started monitor's node look healthy, and is a component probed by one loop? Are recent spans closed? Are calls of the client answered, requests of the framed server served, running tasks ended? |

### Where the promises end

Several properties hold only up to an event that the code does not handle. The
models contain the event, and a history variable makes the premise explicit, so
that the rest of the behaviour is still checked after and beside it:

* `broken` (both breakers): objects one of whose test calls was cancelled. `call()` and
  `call_with_circuit` pass `CancelledError` by, so the slot or the place in the budget is never
  given back and the breaker then rejects every call. `SlotHasOwner`, `TrialsAccounted` and
  `EventuallyClosed` are stated for the others.
* `overlapped` (`HealthRecovery`): two recoveries of the component have run at the same time. They read the same
  restart count, so one restart is not counted, and they register the agent twice, so that the
  loop of the replaced registration goes on. `RestartsBounded` is stated for recoveries that
  do not overlap; nothing else is.
* `overlap`, `replaced` (`MonitorLoops`): two stops of the health monitor have overlapped, or a registration took the
  place of one whose loop was running, or fell into a stop. The later of two stops forgets a task
  that a start has created after the earlier one; `register` displaces a task without cancelling it; and a stop that ends
  after a registration forgets the new task. Either way a second loop probes the component. `ProbedByOneLoop`
  is stated for the rest: starts inside stops, registrations, departures and stops in any other order.
* `dropped` (`WorkflowEngine`): an exception has taken a driver out of `execute_step` without a trace in the instance: a
  cancellation, a secret the vault does not have (`workflow.py:397`, outside the `try`), or a breach of a step without
  compensation. `NotAbandoned` says that an instance left RUNNING is at that very step, so that starting it again goes on
  there; `CompensationHasDriver` that only a cancelled compensation leaves COMPENSATING behind. Nothing takes up such an
  instance by itself.
* `ApprovalRespected` asks for an approval while the instance was paused at the step. Which step the approval named is not asked:
  `approve` resumes whatever step is current (`workflow.py:528`), so an approval meant for an earlier gate counts.
* `torn`, `overlapped` (`ConfigVault`): keys whose last write was cut between its two commits, and keys two writes of which have been under way
  together. The first have a marker that shows an earlier ciphertext, under an earlier version; after the second two
  ciphertexts may carry one version.
* `outlived` (`McpGateway`): the session was closed while the call was under way; the call is recorded under it all the same. That closing
  an older session drops the entry of a newer one of the server (`mcp_gateway.py` `close_session`) is a behaviour the model has and the property allows:
  the next call then has no session.
* `moved` (`Cluster`): an insertion into a full array has moved the entries under the broadcast. When the size is the
  same again, it goes on at a position at which other nodes lie now, and a node that stayed all the time is passed over.
* `RetryMovesOn` is about retries by `execute_distributed`. `AgentRuntime.execute` excludes the executing agent only, so a task executed
  twice goes to the same member twice.
* `used <= 1` (`ResilienceDlq`): the id was enqueued once and read back never. A replay that
  holds an older object of the id writes it back as pending after a discard.
* `HandledOnce` counts the successes per caller of `replay()`: two concurrent replays may both handle
  an entry, since `recovered_at` is tested before the handler is awaited and set after it.
* `appointed` (`Swarm`): the leader got its role from `assign_role`, which does not look at health.
* `known` (`SwarmDelegation`): after a restart the coordinator knows no saved delegation, and none of
  them can be completed.
* `base` (`CapabilityGuard`): registering a policy does not reset the usage, which may already be above the new
  limit. Nothing is admitted then, so what is charged and under way does not grow past `base`.
* `restarts = 0` (`PluginMarketplace`): after a restart installed packages are read back, the guard's
  policies are not.
* `gone`, `sure`, `underway` (`StreamableHttp`): frames whose write to the log failed (the exception is swallowed) or
  that were evicted; a session with a second stream, which takes frames from the same queue, or a log that could not be read; and
  frames numbered but not yet logged when a stream replays, which an earlier, dying stream may have taken from the queue.
  A frame taken by a dying stream is in the log for the next resumption, and only there.
* `CallsAreAnswered` (`McpClient`) ends with the connection: after it is lost, or after `disconnect`, nothing
  settles the futures in `_pending`, and their callers wait until they time out on their own.
* `cancelled` (`TaskExecutor`): a cancelled run leaves its task RUNNING. A task without a handler
  stays QUEUED; no terminal event is published for either.
* `left` (`Observability`): `execute_with_context` finishes its span only when the inner run returns. A span evicted
  before it is finished stays open in the table too.
* `Disturbed` (`StdioServer`): JSON that is no object, and a `tools/call` whose `params` is no object or whose name cannot be
  hashed, raise outside the handler's `try` and end the loop; a frame whose `Content-Length` is missing or no number
  is skipped without its body, and the reader is out of step from there.

### Bounds, and why they are enough

* *Breaker and circuit*: three calls, so that a stale call, a test call and a
  rejected call coexist; thresholds of 2, so that a counter has a value between
  0 and its limit; one `reset` or a second registration, so that calls hold two
  generations of the object. The proofs have no such bounds.
* *Workflow*: five steps for a single driver (two compensated, two gated, one of them taking a secret, one
  guarded, one on an MCP server that is wired or not), started up to three times, so that a driver can be cancelled, another one
  started and the workflow completed. Where drivers share the instance: two steps, one
  gated, compensated, taking a secret and tried three times, and its compensation; a retry budget of 3; one driver
  started by a client (`MaxCalls` = 1) and any number started by approvals, two at a time. `workflow_planned` has three steps.
* *Health*: one component of either kind (registrations share nothing), two overlapping
  recoveries, one `check_now`, two failures to be UNHEALTHY, two restarts, so that an uncounted
  restart leaves room for a third recovery; `MaxRegs` = 4
  registrations, one more than the bound on restarts allows; `MaxEvents` bounds the queue of undelivered
  events and with it how many recoveries can overlap.
* *Swarm*: three agents, so that an election has a loser and a spectator; one of them, the
  greatest id and so the first choice of an election, may die. *Delegation*: two agents with two loads, two tasks
  and a workflow step, two managers (symmetric), two delegations, which is one retry, after a delegation by any of the
  callers; the theorem is for any number. Leadership and the check loop's switch are not moved in it: delegation reads
  neither. `delegation_turns` has three members, for the third to starve, and three tasks.
* *Platform*, guard, marketplace and agents: one package (packages share nothing) with a policy that
  allows, one that does not and a listing with none; two callers, two installers, one agent, two package
  objects, so that a package is replaced under an install; a budget of one call and an audit ring of one
  entry, so that both overflow; one restart; two attempts. The scene of the agents starts where an install
  has just ended. Vault: two users, one key, two values, `MaxVersion` = 2: two writes overlap, or one is cut and another
  follows after the restart. Gateway: one server, two sessions, one retry within two runs: a reconnect overlaps a close and
  a retried post; restarts happen in the scene of the calls, not in the one of the tokens. Cluster: three nodes, one broadcast, a
  `NodeTimeout` of 0 on a clock that ticks once, so that any subset of the nodes can expire; `DictRoom` is the room of a small
  CPython dictionary, five entries, or ten after a compaction with three keys: nodes leave and come back
  under a broadcast until the array is full and its entries move. Bus: two events of either of two types, two subscribers
  of one type, a waiter for each type: two dispatches overlap, one of them overtakes, and a waiter sees both. Each event is published
  and each subscription id handed out once, as in the code (uuid4). Streamable HTTP: two pushers and two GET
  threads with three frames. SSE: two sessions with two POSTs of two or three messages and two starts.
  Two values are callers, users, events, pushers and two of the nodes at once, two others sessions and streams: the scenes
  share no state, nothing orders these values, and the run has no liveness property, so they are symmetric.
* *Services*: dead letters of *resilience.py*: one id (entries of different
  ids share nothing), three objects (old, new and reread), two replayers, two attempts,
  one restart; of *health.py*: two entries of two components, two replayers, two replays. Client: two callers with two requests
  over two connections. Executor: two tasks and two workers. Monitors: three loops
  and two stoppers, the thresholds of 3 s and 10 s scaled to 2 and 3 intervals, which keeps their
  order. Observability: two runs, four spans and a limit of two. Framed server: three messages.

`CHECK_DEADLOCK FALSE` stands where the bounded environment runs out (events are
published once, entries, drivers, sessions, frames, requests and registrations are bounded) and where the
system may stop: a component whose restart raised in `start()` has no registration
and no probe any more.

Each property has a seeded fault, a plausible mistake in one of the mapped
definitions, with which TLC finds the property violated under the same configuration.

### Fairness

All fairness is weak except where noted.

* *Breaker, circuit* (`FairSpec`): a running body that can return does so, timeouts elapse, and
  someone keeps calling. Rejected calls, failures and resets are never forced. The property
  asks for CLOSED only once the capability has recovered and stays so.
* *Workflow*: every suspended driver is resumed (bodies and sleeps end). Nobody has to approve.
* *Health*: probe loops wake, probes end (they run under `asyncio.wait_for`), dispatched
  events are handled, and agents answer `stop` and `start`, possibly by raising.
* *Swarm*: a started loop sweeps again and a sweep ends. `GrowsOld` of a dead agent is strongly
  fair: the clock advances while the loop sleeps, and during a sweep it cannot be
  seen to. Without a running loop nothing is promised.
* *MCP client*: a live server answers what it has read, the read loop reads lines and the end of its stream, and a
  disconnect ends (it kills the process when its wait times out). The server may die instead of answering.
* *Executor*: a running handler ends, by returning or raising.
* *Framed server*: the loop reads what is there and tools end. The client never has to send or hang up.

## 4. Proofs

All proofs are checked by TLAPS for any set of calls, agents, packages or nodes and any thresholds
or bounds that satisfy the named assumptions of the module.

* **CircuitBreakerProofs** (assumption `ThresholdAssumption`).
  `TypeCorrect`. `CountersConsistentCorrect`: the invariant is stated per state object, not just
  for the installed one, which makes it inductive: a stale call may still drive an object that
  `reset` has dropped. `SlotNeverLeaks`: a taken test slot has a running owner for every
  object none of whose test calls was cancelled, whatever stale calls report to it.
  `ImplementsPromise`: every step maps to a step or a stutter of `BreakerSpec`
  under the mapping that reads the installed object.
* **ResilienceCircuitProofs** (`ConfigAssumption`). `TypeCorrect`; `CanRecoverCorrect`
  (per runtime); `RowMirrorsCorrect`, from the strengthening that a running call holds a registered
  runtime, without which a call could report to a runtime nobody has saved; `TrialsAccountedCorrect`, from `SlotInv`, that a place
  in the budget is held by a running call in a HALF_OPEN period only, so that a period starts from an empty
  set; `ImplementsPromise`.
* **SwarmProofs** (`AgentAssumption`: ids are positive, every non-empty group has a
  greatest one, which holds of any finite set; `DelegationAssumption`). The lemma `StepFacts` says what any step does to
  leader, members and row; the theorems follow from it. `SavedSwarmCorrect` comes
  first: a restart reads the row, so `LeaderIsMember` is inductive only together with it.
  `LeaderHealthCorrect` and `LeaderStableCorrect` need that a step which saves the swarm
  keeps `appointed` exactly as long as the leader it belongs to. `DelegationImplementsSwarm`: every step of managers
  and executors is a step or a stutter of `Swarm`, so all of these hold beside delegation.
  `RetryMovesOnCorrect` needs `LastInv`: the agent a task is assigned to is that of its latest delegation, whoever made it, and that is
  the one a retry excludes.
* **ClusterProofs** (`ClusterAssumption`). `ClusterIsLed`: an election among the nodes left picks one of them
  (`ElectFacts`), and it happens whenever the leader is removed. `BroadcastIsComplete`: the promise speaks of a
  broadcast that has ended, so the invariant proved is `Covered`, that a node which stayed
  and was not sent to is at an entry the iteration has yet to look at, until the entries are moved. Departures leave holes and joins
  into a table with room are appended, so only a compaction moves a remaining node behind the iteration (`FirstAhead`, `RemoveCovered`,
  `SendCovered`). `Room` is any function from sizes to larger sizes. `ClusterIsLed` holds across compactions: they keep the nodes (`CompactedFacts`).
* **MessagingProofs** (`BusAssumption`, `DlqAssumption`, `BoundAssumption`). *Bus*: `BusInv` follows a dispatch. While it
  runs, a subscriber of its audience that stays has been called or is behind the awaited one in the snapshot, and nobody
  behind it has been called (`DispatchInv`); that each list is without repetition and each id in the list of its own type
  makes it exactly once. `WaitInv` adds that a pending future is registered, without which a wake-up could
  miss it. *Dead letters of health.py*: `HandledInv`, an entry that a caller handled is marked, and the one it awaits was not
  when it was taken, since a caller of `replay()` awaits one handler at a time. *Of resilience.py*: `SettledInv`, while one object
  has carried the id, whatever is queued or held by a replay is that object and has the status of the row.
* **WorkflowProofs** (`WorkflowAssumption`). For any drivers of any kind: `WorkflowTypeCorrect`, with what a driver has
  at its place, and `CompensationHasDriverCorrect`. The other four are theorems about `Linear /\ Spec`: one driver,
  the linear loop. With the planner (run `workflow_planned`) or a second driver they do not hold of the code (section 6).
  `LinearInv` ties status and place of the driver together (`PlaceInv`); a gated step has been attempted without approval only
  while the instance is held at it (`GateInv`); the steps before the current one have results (`OrderInv`); a compensation of the
  failed step's list has been started or is ahead (`UndoInv`); a driver that is gone from a RUNNING instance was dropped at its
  current step, which nobody moves in the meantime (`RunInv`). Sandbox, gateway, vault failures and cancellation are in all of them.
* **PlatformProofs** (`GuardAssumption`, `MarketAssumption`, `AgentAssumption`, `VaultAssumption`, `GatewayAssumption`).
  *Guard*: `GuardTypeCorrect`; `OverrunIsBounded`: charged plus under way
  is what is bounded, not the charge alone. The end of a call moves one from the second part to the first
  (`EndKeepsLoad`); an admission adds one while the charged part is below the budget and
  the caller itself was idle, so that at most all the other callers are under way (`AdmitBounded`).
  *Marketplace and agents*: `PluginImplementsGuard`, every install and execution is a step or a stutter of the
  guard alone, and `PluginOverrunBounded` follows. `ListedIsSandboxedCorrect` needs `SandboxInv`, which is about package objects and not
  about rows: an object may be listed again by a sync, and an install that has suspended has registered its policy already.
  *Vault*: `MarkerShowsSecretCorrect`, with crashes between the commits, from `CacheIsRow` (a cached secret is the one in
  the table, so a writer computes its version from the row) and `WritesInTurn` (without overlap the version under way is
  the successor of the stored one, so a marker left behind by a cut has a smaller one). *Gateway*: `GatewayImplementsVault`, so the marker is as right beside it;
  `ServerSessionIsOpenCorrect` is inductive with the types: sessions are closed and never opened again, a call takes
  its session from the entry of its server, and `SessionsChange` says what each step does to the four parts.
* **ServicesProofs** (the assumptions of its five modules). *Stream*: `FrameInv`, a number handed out is logged, gone
  or still with its pusher, so the replay of a log finds it or counts it as under way; `SoleInv`, while a stream is sure it is
  the only one, so that no other thread takes from the queue; with both, each step keeps every frame after the resumed id accounted for (`GapStep`). *SSE*: `SseInv`, the frames received and queued are of messages
  dispatched before those still left of their POST, so the next answer comes last. *Monitors*: `BeatInv`, some loop that nobody
  will cancel is on time, which need not be the one in `_task`; `ProbeInv`, without overlapping stops and displacing registrations
  the only live loop is the one in `reg.task`, and a stop
  under way awaits that very task, cancelled, or one that was unregistered since. *Health*: `CountInv`, the one recovery under way has read the present count, which
  is the number of restarts carried out; `UnhealthyIsHandled` is inductive with `RegInv`.
  *Observability*: `SpanInv`, memory is a window without gaps of the newest ids of this process, so a recent span is found by
  `finish_span`; `RunInv`, what a run holds was started by this process.

The refinements among components are proved with the identity on the variables of the smaller one: the composition
`EXTENDS` it, and each of its steps is one of the component or leaves its variables alone.

`CountersConsistent`, `CanRecover`, `SavedSwarmIsCurrent`, `LeaderIsMember` and the type invariants are
proved and not among the properties of the runs. Every safety property of a passing run is
proved for all values of the constants, four of them for a single linear driver, as their run has it.

Only model-checked: the liveness properties (`EventuallyClosed` of both breakers, `DriversTerminate`, `BrokenIsEscalated`, `DeadIsDetected`,
`CallsAreAnswered`, `RunningEnds`, `RequestsAreServed`), and with them all that is said about `McpClient`, `TaskExecutor` and
`StdioServer`. Out of the prover's reach altogether: liveness and
`ENABLED`, induction over data, and recursive operators (none is used).

## 5. Plan

Done, in this order: the two breakers with their abstract specification and
proofs; the bus; the dead-letter queues; the workflow engine with planner and
sandbox outcomes; health and recovery; the swarm with proofs, and delegation on top; the guard with proofs,
with marketplace and agent runtime on top; the cluster with proofs; vault and gateway; the transports, the
client, the executor, the monitors' life cycles and observability; then the proofs of all remaining
safety properties, and the refinements of swarm, guard and vault by what is built on them.

The run list is one run per question. A new component that shares no state with
a modelled one is checked beside it in a suite; one that does is
composed with it and checked in its run. The list of checked properties is kept at
forty, the ones hardest to get right: a new one replaces the weakest there is.

Theorems to come: what is safe about `McpClient` (which answers a future may get), `TaskExecutor` and `StdioServer`,
of which only liveness is stated so far; the guarantees that `workflow_shared` leaves to a single driver, as far as they
hold for two.

Abstract specifications worth stating: an at-least-once work queue that both
dead-letter queues implement, and a single-leader specification for swarm and cluster.

## 6. Findings

Shown by a run and quoted with their source in `PROJECT.json`:

| Run | What the code does |
|---|---|
| `breaker_one_test` | a call admitted while CLOSED frees the test slot of a later HALF_OPEN period, and a second test call is admitted |
| `workflow_planned` | the planner's retry runs a gated step without approval |
| `delegation_turns` | the round-robin of delegation remembers one agent only: of three healthy members of equal load the two with the smallest ids alternate and the third gets nothing |

Further behaviours the models have, beside those under *Where the promises end*, that a reader
of the docs may not expect:

* A call admitted before a resilience circuit opened closes it when it succeeds during HALF_OPEN,
  while the trial call is still running (`resilience.py:139`).
* Every event has its own dispatch task, so a later event's dispatch may resolve a `wait_for`
  future before that of the first matching event does (`bus.py:66`).
* A sandbox breach of a step without compensation ends the driver and leaves the instance
  RUNNING (`workflow.py:475`).
* The retry of a step does not pass the sandbox policy on; later attempts run under the
  default policy (`workflow.py:488`).
* A compensation step is an element of the step list, so the linear advance runs it after
  a success too (`workflow.py:620`).
* An approval during the planner's backoff gives the instance a second driver; both advance, and
  the step between is left out (`workflow.py:620`).
* Suspected members are given tasks (`swarm.py:297`), where ADR-023:40-41 says that delegation skips them.
* A leader lost while nobody else is healthy leaves the office empty; no later heartbeat or sweep
  fills it, only a join (`swarm.py:249`).
* A broadcast raises `RuntimeError` when a node has joined or left between two of its sends, unless the
  number of nodes is the same again; then it may pass over a node that never left (`cluster.py:119`).
* Registering a component again while the health monitor runs leaves the loop of the replaced registration probing
  beside the new one (`health.py:102`).
* An agent's install that fails validation leaves the package's policy registered with the guard (`agent.py:552`).
* A `start` during the `stop` of the health monitor leaves it running without loops; one during the
  `stop` of the distributed monitor leaves a loop nobody can stop, and a later start makes a second one.
* The sessions of the streamable transport are in memory only: after a restart a client with its
  session id and `Last-Event-ID` gets 404 (`server_streamable.py:330`), although the log is still there
  and the comment below it says that replay survives a restart.
* Spans end with status `ok` whether or not the run failed (`workflow.py:140`, `agent.py:328`), and counters
  start at 0 after a restart.
* `start()` of the base server without streams unpacks the coroutine `_wire_stdio()` without awaiting
  it (`server.py:174`) and raises; the model starts with streams given.

## 7. Not modelled, and why

* Wording, formatting and journal entries: nothing reads them back to decide.
* The cipher of the vault, operating system limits of the sandbox, SQLite itself, the remote MCP servers:
  external, used by what they promise.
* Several capabilities, circuits, ids, components, packages, keys or swarms at once: each operation
  touches one, so a model of one is a model of all.
* `rebalance_load` (changes nothing) and `track_node` (read by nobody) of the swarm.
* Crashes of the process inside one synchronous piece of code: SQLite statements
  are committed one by one, and the models restart between two actions only. The exception is the vault, whose two
  commits of one write are modelled apart.
* Cancellation where the introduction does not name it, and `drain` errors and the read loop of an earlier connection in the MCP client.
* The clock going back: start times of spans and heartbeats are taken to be non-decreasing.
* Plugin loading and discovery: what they do is decided by the file system and the interpreter.
* Event sourcing and CQRS: event classes are data, and the append-only store is used by what it promises.
* Sequential data transformation: knowledge pipeline, retrieval and ranking, schedulers, the agents' semantic memory,
  schema conversion and version negotiation of the MCP modules, matching of capabilities by similarity, access control tables.
