---------------------------- MODULE MonitorLoops ----------------------------
(***************************************************************************)
(* The life cycle of the two background monitors: "beats" is               *)
(* DistributedHealthMonitor (kernel/distributed_health.py), which sends a  *)
(* heartbeat of its own node every interval, "probes" is HealthMonitor     *)
(* (kernel/health.py), with one component that AgentRuntime registers and  *)
(* unregisters.  stop() cancels the loop and awaits its end, so a start(), *)
(* another stop() or a registration may come in between.  Time passes in   *)
(* steps of one interval; a loop whose sleep is over runs before the next. *)
(***************************************************************************)
EXTENDS Naturals

CONSTANTS Peers,           \* remote nodes
          Stoppers,        \* coroutines that call stop()
          MaxLoops,        \* bound on the loops a monitor creates
          SuspectAfter,    \* get_node_health: 3000 ms, in intervals
          UnhealthyAfter   \* get_node_health: 10000 ms, in intervals

ASSUME MonitorAssumption ==
  /\ "self" \notin Peers
  /\ MaxLoops \in Nat /\ SuspectAfter \in Nat \ {0}
  /\ UnhealthyAfter \in Nat /\ UnhealthyAfter > SuspectAfter

VARIABLES
  up,        \* _running
  current,   \* _task (reg.task for the probes), 0: None
  loop,      \* loop[m][i]: where the i-th loop of m stands
  told,      \* told[m]: loops whose task has been cancelled
  stopping,  \* per stopper: the monitor and the loop it awaits the end of
  age,       \* _last_seen_ts: intervals since the node was seen, Never: not tracked
  upFor,     \* history: whole intervals since "beats" was started
  overlap,   \* history: two stops of a monitor have been under way at once
  entry,     \* the component in _registry: "none", or whether its check is "enabled"
  replaced   \* history: a registration displaced a task, or fell into a stop

registration == <<entry, replaced>>
lifeCycle == <<up, current, told, stopping, overlap>>
monitorVars == <<lifeCycle, loop, age, upFor, registration>>

Monitors == {"beats", "probes"}
Loops == 1 .. MaxLoops
Nodes == Peers \cup {"self"}
NoStop == [m |-> "none", i |-> 0]
Oldest == UnhealthyAfter + 1        \* the age at which nothing changes any more
Never == Oldest + 1

MonitorInit == /\ up = [m \in Monitors |-> FALSE]
               /\ current = [m \in Monitors |-> 0]
               /\ loop = [m \in Monitors |-> [i \in Loops |-> "none"]]
               /\ told = [m \in Monitors |-> {}]
               /\ stopping = [s \in Stoppers |-> NoStop]
               /\ age = [n \in Nodes |-> Never]
               /\ upFor = 0 /\ overlap = FALSE
               /\ entry = "none" /\ replaced = FALSE

-----------------------------------------------------------------------------
(* start() and stop(). *)

Unmade(m) == {i \in Loops : loop[m][i] = "none"}

Create(m) == LET i == CHOOSE i \in Unmade(m) : \A j \in Unmade(m) : i <= j
             IN  /\ Unmade(m) # {}
                 /\ loop' = [loop EXCEPT ![m][i] = "new"]
                 /\ current' = [current EXCEPT ![m] = i]

\* Seeded fault: the guard of the other monitor, which looks at the task.
FaultStartBeats ==
  /\ up' = [up EXCEPT !["beats"] = TRUE]
  /\ IF current["beats"] = 0 THEN Create("beats") ELSE UNCHANGED <<loop, current>>
  /\ upFor' = IF up["beats"] THEN upFor ELSE 0
  /\ UNCHANGED <<told, stopping, age, overlap, registration>>

\* DistributedHealthMonitor.start: nothing happens while it is running.
StartBeats ==
  /\ ~up["beats"]
  /\ up' = [up EXCEPT !["beats"] = TRUE]
  /\ Create("beats")
  /\ upFor' = 0
  /\ UNCHANGED <<told, stopping, age, overlap, registration>>

\* HealthMonitor.start: a loop for an enabled component that has no task.
StartProbes ==
  /\ up' = [up EXCEPT !["probes"] = TRUE]
  /\ IF entry = "enabled" /\ current["probes"] = 0
     THEN Create("probes") ELSE UNCHANGED <<loop, current>>
  /\ UNCHANGED <<told, stopping, age, upFor, overlap, registration>>

\* Seeded fault: the flag is left to end the loop, which is forgotten at once.
FaultStopBegins(s, m) ==
  /\ stopping[s] = NoStop
  /\ up' = [up EXCEPT ![m] = FALSE]
  /\ current' = [current EXCEPT ![m] = 0]
  /\ UNCHANGED <<told, stopping, loop, age, upFor, overlap, registration>>

\* stop() cancels the task it finds and awaits it; without one it is done.
StopBegins(s, m) ==
  /\ stopping[s] = NoStop
  /\ up' = [up EXCEPT ![m] = FALSE]
  /\ IF current[m] = 0 THEN UNCHANGED <<told, stopping>>
     ELSE /\ told' = [told EXCEPT ![m] = @ \cup {current[m]}]
          /\ stopping' = [stopping EXCEPT ![s] = [m |-> m, i |-> current[m]]]
  /\ overlap' = (overlap \/ \E x \in Stoppers : stopping[x].m = m)
  /\ UNCHANGED <<current, loop, age, upFor, registration>>

\* The loop has ended: whatever task is there now is forgotten.
StopEnds(s) ==
  LET m == stopping[s].m
  IN  /\ stopping[s] # NoStop /\ loop[m][stopping[s].i] = "gone"
      /\ current' = [current EXCEPT ![m] = 0]
      /\ stopping' = [stopping EXCEPT ![s] = NoStop]
      /\ UNCHANGED <<up, told, loop, age, upFor, overlap, registration>>

-----------------------------------------------------------------------------
(* HealthMonitor.register and unregister, called by AgentRuntime. *)

\* A new registration takes the place of one there may be, whose task is neither
\* cancelled nor remembered.
Register(check) ==
  /\ entry' = check
  /\ replaced' = (replaced \/ current["probes"] # 0
                            \/ \E s \in Stoppers : stopping[s].m = "probes")
  /\ IF up["probes"] /\ check = "enabled"
     THEN Create("probes")
     ELSE current' = [current EXCEPT !["probes"] = 0] /\ loop' = loop
  /\ UNCHANGED <<up, told, stopping, overlap, age, upFor>>

\* The registration goes and its task is cancelled.
Unregister ==
  /\ entry # "none"
  /\ entry' = "none"
  /\ told' = [told EXCEPT !["probes"] = @ \cup ({current["probes"]} \ {0})]
  /\ current' = [current EXCEPT !["probes"] = 0]
  /\ UNCHANGED <<up, stopping, overlap, loop, age, upFor, replaced>>

-----------------------------------------------------------------------------
(* The loops. *)

Awake(m, i) == i \notin told[m] /\ loop[m][i] \in {"new", "due"}

\* `while self._running` at the top of the loop; a probe loop also ends when the
\* component is not registered, and goes on with whatever registration there is.
Again(m) == IF up[m] /\ (m = "probes" => entry # "none") THEN "asleep" ELSE "gone"

\* A loop enters, or the probe loop wakes up, probes (HealthRecovery) and goes round.
LoopTurn(m, i) ==
  /\ Awake(m, i) /\ (m = "beats" => loop[m][i] = "new")
  /\ loop' = [loop EXCEPT ![m][i] = Again(m)]
  /\ UNCHANGED <<lifeCycle, age, upFor, registration>>

\* record_heartbeat: a node heard of for the first time is tracked.
Seen(n) == age' = [age EXCEPT ![n] = 0]

\* The beat loop wakes up and sends, also when it has been stopped meanwhile.
Beat(i) ==
  /\ Awake("beats", i) /\ loop["beats"][i] = "due"
  /\ Seen("self")
  /\ loop' = [loop EXCEPT !["beats"][i] = Again("beats")]
  /\ UNCHANGED <<lifeCycle, upFor, registration>>

\* CancelledError reaches the loop in its sleep or before its first step.
LoopCancelled(m, i) ==
  /\ i \in told[m] /\ loop[m][i] # "gone"
  /\ loop' = [loop EXCEPT ![m][i] = "gone"]
  /\ UNCHANGED <<lifeCycle, age, upFor, registration>>

\* send_heartbeat by a caller, and the heartbeats of other nodes.
HearFrom(n) == Seen(n) /\ UNCHANGED <<lifeCycle, loop, upFor, registration>>

\* One interval passes.
IntervalPasses ==
  /\ \A m \in Monitors, i \in Loops : ~Awake(m, i)
  /\ loop' = [m \in Monitors |-> [i \in Loops |->
                IF loop[m][i] = "asleep" THEN "due" ELSE loop[m][i]]]
  /\ age' = [n \in Nodes |-> IF age[n] < Oldest THEN age[n] + 1 ELSE age[n]]
  /\ upFor' = IF upFor < 2 THEN upFor + 1 ELSE 2
  /\ UNCHANGED <<lifeCycle, registration>>

LifeCycle(m) ==
  \/ IntervalPasses
  \/ \E s \in Stoppers : StopBegins(s, m) \/ StopEnds(s)
  \/ \E i \in Loops : LoopTurn(m, i) \/ LoopCancelled(m, i)

BeatsNext == \/ LifeCycle("beats") \/ StartBeats
             \/ \E i \in Loops : Beat(i)
             \/ \E n \in Nodes : HearFrom(n)

ProbesNext == \/ LifeCycle("probes") \/ StartProbes \/ Unregister
              \/ \E check \in {"enabled", "disabled"} : Register(check)

MonitorSpec == MonitorInit /\ [][BeatsNext \/ ProbesNext]_monitorVars

-----------------------------------------------------------------------------
(* Properties. *)

MonitorTypeOK ==
  /\ up \in [Monitors -> BOOLEAN] /\ overlap \in BOOLEAN /\ upFor \in 0 .. 2
  /\ current \in [Monitors -> 0 .. MaxLoops]
  /\ loop \in [Monitors -> [Loops -> {"none", "new", "asleep", "due", "gone"}]]
  /\ told \in [Monitors -> SUBSET Loops]
  /\ stopping \in [Stoppers -> [m : Monitors, i : Loops] \cup {NoStop}]
  /\ age \in [Nodes -> 0 .. Never]
  /\ entry \in {"none", "enabled", "disabled"} /\ replaced \in BOOLEAN

\* get_node_health.
NodeHealth(n) == IF age[n] = Never THEN "unknown"
                 ELSE IF age[n] > UnhealthyAfter THEN "unhealthy"
                 ELSE IF age[n] > SuspectAfter THEN "suspected" ELSE "healthy"

\* The node of a monitor that has been started, and left running for two
\* intervals, looks healthy, although a start() may fall into a stop() that has
\* yet to forget its task, and stops may overlap
\* (distributed_health.py start, stop, _beat_loop).
StartedLooksHealthy == up["beats"] /\ upFor = 2 => NodeHealth("self") = "healthy"

\* A loop that will go on probing: alive and not cancelled.
Probing(i) == loop["probes"][i] \in {"new", "asleep", "due"} /\ i \notin told["probes"]

\* No component is probed by two loops at once (health.py:91, "one asyncio.Task
\* per component") as long as stops do not overlap and no registration displaces
\* a task or falls into a stop: a task is forgotten only when it has been
\* cancelled (health.py register, unregister, start, stop).
ProbedByOneLoop ==
  ~overlap /\ ~replaced => \A i, j \in Loops : Probing(i) /\ Probing(j) => i = j
=============================================================================
