--------------------------- MODULE HealthRecovery ---------------------------
(***************************************************************************)
(* Health monitoring and recovery of one component (kernel/health.py,      *)
(* ADR-021): HealthMonitor probes it, RecoveryEngine reacts to             *)
(* AgentUnhealthy events, and an agent is restarted through AgentRuntime   *)
(* (kernel/agent.py), whose stop() and start() unregister it from the      *)
(* monitor and register it anew.                                           *)
(*                                                                         *)
(* Interleaving points are the awaits: a probe in flight (of a probe loop  *)
(* or of check_now), and agent.stop() / agent.start() inside a recovery.   *)
(* The bus runs one dispatch task per event, so recoveries may overlap;    *)
(* each member of Handlers is one such task.  Registrations are numbered;  *)
(* probe loop g is the task created with registration g.                   *)
(***************************************************************************)
EXTENDS Naturals, FiniteSets

CONSTANTS Handlers,          \* concurrent dispatches of AgentUnhealthy
          Checkers,          \* concurrent check_now() callers
          Kinds,             \* component_types: "agent", "workflow"
          ProbeFailures,     \* HealthCheck.failure_threshold
          ProbeSuccesses,    \* HealthCheck.success_threshold
          MaxRestarts,       \* RecoveryEngine max_restarts
          MaxRegs,           \* bound on registrations
          MaxEvents          \* bound on undelivered AgentUnhealthy events

ASSUME HealthAssumption ==
  /\ Kinds \subseteq {"agent", "workflow"}
  /\ ProbeFailures \in Nat \ {0} /\ ProbeSuccesses \in Nat \ {0}
  /\ MaxRestarts \in Nat /\ MaxRegs \in Nat \ {0} /\ MaxEvents \in Nat \ {0}

VARIABLES ctype,    \* component_type of the component
          reg,      \* the registration in self._registry, 0 when none
          regs,     \* registrations made so far
          rec,      \* rec[g]: HealthRecord of registration g
          loops,    \* probe loops alive
          held,     \* held[p]: registration prober p awaits a probe of, 0 none
          present,  \* the agent is in AgentRuntime._agents
          events,   \* published AgentUnhealthy events not yet handled
          hpc,      \* hpc[h]: "idle", "stop" or "start" (awaiting the agent)
          saved,    \* saved[h]: the restart count h read, 0 when idle
          count,    \* _restart_counts of the component
          done,     \* history: restarts carried out
          overlapped, \* history: two recoveries have been under way at once
          parked,   \* the dead-letter queue has an entry of the component
          dead      \* the component has broken for good

healthVars == <<ctype, reg, regs, rec, loops, held, present, events, hpc, saved, count,
                done, overlapped, parked, dead>>

Regs == 1 .. MaxRegs
Probers == Regs \cup Checkers
NewRecord == [status |-> "UNKNOWN", failures |-> 0, successes |-> 0]

HealthInit == /\ ctype \in Kinds
              /\ reg = 1 /\ regs = 1
              /\ rec = [g \in Regs |-> NewRecord]
              /\ loops = {1}
              /\ held = [p \in Probers |-> 0]
              /\ present = TRUE
              /\ events = 0
              /\ hpc = [h \in Handlers |-> "idle"]
              /\ saved = [h \in Handlers |-> 0]
              /\ count = 0 /\ done = 0
              /\ overlapped = FALSE
              /\ parked = FALSE
              /\ dead = FALSE

-----------------------------------------------------------------------------
(* HealthMonitor. *)

Saturated(n, max) == IF n < max THEN n + 1 ELSE n

\* _apply_result on the record (the counters are compared with their
\* thresholds only, so they saturate there).
ApplyResult(r, healthy) ==
  IF healthy
  THEN LET n == Saturated(r.successes, ProbeSuccesses)
       IN [status |-> IF n >= ProbeSuccesses THEN "HEALTHY" ELSE r.status,
           failures |-> 0, successes |-> n]
  ELSE LET n == Saturated(r.failures, ProbeFailures)
       IN [status |-> IF n >= ProbeFailures THEN "UNHEALTHY"
                      ELSE IF r.status \in {"HEALTHY", "UNKNOWN"} THEN "DEGRADED"
                      ELSE r.status,
           failures |-> n, successes |-> 0]

\* Seeded fault: the event is sent only the first time.
FaultSignalsFirstOnly(before, after) ==
  IF after.status = "UNHEALTHY" /\ before.status = "DEGRADED" /\ regs = 1 THEN 1 ELSE 0

\* _emit_transition: AgentUnhealthy events of one transition (the
\* AgentRecovered ones change nothing here).
Unhealthy(before, after) ==
  IF after.status = "UNHEALTHY" /\ before.status # "UNHEALTHY" THEN 1 ELSE 0

\* The records of the registrations somebody still refers to: the registry or a
\* probe under way.  The others are garbage.
Kept(records, now, holders) ==
  [g \in Regs |-> IF g = now \/ \E p \in Probers : holders[p] = g
                  THEN records[g] ELSE NewRecord]

\* A probe loop wakes up and probes the registration that is current now.
LoopProbes(g) ==
  /\ g \in loops /\ held[g] = 0 /\ reg # 0
  /\ held' = [held EXCEPT ![g] = reg]
  /\ UNCHANGED <<ctype, reg, regs, rec, loops, present, events, hpc, saved,
                 count, done, parked, dead, overlapped>>

\* A probe loop wakes up and finds no registration.
LoopEnds(g) ==
  /\ g \in loops /\ held[g] = 0 /\ reg = 0
  /\ loops' = loops \ {g}
  /\ UNCHANGED <<ctype, reg, regs, rec, held, present, events, hpc, saved,
                 count, done, parked, dead, overlapped>>

\* check_now.
CheckNow(c) ==
  /\ held[c] = 0 /\ reg # 0
  /\ held' = [held EXCEPT ![c] = reg]
  /\ UNCHANGED <<ctype, reg, regs, rec, loops, present, events, hpc, saved,
                 count, done, parked, dead, overlapped>>

\* The probe of p ends; an absent or broken component never answers.
ProbeEnds(p, healthy) ==
  /\ held[p] # 0
  /\ healthy => present /\ ~dead
  /\ LET after == ApplyResult(rec[held[p]], healthy)
     IN /\ events' = events + Unhealthy(rec[held[p]], after)
        /\ events' <= MaxEvents
        /\ held' = [held EXCEPT ![p] = 0]
        /\ rec' = Kept([rec EXCEPT ![held[p]] = after], reg, held')
  /\ UNCHANGED <<ctype, reg, regs, loops, present, hpc, saved, count,
                 done, parked, dead, overlapped>>

-----------------------------------------------------------------------------
(* RecoveryEngine.on_unhealthy. *)

\* max_restarts reached: _escalate.
HandleEscalate(h) ==
  /\ hpc[h] = "idle" /\ events > 0
  /\ count >= MaxRestarts
  /\ events' = events - 1
  /\ parked' = TRUE
  /\ UNCHANGED <<ctype, reg, regs, rec, loops, held, present, hpc,
                 saved, count, done, dead, overlapped>>

\* Seeded fault: a workflow the engine does not know is not dead-lettered.
FaultForgetsUnknown(h) ==
  /\ hpc[h] = "idle" /\ events > 0
  /\ count < MaxRestarts /\ ctype = "workflow"
  /\ events' = events - 1
  /\ \/ parked' = TRUE /\ count' = count + 1
     \/ UNCHANGED <<parked, count>>
  /\ UNCHANGED <<ctype, reg, regs, rec, loops, held, present, hpc,
                 saved, done, dead, overlapped>>

\* A stalled workflow is dead-lettered, which counts as a recovery; an unknown
\* one is escalated.
HandleWorkflow(h) ==
  /\ hpc[h] = "idle" /\ events > 0
  /\ count < MaxRestarts /\ ctype = "workflow"
  /\ events' = events - 1
  /\ parked' = TRUE
  /\ count' \in {count, count + 1}
  /\ UNCHANGED <<ctype, reg, regs, rec, loops, held, present, hpc,
                 saved, done, dead, overlapped>>

\* _restart_agent: the agent is not running, so the restart fails.
HandleMissing(h) ==
  /\ hpc[h] = "idle" /\ events > 0
  /\ count < MaxRestarts /\ ctype = "agent" /\ ~present
  /\ events' = events - 1
  /\ parked' = TRUE
  /\ UNCHANGED <<ctype, reg, regs, rec, loops, held, present, hpc,
                 saved, count, done, dead, overlapped>>

\* Seeded fault: the bound is off by one.
FaultOneMore(h) ==
  /\ hpc[h] = "idle" /\ events > 0
  /\ count <= MaxRestarts /\ ctype = "agent" /\ present
  /\ events' = events - 1
  /\ hpc' = [hpc EXCEPT ![h] = "stop"]
  /\ saved' = [saved EXCEPT ![h] = count]
  /\ overlapped' = (overlapped \/ \E x \in Handlers \ {h} : hpc[x] # "idle")
  /\ UNCHANGED <<ctype, reg, regs, rec, loops, held, present, count, done, parked, dead>>

\* _restart_agent: agent.stop() is awaited.
HandleRestart(h) ==
  /\ hpc[h] = "idle" /\ events > 0
  /\ count < MaxRestarts /\ ctype = "agent" /\ present
  /\ events' = events - 1
  /\ hpc' = [hpc EXCEPT ![h] = "stop"]
  /\ saved' = [saved EXCEPT ![h] = count]
  /\ overlapped' = (overlapped \/ \E x \in Handlers \ {h} : hpc[x] # "idle")
  /\ UNCHANGED <<ctype, reg, regs, rec, loops, held, present, count, done, parked, dead>>

\* agent.stop() has returned: AgentRuntime drops the agent and unregisters
\* it, which cancels the loop of the current registration, also in the middle
\* of a probe.  Then agent.start() is awaited.
AgentStopped(h) ==
  /\ hpc[h] = "stop"
  /\ present' = FALSE
  /\ reg' = 0
  /\ loops' = loops \ {reg}
  /\ held' = [p \in Probers |-> IF p = reg THEN 0 ELSE held[p]]
  /\ rec' = Kept(rec, 0, held')
  /\ hpc' = [hpc EXCEPT ![h] = "start"]
  /\ UNCHANGED <<ctype, regs, events, saved, count, done, parked, dead, overlapped>>

\* agent.start() has returned: the agent is present and registered, with a
\* new record and a new loop; a registration that is there is overwritten, its
\* loop left alone.  The restart count becomes the one read before, plus one.
AgentStarted(h) ==
  /\ hpc[h] = "start"
  /\ regs < MaxRegs
  /\ present' = TRUE
  /\ regs' = regs + 1
  /\ reg' = regs + 1
  /\ loops' = loops \cup {regs + 1}
  /\ hpc' = [hpc EXCEPT ![h] = "idle"]
  /\ rec' = Kept(rec, reg', held)
  /\ count' = saved[h] + 1
  /\ saved' = [saved EXCEPT ![h] = 0]
  /\ done' = done + 1
  /\ UNCHANGED <<ctype, held, events, parked, dead, overlapped>>

\* agent.stop() or agent.start() raises: the restart has failed, escalate.
RestartFails(h) ==
  /\ hpc[h] \in {"stop", "start"}
  /\ hpc' = [hpc EXCEPT ![h] = "idle"]
  /\ saved' = [saved EXCEPT ![h] = 0]
  /\ parked' = TRUE
  /\ UNCHANGED <<ctype, reg, regs, rec, loops, held, present, events,
                 count, done, dead, overlapped>>

\* The environment: the component breaks for good.
Breaks == ~dead /\ dead' = TRUE
          /\ UNCHANGED <<ctype, reg, regs, rec, loops, held, present, events, hpc,
                         saved, count, done, parked, overlapped>>

Monitor == \/ \E g \in Regs : LoopProbes(g) \/ LoopEnds(g)
           \/ \E c \in Checkers : CheckNow(c)
           \/ \E p \in Probers, ok \in BOOLEAN : ProbeEnds(p, ok)

Recover(h) == \/ HandleEscalate(h) \/ HandleWorkflow(h) \/ HandleMissing(h)
              \/ HandleRestart(h) \/ AgentStopped(h) \/ AgentStarted(h)
              \/ RestartFails(h)

HealthNext == Monitor \/ (\E h \in Handlers : Recover(h)) \/ Breaks

HealthSpec == HealthInit /\ [][HealthNext]_healthVars

\* Probe loops wake up, probes end (at the latest by their timeout), events
\* are dispatched and agents answer stop() and start().
HealthFairness == /\ \A g \in Regs : WF_healthVars(LoopProbes(g) \/ LoopEnds(g))
                  /\ \A p \in Probers : WF_healthVars(\E ok \in BOOLEAN : ProbeEnds(p, ok))
                  /\ \A h \in Handlers : WF_healthVars(Recover(h))

HealthFairSpec == HealthSpec /\ HealthFairness

-----------------------------------------------------------------------------
HealthRecord == [status : {"UNKNOWN", "HEALTHY", "DEGRADED", "UNHEALTHY"},
                 failures : 0 .. ProbeFailures, successes : 0 .. ProbeSuccesses]

HealthTypeOK ==
  /\ ctype \in Kinds
  /\ reg \in 0 .. MaxRegs /\ regs \in Regs
  /\ rec \in [Regs -> HealthRecord]
  /\ loops \subseteq Regs /\ held \in [Probers -> 0 .. MaxRegs]
  /\ events \in 0 .. MaxEvents
  /\ hpc \in [Handlers -> {"idle", "stop", "start"}] /\ saved \in [Handlers -> Nat]
  /\ count \in Nat /\ done \in Nat
  /\ present \in BOOLEAN /\ overlapped \in BOOLEAN /\ parked \in BOOLEAN /\ dead \in BOOLEAN

-----------------------------------------------------------------------------
(* Properties. *)

\* An UNHEALTHY component is never forgotten, however recoveries overlap: an
\* event or a recovery is under way, or its work is in the dead-letter queue.
\* (The monitor signals a transition only, so a lost one is never repeated.)
UnhealthyIsHandled ==
  reg # 0 /\ rec[reg].status = "UNHEALTHY" =>
    events > 0 \/ parked \/ \E h \in Handlers : hpc[h] # "idle"

\* RecoveryEngine: "Restart is bounded by ``max_restarts`` per component".  This
\* holds as long as no two recoveries of the component have overlapped.
RestartsBounded == ~overlapped => done <= MaxRestarts

\* A component that has broken for good ends up in the dead-letter queue:
\* restarts run out and the escalation happens.
BrokenIsEscalated == dead ~> parked
=============================================================================
