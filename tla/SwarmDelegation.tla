--------------------------- MODULE SwarmDelegation ---------------------------
(***************************************************************************)
(* kernel/swarm.py delegate_task and complete_delegation with their        *)
(* callers, on top of the membership and failure detection of Swarm:       *)
(* TeamManager.execute_distributed, AgentRuntime.execute and the swarm     *)
(* entry points of WorkflowEngine.  A manager runs a batch of tasks one    *)
(* after the other and awaits the injected executor for each, so batches,  *)
(* heartbeats, sweeps, departures and other callers interleave between.    *)
(***************************************************************************)
EXTENDS Swarm, FiniteSets, SequencesExt

CONSTANTS Tasks, Managers,
          StepTask,        \* a Task made for a workflow step
          Capable,         \* Capable[t]: agents with the capability t needs
          Loads,           \* values of load_score
          MaxDelegations

ASSUME DelegationAssumption ==
  /\ Capable \in [Tasks -> SUBSET Agents]
  /\ Loads \subseteq Nat /\ 0 \in Loads /\ IsFiniteSet(Tasks)
  /\ MaxDelegations \in Nat /\ StepTask \notin Tasks

VARIABLES
  load,      \* _load, 0 for an agent that never sent one
  rr,        \* _rr: the agent selected last
  deleg,     \* the delegations table: the task, who got it, for which caller, its status
  known,     \* ids in the coordinator's _delegations
  assigned,  \* task.assigned_to
  todo,      \* per manager: tasks of its batch not handled yet, the head included
  cur,       \* per manager: the delegation whose executor it awaits, 0: none
  turns      \* history: delegations per agent since the choice last changed

dvars == <<load, rr, deleg, known, assigned, todo, cur, turns>>
allVars == <<vars, dvars>>

NoTurns == [a \in Agents |-> 0]

DInit == /\ Init
         /\ load = [a \in Agents |-> 0]
         /\ rr = NoAgent
         /\ deleg = <<>>
         /\ known = {}
         /\ assigned = [t \in Tasks |-> NoAgent]
         /\ todo = [m \in Managers |-> <<>>]
         /\ cur = [m \in Managers |-> 0]
         /\ turns = NoTurns

-----------------------------------------------------------------------------
(* Choosing a member. *)

Eligible(t, from) == {a \in sw.members \cap Capable[t] :
                        a # from /\ sw.health[a] \in {"healthy", "suspected"}}

\* The sort key of delegate_task: the load, then who was selected last, then the id.
Before(a, b) ==
  \/ load[a] < load[b]
  \/ load[a] = load[b] /\ a # rr /\ b = rr
  \/ load[a] = load[b] /\ (a = rr <=> b = rr) /\ a < b

Chosen(t, from) == CHOOSE a \in Eligible(t, from) :
                     \A b \in Eligible(t, from) \ {a} : Before(a, b)

\* delegate_task for a task that needs the capability of t; raises, with nothing
\* changed, when no member is eligible.
DelegateTask(t, task, from, by, status) ==
  /\ Eligible(t, from) # {}
  /\ rr' = Chosen(t, from)
  /\ deleg' = Append(deleg, [task |-> task, to |-> Chosen(t, from), by |-> by,
                             status |-> status])
  /\ known' = known \cup {Len(deleg) + 1}
  /\ assigned' = [x \in Tasks |-> IF x = task THEN Chosen(t, from) ELSE assigned[x]]

-----------------------------------------------------------------------------
(* execute_distributed. *)

Idle(m) == todo[m] = <<>> /\ cur[m] = 0

\* Tasks of the running batches, against which MaxDelegations is reserved.
Queued == FoldFunction(LAMBDA batch, n : Len(batch) + n, 0, todo)

\* A manager is given tasks nobody else runs; they may have been assigned before.
StartBatch(m, batch) ==
  /\ sweep = {} /\ Idle(m)
  /\ Len(deleg) + Queued + Len(batch) <= MaxDelegations
  /\ \A n \in Managers : ToSet(todo[n]) \cap ToSet(batch) = {}
  /\ todo' = [todo EXCEPT ![m] = batch]
  /\ UNCHANGED <<vars, load, rr, deleg, known, assigned, cur, turns>>

\* Seeded fault: the task is delegated on behalf of the manager.
FaultForgetsAssignee(m) == NoAgent

\* from_agent: the agent the task was assigned to before, or the manager itself.
From(m) == assigned[Head(todo[m])]

\* No eligible member: the task is reported as failed and the batch goes on.
NoEligible(m) ==
  /\ sweep = {} /\ todo[m] # <<>> /\ cur[m] = 0
  /\ Eligible(Head(todo[m]), From(m)) = {}
  /\ todo' = [todo EXCEPT ![m] = Tail(@)]
  /\ UNCHANGED <<vars, load, rr, deleg, known, assigned, cur, turns>>

\* delegate_task; then the executor of the chosen agent is awaited.
Delegate(m) ==
  /\ sweep = {} /\ todo[m] # <<>> /\ cur[m] = 0
  /\ DelegateTask(Head(todo[m]), Head(todo[m]), From(m), "team", "pending")
  /\ cur' = [cur EXCEPT ![m] = Len(deleg) + 1]
  /\ turns' = IF From(m) = NoAgent THEN [turns EXCEPT ![rr'] = @ + 1] ELSE NoTurns
  /\ UNCHANGED <<vars, load, todo>>

\* The executor answers: complete_delegation.
ExecutorReturns(m) ==
  /\ sweep = {} /\ cur[m] # 0
  /\ deleg' = [deleg EXCEPT ![cur[m]].status = "completed"]
  /\ cur' = [cur EXCEPT ![m] = 0]
  /\ todo' = [todo EXCEPT ![m] = Tail(@)]
  /\ UNCHANGED <<vars, load, rr, known, assigned, turns>>

\* The executor raises out of execute_distributed: the delegation stays pending
\* and the rest of the batch is dropped.
ExecutorRaises(m) ==
  /\ sweep = {} /\ cur[m] # 0
  /\ cur' = [cur EXCEPT ![m] = 0]
  /\ todo' = [todo EXCEPT ![m] = <<>>]
  /\ UNCHANGED <<vars, load, rr, deleg, known, assigned, turns>>

-----------------------------------------------------------------------------
(* The other callers of delegate_task.  They name the agent they act for as        *)
(* from_agent, whoever the task was assigned to before.                            *)

Outside(t, task, from, by, status) ==
  /\ sweep = {} /\ Len(deleg) + Queued < MaxDelegations
  /\ DelegateTask(t, task, from, by, status)
  /\ turns' = NoTurns
  /\ UNCHANGED <<vars, load, todo, cur>>

\* WorkflowEngine.execute_step_swarm: a task made for the current step is delegated
\* and completed at once.
StepToSwarm(t, from) == Outside(t, StepTask, from, "engine", "completed")

\* WorkflowEngine.schedule_swarm: the delegation is returned and stays pending.
ScheduleSwarm(t, from) == Outside(t, t, from, "engine", "pending")

\* AgentRuntime.execute hands on a task the agent itself is not listed for and
\* completes the delegation at once.  Without an eligible member it runs the task
\* itself.  What an agent can do and what it joined the swarm with may differ, so
\* any agent may do so.
AgentDelegates(t, from) == Outside(t, t, from, "agent", "completed")

-----------------------------------------------------------------------------
(* The coordinator underneath: what delegation reads of it. *)

Coordinated ==
  /\ Coordinate /\ turns' = NoTurns
  /\ UNCHANGED <<load, rr, deleg, known, assigned, todo, cur>>

\* handle_heartbeat also stores the load score.
Beats(a, match, l) ==
  /\ Heartbeat(a, match) /\ load' = [load EXCEPT ![a] = l] /\ turns' = NoTurns
  /\ UNCHANGED <<rr, deleg, known, assigned, todo, cur>>

\* A new coordinator starts with empty dictionaries; the delegations table stays.
Restarted ==
  /\ Restart
  /\ load' = [a \in Agents |-> 0] /\ rr' = NoAgent /\ known' = {}
  /\ assigned' = [t \in Tasks |-> NoAgent]
  /\ todo' = [m \in Managers |-> <<>>] /\ cur' = [m \in Managers |-> 0]
  /\ turns' = NoTurns
  /\ UNCHANGED deleg

Batches == {b \in UNION {[1 .. n -> Tasks] : n \in 1 .. Cardinality(Tasks)} :
              \A i, j \in DOMAIN b : b[i] = b[j] => i = j}

Manage(m) == NoEligible(m) \/ Delegate(m) \/ ExecutorReturns(m) \/ ExecutorRaises(m)

DNext == \/ Coordinated \/ Restarted
         \/ \E a \in Agents, match \in BOOLEAN, l \in Loads : Beats(a, match, l)
         \/ \E t \in Tasks, a \in Agents :
              StepToSwarm(t, a) \/ ScheduleSwarm(t, a) \/ AgentDelegates(t, a)
         \/ \E m \in Managers : Manage(m) \/ \E b \in Batches : StartBatch(m, b)

DSpec == DInit /\ [][DNext]_allVars

-----------------------------------------------------------------------------
(* Properties. *)

Delegation == [task : Tasks \cup {StepTask}, to : Agents, by : {"team", "agent", "engine"},
               status : {"pending", "completed"}]

DelegationTypeOK ==
  /\ load \in [Agents -> Nat] /\ turns \in [Agents -> Nat]
  /\ rr \in Agents \cup {NoAgent} /\ assigned \in [Tasks -> Agents \cup {NoAgent}]
  /\ deleg \in Seq(Delegation) /\ known \subseteq DOMAIN deleg
  /\ todo \in [Managers -> Seq(Tasks)] /\ cur \in [Managers -> Nat]
  /\ \A m \in Managers : cur[m] # 0 => cur[m] \in DOMAIN deleg /\ todo[m] # <<>>

\* As long as the process lives, a retry by execute_distributed moves a task away
\* from the agent that got it last, whoever delegated it then and whatever other
\* tasks, heartbeats and departures came between.
RetryMovesOn ==
  \A i, j \in known :
    (/\ i < j /\ deleg[i].task = deleg[j].task /\ deleg[j].by = "team"
     /\ \A k \in i + 1 .. j - 1 : deleg[k].task # deleg[i].task)
      => deleg[i].to # deleg[j].to

\* ADR-023: delegate_task prefers the lowest load "with round-robin tie-break".  So
\* in a quiet swarm of healthy members of equal load, each able to do every task,
\* none gets two more of the fresh tasks than another.
RoundRobinIsFair ==
  (\A a \in sw.members : /\ load[a] = 0 /\ sw.health[a] = "healthy"
                         /\ \A t \in Tasks : a \in Capable[t])
    => \A a, b \in sw.members : turns[a] <= turns[b] + 1
==============================================================================
