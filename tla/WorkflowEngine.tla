--------------------------- MODULE WorkflowEngine ---------------------------
(***************************************************************************)
(* One WorkflowInstance driven by WorkflowEngine (kernel/workflow.py),     *)
(* with the retry loop of the planner (kernel/dynamic_planner.py) that     *)
(* execute_adaptive hands it to, and the breach handling of the sandbox    *)
(* (kernel/sandbox.py).                                                    *)
(*                                                                         *)
(* A driver is a coroutine that calls execute_step: the linear loop of     *)
(* execute_adaptive or of approve ("loop"), the planner ("plan") or a      *)
(* client that runs a single step ("step").  Drivers share the instance    *)
(* and suspend only where the code really waits: in the body of a step or  *)
(* of a compensation, in the vault, in the LLM and in a backoff sleep.     *)
(* There it may be cancelled.  The event journal and the dead-letter       *)
(* queues never suspend.  A driver whose pc is in Holding has the event    *)
(* loop: no other driver moves until it suspends.                          *)
(***************************************************************************)
EXTENDS Naturals, Sequences, SequencesExt, FiniteSets

CONSTANTS Drivers,       \* coroutines that may drive the instance
          StepSeq,       \* workflow.steps: distinct step ids in list order
          Comp,          \* Comp[s]: step.compensation, NoStep if None
          NeedsApproval, \* steps with requires_approval
          MaxAttempts,   \* MaxAttempts[s]: step.retry_policy.max_attempts
          McpSteps,      \* "mcp:*" steps
          Guarded,       \* plugin-backed steps, run under CapabilityGuard
          Vaulted,       \* steps with ${secrets.X} or ${config.Y} in their inputs
          Wirings,       \* what an engine may be wired with
          Modes,         \* the kinds of driver the instance is given
          LlmPlans,      \* sizes of the plans an LLM returns
          RetryBudget,   \* PlanStep.retry_budget (3 in the code)
          MaxCalls,      \* bound on drivers started
          NoStep

Steps == ToSet(StepSeq)

ASSUME WorkflowAssumption ==
  /\ StepSeq \in Seq(Steps) /\ Len(StepSeq) > 0
  /\ \A i, j \in 1 .. Len(StepSeq) : StepSeq[i] = StepSeq[j] => i = j
  /\ NoStep \notin Steps
  /\ Comp \in [Steps -> Steps \cup {NoStep}]
  /\ NeedsApproval \subseteq Steps /\ McpSteps \subseteq Steps
  /\ Guarded \subseteq Steps /\ Vaulted \subseteq Steps
  /\ MaxAttempts \in [Steps -> Nat \ {0}]
  /\ Wirings \subseteq [sandbox : BOOLEAN, mcp : BOOLEAN, llm : BOOLEAN]
  /\ Modes \subseteq {"loop", "plan", "step"}
  /\ LlmPlans \subseteq Nat \ {0} /\ RetryBudget \in Nat /\ MaxCalls \in Nat

VARIABLES status,    \* instance.status
          current,   \* instance.current_step_id
          attempts,  \* instance.step_attempts
          results,   \* keys of instance.step_results
          dlq,       \* ids in the dead-letter queue of kernel/health.py
          resDlq,    \* steps in the dead-letter queue of kernel/resilience.py
          wired,     \* whether a Sandbox, an McpGateway, an LLM are wired
          pc,        \* where each driver is
          mode,      \* the kind of each driver
          step,      \* the step a driver executes
          att,       \* its attempt number
          plan,      \* the position of a planner driver in its plan
          todo,      \* what compensate() still goes through, head running
          after,     \* what a driver does after its compensations
          calls,     \* drivers started so far
          approved,  \* history: <<s, t>>, an approval that named t found the
                     \* instance paused at s
          undone,    \* history: compensations started
          dropped    \* history: <<l, s>>, a driver at l was ended by an exception
                     \* that left execute_step, with the instance at s

inst == <<status, current, attempts, results>>
queues == <<dlq, resDlq>>
history == <<wired, calls, approved, undone, dropped>>
vars == <<status, current, attempts, results, dlq, resDlq, pc, mode, step, att,
          plan, todo, after, wired, calls, approved, undone, dropped>>

Holding == {"enter", "ready", "ok", "err", "gate"}
Waiting == {"vault", "body", "sleep", "comp", "nap", "llm"}
NoPlan == [left |-> 0, budget |-> 0, extra |-> 0]

\* d may run: no other driver holds the event loop.
Turn(d) == \A e \in Drivers \ {d} : pc[e] \notin Holding

CompOf(s) == IF s = NoStep THEN NoStep ELSE Comp[s]
Index(s) == CHOOSE i \in 1 .. Len(StepSeq) : StepSeq[i] = s

Init == /\ status = "RUNNING"
        /\ current = StepSeq[1]
        /\ attempts = [s \in Steps |-> 0]
        /\ results = {}
        /\ dlq = {} /\ resDlq = {}
        /\ wired \in Wirings
        /\ pc = [d \in Drivers |-> "idle"]
        /\ mode = [d \in Drivers |-> "step"]
        /\ step = [d \in Drivers |-> NoStep]
        /\ att = [d \in Drivers |-> 0]
        /\ plan = [d \in Drivers |-> NoPlan]
        /\ todo = [d \in Drivers |-> <<>>]
        /\ after = [d \in Drivers |-> "idle"]
        /\ calls = 0
        /\ approved = {} /\ undone = {} /\ dropped = {}

Goto(d, l) == pc' = [pc EXCEPT ![d] = l]

\* An exception nobody catches ends d where it waits; the instance stays as it is.
Drop(d) ==
  /\ Goto(d, "idle")
  /\ dropped' = dropped \cup {<<pc[d], current>>}
  /\ todo' = [todo EXCEPT ![d] = <<>>]
  /\ UNCHANGED <<inst, queues, mode, step, att, plan, after, wired, calls, approved, undone>>

\* The task of d is cancelled: no handler of the engine, of the planner or of the
\* sandbox catches a CancelledError.
Cancelled(d) == pc[d] \in Waiting /\ Turn(d) /\ Drop(d)

-----------------------------------------------------------------------------
(* Compensation. *)

\* What compensate(f) goes through: the compensations of the steps before f,
\* latest first, then the one of f, with NoStep where a step declares none.
Rollback(f) ==
  [i \in 1 .. Index(f) |-> Comp[StepSeq[IF i < Index(f) THEN Index(f) - i ELSE i]]]

\* The entries from the first compensation on: the others are passed over.
Due(list) == SubSeq(list, SelectInSeq(list, LAMBDA c : c # NoStep), Len(list))

\* Seeded fault: range(idx - 1, 0, -1) misses the first step.
FaultMissesFirst(f) == Due([Rollback(f) EXCEPT ![Index(f) - 1] = NoStep])

\* What compensate(f) has before it when its first compensation starts.
Compensations(f) == Due(Rollback(f))

\* compensate(f), called by d, which goes on with `next` afterwards.
Compensate(d, f, next) ==
  /\ status' = "COMPENSATING"
  /\ todo' = [todo EXCEPT ![d] = Compensations(f)]
  /\ after' = [after EXCEPT ![d] = next]
  /\ undone' = undone \cup {Head(Compensations(f))}
  /\ Goto(d, "comp")

\* Seeded fault: the final status is not set.
FaultStaysCompensating(d) ==
  IF Len(todo[d]) > 1
  THEN /\ todo' = [todo EXCEPT ![d] = Due(Tail(@))]
       /\ undone' = undone \cup {Head(Due(Tail(todo[d])))}
       /\ UNCHANGED <<status, pc>>
  ELSE /\ todo' = [todo EXCEPT ![d] = <<>>]
       /\ Goto(d, after[d])
       /\ UNCHANGED <<status, undone>>

\* The next compensation, or the end of compensate().
NextCompensation(d) ==
  IF Len(todo[d]) > 1
  THEN /\ todo' = [todo EXCEPT ![d] = Due(Tail(@))]
       /\ undone' = undone \cup {Head(Due(Tail(todo[d])))}
       /\ UNCHANGED <<status, pc>>
  ELSE /\ todo' = [todo EXCEPT ![d] = <<>>]
       /\ status' = "FAILED"
       /\ Goto(d, after[d])
       /\ UNCHANGED undone

\* _run_compensation: the compensation succeeds ...
CompensationOk(d) ==
  /\ pc[d] = "comp" /\ Turn(d)
  /\ results' = results \cup {Head(todo[d])}
  /\ NextCompensation(d)
  /\ UNCHANGED <<current, attempts, queues, mode, step, att, plan, after, wired,
                 calls, approved, dropped>>

\* ... or raises, which is logged only.
CompensationFails(d) ==
  /\ pc[d] = "comp" /\ Turn(d)
  /\ NextCompensation(d)
  /\ UNCHANGED <<current, attempts, results, queues, mode, step, att, plan, after,
                 wired, calls, approved, dropped>>

-----------------------------------------------------------------------------
(* execute_step up to its first suspension. *)

\* No current step: the workflow is complete.
EnterCompleted(d) ==
  /\ pc[d] = "enter"
  /\ current = NoStep
  /\ status' = "COMPLETED"
  /\ Goto(d, "ok")
  /\ UNCHANGED <<current, attempts, results, queues, mode, step, att, plan, todo, after,
                 history>>

CountAttempt(d) ==
  /\ attempts' = [attempts EXCEPT ![current] = @ + 1]
  /\ step' = [step EXCEPT ![d] = current]
  /\ att' = [att EXCEPT ![d] = attempts[current] + 1]

\* Seeded fault: the gate is taken for granted.
FaultNoGate(s) == FALSE

AtGate(s) == s \in NeedsApproval /\ attempts[s] = 0

\* The human-approval gate.
EnterGate(d) ==
  /\ pc[d] = "enter"
  /\ current # NoStep /\ AtGate(current)
  /\ CountAttempt(d)
  /\ status' = "PAUSED"
  /\ Goto(d, "gate")
  /\ UNCHANGED <<current, results, queues, mode, plan, todo, after, history>>

\* The attempt starts; a vault resolves the tokens of the inputs.
EnterStep(d) ==
  /\ pc[d] = "enter"
  /\ current # NoStep /\ ~AtGate(current)
  /\ CountAttempt(d)
  /\ Goto(d, IF current \in Vaulted THEN "vault" ELSE "ready")
  /\ UNCHANGED <<status, current, results, queues, mode, plan, todo, after, history>>

\* _interpolate_value returns ...
VaultOk(d) ==
  /\ pc[d] = "vault" /\ Turn(d)
  /\ Goto(d, "ready")
  /\ UNCHANGED <<inst, queues, mode, step, att, plan, todo, after, history>>

\* ... or raises (no such secret, no cipher), outside the try of execute_step.
VaultFails(d) == pc[d] = "vault" /\ Turn(d) /\ Drop(d)

Unwired(s) == s \in McpSteps /\ ~wired.mcp

FailStep(d) ==
  /\ status' = "FAILED"
  /\ Goto(d, "err")
  /\ UNCHANGED <<current, attempts, results, queues, mode, step, att, plan, todo, after,
                 history>>

\* An "mcp:*" step without a gateway.
StepUnwired(d) == pc[d] = "ready" /\ Unwired(step[d]) /\ FailStep(d)

\* The guard refuses: PermissionDeniedError or ResourceLimitExceededError,
\* both raised before the body runs.
StepDenied(d) ==
  pc[d] = "ready" /\ ~Unwired(step[d]) /\ step[d] \in Guarded /\ FailStep(d)

\* The body of the step starts.
StepBody(d) ==
  /\ pc[d] = "ready" /\ ~Unwired(step[d])
  /\ Goto(d, "body")
  /\ UNCHANGED <<inst, queues, mode, step, att, plan, todo, after, history>>

-----------------------------------------------------------------------------
(* execute_step from the end of the body. *)

UnderSandbox(s) == wired.sandbox /\ s \notin Guarded

\* Seeded fault: the step after next.
FaultAdvanceTwo(s) ==
  IF Index(s) + 1 < Len(StepSeq) THEN StepSeq[Index(s) + 2] ELSE NoStep

\* _advance.
Following(s) == IF Index(s) < Len(StepSeq) THEN StepSeq[Index(s) + 1] ELSE NoStep

\* The body returns (and, under a sandbox, the resource check is clean).
\* _advance moves on from the instance's current step, whatever it is now.
BodyOk(d) ==
  /\ pc[d] = "body" /\ Turn(d)
  /\ results' = results \cup {step[d]}
  /\ current' = IF current = NoStep THEN NoStep ELSE Following(current)
  /\ status' = IF current' = NoStep THEN "COMPLETED" ELSE status
  /\ Goto(d, "ok")
  /\ UNCHANGED <<attempts, queues, mode, step, att, plan, todo, after, history>>

\* The body raises and attempts are left: back off.
BodyRetry(d) ==
  /\ pc[d] = "body" /\ Turn(d)
  /\ ~UnderSandbox(step[d])
  /\ att[d] < MaxAttempts[step[d]]
  /\ Goto(d, "sleep")
  /\ UNCHANGED <<inst, queues, mode, step, att, plan, todo, after, history>>

\* asyncio.sleep ends; execute_step calls itself, on the then current step.
RetryWakes(d) ==
  /\ pc[d] = "sleep" /\ Turn(d)
  /\ Goto(d, "enter")
  /\ UNCHANGED <<inst, queues, mode, step, att, plan, todo, after, history>>

\* Both dead-letter queues get the step.
Park(d) == /\ dlq' = dlq \cup {<<step[d], att[d]>>}
           /\ resDlq' = resDlq \cup {step[d]}

\* The body raises for the last time.
BodyExhausted(d) ==
  /\ pc[d] = "body" /\ Turn(d)
  /\ ~UnderSandbox(step[d])
  /\ att[d] >= MaxAttempts[step[d]]
  /\ Park(d)
  /\ \/ /\ Comp[step[d]] # NoStep
        /\ Compensate(d, step[d], "err")
     \/ /\ Comp[step[d]] = NoStep
        /\ status' = "FAILED"
        /\ Goto(d, "err")
        /\ UNCHANGED <<todo, after, undone>>
  /\ UNCHANGED <<current, attempts, results, mode, step, att, plan,
                 wired, calls, approved, dropped>>

\* Sandbox.run ends in a breach: timeout, resource limit, or any exception of
\* the body.  _compensate_on_breach compensates the current step, then the
\* SandboxError leaves execute_step and everything that called it.
BodyBreach(d) ==
  /\ pc[d] = "body" /\ Turn(d)
  /\ UnderSandbox(step[d])
  /\ \/ /\ CompOf(current) # NoStep
        /\ Compensate(d, current, "idle")
        /\ UNCHANGED <<current, attempts, results, queues, mode, step, att, plan,
                       wired, calls, approved, dropped>>
     \/ /\ CompOf(current) = NoStep
        /\ Drop(d)

-----------------------------------------------------------------------------
(* The callers of execute_step. *)

\* create_plan, of a step for each one of the workflow.
NewPlan == [left |-> Len(StepSeq), budget |-> RetryBudget, extra |-> 0]

\* A driver is started: execute_adaptive (loop or plan) or execute_step.
Start(d, m) ==
  /\ pc[d] = "idle" /\ Turn(d)
  /\ m \in Modes
  /\ m = "loop" => status = "RUNNING" /\ current # NoStep
  /\ calls < MaxCalls
  /\ calls' = calls + 1
  /\ mode' = [mode EXCEPT ![d] = m]
  /\ plan' = [plan EXCEPT ![d] = IF m = "plan" THEN NewPlan ELSE NoPlan]
  /\ Goto(d, "enter")
  /\ UNCHANGED <<inst, queues, step, att, todo, after, wired, approved, undone, dropped>>

\* approve(..., t, approved=True): the instance runs again, in a loop, at the step
\* where it was paused, whatever step t the caller names.
Approve(d, t) ==
  /\ pc[d] = "idle" /\ Turn(d)
  /\ status = "PAUSED"
  /\ status' = "RUNNING"
  /\ approved' = approved \cup {<<current, t>>}
  /\ mode' = [mode EXCEPT ![d] = "loop"]
  /\ Goto(d, IF current = NoStep THEN "idle" ELSE "enter")
  /\ UNCHANGED <<current, attempts, results, queues, step, att, plan, todo, after,
                 wired, calls, undone, dropped>>

\* approve(..., approved=False) for step s.
RejectStep(d, s) ==
  /\ pc[d] = "idle" /\ Turn(d)
  /\ status = "PAUSED"
  /\ \/ /\ Comp[s] # NoStep
        /\ Compensate(d, s, "idle")
     \/ /\ Comp[s] = NoStep
        /\ status' = "FAILED"
        /\ UNCHANGED <<pc, todo, after, undone>>
  /\ UNCHANGED <<current, attempts, results, queues, mode, step, att, plan,
                 wired, calls, approved, dropped>>

\* execute_step returns to a client.
ReturnStep(d) ==
  /\ pc[d] \in {"ok", "err", "gate"} /\ mode[d] = "step"
  /\ Goto(d, "idle")
  /\ UNCHANGED <<inst, queues, mode, step, att, plan, todo, after, history>>

\* Seeded fault: the loop is only an if.
FaultLoopRunsOnce(d) ==
  /\ pc[d] \in {"ok", "err", "gate"} /\ mode[d] = "loop"
  /\ Goto(d, "idle")
  /\ UNCHANGED <<inst, queues, mode, step, att, plan, todo, after, history>>

\* ... to the linear loop.
ReturnLoop(d) ==
  /\ pc[d] \in {"ok", "err", "gate"} /\ mode[d] = "loop"
  /\ Goto(d, IF status = "RUNNING" /\ current # NoStep THEN "enter" ELSE "idle")
  /\ UNCHANGED <<inst, queues, mode, step, att, plan, todo, after, history>>

\* The planner goes to its next plan step, or ends.
NextPlanStep(d) ==
  /\ plan' = [plan EXCEPT ![d] = [left |-> @.left - 1, budget |-> RetryBudget, extra |-> 0]]
  /\ Goto(d, IF plan[d].left > 1 THEN "enter" ELSE "idle")

\* ... to _execute_step_with_retry with a success.
PlanSuccess(d) ==
  /\ pc[d] = "ok" /\ mode[d] = "plan" /\ plan[d].extra = 0
  /\ NextPlanStep(d)
  /\ UNCHANGED <<inst, queues, mode, step, att, todo, after, history>>

\* ... with a failure ("error") or a cancellation ("approval_required") and
\* budget left: the planner backs off and tries again.
PlanBackoff(d) ==
  /\ pc[d] \in {"err", "gate"} /\ mode[d] = "plan" /\ plan[d].extra = 0
  /\ plan[d].budget > 0
  /\ plan' = [plan EXCEPT ![d].budget = @ - 1]
  /\ Goto(d, "nap")
  /\ UNCHANGED <<inst, queues, mode, step, att, todo, after, history>>

\* Seeded fault: the planner's backoff never ends.
FaultPlanNeverWakes(d) == pc[d] = "nap" /\ UNCHANGED vars

\* The planner's backoff ends.
PlanWakes(d) ==
  /\ pc[d] = "nap" /\ Turn(d)
  /\ Goto(d, "enter")
  /\ UNCHANGED <<inst, queues, mode, step, att, plan, todo, after, history>>

\* The plan to go on with has n steps.
Adapt(d, n) ==
  /\ plan' = [plan EXCEPT ![d].extra = n]
  /\ Goto(d, "enter")

\* What _replan_rule_based makes of a failed step: it is split in two.
RulePlan == Len(StepSeq) + 1

\* ... with its budget used up: replan, by the rules or by the LLM if one is wired.
\* The executor is called once for each step of the adapted plan (the outcomes carry
\* the old plan id, so none counts as already succeeded).
PlanReplan(d) ==
  /\ pc[d] \in {"err", "gate"} /\ mode[d] = "plan" /\ plan[d].extra = 0
  /\ plan[d].budget = 0
  /\ \/ ~wired.llm /\ Adapt(d, RulePlan)
     \/ wired.llm /\ Goto(d, "llm") /\ UNCHANGED plan
  /\ UNCHANGED <<inst, queues, mode, step, att, todo, after, history>>

\* The LLM returns a plan, or nothing usable: then the rules apply.
LlmReplies(d) ==
  /\ pc[d] = "llm" /\ Turn(d)
  /\ \E n \in LlmPlans \cup {RulePlan} : Adapt(d, n)
  /\ UNCHANGED <<inst, queues, mode, step, att, todo, after, history>>

\* ... or a plan with a dependency cycle: _toposort raises, and nobody catches it.
LlmCycle(d) == pc[d] = "llm" /\ Turn(d) /\ Drop(d)

\* A step of the adapted plan returns; failures are passed over.
PlanAdapted(d) ==
  /\ pc[d] \in {"ok", "err", "gate"} /\ mode[d] = "plan" /\ plan[d].extra > 0
  /\ \/ /\ plan[d].extra > 1
        /\ plan' = [plan EXCEPT ![d].extra = @ - 1]
        /\ Goto(d, "enter")
     \/ /\ plan[d].extra = 1
        /\ NextPlanStep(d)
  /\ UNCHANGED <<inst, queues, mode, step, att, todo, after, history>>

-----------------------------------------------------------------------------
Execute(d) == \/ EnterCompleted(d) \/ EnterGate(d) \/ EnterStep(d)
              \/ VaultOk(d) \/ VaultFails(d)
              \/ StepUnwired(d) \/ StepDenied(d) \/ StepBody(d)
              \/ BodyOk(d) \/ BodyRetry(d) \/ RetryWakes(d) \/ BodyExhausted(d)
              \/ BodyBreach(d) \/ CompensationOk(d) \/ CompensationFails(d)

Return(d) == \/ ReturnStep(d) \/ ReturnLoop(d)
             \/ PlanSuccess(d) \/ PlanBackoff(d) \/ PlanWakes(d)
             \/ PlanReplan(d) \/ LlmReplies(d) \/ LlmCycle(d) \/ PlanAdapted(d)

Next == \E d \in Drivers :
          \/ \E m \in {"loop", "plan", "step"} : Start(d, m)
          \/ \E s \in Steps : Approve(d, s) \/ RejectStep(d, s)
          \/ Execute(d)
          \/ Return(d)
          \/ Cancelled(d)

Spec == Init /\ [][Next]_vars

\* Bodies and sleeps end, and the event loop resumes what is ready.  Nobody
\* has to start a driver, to cancel one or to decide on an approval.
Fairness == \A d \in Drivers : WF_vars(Execute(d) \/ Return(d))

FairSpec == Spec /\ Fairness

-----------------------------------------------------------------------------
Status == {"RUNNING", "PAUSED", "COMPENSATING", "FAILED", "COMPLETED"}
Place == Holding \cup Waiting \cup {"idle"}
PlanState == [left : Nat, budget : Nat, extra : Nat]

WorkflowTypeOK ==
  /\ status \in Status /\ current \in Steps \cup {NoStep}
  /\ attempts \in [Steps -> Nat] /\ results \subseteq Steps
  /\ dlq \subseteq Steps \X Nat /\ resDlq \subseteq Steps
  /\ wired \in Wirings
  /\ pc \in [Drivers -> Place] /\ mode \in [Drivers -> {"loop", "plan", "step"}]
  /\ step \in [Drivers -> Steps \cup {NoStep}] /\ att \in [Drivers -> Nat]
  /\ plan \in [Drivers -> PlanState]
  /\ todo \in [Drivers -> Seq(Steps \cup {NoStep})]
  /\ after \in [Drivers -> {"idle", "err"}]
  /\ calls \in Nat /\ undone \subseteq Steps
  /\ approved \subseteq (Steps \cup {NoStep}) \X Steps
  /\ dropped \subseteq Place \X (Steps \cup {NoStep})

-----------------------------------------------------------------------------
(* Properties. *)

\* domain.py: PAUSED = "paused"  # waiting for human approval.  A step that
\* requires approval runs only after the instance was paused at this very step and
\* a human then approved: each gated step takes an approval of its own.  (approve()
\* does not compare the step it is given, so the approval may name another one.)
ApprovalRespected ==
  \A d \in Drivers : pc[d] = "body" /\ step[d] \in NeedsApproval =>
    \E t \in Steps : <<step[d], t>> \in approved

\* The steps are executed as an ordered list: none before the current one is
\* left out, and a COMPLETED instance has a result of every step.
NoStepSkipped ==
  /\ current # NoStep => \A i \in 1 .. Index(current) - 1 : StepSeq[i] \in results
  /\ current = NoStep => Steps \subseteq results
  /\ status = "COMPLETED" => current = NoStep

\* An instance is COMPENSATING only while some driver works on its
\* compensations, also when several drivers share it.  Only a driver cancelled
\* inside a compensation leaves the instance behind in that status.
CompensationHasDriver ==
  status = "COMPENSATING" =>
    \/ \E d \in Drivers : pc[d] = "comp"
    \/ \E s \in Steps \cup {NoStep} : <<"comp", s>> \in dropped

\* When a step has used up its attempts and the instance has failed, every
\* earlier step that declares a compensation had it run, and so had the step
\* itself.
FailureIsUndone ==
  status = "FAILED" /\ current \in resDlq /\ CompOf(current) # NoStep =>
    \A i \in 1 .. Index(current) : Comp[StepSeq[i]] \in undone \cup {NoStep}

\* A started instance no driver of execute_adaptive works on any more is left RUNNING
\* only at the very step out of which an exception took its driver: a cancellation, a
\* secret the vault does not have, or a sandbox breach of a step without compensation.
NotAbandoned ==
  calls > 0 /\ (\A d \in Drivers : pc[d] = "idle") /\ status = "RUNNING" =>
    \E l \in {"vault", "body", "sleep"} : <<l, current>> \in dropped

\* Every driver comes to an end, and with it the instance to rest: retries,
\* replanning and compensation are all bounded.
DriversTerminate == []<>(\A d \in Drivers : pc[d] = "idle")
=============================================================================
