-------------------------- MODULE ResilienceCircuit --------------------------
(***************************************************************************)
(* The circuit breaker of kernel/resilience.py (ADR-031) for one name,     *)
(* with the row the engine keeps in ResilienceStore.circuits.              *)
(*                                                                         *)
(* call_with_circuit suspends at its yield: a call is an admission and,    *)
(* later, an outcome.  A call keeps the _CircuitRuntime it obtained before *)
(* the yield, also when register_circuit has replaced it since, so `rt` is *)
(* a table of runtimes and `cur` the one in self._circuits (0: none yet).  *)
(* Everything _on_success and _on_failure change, the row included, is     *)
(* changed before their first suspension point, so an outcome is one step. *)
(*                                                                         *)
(* Abstractions: last_failure with the clock is "none", "recent" or        *)
(* "elapsed"; failure_count saturates at the threshold it is compared with.*)
(***************************************************************************)
EXTENDS Naturals, FiniteSets

CONSTANTS Calls,             \* concurrent tasks guarded by this circuit
          FailureThreshold,  \* ResilienceCircuitConfig.failure_threshold
          HalfOpenMaxCalls,  \* ResilienceCircuitConfig.half_open_max_calls
          Outcomes,          \* how a guarded body may end
          MaxRegister        \* bound on registrations of the name

ASSUME ConfigAssumption ==
  /\ FailureThreshold \in Nat \ {0}
  /\ HalfOpenMaxCalls \in Nat \ {0}
  /\ MaxRegister \in Nat \ {0}
  /\ Outcomes \subseteq {"ok", "fail", "cancelled"}

VARIABLES rt,    \* table of _CircuitRuntime objects
          cur,   \* the object in self._circuits[name], 0 before registration
          row,   \* state column of the store's row, "absent" before the first
          pc,    \* pc[c]: "idle" or "running" (suspended at the yield)
          ref,   \* ref[c]: the runtime call c holds
          slot,  \* slot[c]: c took a trial slot of the present HALF_OPEN period
          broken, \* history: runtimes one of whose trial calls was cancelled
          up     \* the guarded service has recovered for good

vars == <<rt, cur, row, pc, ref, slot, broken, up>>

Objects == 1 .. MaxRegister

Runtime == [state : {"CLOSED", "OPEN", "HALF_OPEN"},
            failure_count : 0 .. FailureThreshold,
            last_failure : {"none", "recent", "elapsed"},
            half_open_calls : 0 .. HalfOpenMaxCalls]

NewRuntime == [state |-> "CLOSED", failure_count |-> 0, last_failure |-> "none",
               half_open_calls |-> 0]

-----------------------------------------------------------------------------
(* The state machine on one runtime. *)

\* Seeded fault.
FaultRecoversAtOnce(r) ==
  IF r.state = "OPEN"
  THEN [r EXCEPT !.state = "HALF_OPEN", !.half_open_calls = 0] ELSE r

MaybeRecover(r) ==
  IF r.state = "OPEN" /\ r.last_failure = "elapsed"
  THEN [r EXCEPT !.state = "HALF_OPEN", !.half_open_calls = 0] ELSE r

\* Seeded fault: a success leaves the circuit on probation.
FaultStaysOnProbation(r) == [r EXCEPT !.failure_count = 0]

OnSuccess(r) ==
  IF r.state = "HALF_OPEN"
  THEN [r EXCEPT !.state = "CLOSED", !.failure_count = 0, !.half_open_calls = 0]
  ELSE [r EXCEPT !.failure_count = 0]

Bump(n) == IF n < FailureThreshold THEN n + 1 ELSE n

OnFailure(r) ==
  LET s == [r EXCEPT !.last_failure = "recent"]
      n == [s EXCEPT !.failure_count = Bump(@)]
  IN IF s.state = "HALF_OPEN" THEN [s EXCEPT !.state = "OPEN", !.half_open_calls = 0]
     ELSE IF n.failure_count >= FailureThreshold /\ s.state = "CLOSED"
          THEN [n EXCEPT !.state = "OPEN"]
          ELSE n

\* Seeded fault: a circuit that re-opens is not saved.
FaultPersistsOnlyTrips(before, after) ==
  IF before.state # after.state /\ before.state # "HALF_OPEN" THEN after.state ELSE row

\* _persist: only a change of position writes the row.
Persisted(before, after) ==
  IF before.state # after.state THEN after.state ELSE row

\* History: slots held in a HALF_OPEN period end with the period.
SlotsAfter(g, after, done) ==
  [c \in Calls |-> slot[c] /\ c # done /\ (ref[c] = g => after.state = "HALF_OPEN")]

-----------------------------------------------------------------------------
(* Actions. *)

Init == /\ rt = [g \in Objects |-> NewRuntime]
        /\ cur = 0
        /\ row = "absent"
        /\ pc = [c \in Calls |-> "idle"]
        /\ ref = [c \in Calls |-> 1]
        /\ slot = [c \in Calls |-> FALSE]
        /\ broken = {}
        /\ up = FALSE

\* register_circuit: create or replace.
RegisterCircuit ==
  /\ cur < MaxRegister
  /\ cur' = cur + 1
  /\ rt' = [rt EXCEPT ![cur + 1] = NewRuntime]
  /\ row' = "CLOSED"
  /\ UNCHANGED <<pc, ref, slot, broken, up>>

\* call_with_circuit of an unknown name registers a default circuit first.
AdmitUnregistered(c) ==
  /\ pc[c] = "idle" /\ cur = 0
  /\ cur' = 1
  /\ rt' = [rt EXCEPT ![1] = NewRuntime]
  /\ row' = "CLOSED"
  /\ pc' = [pc EXCEPT ![c] = "running"]
  /\ ref' = [ref EXCEPT ![c] = 1]
  /\ UNCHANGED <<slot, broken, up>>

\* call_with_circuit, CLOSED.
Admit(c) ==
  /\ pc[c] = "idle" /\ cur # 0
  /\ rt[cur].state = "CLOSED"
  /\ pc' = [pc EXCEPT ![c] = "running"]
  /\ ref' = [ref EXCEPT ![c] = cur]
  /\ UNCHANGED <<rt, cur, row, slot, broken, up>>

\* call_with_circuit, HALF_OPEN with a trial call left.
AdmitTrial(c) ==
  /\ pc[c] = "idle" /\ cur # 0
  /\ LET r == MaybeRecover(rt[cur])
     IN /\ r.state = "HALF_OPEN"
        /\ r.half_open_calls < HalfOpenMaxCalls
        /\ rt' = [rt EXCEPT ![cur] = [r EXCEPT !.half_open_calls = @ + 1]]
  /\ pc' = [pc EXCEPT ![c] = "running"]
  /\ ref' = [ref EXCEPT ![c] = cur]
  /\ slot' = [slot EXCEPT ![c] = TRUE]
  /\ UNCHANGED <<cur, row, broken, up>>

\* CircuitBreakerOpenError.
Reject(c) ==
  /\ pc[c] = "idle" /\ cur # 0
  /\ LET r == MaybeRecover(rt[cur])
     IN \/ r.state = "OPEN"
        \/ r.state = "HALF_OPEN" /\ r.half_open_calls >= HalfOpenMaxCalls
  /\ UNCHANGED vars

\* The body of call c ends and its runtime becomes `after`.
Finish(c, after) ==
  /\ rt' = [rt EXCEPT ![ref[c]] = after]
  /\ row' = Persisted(rt[ref[c]], after)
  /\ slot' = SlotsAfter(ref[c], after, c)
  /\ pc' = [pc EXCEPT ![c] = "idle"]
  /\ UNCHANGED <<cur, ref, up>>

FinishOk(c) == /\ pc[c] = "running" /\ "ok" \in Outcomes
               /\ Finish(c, OnSuccess(rt[ref[c]]))
               /\ UNCHANGED broken

FinishFail(c) == /\ pc[c] = "running" /\ "fail" \in Outcomes /\ ~up
                 /\ Finish(c, OnFailure(rt[ref[c]]))
                 /\ UNCHANGED broken

\* The task is cancelled: `except Exception` does not see CancelledError.
FinishCancelled(c) == /\ pc[c] = "running" /\ "cancelled" \in Outcomes
                      /\ Finish(c, rt[ref[c]])
                      /\ broken' = IF slot[c] THEN broken \cup {ref[c]} ELSE broken

\* get_circuit_status.
GetCircuitStatus ==
  /\ cur # 0
  /\ rt' = [rt EXCEPT ![cur] = MaybeRecover(@)]
  /\ UNCHANGED <<cur, row, pc, ref, slot, broken, up>>

\* The clock passes last_failure + recovery_timeout_ms.
TimeoutElapses(g) ==
  /\ rt[g].last_failure = "recent"
  /\ rt' = [rt EXCEPT ![g].last_failure = "elapsed"]
  /\ UNCHANGED <<cur, row, pc, ref, slot, broken, up>>

ServiceRecovers == ~up /\ up' = TRUE /\ UNCHANGED <<rt, cur, row, pc, ref, slot, broken>>

Next ==
  \/ RegisterCircuit
  \/ \E c \in Calls : \/ AdmitUnregistered(c) \/ Admit(c) \/ AdmitTrial(c) \/ Reject(c)
                      \/ FinishOk(c) \/ FinishFail(c) \/ FinishCancelled(c)
  \/ GetCircuitStatus
  \/ \E g \in Objects : TimeoutElapses(g)
  \/ ServiceRecovers

Spec == Init /\ [][Next]_vars

\* Guarded bodies return, time passes, callers keep calling.
Fairness == /\ \A c \in Calls : WF_vars(FinishOk(c))
            /\ \A g \in Objects : WF_vars(TimeoutElapses(g))
            /\ WF_vars(\E c \in Calls : AdmitTrial(c))

FairSpec == Spec /\ Fairness

-----------------------------------------------------------------------------
(* Properties. *)

\* The trial count of a runtime stays within half_open_max, and the saved row is
\* CLOSED, OPEN or absent, whatever call_with_circuit is interrupted by.
TypeOK == /\ rt \in [Objects -> Runtime]
          /\ cur \in 0 .. MaxRegister
          /\ row \in {"absent", "CLOSED", "OPEN"}
          /\ pc \in [Calls -> {"idle", "running"}]
          /\ ref \in [Calls -> Objects]
          /\ slot \in [Calls -> BOOLEAN]
          /\ broken \subseteq Objects
          /\ up \in BOOLEAN

\* As long as no trial call is cancelled, the trial budget of a HALF_OPEN circuit
\* counts exactly the trial calls of this period that are still running: no call
\* of an earlier period uses it up, and no finished call keeps a slot.  Were a
\* slot kept, a circuit with its budget used up would reject every call for ever,
\* since nothing but the end of a call moves a HALF_OPEN circuit.
TrialsAccounted ==
  \A g \in Objects \ broken : rt[g].state = "HALF_OPEN" =>
    rt[g].half_open_calls =
      Cardinality({c \in Calls : pc[c] = "running" /\ ref[c] = g /\ slot[c]})

\* While a circuit has not been re-registered, its row tells the position an
\* operator sees: CLOSED when it is closed, OPEN when it is open or on
\* probation (the move to HALF_OPEN is not saved).
RowMirrorsCircuit ==
  cur = 1 => row = IF rt[1].state = "CLOSED" THEN "CLOSED" ELSE "OPEN"

\* A circuit that is not CLOSED remembers the failure its recovery timeout is
\* counted from, and a CLOSED one is below its threshold.
CanRecover ==
  \A g \in Objects :
    /\ rt[g].state = "OPEN" => rt[g].last_failure # "none"
    /\ rt[g].state = "HALF_OPEN" => rt[g].last_failure = "elapsed"
    /\ rt[g].state = "CLOSED" => rt[g].failure_count < FailureThreshold

\* Once the service has recovered for good, the circuit ends up CLOSED, unless a
\* trial call is cancelled.
EventuallyClosed == up ~> [](cur \notin {0} \cup broken => rt[cur].state = "CLOSED")

\* The promises common to both breakers of the kernel.
Position == IF cur = 0 THEN "CLOSED" ELSE rt[cur].state
Promise == INSTANCE BreakerSpec WITH
             installed <- cur,
             state <- Position,
             cooled <- (Position # "CLOSED" /\ rt[cur].last_failure = "elapsed")

KeepsPromise == Promise!Spec
=============================================================================
