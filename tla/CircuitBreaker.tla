--------------------------- MODULE CircuitBreaker ---------------------------
(***************************************************************************)
(* The per-capability circuit breaker of kernel/health.py (ADR-021), for   *)
(* one capability and the concurrent tasks in Calls that invoke it.        *)
(*                                                                         *)
(* CircuitBreaker.call suspends at `await coro`, so a call is two steps:   *)
(* the admission before the await and the bookkeeping after it.  Between   *)
(* them other calls may move the breaker, and reset() may install a fresh  *)
(* _BreakerState while the call still holds the old one: `st` is therefore *)
(* a table of state objects, `cur` the one in self._states, and ref[c] the *)
(* object that call c holds.                                               *)
(*                                                                         *)
(* Abstractions: opened_at together with the clock is "none" (None),       *)
(* "recent" (recovery timeout still running) or "elapsed".  failure_count  *)
(* is only ever compared with failure_threshold, so it saturates there.    *)
(***************************************************************************)
EXTENDS Naturals, FiniteSets

CONSTANTS Calls,             \* concurrent tasks invoking the capability
          FailureThreshold,  \* CircuitBreakerPolicy.failure_threshold
          SuccessThreshold,  \* CircuitBreakerPolicy.success_threshold
          Outcomes,          \* how an awaited call may end
          MaxResets          \* bound on the number of reset() calls

ASSUME ThresholdAssumption ==
  /\ FailureThreshold \in Nat \ {0}
  /\ SuccessThreshold \in Nat \ {0}
  /\ MaxResets \in Nat
  /\ Outcomes \subseteq {"ok", "fail", "cancelled"}

VARIABLES st,     \* table of _BreakerState objects
          cur,    \* index of the object in self._states
          pc,     \* pc[c]: "idle" or "running" (suspended at await coro)
          ref,    \* ref[c]: the object call c obtained from _get
          trial,  \* trial[c]: c was admitted while HALF_OPEN
          broken, \* history: objects one of whose test calls was cancelled
          up      \* the capability has recovered: its calls no longer fail

vars == <<st, cur, pc, ref, trial, broken, up>>

Objects == 0 .. MaxResets

BreakerState ==
  [state : {"CLOSED", "OPEN", "HALF_OPEN"},
   failure_count : 0 .. FailureThreshold,
   success_count : 0 .. SuccessThreshold,
   opened_at : {"none", "recent", "elapsed"},
   half_open_inflight : BOOLEAN]

NewState == [state |-> "CLOSED", failure_count |-> 0, success_count |-> 0,
             opened_at |-> "none", half_open_inflight |-> FALSE]

-----------------------------------------------------------------------------
(* The state machine on one _BreakerState. *)

\* Seeded faults: plausible mistakes in the definitions they precede.
FaultIgnoresTimeout(s) ==
  IF s.state = "OPEN"
  THEN [s EXCEPT !.state = "HALF_OPEN", !.success_count = 0,
                 !.half_open_inflight = FALSE]
  ELSE s

MaybeHalfOpen(s) ==
  IF s.state = "OPEN" /\ s.opened_at = "elapsed"
  THEN [s EXCEPT !.state = "HALF_OPEN", !.success_count = 0,
                 !.half_open_inflight = FALSE]
  ELSE s

TransitionOpen(s) ==
  [s EXCEPT !.state = "OPEN", !.opened_at = "recent", !.success_count = 0]

TransitionClosed(s) ==
  [s EXCEPT !.state = "CLOSED", !.failure_count = 0, !.success_count = 0,
            !.opened_at = "none"]

FaultSuccessKeepsSlot(s) ==
  IF s.state = "HALF_OPEN"
  THEN IF s.success_count + 1 >= SuccessThreshold
       THEN TransitionClosed([s EXCEPT !.half_open_inflight = FALSE])
       ELSE [s EXCEPT !.success_count = @ + 1]
  ELSE [s EXCEPT !.failure_count = 0]

OnSuccess(s) ==
  IF s.state = "HALF_OPEN"
  THEN IF s.success_count + 1 >= SuccessThreshold
       THEN TransitionClosed([s EXCEPT !.half_open_inflight = FALSE])
       ELSE [s EXCEPT !.half_open_inflight = FALSE, !.success_count = @ + 1]
  ELSE [s EXCEPT !.failure_count = 0]

\* failure_count + 1, saturating at the threshold it is compared with.
Bump(n) == IF n < FailureThreshold THEN n + 1 ELSE n

OnFailure(s) ==
  IF s.state = "HALF_OPEN"
  THEN TransitionOpen([s EXCEPT !.half_open_inflight = FALSE])
  ELSE IF Bump(s.failure_count) >= FailureThreshold
       THEN TransitionOpen([s EXCEPT !.failure_count = Bump(@)])
       ELSE [s EXCEPT !.failure_count = Bump(@)]

-----------------------------------------------------------------------------
(* Actions. *)

Init == /\ st = [g \in Objects |-> NewState]
        /\ cur = 0
        /\ pc = [c \in Calls |-> "idle"]
        /\ ref = [c \in Calls |-> 0]
        /\ trial = [c \in Calls |-> FALSE]
        /\ broken = {}
        /\ up = FALSE

\* call(), CLOSED branch: the call is awaited.
Admit(c) ==
  /\ pc[c] = "idle"
  /\ st[cur].state = "CLOSED"
  /\ pc' = [pc EXCEPT ![c] = "running"]
  /\ ref' = [ref EXCEPT ![c] = cur]
  /\ trial' = [trial EXCEPT ![c] = FALSE]
  /\ UNCHANGED <<st, cur, broken, up>>

\* call(), HALF_OPEN branch (entered here or by an earlier _maybe_half_open):
\* the call takes the single test slot.
AdmitTest(c) ==
  LET s == MaybeHalfOpen(st[cur])
  IN /\ pc[c] = "idle"
     /\ s.state = "HALF_OPEN"
     /\ ~s.half_open_inflight
     /\ st' = [st EXCEPT ![cur] = [s EXCEPT !.half_open_inflight = TRUE]]
     /\ pc' = [pc EXCEPT ![c] = "running"]
     /\ ref' = [ref EXCEPT ![c] = cur]
     /\ trial' = [trial EXCEPT ![c] = TRUE]
     /\ UNCHANGED <<cur, broken, up>>

\* call() raises CircuitBreakerOpen: OPEN, or HALF_OPEN with the slot taken.
Reject(c) ==
  LET s == MaybeHalfOpen(st[cur])
  IN /\ pc[c] = "idle"
     /\ \/ s.state = "OPEN"
        \/ s.state = "HALF_OPEN" /\ s.half_open_inflight
     /\ UNCHANGED vars

\* The awaited coroutine returns: _on_success on the object the call holds.
FinishOk(c) ==
  /\ pc[c] = "running"
  /\ "ok" \in Outcomes
  /\ st' = [st EXCEPT ![ref[c]] = OnSuccess(@)]
  /\ pc' = [pc EXCEPT ![c] = "idle"]
  /\ UNCHANGED <<cur, ref, trial, broken, up>>

\* The awaited coroutine raises an Exception: _on_failure.
FinishFail(c) ==
  /\ pc[c] = "running"
  /\ "fail" \in Outcomes
  /\ ~up
  /\ st' = [st EXCEPT ![ref[c]] = OnFailure(@)]
  /\ pc' = [pc EXCEPT ![c] = "idle"]
  /\ UNCHANGED <<cur, ref, trial, broken, up>>

\* The task is cancelled (a sandbox timeout cancels it through
\* asyncio.wait_for): CancelledError is not an Exception, so neither
\* _on_success nor _on_failure runs.
FinishCancelled(c) ==
  /\ pc[c] = "running"
  /\ "cancelled" \in Outcomes
  /\ pc' = [pc EXCEPT ![c] = "idle"]
  /\ broken' = IF trial[c] THEN broken \cup {ref[c]} ELSE broken
  /\ UNCHANGED <<st, cur, ref, trial, up>>

\* state(): the accessor also performs the OPEN -> HALF_OPEN move.
Peek ==
  /\ st' = [st EXCEPT ![cur] = MaybeHalfOpen(@)]
  /\ UNCHANGED <<cur, pc, ref, trial, broken, up>>

Reset ==
  /\ cur < MaxResets
  /\ cur' = cur + 1
  /\ st' = [st EXCEPT ![cur + 1] = NewState]
  /\ UNCHANGED <<pc, ref, trial, broken, up>>

\* The clock passes opened_at + recovery_timeout_seconds.
TimeoutElapses(g) ==
  /\ st[g].opened_at = "recent"
  /\ st' = [st EXCEPT ![g].opened_at = "elapsed"]
  /\ UNCHANGED <<cur, pc, ref, trial, broken, up>>

\* The environment: the capability behind the breaker recovers for good.
CapabilityRecovers == ~up /\ up' = TRUE /\ UNCHANGED <<st, cur, pc, ref, trial, broken>>

Next ==
  \/ \E c \in Calls : \/ Admit(c) \/ AdmitTest(c) \/ Reject(c)
                      \/ FinishOk(c) \/ FinishFail(c) \/ FinishCancelled(c)
  \/ Peek
  \/ Reset
  \/ \E g \in Objects : TimeoutElapses(g)
  \/ CapabilityRecovers

Spec == Init /\ [][Next]_vars

\* The event loop resumes every task whose await has finished, time passes,
\* and callers keep invoking the capability.
Fairness == /\ \A c \in Calls : WF_vars(FinishOk(c))
            /\ \A g \in Objects : WF_vars(TimeoutElapses(g))
            /\ WF_vars(\E c \in Calls : AdmitTest(c))

FairSpec == Spec /\ Fairness

-----------------------------------------------------------------------------
(* Properties. *)

\* The breaker's state objects, the caller's bookkeeping of call() and the
\* installed object keep their types; success_count never passes its threshold.
TypeOK == /\ st \in [Objects -> BreakerState]
          /\ cur \in Objects
          /\ pc \in [Calls -> {"idle", "running"}]
          /\ ref \in [Calls -> Objects]
          /\ trial \in [Calls -> BOOLEAN]
          /\ broken \subseteq Objects
          /\ up \in BOOLEAN

Owned(g) ==
  st[g].state = "HALF_OPEN" /\ st[g].half_open_inflight =>
    \E c \in Calls : pc[c] = "running" /\ ref[c] = g /\ trial[c]

\* The test slot of a HALF_OPEN breaker is not leaked as long as none of its
\* test calls is cancelled: while it is taken, some test call that took it is
\* still running and will give it back, whatever stale calls do.  A leaked slot
\* makes call() raise CircuitBreakerOpen for ever, because only OPEN breakers
\* are moved on by _maybe_half_open.
SlotHasOwner == \A g \in Objects \ broken : Owned(g)

\* The class docstring: "HALF_OPEN admits EXACTLY ONE test call at a time".
OneTestCallAtATime ==
  \A c, d \in Calls :
    (/\ pc[c] = "running" /\ trial[c] /\ pc[d] = "running" /\ trial[d]
     /\ ref[c] = ref[d] /\ st[ref[c]].state = "HALF_OPEN") => c = d

\* The counters agree with the position of the breaker: a CLOSED breaker is
\* below its failure threshold and carries no opened_at from an earlier trip,
\* an OPEN one knows when it opened, so that _maybe_half_open can
\* ever let it recover, and a HALF_OPEN one got there after the timeout.
CountersConsistent ==
  \A g \in Objects :
    /\ st[g].state = "CLOSED" => /\ st[g].failure_count < FailureThreshold
                                 /\ st[g].opened_at = "none"
    /\ st[g].state = "OPEN" => st[g].opened_at # "none"
    /\ st[g].state = "HALF_OPEN" => st[g].opened_at = "elapsed"
    /\ st[g].success_count > 0 => st[g].state = "HALF_OPEN"

\* Once the capability has recovered for good the breaker ends up CLOSED and
\* stays so, whatever calls were in flight when it recovered, unless a test call
\* is cancelled.
EventuallyClosed == up ~> [](cur \in broken \/ st[cur].state = "CLOSED")

\* The breaker keeps the promises of BreakerSpec, whatever the interleaving
\* of in-flight calls, accessors and resets.
Promise == INSTANCE BreakerSpec WITH
             installed <- cur,
             state <- st[cur].state,
             cooled <- (st[cur].opened_at = "elapsed" /\ st[cur].state # "CLOSED")

KeepsPromise == Promise!Spec
=============================================================================
