------------------------ MODULE CircuitBreakerProofs ------------------------
(***************************************************************************)
(* Proofs about CircuitBreaker for every set of calls, every pair of       *)
(* thresholds and every number of resets.                                  *)
(***************************************************************************)
EXTENDS CircuitBreaker, TLAPS

(* What the state machine does to one well-typed _BreakerState. *)

\* _transition yields a well-typed object and touches neither test slot nor,
\* when it opens the breaker, failure_count.
LEMMA TransitionType ==
  ASSUME NEW s \in BreakerState
  PROVE  TransitionOpen(s) \in BreakerState /\ TransitionClosed(s) \in BreakerState
<1> USE ThresholdAssumption DEF ThresholdAssumption
<1>1. TransitionOpen(s) \in BreakerState
  <2> DEFINE a == [s EXCEPT !.state = "OPEN"]
             b == [a EXCEPT !.opened_at = "recent"]
             d == [b EXCEPT !.success_count = 0]
  <2>1. a \in BreakerState BY DEF BreakerState
  <2> HIDE DEF a
  <2>2. b \in BreakerState BY <2>1 DEF BreakerState
  <2> HIDE DEF b
  <2>3. d \in BreakerState BY <2>2 DEF BreakerState
  <2>4. QED BY <2>3 DEF TransitionOpen, a, b
<1>2. TransitionClosed(s) \in BreakerState
  <2> DEFINE a == [s EXCEPT !.state = "CLOSED"]
             b == [a EXCEPT !.failure_count = 0]
             d == [b EXCEPT !.success_count = 0]
             e == [d EXCEPT !.opened_at = "none"]
  <2>1. a \in BreakerState BY DEF BreakerState
  <2> HIDE DEF a
  <2>2. b \in BreakerState BY <2>1 DEF BreakerState
  <2> HIDE DEF b
  <2>3. d \in BreakerState BY <2>2 DEF BreakerState
  <2> HIDE DEF d
  <2>4. e \in BreakerState BY <2>3 DEF BreakerState
  <2>5. QED BY <2>4 DEF TransitionClosed, a, b, d
<1>3. QED BY <1>1, <1>2

\* _maybe_half_open, _on_success and _on_failure map well-typed state objects
\* to well-typed state objects.
LEMMA StateMachineType ==
  ASSUME NEW s \in BreakerState
  PROVE  /\ MaybeHalfOpen(s) \in BreakerState
         /\ OnSuccess(s) \in BreakerState
         /\ OnFailure(s) \in BreakerState
<1> USE ThresholdAssumption DEF ThresholdAssumption
<1> DEFINE free == [s EXCEPT !.half_open_inflight = FALSE]
<1>0. free \in BreakerState
  BY DEF BreakerState
<1>1. MaybeHalfOpen(s) \in BreakerState
  <2> DEFINE a == [s EXCEPT !.state = "HALF_OPEN"]
             b == [a EXCEPT !.success_count = 0]
             d == [b EXCEPT !.half_open_inflight = FALSE]
  <2>1. a \in BreakerState BY DEF BreakerState
  <2> HIDE DEF a
  <2>2. b \in BreakerState BY <2>1 DEF BreakerState
  <2> HIDE DEF b
  <2>3. d \in BreakerState BY <2>2 DEF BreakerState
  <2>4. QED BY <2>3 DEF MaybeHalfOpen, a, b
<1>2. OnSuccess(s) \in BreakerState
  <2>1. TransitionClosed(free) \in BreakerState
    BY <1>0, TransitionType
  <2>2. [s EXCEPT !.failure_count = 0] \in BreakerState
    BY DEF BreakerState
  <2>3. ASSUME ~(s.success_count + 1 >= SuccessThreshold)
        PROVE  [s EXCEPT !.half_open_inflight = FALSE, !.success_count = @ + 1] \in BreakerState
    <3>1. s.success_count + 1 \in 0 .. SuccessThreshold /\ free.success_count = s.success_count
      BY <2>3 DEF BreakerState
    <3> HIDE DEF free
    <3>2. [free EXCEPT !.success_count = s.success_count + 1] \in BreakerState
      BY <1>0, <3>1 DEF BreakerState
    <3>3. QED BY <3>2 DEF free
  <2>4. QED BY <2>1, <2>2, <2>3 DEF OnSuccess
<1>3. OnFailure(s) \in BreakerState
  <2>1. TransitionOpen(free) \in BreakerState
    BY <1>0, TransitionType
  <2>2. Bump(s.failure_count) \in 0 .. FailureThreshold
    BY DEF Bump, BreakerState
  <2>3. [s EXCEPT !.failure_count = Bump(s.failure_count)] \in BreakerState
    BY <2>2 DEF BreakerState
  <2>4. TransitionOpen([s EXCEPT !.failure_count = Bump(s.failure_count)]) \in BreakerState
    BY <2>3, TransitionType
  <2>5. QED BY <2>1, <2>3, <2>4 DEF OnFailure
<1>4. QED BY <1>1, <1>2, <1>3

\* Counter consistency of one state object, the per-object form of
\* CountersConsistent.
Consistent(s) ==
  /\ s.state = "CLOSED" => s.failure_count < FailureThreshold /\ s.opened_at = "none"
  /\ s.state = "OPEN" => s.opened_at # "none"
  /\ s.state = "HALF_OPEN" => s.opened_at = "elapsed"
  /\ s.success_count > 0 => s.state = "HALF_OPEN"

\* The same three methods keep the counters of a state object consistent.
LEMMA StateMachineConsistent ==
  ASSUME NEW s \in BreakerState, Consistent(s)
  PROVE  /\ Consistent(MaybeHalfOpen(s))
         /\ Consistent(OnSuccess(s))
         /\ Consistent(OnFailure(s))
<1> USE ThresholdAssumption DEF ThresholdAssumption
<1>1. Consistent(MaybeHalfOpen(s))
  BY DEF BreakerState, MaybeHalfOpen, Consistent
<1>2. Consistent(OnSuccess(s))
  BY DEF BreakerState, OnSuccess, TransitionClosed, Consistent
<1>3. Consistent(OnFailure(s))
  BY DEF BreakerState, OnFailure, TransitionOpen, Bump, Consistent
<1>4. QED BY <1>1, <1>2, <1>3

-----------------------------------------------------------------------------
\* Every variable keeps its type: in particular failure_count and
\* success_count never leave their ranges however calls interleave.
THEOREM TypeCorrect == Spec => []TypeOK
<1>1. Init => TypeOK
  <2>1. NewState \in BreakerState
    BY ThresholdAssumption DEF ThresholdAssumption, NewState, BreakerState
  <2>2. 0 \in Objects
    BY ThresholdAssumption DEF ThresholdAssumption, Objects
  <2>3. QED BY <2>1, <2>2 DEF Init, TypeOK
<1>2. TypeOK /\ [Next]_vars => TypeOK'
  <2> SUFFICES ASSUME TypeOK, [Next]_vars PROVE TypeOK'
    OBVIOUS
  <2> USE ThresholdAssumption DEF ThresholdAssumption, TypeOK
  <2>1. ASSUME NEW c \in Calls, Admit(c) PROVE TypeOK'
    BY <2>1 DEF Admit
  <2>2. ASSUME NEW c \in Calls, AdmitTest(c) PROVE TypeOK'
    <3>1. MaybeHalfOpen(st[cur]) \in BreakerState
      BY StateMachineType
    <3>2. [MaybeHalfOpen(st[cur]) EXCEPT !.half_open_inflight = TRUE] \in BreakerState
      BY <3>1 DEF BreakerState
    <3>3. QED BY <2>2, <3>2 DEF AdmitTest
  <2>3. ASSUME NEW c \in Calls, Reject(c) PROVE TypeOK'
    BY <2>3 DEF Reject, vars
  <2>4. ASSUME NEW c \in Calls, FinishOk(c) PROVE TypeOK'
    <3>1. OnSuccess(st[ref[c]]) \in BreakerState
      BY StateMachineType
    <3>2. QED BY <2>4, <3>1 DEF FinishOk
  <2>5. ASSUME NEW c \in Calls, FinishFail(c) PROVE TypeOK'
    <3>1. OnFailure(st[ref[c]]) \in BreakerState
      BY StateMachineType
    <3>2. QED BY <2>5, <3>1 DEF FinishFail
  <2>6. ASSUME NEW c \in Calls, FinishCancelled(c) PROVE TypeOK'
    BY <2>6 DEF FinishCancelled
  <2>7. CASE Peek
    <3>1. MaybeHalfOpen(st[cur]) \in BreakerState
      BY StateMachineType
    <3>2. QED BY <2>7, <3>1 DEF Peek
  <2>8. CASE Reset
    <3>1. NewState \in BreakerState
      BY DEF NewState, BreakerState
    <3>2. cur + 1 \in Objects
      BY <2>8 DEF Reset, Objects
    <3>3. QED BY <2>8, <3>1, <3>2 DEF Reset
  <2>9. ASSUME NEW g \in Objects, TimeoutElapses(g) PROVE TypeOK'
    <3>1. [st[g] EXCEPT !.opened_at = "elapsed"] \in BreakerState
      BY DEF BreakerState
    <3>2. QED BY <2>9, <3>1 DEF TimeoutElapses
  <2>10. CASE CapabilityRecovers
    BY <2>10 DEF CapabilityRecovers
  <2>11. CASE UNCHANGED vars
    BY <2>11 DEF vars
  <2>12. QED
    BY <2>1, <2>2, <2>3, <2>4, <2>5, <2>6, <2>7, <2>8, <2>9, <2>10, <2>11
    DEF Next
<1>3. QED BY <1>1, <1>2, PTL DEF Spec

-----------------------------------------------------------------------------
\* A CLOSED breaker is below its threshold and has forgotten opened_at; one
\* that is not CLOSED can recover, because it knows when it opened.
THEOREM CountersConsistentCorrect == Spec => []CountersConsistent
<1> DEFINE AllConsistent == \A g \in Objects : Consistent(st[g])
<1>0. AllConsistent <=> CountersConsistent
  BY DEF CountersConsistent, Consistent
<1>1. Init => AllConsistent
  BY ThresholdAssumption DEF ThresholdAssumption, Init, NewState, Consistent
<1>2. TypeOK /\ AllConsistent /\ [Next]_vars => AllConsistent'
  <2> SUFFICES ASSUME TypeOK, AllConsistent, [Next]_vars,
                      NEW g \in Objects
               PROVE  Consistent(st'[g])
    OBVIOUS
  <2>0. st[g] \in BreakerState /\ Consistent(st[g])
    BY DEF TypeOK
  <2>1. ASSUME NEW c \in Calls, AdmitTest(c) PROVE Consistent(st'[g])
    <3>1. Consistent(MaybeHalfOpen(st[g])) /\ MaybeHalfOpen(st[g]) \in BreakerState
      BY <2>0, StateMachineConsistent, StateMachineType
    <3>2. Consistent([MaybeHalfOpen(st[g]) EXCEPT !.half_open_inflight = TRUE])
      BY <3>1 DEF Consistent, BreakerState
    <3>3. QED BY <2>0, <2>1, <3>2 DEF AdmitTest, TypeOK
  <2>2. ASSUME NEW c \in Calls, FinishOk(c) PROVE Consistent(st'[g])
    BY <2>0, <2>2, StateMachineConsistent DEF FinishOk, TypeOK
  <2>3. ASSUME NEW c \in Calls, FinishFail(c) PROVE Consistent(st'[g])
    BY <2>0, <2>3, StateMachineConsistent DEF FinishFail, TypeOK
  <2>4. CASE Peek
    BY <2>0, <2>4, StateMachineConsistent DEF Peek, TypeOK
  <2>5. ASSUME NEW h \in Objects, TimeoutElapses(h) PROVE Consistent(st'[g])
    BY <2>0, <2>5 DEF TimeoutElapses, TypeOK, Consistent, BreakerState
  <2>6. CASE Reset
    <3>1. Consistent(NewState)
      BY ThresholdAssumption DEF ThresholdAssumption, NewState, Consistent
    <3>2. st'[g] = st[g] \/ st'[g] = NewState
      BY <2>6 DEF Reset, TypeOK
    <3>3. QED BY <2>0, <3>1, <3>2
  <2>7. CASE UNCHANGED st
    BY <2>0, <2>7
  <2>8. QED
    BY <2>1, <2>2, <2>3, <2>4, <2>5, <2>6, <2>7
    DEF Next, vars, Admit, Reject, FinishCancelled, CapabilityRecovers
<1>3. QED BY <1>0, <1>1, <1>2, TypeCorrect, PTL DEF Spec

-----------------------------------------------------------------------------
\* The HALF_OPEN test slot is never leaked, except by the cancellation of a
\* test call: a taken slot has a running test call that will release it.
THEOREM SlotNeverLeaks == Spec => []SlotHasOwner
<1>1. Init => SlotHasOwner
  BY DEF Init, NewState, SlotHasOwner, Owned
<1>2. TypeOK /\ SlotHasOwner /\ [Next]_vars => SlotHasOwner'
  <2> SUFFICES ASSUME TypeOK, SlotHasOwner, [Next]_vars,
                      NEW g \in Objects, g \notin broken',
                      st'[g].state = "HALF_OPEN", st'[g].half_open_inflight
               PROVE  \E c \in Calls : pc'[c] = "running" /\ ref'[c] = g /\ trial'[c]
    BY DEF SlotHasOwner, Owned
  <2> DEFINE HasOwner == \E c \in Calls : pc'[c] = "running" /\ ref'[c] = g /\ trial'[c]
  <2>0. st[g] \in BreakerState
    BY DEF TypeOK
  <2>1. ASSUME NEW c \in Calls, Admit(c) PROVE HasOwner
    <3>1. PICK d \in Calls : pc[d] = "running" /\ ref[d] = g /\ trial[d]
      BY <2>1 DEF Admit, SlotHasOwner, Owned
    <3>2. d # c
      BY <3>1, <2>1 DEF Admit
    <3>3. QED BY <2>1, <3>1, <3>2 DEF Admit, TypeOK
  <2>2. ASSUME NEW c \in Calls, AdmitTest(c) PROVE HasOwner
    <3>1. CASE g = cur
      BY <2>2, <3>1 DEF AdmitTest, TypeOK
    <3>2. CASE g # cur
      <4>1. st'[g] = st[g]
        BY <2>2, <3>2 DEF AdmitTest, TypeOK
      <4>2. PICK d \in Calls : pc[d] = "running" /\ ref[d] = g /\ trial[d]
        BY <4>1, <2>2 DEF SlotHasOwner, Owned, AdmitTest
      <4>3. d # c
        BY <4>2, <2>2 DEF AdmitTest
      <4>4. QED BY <2>2, <4>2, <4>3 DEF AdmitTest, TypeOK
    <3>3. QED BY <3>1, <3>2
  <2>3. ASSUME NEW c \in Calls, FinishOk(c) \/ FinishFail(c) PROVE HasOwner
    \* The object the call reports to has released its slot.
    <3>1. ref[c] # g
      <4> SUFFICES ASSUME ref[c] = g PROVE FALSE
        OBVIOUS
      <4>1. st'[g] = OnSuccess(st[g]) \/ st'[g] = OnFailure(st[g])
        BY <2>3 DEF FinishOk, FinishFail, TypeOK
      <4>2. OnFailure(st[g]).state # "HALF_OPEN"
        BY <2>0 DEF OnFailure, TransitionOpen, BreakerState
      <4>3. ~ (/\ OnSuccess(st[g]).state = "HALF_OPEN"
               /\ OnSuccess(st[g]).half_open_inflight)
        BY <2>0 DEF OnSuccess, TransitionClosed, BreakerState
      <4>4. QED BY <4>1, <4>2, <4>3
    <3>2. st'[g] = st[g]
      BY <2>3, <3>1 DEF FinishOk, FinishFail, TypeOK
    <3>3. PICK d \in Calls : pc[d] = "running" /\ ref[d] = g /\ trial[d]
      BY <3>2, <2>3 DEF SlotHasOwner, Owned, FinishOk, FinishFail
    <3>4. QED BY <2>3, <3>1, <3>3 DEF FinishOk, FinishFail, TypeOK
  <2>4. CASE Peek
    <3>1. st[g].state = "HALF_OPEN" /\ st[g].half_open_inflight
      BY <2>0, <2>4 DEF Peek, MaybeHalfOpen, TypeOK, BreakerState
    <3>2. QED BY <2>4, <3>1 DEF Peek, SlotHasOwner, Owned
  <2>5. ASSUME NEW h \in Objects, TimeoutElapses(h) PROVE HasOwner
    <3>1. st[g].state = "HALF_OPEN" /\ st[g].half_open_inflight
      BY <2>0, <2>5 DEF TimeoutElapses, TypeOK, BreakerState
    <3>2. QED BY <2>5, <3>1 DEF TimeoutElapses, SlotHasOwner, Owned
  <2>6. CASE Reset
    <3>1. st'[g] = st[g] \/ st'[g] = NewState
      BY <2>6 DEF Reset, TypeOK
    <3>2. st'[g] = st[g]
      BY <3>1 DEF NewState
    <3>3. QED BY <2>6, <3>2 DEF Reset, SlotHasOwner, Owned
  <2>7. CASE UNCHANGED <<st, pc, ref, trial, broken>>
    BY <2>7 DEF SlotHasOwner, Owned
  <2>8. ASSUME NEW c \in Calls, FinishCancelled(c) PROVE HasOwner
    \* The owner of the slot is another call: c's object would be broken now.
    <3>1. PICK d \in Calls : pc[d] = "running" /\ ref[d] = g /\ trial[d]
      BY <2>8 DEF FinishCancelled, SlotHasOwner, Owned
    <3>2. d # c
      BY <2>8, <3>1 DEF FinishCancelled
    <3>3. QED BY <2>8, <3>1, <3>2 DEF FinishCancelled, TypeOK
  <2>9. QED
    BY <2>1, <2>2, <2>3, <2>4, <2>5, <2>6, <2>7, <2>8
    DEF Next, vars, Reject, CapabilityRecovers
<1>3. QED BY <1>1, <1>2, TypeCorrect, PTL DEF Spec

-----------------------------------------------------------------------------
\* The breaker implements BreakerSpec: the position callers see never jumps
\* from OPEN to CLOSED or from CLOSED to HALF_OPEN, and it is HALF_OPEN only
\* after the recovery timeout, whatever in-flight calls report and whenever
\* the operator resets it.
THEOREM ImplementsPromise == Spec => KeepsPromise
<1>1. Init => Promise!Init
  BY ThresholdAssumption DEF ThresholdAssumption, Init, Promise!Init, NewState, Objects
<1>2. /\ TypeOK /\ TypeOK' /\ CountersConsistent /\ CountersConsistent'
      /\ [Next]_vars
      => [Promise!Next]_Promise!vars
  <2> SUFFICES ASSUME TypeOK, TypeOK', CountersConsistent, CountersConsistent',
                      [Next]_vars
               PROVE  [Promise!Next]_Promise!vars
    OBVIOUS
  <2> USE DEF Promise!Next, Promise!vars
  <2>0. /\ st[cur] \in BreakerState /\ Consistent(st[cur])
        /\ st'[cur'] \in BreakerState /\ Consistent(st'[cur'])
    BY DEF TypeOK, CountersConsistent, Consistent
  <2>1. ASSUME NEW c \in Calls, AdmitTest(c) PROVE [Promise!Next]_Promise!vars
    <3>1. /\ cur' = cur
          /\ st'[cur] = [MaybeHalfOpen(st[cur]) EXCEPT !.half_open_inflight = TRUE]
          /\ MaybeHalfOpen(st[cur]).state = "HALF_OPEN"
      BY <2>1 DEF AdmitTest, TypeOK
    <3>2. MaybeHalfOpen(st[cur]) \in BreakerState
      BY <2>0, StateMachineType
    <3>3. /\ st'[cur].state = "HALF_OPEN"
          /\ st'[cur].opened_at = MaybeHalfOpen(st[cur]).opened_at
      BY <3>1, <3>2 DEF BreakerState
    <3>4. /\ MaybeHalfOpen(st[cur]).opened_at = st[cur].opened_at
          /\ \/ st[cur].state = "HALF_OPEN"
             \/ st[cur].state = "OPEN" /\ st[cur].opened_at = "elapsed"
      BY <2>0, <3>1 DEF MaybeHalfOpen, BreakerState
    <3>5. QED BY <3>1, <3>3, <3>4 DEF Promise!Probe
  <2>2. ASSUME NEW c \in Calls, FinishOk(c) PROVE [Promise!Next]_Promise!vars
    <3>1. cur' = cur /\ (st'[cur] = st[cur] \/ st'[cur] = OnSuccess(st[cur]))
      BY <2>2 DEF FinishOk, TypeOK
    <3>2. CASE st'[cur] = OnSuccess(st[cur])
      <4>1. \/ /\ OnSuccess(st[cur]).state = st[cur].state
               /\ OnSuccess(st[cur]).opened_at = st[cur].opened_at
            \/ /\ st[cur].state = "HALF_OPEN"
               /\ OnSuccess(st[cur]).state = "CLOSED"
        BY <2>0 DEF OnSuccess, TransitionClosed, BreakerState
      <4>2. QED BY <3>1, <3>2, <4>1 DEF Promise!Close
    <3>3. QED BY <3>1, <3>2
  <2>3. ASSUME NEW c \in Calls, FinishFail(c) PROVE [Promise!Next]_Promise!vars
    <3>1. cur' = cur /\ (st'[cur] = st[cur] \/ st'[cur] = OnFailure(st[cur]))
      BY <2>3 DEF FinishFail, TypeOK
    <3>2. CASE st'[cur] = OnFailure(st[cur])
      <4>1. \/ /\ OnFailure(st[cur]).state = st[cur].state
               /\ OnFailure(st[cur]).opened_at = st[cur].opened_at
            \/ /\ OnFailure(st[cur]).state = "OPEN"
               /\ OnFailure(st[cur]).opened_at = "recent"
        BY <2>0 DEF OnFailure, TransitionOpen, BreakerState
      <4>2. st[cur].state \in {"CLOSED", "OPEN", "HALF_OPEN"}
        BY <2>0 DEF BreakerState
      <4>3. QED
        BY <3>1, <3>2, <4>1, <4>2 DEF Promise!Trip, Promise!Restamp, Promise!Reopen
    <3>3. QED BY <3>1, <3>2
  <2>4. CASE Peek
    <3>1. cur' = cur /\ st'[cur] = MaybeHalfOpen(st[cur])
      BY <2>4 DEF Peek, TypeOK
    <3>2. \/ MaybeHalfOpen(st[cur]) = st[cur]
          \/ /\ st[cur].state = "OPEN" /\ st[cur].opened_at = "elapsed"
             /\ MaybeHalfOpen(st[cur]).state = "HALF_OPEN"
             /\ MaybeHalfOpen(st[cur]).opened_at = "elapsed"
      BY <2>0 DEF MaybeHalfOpen, BreakerState
    <3>3. QED BY <3>1, <3>2 DEF Promise!Probe
  <2>5. CASE Reset
    <3>1. st'[cur'] = NewState /\ cur' = cur + 1
      BY <2>5 DEF Reset, TypeOK
    <3>2. QED BY <3>1 DEF Promise!Replace, NewState
  <2>6. ASSUME NEW g \in Objects, TimeoutElapses(g) PROVE [Promise!Next]_Promise!vars
    <3>1. CASE g = cur
      <4>1. /\ cur' = cur /\ st'[cur].state = st[cur].state
            /\ st'[cur].opened_at = "elapsed" /\ st[cur].opened_at = "recent"
        BY <2>0, <2>6, <3>1 DEF TimeoutElapses, TypeOK, BreakerState
      <4>2. QED BY <2>0, <4>1 DEF Promise!Cool, Consistent, BreakerState
    <3>2. CASE g # cur
      BY <2>6, <3>2 DEF TimeoutElapses, TypeOK
    <3>3. QED BY <3>1, <3>2
  <2>7. CASE UNCHANGED <<st, cur>>
    BY <2>7
  <2>8. QED
    BY <2>1, <2>2, <2>3, <2>4, <2>5, <2>6, <2>7
    DEF Next, vars, Admit, Reject, FinishCancelled, CapabilityRecovers
<1>3. QED
  BY <1>1, <1>2, TypeCorrect, CountersConsistentCorrect, PTL
  DEF Spec, KeepsPromise, Promise!Spec
=============================================================================
