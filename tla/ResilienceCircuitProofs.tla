----------------------- MODULE ResilienceCircuitProofs -----------------------
(***************************************************************************)
(* Proofs about ResilienceCircuit for every set of guarded calls, every    *)
(* threshold, trial budget and number of registrations.                    *)
(***************************************************************************)
EXTENDS ResilienceCircuit, FiniteSetTheorems, TLAPS

\* _maybe_recover, _on_success and _on_failure map well-typed runtimes to
\* well-typed runtimes.
LEMMA RuntimeType ==
  ASSUME NEW r \in Runtime
  PROVE  /\ MaybeRecover(r) \in Runtime
         /\ OnSuccess(r) \in Runtime
         /\ OnFailure(r) \in Runtime
<1> USE ConfigAssumption DEF ConfigAssumption
<1>1. MaybeRecover(r) \in Runtime
  <2> DEFINE a == [r EXCEPT !.state = "HALF_OPEN"]
             b == [a EXCEPT !.half_open_calls = 0]
  <2>1. a \in Runtime BY DEF Runtime
  <2> HIDE DEF a
  <2>2. b \in Runtime BY <2>1 DEF Runtime
  <2>3. QED BY <2>2 DEF MaybeRecover, a
<1>2. OnSuccess(r) \in Runtime
  <2> DEFINE a == [r EXCEPT !.state = "CLOSED"]
             b == [a EXCEPT !.failure_count = 0]
             d == [b EXCEPT !.half_open_calls = 0]
  <2>1. a \in Runtime BY DEF Runtime
  <2> HIDE DEF a
  <2>2. b \in Runtime BY <2>1 DEF Runtime
  <2> HIDE DEF b
  <2>3. d \in Runtime BY <2>2 DEF Runtime
  <2>4. [r EXCEPT !.failure_count = 0] \in Runtime BY DEF Runtime
  <2>5. QED BY <2>3, <2>4 DEF OnSuccess, a, b
<1>3. OnFailure(r) \in Runtime
  <2> DEFINE s == [r EXCEPT !.last_failure = "recent"]
             o == [s EXCEPT !.state = "OPEN"]
             p == [o EXCEPT !.half_open_calls = 0]
             n == [s EXCEPT !.failure_count = Bump(s.failure_count)]
             t == [n EXCEPT !.state = "OPEN"]
  <2>1. s \in Runtime BY DEF Runtime
  <2> HIDE DEF s
  <2>2. o \in Runtime BY <2>1 DEF Runtime
  <2>3. Bump(s.failure_count) \in 0 .. FailureThreshold
    BY <2>1 DEF Bump, Runtime
  <2>4. n \in Runtime BY <2>1, <2>3 DEF Runtime
  <2> HIDE DEF o, n
  <2>5. p \in Runtime BY <2>2 DEF Runtime
  <2>6. t \in Runtime BY <2>4 DEF Runtime
  <2>7. QED BY <2>4, <2>5, <2>6 DEF OnFailure, s, o, n
<1>4. QED BY <1>1, <1>2, <1>3

\* A call that reports its outcome changes the table of runtimes at the object
\* it holds, and nothing else of the table.
LEMMA FinishType ==
  ASSUME TypeOK, NEW c \in Calls, NEW after \in Runtime, Finish(c, after),
         Persisted(rt[ref[c]], after) \in {"absent", "CLOSED", "OPEN"},
         broken' \subseteq Objects
  PROVE  TypeOK'
BY DEF Finish, SlotsAfter, TypeOK

\* The position saved in the row is never HALF_OPEN: no outcome of a call
\* leads there.
LEMMA OutcomePosition ==
  ASSUME NEW r \in Runtime
  PROVE  /\ OnSuccess(r).state = r.state \/ OnSuccess(r).state = "CLOSED"
         /\ OnFailure(r).state = r.state \/ OnFailure(r).state = "OPEN"
BY DEF Runtime, OnSuccess, OnFailure, Bump

\* Every variable keeps its type: the trial count never exceeds its budget
\* and the saved position is never HALF_OPEN.
THEOREM TypeCorrect == Spec => []TypeOK
<1>0. NewRuntime \in Runtime
  BY ConfigAssumption DEF ConfigAssumption, NewRuntime, Runtime
<1>1. Init => TypeOK
  <2>1. 1 \in Objects /\ 0 \in 0 .. MaxRegister
    BY ConfigAssumption DEF ConfigAssumption, Objects
  <2>2. QED BY <1>0, <2>1 DEF Init, TypeOK
<1>2. TypeOK /\ [Next]_vars => TypeOK'
  <2> SUFFICES ASSUME TypeOK, [Next]_vars PROVE TypeOK'
    OBVIOUS
  <2> USE ConfigAssumption DEF ConfigAssumption
  <2>0. cur # 0 => cur \in Objects
    BY DEF TypeOK, Objects
  <2>1. CASE RegisterCircuit
    <3>1. cur + 1 \in Objects /\ cur + 1 \in 0 .. MaxRegister
      BY <2>1 DEF RegisterCircuit, TypeOK, Objects
    <3>2. QED BY <1>0, <2>1, <3>1 DEF RegisterCircuit, TypeOK
  <2>2. ASSUME NEW c \in Calls, AdmitUnregistered(c) PROVE TypeOK'
    <3>1. 1 \in Objects /\ 1 \in 0 .. MaxRegister
      BY DEF Objects
    <3>2. QED BY <1>0, <2>2, <3>1 DEF AdmitUnregistered, TypeOK
  <2>3. ASSUME NEW c \in Calls, Admit(c) PROVE TypeOK'
    BY <2>0, <2>3 DEF Admit, TypeOK
  <2>4. ASSUME NEW c \in Calls, AdmitTrial(c) PROVE TypeOK'
    <3> DEFINE r == MaybeRecover(rt[cur])
    <3>1. cur \in Objects
      BY <2>0, <2>4 DEF AdmitTrial
    <3>2. r \in Runtime
      BY <3>1, RuntimeType DEF TypeOK
    <3>3. r.half_open_calls < HalfOpenMaxCalls
      BY <2>4 DEF AdmitTrial
    <3>4. rt' = [rt EXCEPT ![cur] = [r EXCEPT !.half_open_calls = r.half_open_calls + 1]]
      BY <2>4 DEF AdmitTrial
    <3> HIDE DEF r
    <3>5. r.half_open_calls + 1 \in 0 .. HalfOpenMaxCalls
      BY <3>2, <3>3 DEF Runtime
    <3>6. [r EXCEPT !.half_open_calls = r.half_open_calls + 1] \in Runtime
      BY <3>2, <3>5 DEF Runtime
    <3>7. rt' \in [Objects -> Runtime]
      BY <3>1, <3>4, <3>6 DEF TypeOK
    <3>8. QED BY <2>4, <3>1, <3>7 DEF AdmitTrial, TypeOK
  <2>5. ASSUME NEW c \in Calls, Reject(c) PROVE TypeOK'
    BY <2>5 DEF Reject, vars, TypeOK
  <2>6. ASSUME NEW c \in Calls, FinishOk(c) \/ FinishFail(c) \/ FinishCancelled(c) PROVE TypeOK'
    <3> DEFINE r == rt[ref[c]]
    <3>1. r \in Runtime
      BY DEF TypeOK
    <3>2. PICK after \in {r, OnSuccess(r), OnFailure(r)} : Finish(c, after)
      BY <2>6 DEF FinishOk, FinishFail, FinishCancelled
    <3>3. after \in Runtime
      BY <3>1, RuntimeType
    <3>4. after.state = r.state \/ after.state \in {"CLOSED", "OPEN"}
      BY <3>1, OutcomePosition
    <3>5. Persisted(r, after) \in {"absent", "CLOSED", "OPEN"}
      BY <3>4 DEF Persisted, TypeOK
    <3>6. broken' \subseteq Objects
      BY <2>6 DEF FinishOk, FinishFail, FinishCancelled, TypeOK
    <3>7. QED BY <3>2, <3>3, <3>5, <3>6, FinishType
  <2>7. CASE GetCircuitStatus
    <3>1. cur \in Objects
      BY <2>0, <2>7 DEF GetCircuitStatus
    <3>2. MaybeRecover(rt[cur]) \in Runtime
      BY <3>1, RuntimeType DEF TypeOK
    <3>3. QED BY <2>7, <3>1, <3>2 DEF GetCircuitStatus, TypeOK
  <2>8. ASSUME NEW g \in Objects, TimeoutElapses(g) PROVE TypeOK'
    <3>1. [rt[g] EXCEPT !.last_failure = "elapsed"] \in Runtime
      BY DEF TypeOK, Runtime
    <3>2. QED BY <2>8, <3>1 DEF TimeoutElapses, TypeOK
  <2>9. CASE ServiceRecovers
    BY <2>9 DEF ServiceRecovers, TypeOK
  <2>10. CASE UNCHANGED vars
    BY <2>10 DEF vars, TypeOK
  <2>11. QED
    BY <2>1, <2>2, <2>3, <2>4, <2>5, <2>6, <2>7, <2>8, <2>9, <2>10 DEF Next
<1>3. QED BY <1>1, <1>2, PTL DEF Spec

-----------------------------------------------------------------------------
\* The per-runtime form of CanRecover.
Sound(r) ==
  /\ r.state = "OPEN" => r.last_failure # "none"
  /\ r.state = "HALF_OPEN" => r.last_failure = "elapsed"
  /\ r.state = "CLOSED" => r.failure_count < FailureThreshold

\* The state machine keeps a sound runtime sound.
LEMMA RuntimeSound ==
  ASSUME NEW r \in Runtime, Sound(r)
  PROVE  Sound(MaybeRecover(r)) /\ Sound(OnSuccess(r)) /\ Sound(OnFailure(r))
<1> USE ConfigAssumption DEF ConfigAssumption
<1>1. Sound(MaybeRecover(r))
  BY DEF Runtime, MaybeRecover, Sound
<1>2. Sound(OnSuccess(r))
  BY DEF Runtime, OnSuccess, Sound
<1>3. Sound(OnFailure(r))
  BY DEF Runtime, OnFailure, Bump, Sound
<1>4. QED BY <1>1, <1>2, <1>3

\* However stale the calls that report to it, a circuit that is not CLOSED
\* knows the failure its recovery timeout is counted from, so that
\* _maybe_recover can let it recover, and a CLOSED one is below its threshold.
THEOREM CanRecoverCorrect == Spec => []CanRecover
<1> DEFINE AllSound == \A g \in Objects : Sound(rt[g])
<1>0. AllSound <=> CanRecover
  BY DEF CanRecover, Sound
<1>1. Sound(NewRuntime)
  BY ConfigAssumption DEF ConfigAssumption, NewRuntime, Sound
<1>2. Init => AllSound
  BY <1>1 DEF Init
<1>3. TypeOK /\ AllSound /\ [Next]_vars => AllSound'
  <2> SUFFICES ASSUME TypeOK, AllSound, [Next]_vars, NEW g \in Objects
               PROVE  Sound(rt'[g])
    OBVIOUS
  <2>0. rt[g] \in Runtime /\ Sound(rt[g])
    BY DEF TypeOK
  <2>1. CASE RegisterCircuit \/ \E c \in Calls : AdmitUnregistered(c)
    <3>1. rt'[g] = rt[g] \/ rt'[g] = NewRuntime
      BY <2>1 DEF RegisterCircuit, AdmitUnregistered, TypeOK
    <3>2. QED BY <1>1, <2>0, <3>1
  <2>2. ASSUME NEW c \in Calls, AdmitTrial(c) PROVE Sound(rt'[g])
    <3> DEFINE r == MaybeRecover(rt[g])
    <3>1. Sound(r) /\ r \in Runtime
      BY <2>0, RuntimeSound, RuntimeType
    <3>2. rt'[g] = rt[g] \/ rt'[g] = [r EXCEPT !.half_open_calls = r.half_open_calls + 1]
      BY <2>2 DEF AdmitTrial, TypeOK
    <3> HIDE DEF r
    <3>3. Sound([r EXCEPT !.half_open_calls = r.half_open_calls + 1])
      BY <3>1 DEF Sound, Runtime
    <3>4. QED BY <2>0, <3>2, <3>3
  <2>3. ASSUME NEW c \in Calls, FinishOk(c) \/ FinishFail(c) \/ FinishCancelled(c)
        PROVE  Sound(rt'[g])
    <3>1. rt'[g] \in {rt[g], OnSuccess(rt[g]), OnFailure(rt[g])}
      BY <2>3 DEF FinishOk, FinishFail, FinishCancelled, Finish, TypeOK
    <3>2. QED BY <2>0, <3>1, RuntimeSound
  <2>4. CASE GetCircuitStatus
    <3>1. rt'[g] \in {rt[g], MaybeRecover(rt[g])}
      BY <2>4 DEF GetCircuitStatus, TypeOK
    <3>2. QED BY <2>0, <3>1, RuntimeSound
  <2>5. ASSUME NEW h \in Objects, TimeoutElapses(h) PROVE Sound(rt'[g])
    BY <2>0, <2>5 DEF TimeoutElapses, TypeOK, Sound, Runtime
  <2>6. CASE UNCHANGED rt
    BY <2>0, <2>6
  <2>7. QED
    BY <2>1, <2>2, <2>3, <2>4, <2>5, <2>6 DEF Next, vars, Admit, Reject, ServiceRecovers
<1>4. QED BY <1>0, <1>2, <1>3, TypeCorrect, PTL DEF Spec

-----------------------------------------------------------------------------
\* A running call holds a runtime that has been registered.
HoldsRegistered == \A c \in Calls : pc[c] = "running" => ref[c] <= cur

\* What a running call holds stays registered: numbers of runtimes only grow.
LEMMA RegisteredStep ==
  ASSUME TypeOK, HoldsRegistered, [Next]_vars
  PROVE  HoldsRegistered'
<1> USE ConfigAssumption DEF ConfigAssumption
<1>1. ASSUME NEW c \in Calls, pc'[c] = "running" PROVE ref'[c] <= cur'
  <2>0. cur \in Nat /\ ref[c] \in Nat
    BY DEF TypeOK, Objects
  <2>1. cur <= cur' /\ cur' \in Nat
    BY <2>0 DEF Next, vars, RegisterCircuit, AdmitUnregistered, Admit, AdmitTrial, Reject,
           FinishOk, FinishFail, FinishCancelled, Finish, GetCircuitStatus,
           TimeoutElapses, ServiceRecovers
  <2>2. \/ pc[c] = "running" /\ ref'[c] = ref[c]
        \/ ref'[c] = cur'
    BY <1>1 DEF Next, vars, RegisterCircuit, AdmitUnregistered, Admit, AdmitTrial, Reject,
           FinishOk, FinishFail, FinishCancelled, Finish, GetCircuitStatus,
           TimeoutElapses, ServiceRecovers, TypeOK
  <2>3. QED BY <2>0, <2>1, <2>2 DEF HoldsRegistered
<1>2. QED BY <1>1 DEF HoldsRegistered

\* What the row of runtime r should say.
RowOf(r) == IF r.state = "CLOSED" THEN "CLOSED" ELSE "OPEN"

\* The inductive form of RowMirrorsCircuit.
RowInv == RowMirrorsCircuit /\ HoldsRegistered

\* Until the name is registered again, the saved position is the one of the
\* circuit: the operator never reads CLOSED for a circuit that rejects calls,
\* although only some transitions are saved.
THEOREM RowMirrorsCorrect == Spec => []RowMirrorsCircuit
<1> USE ConfigAssumption DEF ConfigAssumption
<1>1. Init => RowInv
  BY DEF Init, RowInv, RowMirrorsCircuit, HoldsRegistered
<1>2. TypeOK /\ RowInv /\ [Next]_vars => RowInv'
  <2> SUFFICES ASSUME TypeOK, RowInv, [Next]_vars PROVE RowInv'
    OBVIOUS
  <2>0. 1 \in Objects /\ rt[1] \in Runtime /\ cur \in Nat
    BY DEF Objects, TypeOK
  <2>1. HoldsRegistered'
    BY RegisteredStep DEF RowInv
  <2>2. RowMirrorsCircuit'
    <3> SUFFICES ASSUME cur' = 1 PROVE row' = RowOf(rt'[1])
      BY DEF RowMirrorsCircuit, RowOf
    <3>1. CASE RegisterCircuit \/ \E c \in Calls : AdmitUnregistered(c)
      <4>1. rt'[1] = NewRuntime /\ row' = "CLOSED"
        BY <2>0, <3>1 DEF RegisterCircuit, AdmitUnregistered, TypeOK
      <4>2. QED BY <4>1 DEF NewRuntime, RowOf
    <3>2. ASSUME NEW c \in Calls, AdmitTrial(c) PROVE row' = RowOf(rt'[1])
      <4> DEFINE r == MaybeRecover(rt[1])
      <4>0. /\ cur = 1 /\ row' = row
            /\ rt' = [rt EXCEPT ![1] = [r EXCEPT !.half_open_calls = r.half_open_calls + 1]]
            /\ r.state = "HALF_OPEN"
        BY <3>2 DEF AdmitTrial
      <4>1. /\ cur = 1 /\ row' = row /\ r.state = "HALF_OPEN"
            /\ rt'[1] = [r EXCEPT !.half_open_calls = r.half_open_calls + 1]
        <5> HIDE DEF r
        <5> QED BY <2>0, <4>0 DEF TypeOK
      <4>2. r \in Runtime /\ rt[1].state # "CLOSED"
        <5>1. r \in Runtime
          BY <2>0, RuntimeType
        <5>2. rt[1].state # "CLOSED"
          BY <4>1 DEF MaybeRecover
        <5>3. QED BY <5>1, <5>2
      <4> HIDE DEF r
      <4>3. rt'[1].state = "HALF_OPEN"
        BY <4>1, <4>2 DEF Runtime
      <4>4. QED BY <4>1, <4>2, <4>3 DEF RowInv, RowMirrorsCircuit, RowOf
    <3>3. ASSUME NEW c \in Calls, FinishOk(c) \/ FinishFail(c) \/ FinishCancelled(c)
          PROVE  row' = RowOf(rt'[1])
      <4>1. cur = 1 /\ ref[c] \in Objects /\ ref[c] <= 1
        BY <3>3 DEF FinishOk, FinishFail, FinishCancelled, Finish, RowInv, HoldsRegistered, TypeOK
      <4>2. ref[c] = 1
        BY <4>1 DEF Objects
      <4>3. PICK after \in {rt[1], OnSuccess(rt[1]), OnFailure(rt[1])} :
              rt'[1] = after /\ row' = Persisted(rt[1], after)
        BY <2>0, <3>3, <4>2 DEF FinishOk, FinishFail, FinishCancelled, Finish, TypeOK
      <4>4. after.state = rt[1].state \/ after.state \in {"CLOSED", "OPEN"}
        BY <2>0, OutcomePosition
      <4>5. QED BY <4>1, <4>3, <4>4 DEF Persisted, RowInv, RowMirrorsCircuit, RowOf
    <3>4. CASE GetCircuitStatus
      <4>1. cur = 1 /\ row' = row /\ rt'[1] = MaybeRecover(rt[1])
        BY <2>0, <3>4 DEF GetCircuitStatus, TypeOK
      <4>2. RowOf(MaybeRecover(rt[1])) = RowOf(rt[1])
        BY <2>0 DEF MaybeRecover, RowOf, Runtime
      <4>3. QED BY <4>1, <4>2 DEF RowInv, RowMirrorsCircuit, RowOf
    <3>5. ASSUME NEW g \in Objects, TimeoutElapses(g) PROVE row' = RowOf(rt'[1])
      <4>1. rt'[1].state = rt[1].state /\ cur = 1 /\ row' = row
        BY <2>0, <3>5 DEF TimeoutElapses, TypeOK, Runtime
      <4>2. QED BY <4>1 DEF RowInv, RowMirrorsCircuit, RowOf
    <3>6. CASE UNCHANGED <<rt, row, cur>>
      BY <3>6 DEF RowInv, RowMirrorsCircuit, RowOf
    <3>7. QED
      BY <3>1, <3>2, <3>3, <3>4, <3>5, <3>6 DEF Next, vars, Admit, Reject, ServiceRecovers
  <2>3. QED BY <2>1, <2>2 DEF RowInv
<1>3. RowInv => RowMirrorsCircuit
  BY DEF RowInv
<1>4. QED BY <1>1, <1>2, <1>3, TypeCorrect, PTL DEF Spec

-----------------------------------------------------------------------------
\* The trial calls of runtime g that hold a place in its budget.
Trials(g) == {c \in Calls : pc[c] = "running" /\ ref[c] = g /\ slot[c]}

\* A place is held only by a running call, and only in a HALF_OPEN period.
SlotInv == \A c \in Calls : slot[c] => pc[c] = "running" /\ rt[ref[c]].state = "HALF_OPEN"

\* The inductive form of TrialsAccounted: the places of an earlier period are
\* gone when the next one begins, so a period starts from an empty set.
TrialInv == /\ SlotInv /\ HoldsRegistered
            /\ \A g \in Objects : IsFiniteSet(Trials(g))
            /\ TrialsAccounted

\* Outside HALF_OPEN nobody holds a place.
LEMMA NoTrialsOutside ==
  ASSUME SlotInv, NEW g, rt[g].state # "HALF_OPEN"
  PROVE  Trials(g) = {}
BY DEF SlotInv, Trials

\* The outcome of a call ends a HALF_OPEN period.
LEMMA OutcomeEndsPeriod ==
  ASSUME NEW r \in Runtime
  PROVE  OnSuccess(r).state # "HALF_OPEN" /\ OnFailure(r).state # "HALF_OPEN"
BY DEF Runtime, OnSuccess, OnFailure, Bump

\* A runtime none of whose trial calls was cancelled counts in half_open_calls
\* exactly the trial calls of the present period that still run, however many
\* calls of earlier periods and replaced runtimes report their outcomes late.
THEOREM TrialsAccountedCorrect == Spec => []TrialsAccounted
<1> USE ConfigAssumption DEF ConfigAssumption
<1>1. Init => TrialInv
  <2> SUFFICES ASSUME Init PROVE TrialInv
    OBVIOUS
  <2>1. \A g \in Objects : Trials(g) = {}
    BY DEF Init, Trials
  <2>2. \A g \in Objects : rt[g].state = "CLOSED"
    BY DEF Init, NewRuntime
  <2>3. QED
    BY <2>1, <2>2, FS_EmptySet DEF Init, TrialInv, SlotInv, HoldsRegistered, TrialsAccounted
<1>2. TypeOK /\ TrialInv /\ [Next]_vars => TrialInv'
  <2> SUFFICES ASSUME TypeOK, TrialInv, [Next]_vars PROVE TrialInv'
    OBVIOUS
  <2>0. SlotInv /\ HoldsRegistered /\ HoldsRegistered'
    BY RegisteredStep DEF TrialInv
  <2> DEFINE Good == /\ SlotInv'
                     /\ \A g \in Objects :
                          /\ IsFiniteSet(Trials(g)')
                          /\ g \notin broken' /\ rt'[g].state = "HALF_OPEN"
                             => rt'[g].half_open_calls = Cardinality(Trials(g)')
  <2> SUFFICES Good
    BY <2>0 DEF TrialInv, TrialsAccounted, Trials
  <2>1. \A g \in Objects :
          /\ IsFiniteSet(Trials(g))
          /\ g \notin broken /\ rt[g].state = "HALF_OPEN"
             => rt[g].half_open_calls = Cardinality(Trials(g))
    BY DEF TrialInv, TrialsAccounted, Trials
  <2>2. cur # 0 => cur \in Objects
    BY DEF TypeOK, Objects
  <2>m. ASSUME NEW g
        PROVE  /\ Trials(g) \subseteq Calls /\ Trials(g)' \subseteq Calls
               /\ \A b \in Calls :
                    /\ b \in Trials(g) <=> pc[b] = "running" /\ ref[b] = g /\ slot[b]
                    /\ b \in Trials(g)' <=> pc'[b] = "running" /\ ref'[b] = g /\ slot'[b]
    BY DEF Trials
  <2> HIDE DEF TrialInv
  <2>3. CASE RegisterCircuit \/ \E c \in Calls : AdmitUnregistered(c)
    <3> DEFINE h == cur + 1
    <3>1. /\ h \in Objects /\ rt' = [rt EXCEPT ![h] = NewRuntime]
          /\ broken' = broken /\ slot' = slot
      BY <2>3 DEF RegisterCircuit, AdmitUnregistered, TypeOK, Objects
    <3>2. \A c \in Calls : slot[c] => ref[c] # h /\ pc'[c] = pc[c] /\ ref'[c] = ref[c]
      BY <2>0, <2>3 DEF SlotInv, HoldsRegistered, RegisterCircuit, AdmitUnregistered, TypeOK,
                        Objects
    <3>3. \A g \in Objects : Trials(g)' = Trials(g)
      BY <2>0, <3>1, <3>2 DEF Trials, SlotInv
    <3>4. \A g \in Objects : rt'[g] = IF g = h THEN NewRuntime ELSE rt[g]
      BY <3>1 DEF TypeOK
    <3>5. SlotInv'
      BY <2>0, <3>1, <3>2, <3>4 DEF SlotInv, TypeOK
    <3>6. QED BY <2>1, <3>1, <3>3, <3>4, <3>5 DEF NewRuntime
  <2>4. ASSUME NEW c \in Calls, AdmitTrial(c) PROVE Good
    <3>0. PICK k \in Objects : k = cur
      BY <2>2, <2>4 DEF AdmitTrial
    <3> DEFINE r == MaybeRecover(rt[k])
    <3>1. /\ r.state = "HALF_OPEN" /\ pc[c] = "idle"
          /\ rt' = [rt EXCEPT ![k] = [r EXCEPT !.half_open_calls = r.half_open_calls + 1]]
          /\ pc' = [pc EXCEPT ![c] = "running"] /\ ref' = [ref EXCEPT ![c] = k]
          /\ slot' = [slot EXCEPT ![c] = TRUE] /\ broken' = broken
      BY <3>0, <2>4 DEF AdmitTrial
    <3>2. r \in Runtime /\ rt[k] \in Runtime
      BY <3>1, RuntimeType DEF TypeOK
    <3>3. \/ rt[k].state = "HALF_OPEN" /\ r = rt[k]
          \/ rt[k].state # "HALF_OPEN" /\ r.half_open_calls = 0
      BY <3>1, <3>2 DEF MaybeRecover, Runtime
    <3> HIDE DEF r
    <3>4. ~slot[c]
      BY <2>0, <3>1 DEF SlotInv
    <3>a. /\ \A b \in Calls \ {c} : pc'[b] = pc[b] /\ ref'[b] = ref[b] /\ (slot'[b] <=> slot[b])
          /\ pc'[c] = "running" /\ ref'[c] = k /\ slot'[c]
      BY <3>1 DEF TypeOK
    <3>5. /\ \A g \in Objects \ {k} : Trials(g)' = Trials(g) /\ rt'[g] = rt[g]
          /\ Trials(k)' = Trials(k) \cup {c} /\ c \notin Trials(k)
      <4>1. c \notin Trials(k) /\ \A b \in Calls : b \in Trials(k)' <=> b \in Trials(k) \cup {c}
        BY <2>m, <3>1, <3>4, <3>a
      <4>2. ASSUME NEW g \in Objects \ {k}
            PROVE  rt'[g] = rt[g] /\ \A b \in Calls : b \in Trials(g)' <=> b \in Trials(g)
        <5>1. rt'[g] = rt[g]
          BY <3>1 DEF TypeOK
        <5>2. QED BY <2>m, <3>4, <3>a, <5>1
      <4>3. QED BY <2>m, <4>1, <4>2, SMTT(30)
    <3>6. /\ rt'[k].state = "HALF_OPEN"
          /\ rt'[k].half_open_calls = r.half_open_calls + 1
      BY <3>1, <3>2 DEF TypeOK, Runtime
    <3>7. SlotInv'
      BY <2>0, <3>1, <3>5, <3>6 DEF SlotInv, TypeOK
    <3>8. k \notin broken => r.half_open_calls = Cardinality(Trials(k))
      BY <2>0, <2>1, <3>1, <3>3, NoTrialsOutside, FS_EmptySet
    <3>9. /\ IsFiniteSet(Trials(k)')
          /\ Cardinality(Trials(k)') = Cardinality(Trials(k)) + 1
      BY <2>1, <3>1, <3>5, FS_AddElement
    <3>10. ASSUME NEW g \in Objects
           PROVE  /\ IsFiniteSet(Trials(g)')
                  /\ g \notin broken' /\ rt'[g].state = "HALF_OPEN"
                     => rt'[g].half_open_calls = Cardinality(Trials(g)')
      <4>1. CASE g = k
        BY <3>1, <3>6, <3>8, <3>9, <4>1
      <4>2. CASE g # k
        BY <2>1, <3>1, <3>5, <4>2
      <4>3. QED BY <4>1, <4>2
    <3>11. QED BY <3>7, <3>10
  <2>5. ASSUME NEW c \in Calls, FinishOk(c) \/ FinishFail(c) \/ FinishCancelled(c) PROVE Good
    <3>0. PICK h \in Objects : h = ref[c]
      BY DEF TypeOK
    <3>1. rt[h] \in Runtime
      BY DEF TypeOK
    <3>2. PICK after \in Runtime :
            /\ Finish(c, after)
            /\ after.state = "HALF_OPEN" => after = rt[h] /\ FinishCancelled(c)
      BY <2>5, <3>0, <3>1, RuntimeType, OutcomeEndsPeriod DEF FinishOk, FinishFail, FinishCancelled
    <3>3. /\ rt' = [rt EXCEPT ![h] = after] /\ ref' = ref
          /\ \A b \in Calls :
               /\ slot'[b] <=> (slot[b] /\ b # c /\ (ref[b] = h => after.state = "HALF_OPEN"))
               /\ b # c => pc'[b] = pc[b]
          /\ pc'[c] = "idle"
      BY <3>0, <3>2 DEF Finish, SlotsAfter, TypeOK
    <3>a. rt'[h] = after /\ \A g \in Objects \ {h} : rt'[g] = rt[g]
      BY <3>1, <3>3 DEF TypeOK
    <3>4. /\ \A g \in Objects \ {h} : rt'[g] = rt[g] /\ Trials(g)' = Trials(g)
          /\ rt'[h] = after /\ Trials(h)' \subseteq Trials(h)
      <4>1. ASSUME NEW g \in Objects \ {h}
            PROVE  \A b \in Calls : b \in Trials(g)' <=> b \in Trials(g)
        BY <2>m, <3>0, <3>3
      <4>2. \A b \in Calls : b \in Trials(h)' => b \in Trials(h)
        BY <2>m, <3>3
      <4>3. QED BY <2>m, <3>a, <4>1, <4>2
    <3>5. SlotInv'
      <4> SUFFICES ASSUME NEW b \in Calls, slot'[b]
                   PROVE  pc'[b] = "running" /\ rt'[ref'[b]].state = "HALF_OPEN"
        BY DEF SlotInv
      <4>1. slot[b] /\ b # c /\ (ref[b] = h => after.state = "HALF_OPEN") /\ pc'[b] = pc[b]
        BY <3>3
      <4>2. pc[b] = "running" /\ rt[ref[b]].state = "HALF_OPEN" /\ ref[b] \in Objects
        BY <2>0, <4>1 DEF SlotInv, TypeOK
      <4>3. QED BY <3>3, <3>a, <4>1, <4>2
    <3>6. \A g \in Objects : IsFiniteSet(Trials(g)')
      <4>1. IsFiniteSet(Trials(h)')
        BY <2>1, <3>1, <3>4, FS_Subset
      <4>2. QED BY <2>1, <3>4, <4>1
    <3>7. broken \subseteq broken'
      BY <2>5 DEF FinishOk, FinishFail, FinishCancelled
    <3>8. ASSUME h \notin broken', after.state = "HALF_OPEN"
          PROVE  after = rt[h] /\ Trials(h)' = Trials(h)
      <4>1. after = rt[h] /\ ~slot[c]
        BY <3>0, <3>2, <3>8 DEF FinishCancelled
      <4>2. \A b \in Calls : b \in Trials(h)' <=> b \in Trials(h)
        BY <2>m, <3>3, <3>8, <4>1
      <4>3. Trials(h) \subseteq Calls /\ Trials(h)' \subseteq Calls
        BY <2>m
      <4>4. QED BY <4>1, <4>2, <4>3
    <3>9. QED BY <2>1, <3>1, <3>4, <3>5, <3>6, <3>7, <3>8
  <2>6. CASE GetCircuitStatus
    <3>1. /\ cur \in Objects /\ rt' = [rt EXCEPT ![cur] = MaybeRecover(rt[cur])]
          /\ UNCHANGED <<pc, ref, slot, broken>>
      BY <2>2, <2>6 DEF GetCircuitStatus
    <3>2. \/ MaybeRecover(rt[cur]) = rt[cur]
          \/ rt[cur].state = "OPEN" /\ MaybeRecover(rt[cur]).half_open_calls = 0
      BY <3>1 DEF MaybeRecover, TypeOK, Runtime
    <3>3. \A g \in Objects : Trials(g)' = Trials(g)
      BY <3>1 DEF Trials
    <3>4. \A g \in Objects : \/ rt'[g] = rt[g]
                             \/ rt[g].state = "OPEN" /\ rt'[g].half_open_calls = 0
      BY <3>1, <3>2 DEF TypeOK
    <3>5. SlotInv'
      BY <2>0, <3>1, <3>4 DEF SlotInv, TypeOK
    <3>6. \A g \in Objects : rt[g].state = "OPEN" => Cardinality(Trials(g)) = 0
      BY <2>0, NoTrialsOutside, FS_EmptySet
    <3>7. QED BY <2>1, <3>1, <3>3, <3>4, <3>5, <3>6
  <2>7. ASSUME NEW h \in Objects, TimeoutElapses(h) PROVE Good
    <3>1. /\ \A g \in Objects : /\ rt'[g].state = rt[g].state
                               /\ rt'[g].half_open_calls = rt[g].half_open_calls
          /\ UNCHANGED <<pc, ref, slot, broken>>
      BY <2>7 DEF TimeoutElapses, TypeOK, Runtime
    <3>2. \A g \in Objects : Trials(g)' = Trials(g)
      BY <3>1 DEF Trials
    <3>3. SlotInv'
      BY <2>0, <3>1 DEF SlotInv, TypeOK
    <3>4. QED BY <2>1, <3>1, <3>2, <3>3
  <2>8. ASSUME NEW c \in Calls, Admit(c) PROVE Good
    <3>1. /\ UNCHANGED <<rt, slot, broken>> /\ ~slot[c]
          /\ \A b \in Calls \ {c} : pc'[b] = pc[b] /\ ref'[b] = ref[b]
      BY <2>0, <2>8 DEF Admit, SlotInv, TypeOK
    <3>2. \A g \in Objects : Trials(g)' = Trials(g)
      BY <3>1 DEF Trials
    <3>3. SlotInv'
      BY <2>0, <3>1 DEF SlotInv
    <3>4. QED BY <2>1, <3>1, <3>2, <3>3
  <2>9. CASE UNCHANGED <<rt, pc, ref, slot, broken>>
    BY <2>0, <2>1, <2>9 DEF SlotInv, Trials
  <2>10. QED
    BY <2>3, <2>4, <2>5, <2>6, <2>7, <2>8, <2>9 DEF Next, vars, Reject, ServiceRecovers
<1>3. TrialInv => TrialsAccounted
  BY DEF TrialInv
<1>4. QED BY <1>1, <1>2, <1>3, TypeCorrect, PTL DEF Spec

-----------------------------------------------------------------------------
\* The circuit implements BreakerSpec: callers of the name never see it jump
\* from OPEN to CLOSED or from CLOSED to HALF_OPEN unless the name was
\* registered again.
THEOREM ImplementsPromise == Spec => KeepsPromise
<1> USE ConfigAssumption DEF ConfigAssumption
<1>1. Init => Promise!Init
  BY DEF Init, Promise!Init, Position
<1>2. TypeOK /\ TypeOK' /\ CanRecover /\ CanRecover' /\ [Next]_vars
      => [Promise!Next]_Promise!vars
  <2> SUFFICES ASSUME TypeOK, TypeOK', CanRecover, CanRecover', [Next]_vars
               PROVE  [Promise!Next]_Promise!vars
    OBVIOUS
  <2> USE DEF Promise!Next, Promise!vars, Position
  <2>0. ASSUME cur # 0
        PROVE  cur \in Objects /\ rt[cur] \in Runtime /\ Sound(rt[cur])
    BY <2>0 DEF TypeOK, Objects, CanRecover, Sound
  <2>1. CASE RegisterCircuit \/ \E c \in Calls : AdmitUnregistered(c)
    <3>1. rt'[cur'] = NewRuntime /\ cur' = cur + 1 /\ cur' # 0
      BY <2>1 DEF RegisterCircuit, AdmitUnregistered, TypeOK, Objects
    <3>2. QED BY <3>1 DEF Promise!Replace, NewRuntime
  <2>2. ASSUME NEW c \in Calls, AdmitTrial(c) PROVE [Promise!Next]_Promise!vars
    <3> DEFINE r == MaybeRecover(rt[cur])
    <3>1. /\ cur # 0 /\ cur' = cur /\ r.state = "HALF_OPEN"
          /\ rt' = [rt EXCEPT ![cur] = [r EXCEPT !.half_open_calls = r.half_open_calls + 1]]
      BY <2>2 DEF AdmitTrial
    <3>2. cur \in Objects /\ rt[cur] \in Runtime /\ r \in Runtime
      BY <2>0, <3>1, RuntimeType
    <3>3. /\ r.last_failure = rt[cur].last_failure
          /\ \/ rt[cur].state = "HALF_OPEN"
             \/ rt[cur].state = "OPEN" /\ rt[cur].last_failure = "elapsed"
      BY <3>1, <3>2 DEF MaybeRecover, Runtime
    <3>4. rt'[cur] = [r EXCEPT !.half_open_calls = r.half_open_calls + 1]
      BY <3>1, <3>2 DEF TypeOK
    <3> HIDE DEF r
    <3>5. rt'[cur].state = "HALF_OPEN" /\ rt'[cur].last_failure = r.last_failure
      BY <3>1, <3>2, <3>4 DEF Runtime
    <3>6. QED BY <3>1, <3>3, <3>5 DEF Promise!Probe
  <2>3. ASSUME NEW c \in Calls, FinishOk(c) \/ FinishFail(c) \/ FinishCancelled(c)
        PROVE  [Promise!Next]_Promise!vars
    <3>1. cur' = cur
      BY <2>3 DEF FinishOk, FinishFail, FinishCancelled, Finish
    <3>2. CASE cur = 0
      BY <3>1, <3>2
    <3>3. CASE cur # 0
      <4> DEFINE r == rt[cur]
      <4>1. r \in Runtime /\ Sound(r) /\ rt'[cur] \in {r, OnSuccess(r), OnFailure(r)}
        BY <2>0, <2>3, <3>3 DEF FinishOk, FinishFail, FinishCancelled, Finish, TypeOK
      <4>2. CASE rt'[cur] = r
        BY <3>1, <4>2
      <4>3. CASE rt'[cur] = OnSuccess(r)
        <5>1. \/ OnSuccess(r).state = r.state /\ OnSuccess(r).last_failure = r.last_failure
              \/ r.state = "HALF_OPEN" /\ OnSuccess(r).state = "CLOSED"
          BY <4>1 DEF OnSuccess, Runtime
        <5>2. QED BY <3>1, <3>3, <4>3, <5>1 DEF Promise!Close
      <4>4. CASE rt'[cur] = OnFailure(r)
        <5>1. /\ OnFailure(r).last_failure = "recent"
              /\ \/ OnFailure(r).state = r.state /\ r.state # "HALF_OPEN"
                 \/ OnFailure(r).state = "OPEN" /\ r.state \in {"CLOSED", "HALF_OPEN"}
          BY <4>1 DEF OnFailure, Bump, Runtime
        <5>2. r.state \in {"CLOSED", "OPEN", "HALF_OPEN"}
          BY <4>1 DEF Runtime
        <5>3. QED
          BY <3>1, <3>3, <4>4, <5>1, <5>2 DEF Promise!Trip, Promise!Restamp, Promise!Reopen
      <4>5. QED BY <4>1, <4>2, <4>3, <4>4
    <3>4. QED BY <3>2, <3>3
  <2>4. CASE GetCircuitStatus
    <3>1. cur # 0 /\ cur' = cur /\ rt'[cur] = MaybeRecover(rt[cur])
      BY <2>0, <2>4 DEF GetCircuitStatus, TypeOK
    <3>2. \/ MaybeRecover(rt[cur]) = rt[cur]
          \/ /\ rt[cur].state = "OPEN" /\ rt[cur].last_failure = "elapsed"
             /\ MaybeRecover(rt[cur]).state = "HALF_OPEN"
             /\ MaybeRecover(rt[cur]).last_failure = "elapsed"
      BY <2>0, <3>1 DEF MaybeRecover, Runtime
    <3>3. QED BY <3>1, <3>2 DEF Promise!Probe
  <2>5. ASSUME NEW g \in Objects, TimeoutElapses(g) PROVE [Promise!Next]_Promise!vars
    <3>1. cur' = cur
      BY <2>5 DEF TimeoutElapses
    <3>2. CASE cur # 0 /\ g = cur
      <4>1. /\ rt'[cur].state = rt[cur].state
            /\ rt'[cur].last_failure = "elapsed" /\ rt[cur].last_failure = "recent"
        BY <2>0, <2>5, <3>2 DEF TimeoutElapses, TypeOK, Runtime
      <4>2. rt[cur].state \in {"CLOSED", "OPEN"}
        BY <2>0, <3>2, <4>1 DEF Sound, Runtime
      <4>3. QED BY <3>1, <3>2, <4>1, <4>2 DEF Promise!Cool
    <3>3. CASE cur = 0 \/ g # cur
      BY <2>0, <2>5, <3>1, <3>3 DEF TimeoutElapses, TypeOK
    <3>4. QED BY <3>2, <3>3
  <2>6. CASE UNCHANGED <<rt, cur>>
    BY <2>6
  <2>7. QED
    BY <2>1, <2>2, <2>3, <2>4, <2>5, <2>6 DEF Next, vars, Admit, Reject, ServiceRecovers
<1>3. QED
  BY <1>1, <1>2, TypeCorrect, CanRecoverCorrect, PTL DEF Spec, KeepsPromise, Promise!Spec
=============================================================================
