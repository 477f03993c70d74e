--------------------------- MODULE WorkflowProofs ---------------------------
(***************************************************************************)
(* Theorems about a workflow instance, for any list of steps, any          *)
(* declared compensations, gates and attempts.  For any number of drivers  *)
(* of any kind: types, and that compensation has a driver.  For one linear *)
(* driver, as execute_adaptive and approve make it: the steps are taken in *)
(* order, a gate is passed with an approval only, a failed instance is     *)
(* undone, and only an uncaught exception leaves one RUNNING.              *)
(***************************************************************************)
EXTENDS WorkflowEngine, SequenceTheorems, WellFoundedInduction, TLAPS

(* Any drivers. *)

\* What a driver has at the place where it is.
DriverInv ==
  \A d \in Drivers :
    /\ pc[d] \in {"vault", "ready", "body", "sleep"} => step[d] \in Steps
    /\ pc[d] = "comp" => /\ todo[d] # <<>>
                         /\ Head(todo[d]) # NoStep
                         /\ todo[d][Len(todo[d])] # NoStep
    /\ pc[d] = "llm" => mode[d] = "plan"
    /\ (mode[d] = "plan" /\ (IF pc[d] = "comp" THEN after[d] = "err" ELSE pc[d] # "idle"))
         => plan[d].left > 0

WorkflowInv == WorkflowTypeOK /\ DriverInv

\* A set of positions that is not empty has a first one.
LEMMA FirstPosition ==
  ASSUME NEW T \in SUBSET Nat, T # {}
  PROVE  Min(T) \in T /\ \A y \in T : Min(T) <= y
<1> DEFINE R == OpToRel(<, Nat)
<1>1. \E x \in T : \A y \in T : ~ (<<y, x>> \in R)
  <2>1. IsWellFoundedOn(R, Nat)
    BY NatLessThanWellFounded
  <2> HIDE DEF R
  <2> QED
    BY <2>1, WFMin
<1>2. PICK x \in T : \A y \in T : ~ (y < x)
  BY <1>1 DEF OpToRel
<1>3. \A y \in T : x <= y
  BY <1>2
<1> QED
  BY <1>3 DEF Min

\* A step stands at its index, and nowhere else in the list.
LEMMA IndexFacts ==
  /\ Len(StepSeq) \in Nat /\ Len(StepSeq) > 0
  /\ \A i \in 1 .. Len(StepSeq) : StepSeq[i] \in Steps /\ Index(StepSeq[i]) = i
  /\ \A s \in Steps : Index(s) \in 1 .. Len(StepSeq) /\ StepSeq[Index(s)] = s
<1>1. StepSeq \in Seq(Steps) /\ Len(StepSeq) > 0
      /\ \A i, j \in 1 .. Len(StepSeq) : StepSeq[i] = StepSeq[j] => i = j
  BY WorkflowAssumption
<1>2. Len(StepSeq) \in Nat /\ DOMAIN StepSeq = 1 .. Len(StepSeq)
  BY <1>1
<1>3. \A s \in Steps : \E i \in 1 .. Len(StepSeq) : StepSeq[i] = s
  BY <1>2 DEF Steps, ToSet
<1>4. \A s \in Steps : Index(s) \in 1 .. Len(StepSeq) /\ StepSeq[Index(s)] = s
  BY <1>3 DEF Index
<1>5. \A i \in 1 .. Len(StepSeq) : StepSeq[i] \in Steps
  BY <1>2 DEF Steps, ToSet
<1> QED
  BY <1>1, <1>2, <1>4, <1>5

\* What compensate() goes through after it has passed over entries without a
\* compensation: it starts with one, it ends as before, and no compensation is lost.
LEMMA DueFacts ==
  ASSUME NEW q \in Seq(Steps \cup {NoStep}), q # <<>>, q[Len(q)] # NoStep
  PROVE  /\ Due(q) \in Seq(Steps \cup {NoStep}) /\ Due(q) # <<>>
         /\ Head(Due(q)) \in Steps /\ Head(Due(q)) # NoStep
         /\ Due(q)[Len(Due(q))] # NoStep
         /\ ToSet(q) \subseteq ToSet(Due(q)) \cup {NoStep}
<1> DEFINE I == {i \in 1 .. Len(q) : q[i] # NoStep}
           n == Min(I)
<1>1. Len(q) \in Nat /\ Len(q) > 0 /\ DOMAIN q = 1 .. Len(q)
      /\ \A i \in 1 .. Len(q) : q[i] \in Steps \cup {NoStep}
  BY EmptySeq, ElementOfSeq
<1>2. I \in SUBSET Nat /\ Len(q) \in I
  BY <1>1
<1>3. n \in I /\ \A y \in I : n <= y
  BY <1>2, FirstPosition
<1>4. Due(q) = SubSeq(q, n, Len(q))
  <2>1. SelectInSeq(q, LAMBDA c : c # NoStep) = IF I # {} THEN n ELSE 0
    BY DEF SelectInSeq
  <2>2. I # {}
    BY <1>2
  <2> QED
    BY <2>1, <2>2 DEF Due
<1> HIDE DEF n
<1>5. n \in 1 .. Len(q) /\ q[n] # NoStep /\ \A i \in 1 .. Len(q) : i < n => q[i] = NoStep
  <2>1. n \in 1 .. Len(q) /\ q[n] # NoStep
    BY <1>3
  <2>2. ASSUME NEW i \in 1 .. Len(q), i < n PROVE q[i] = NoStep
    <3>1. i \notin I
      BY <1>1, <1>3, <2>1, <2>2
    <3> QED
      BY <3>1
  <2> QED
    BY <2>1, <2>2
<1>6. /\ Due(q) \in Seq(Steps \cup {NoStep})
      /\ Len(Due(q)) = Len(q) - n + 1
      /\ \A i \in 1 .. Len(q) - n + 1 : Due(q)[i] = q[n + i - 1]
  BY <1>1, <1>4, <1>5, SubSeqProperties
<1>7. Due(q) # <<>> /\ Head(Due(q)) = q[n] /\ Due(q)[Len(Due(q))] = q[Len(q)]
  <2>1. Len(Due(q)) > 0 /\ 1 \in 1 .. Len(q) - n + 1 /\ Len(q) - n + 1 \in 1 .. Len(q) - n + 1
    BY <1>1, <1>5, <1>6
  <2>2. Due(q)[1] = q[n] /\ Due(q)[Len(Due(q))] = q[Len(q)]
    BY <1>1, <1>5, <1>6, <2>1
  <2> QED
    BY <1>6, <2>1, <2>2, EmptySeq, HeadTailProperties
<1>8. ToSet(q) \subseteq ToSet(Due(q)) \cup {NoStep}
  <2> SUFFICES ASSUME NEW i \in 1 .. Len(q), q[i] # NoStep
               PROVE  q[i] \in ToSet(Due(q))
    BY <1>1 DEF ToSet
  <2>1. i >= n /\ i - n + 1 \in 1 .. Len(q) - n + 1
    BY <1>1, <1>5
  <2>2. Due(q)[i - n + 1] = q[i] /\ i - n + 1 \in DOMAIN Due(q)
    BY <1>1, <1>5, <1>6, <2>1
  <2> QED
    BY <2>2 DEF ToSet
<1> QED
  BY <1>1, <1>5, <1>6, <1>7, <1>8

\* The list of compensate(f) has the compensations of every step up to f.
LEMMA CompensationFacts ==
  ASSUME NEW f \in Steps, Comp[f] # NoStep
  PROVE  /\ Compensations(f) \in Seq(Steps \cup {NoStep}) /\ Compensations(f) # <<>>
         /\ Head(Compensations(f)) \in Steps /\ Head(Compensations(f)) # NoStep
         /\ Compensations(f)[Len(Compensations(f))] # NoStep
         /\ \A i \in 1 .. Index(f) :
              Comp[StepSeq[i]] \in ToSet(Compensations(f)) \cup {NoStep}
<1> DEFINE n == Index(f)
           at(i) == IF i < n THEN n - i ELSE i
<1>1. n \in Nat /\ n > 0 /\ n <= Len(StepSeq) /\ StepSeq[n] = f
      /\ Len(StepSeq) \in Nat /\ \A i \in 1 .. Len(StepSeq) : StepSeq[i] \in Steps
  BY IndexFacts
<1>2. Comp \in [Steps -> Steps \cup {NoStep}]
  BY WorkflowAssumption
<1> HIDE DEF n
<1>3. \A i \in 1 .. n : at(i) \in 1 .. n /\ at(at(i)) = i
  BY <1>1
<1>4. Rollback(f) = [i \in 1 .. n |-> Comp[StepSeq[at(i)]]]
  BY DEF Rollback, n
<1> HIDE DEF at
<1>5. \A i \in 1 .. n : StepSeq[at(i)] \in Steps
  BY <1>1, <1>3
<1>6. Rollback(f) \in Seq(Steps \cup {NoStep}) /\ Len(Rollback(f)) = n
  <2>1. \A i \in 1 .. n : Comp[StepSeq[at(i)]] \in Steps \cup {NoStep}
    BY <1>2, <1>5
  <2>2. Rollback(f) \in Seq(Steps \cup {NoStep})
    BY <1>1, <1>4, <2>1
  <2> QED
    BY <1>1, <1>4, <2>2, LenProperties
<1>7. Rollback(f) # <<>> /\ Rollback(f)[Len(Rollback(f))] # NoStep
  <2>1. at(n) = n
    BY <1>1 DEF at
  <2> QED
    BY <1>1, <1>4, <1>6, <2>1, EmptySeq
<1>8. \A i \in 1 .. n : Comp[StepSeq[i]] \in ToSet(Rollback(f))
  <2> SUFFICES ASSUME NEW i \in 1 .. n PROVE Comp[StepSeq[i]] \in ToSet(Rollback(f))
    OBVIOUS
  <2>1. at(i) \in DOMAIN Rollback(f) /\ Rollback(f)[at(i)] = Comp[StepSeq[i]]
    BY <1>3, <1>4
  <2> QED
    BY <2>1 DEF ToSet
<1> QED
  BY <1>6, <1>7, <1>8, DueFacts DEF Compensations, n

\* A driver that starts to compensate f.
LEMMA CompensateStep ==
  ASSUME WorkflowTypeOK, NEW d \in Drivers, NEW f \in Steps, Comp[f] # NoStep,
         NEW next \in {"idle", "err"}, Compensate(d, f, next)
  PROVE  /\ status' \in Status /\ pc' \in [Drivers -> Place]
         /\ todo' \in [Drivers -> Seq(Steps \cup {NoStep})]
         /\ after' \in [Drivers -> {"idle", "err"}] /\ undone' \subseteq Steps
         /\ todo'[d] # <<>> /\ Head(todo'[d]) # NoStep /\ todo'[d][Len(todo'[d])] # NoStep
         /\ pc'[d] = "comp" /\ after'[d] = next
         /\ \A e \in Drivers \ {d} : pc'[e] = pc[e] /\ todo'[e] = todo[e] /\ after'[e] = after[e]
<1> DEFINE q == Compensations(f)
<1>1. q \in Seq(Steps \cup {NoStep}) /\ q # <<>> /\ Head(q) \in Steps /\ Head(q) # NoStep
      /\ q[Len(q)] # NoStep
  BY CompensationFacts
<1>2. /\ status' = "COMPENSATING" /\ todo' = [todo EXCEPT ![d] = q]
      /\ after' = [after EXCEPT ![d] = next] /\ undone' = undone \cup {Head(q)}
      /\ pc' = [pc EXCEPT ![d] = "comp"]
  BY DEF Compensate, Goto
<1>3. todo \in [Drivers -> Seq(Steps \cup {NoStep})] /\ after \in [Drivers -> {"idle", "err"}]
      /\ pc \in [Drivers -> Place] /\ undone \subseteq Steps
  BY DEF WorkflowTypeOK
<1> HIDE DEF q
<1> QED
  BY <1>1, <1>2, <1>3 DEF Status, Place, Waiting

\* It has there what it needs, and the other drivers are where they were.
LEMMA CompensateDriver ==
  ASSUME WorkflowTypeOK, DriverInv, NEW d \in Drivers, NEW f \in Steps, Comp[f] # NoStep,
         NEW next \in {"idle", "err"}, Compensate(d, f, next), UNCHANGED <<mode, step, plan>>,
         next = "err" => (mode[d] = "plan" => plan[d].left > 0)
  PROVE  DriverInv'
<1>1. /\ todo'[d] # <<>> /\ Head(todo'[d]) # NoStep /\ todo'[d][Len(todo'[d])] # NoStep
      /\ pc'[d] = "comp" /\ after'[d] = next
      /\ \A e \in Drivers \ {d} : pc'[e] = pc[e] /\ todo'[e] = todo[e] /\ after'[e] = after[e]
  BY CompensateStep
<1> SUFFICES ASSUME NEW e \in Drivers PROVE DriverInv!(e)'
  BY DEF DriverInv
<1>2. CASE e = d
  BY <1>1, <1>2
<1>3. CASE e # d
  BY <1>1, <1>3 DEF DriverInv
<1> QED
  BY <1>2, <1>3

\* The next compensation, or the end of them.
LEMMA NextCompensationStep ==
  ASSUME WorkflowTypeOK, DriverInv, NEW d \in Drivers, pc[d] = "comp", NextCompensation(d)
  PROVE  /\ status' \in Status /\ pc' \in [Drivers -> Place]
         /\ todo' \in [Drivers -> Seq(Steps \cup {NoStep})] /\ undone' \subseteq Steps
         /\ \A e \in Drivers \ {d} : pc'[e] = pc[e] /\ todo'[e] = todo[e]
         /\ \/ /\ pc' = pc /\ status' = status
               /\ todo'[d] # <<>> /\ Head(todo'[d]) # NoStep
               /\ todo'[d][Len(todo'[d])] # NoStep
               /\ undone' = undone \cup {Head(todo'[d])}
               /\ ToSet(todo[d]) \subseteq {Head(todo[d]), NoStep} \cup ToSet(todo'[d])
            \/ /\ pc'[d] = after[d] /\ status' = "FAILED" /\ todo'[d] = <<>>
               /\ undone' = undone /\ ToSet(todo[d]) = {Head(todo[d])}
<1> DEFINE q == todo[d]
           r == Due(Tail(q))
<1>1. q \in Seq(Steps \cup {NoStep}) /\ q # <<>> /\ Head(q) # NoStep /\ q[Len(q)] # NoStep
  BY DEF WorkflowTypeOK, DriverInv
<1>2. todo \in [Drivers -> Seq(Steps \cup {NoStep})] /\ after \in [Drivers -> {"idle", "err"}]
      /\ pc \in [Drivers -> Place] /\ undone \subseteq Steps /\ status \in Status
  BY DEF WorkflowTypeOK
<1>3. Len(q) \in Nat /\ Len(q) > 0 /\ DOMAIN q = 1 .. Len(q) /\ Head(q) = q[1]
  BY <1>1, EmptySeq, LenProperties
<1> HIDE DEF q
<1>4. CASE Len(q) > 1
  <2>1. todo' = [todo EXCEPT ![d] = r] /\ undone' = undone \cup {Head(r)}
        /\ status' = status /\ pc' = pc
    BY <1>4 DEF NextCompensation, q
  <2>2. Tail(q) \in Seq(Steps \cup {NoStep}) /\ Len(Tail(q)) = Len(q) - 1
        /\ \A i \in 1 .. Len(Tail(q)) : Tail(q)[i] = q[i + 1]
    BY <1>1, HeadTailProperties
  <2>3. Tail(q) # <<>> /\ Tail(q)[Len(Tail(q))] = q[Len(q)]
    <3>1. Len(Tail(q)) \in Nat /\ Len(Tail(q)) > 0
      BY <1>3, <1>4, <2>2
    <3>2. Tail(q)[Len(Tail(q))] = q[Len(Tail(q)) + 1] /\ Len(Tail(q)) + 1 = Len(q)
      BY <1>3, <2>2, <3>1
    <3> QED
      BY <3>1, <3>2, EmptySeq
  <2>4. /\ r \in Seq(Steps \cup {NoStep}) /\ r # <<>> /\ Head(r) \in Steps /\ Head(r) # NoStep
        /\ r[Len(r)] # NoStep /\ ToSet(Tail(q)) \subseteq ToSet(r) \cup {NoStep}
    BY <1>1, <2>2, <2>3, DueFacts
  <2>5. ToSet(q) \subseteq {Head(q)} \cup ToSet(Tail(q))
    <3> SUFFICES ASSUME NEW i \in 1 .. Len(q) PROVE q[i] \in {Head(q)} \cup ToSet(Tail(q))
      BY <1>3 DEF ToSet
    <3>1. CASE i = 1
      BY <1>3, <3>1
    <3>2. CASE i # 1
      <4>1. i - 1 \in 1 .. Len(Tail(q)) /\ Tail(q)[i - 1] = q[i]
        BY <1>3, <2>2, <3>2
      <4>2. i - 1 \in DOMAIN Tail(q)
        BY <2>2, <4>1, LenProperties
      <4> QED
        BY <4>1, <4>2 DEF ToSet
    <3> QED
      BY <3>1, <3>2
  <2> HIDE DEF r
  <2>6. todo' \in [Drivers -> Seq(Steps \cup {NoStep})] /\ todo'[d] = r
        /\ \A e \in Drivers \ {d} : todo'[e] = todo[e]
    BY <1>2, <2>1, <2>4
  <2>7. ToSet(q) \subseteq {Head(q), NoStep} \cup ToSet(r)
    BY <2>4, <2>5
  <2> QED
    BY <1>2, <2>1, <2>4, <2>6, <2>7 DEF q
<1>5. CASE Len(q) = 1
  <2>1. todo' = [todo EXCEPT ![d] = <<>>] /\ undone' = undone
        /\ status' = "FAILED" /\ pc' = [pc EXCEPT ![d] = after[d]]
    BY <1>5 DEF NextCompensation, Goto, q
  <2>2. <<>> \in Seq(Steps \cup {NoStep})
    OBVIOUS
  <2>3. todo' \in [Drivers -> Seq(Steps \cup {NoStep})] /\ todo'[d] = <<>>
        /\ \A e \in Drivers \ {d} : todo'[e] = todo[e]
    BY <1>2, <2>1, <2>2
  <2>4. ToSet(q) = {Head(q)}
    BY <1>3, <1>5 DEF ToSet
  <2> QED
    BY <1>2, <2>1, <2>3, <2>4 DEF Status, Place, Holding, Waiting, q
<1>6. Len(q) > 1 \/ Len(q) = 1
  BY <1>3
<1> QED
  BY <1>4, <1>5, <1>6

\* A driver that an exception ends where it waits.
LEMMA DropStep ==
  ASSUME WorkflowInv, NEW d \in Drivers, Drop(d)
  PROVE  WorkflowInv'
<1> USE DEF WorkflowInv
<1>1. /\ pc' = [pc EXCEPT ![d] = "idle"] /\ todo' = [todo EXCEPT ![d] = <<>>]
      /\ UNCHANGED <<status, current, attempts, results, dlq, resDlq, mode, step, att, plan, after,
                     wired, calls, approved, undone>>
      /\ dropped' = dropped \cup {<<pc[d], current>>}
  BY DEF Drop, Goto, inst, queues
<1>2. WorkflowTypeOK'
  <2>1. <<>> \in Seq(Steps \cup {NoStep})
    OBVIOUS
  <2>2. todo' \in [Drivers -> Seq(Steps \cup {NoStep})] /\ pc' \in [Drivers -> Place]
    BY <1>1, <2>1 DEF WorkflowTypeOK, Place
  <2>3. dropped' \subseteq Place \X (Steps \cup {NoStep})
    BY <1>1 DEF WorkflowTypeOK
  <2> QED
    BY <1>1, <2>2, <2>3 DEF WorkflowTypeOK
<1>3. DriverInv'
  BY <1>1 DEF WorkflowTypeOK, DriverInv
<1> QED
  BY <1>2, <1>3

LEMMA WorkflowStep == WorkflowInv /\ [Next]_vars => WorkflowInv'
<1> SUFFICES ASSUME WorkflowInv, [Next]_vars PROVE WorkflowInv'
  OBVIOUS
<1> USE DEF WorkflowInv
<1>a. Len(StepSeq) \in Nat /\ Len(StepSeq) > 0 /\ \A i \in 1 .. Len(StepSeq) : StepSeq[i] \in Steps
  BY IndexFacts
<1>f. \A s \in Steps : Following(s) \in Steps \cup {NoStep}
  BY IndexFacts DEF Following
<1>c. RetryBudget \in Nat /\ LlmPlans \subseteq Nat /\ Modes \subseteq {"loop", "plan", "step"}
      /\ NoStep \notin Steps /\ Comp \in [Steps -> Steps \cup {NoStep}]
  BY WorkflowAssumption
<1>1. CASE UNCHANGED vars
  BY <1>1 DEF vars, WorkflowTypeOK, DriverInv
<1>2. ASSUME NEW d \in Drivers, NEW m \in {"loop", "plan", "step"}, Start(d, m)
      PROVE  WorkflowInv'
  <2>1. PICK n \in PlanState :
          plan' = [plan EXCEPT ![d] = n] /\ (m = "plan" => n.left > 0)
    <3>1. CASE m = "plan"
      <4>1. NewPlan \in PlanState /\ NewPlan.left > 0
        BY <1>a, <1>c DEF NewPlan, PlanState
      <4>2. plan' = [plan EXCEPT ![d] = NewPlan]
        BY <1>2, <3>1 DEF Start
      <4> QED
        BY <4>1, <4>2
    <3>2. CASE m # "plan"
      <4>1. NoPlan \in PlanState
        BY DEF NoPlan, PlanState
      <4>2. plan' = [plan EXCEPT ![d] = NoPlan]
        BY <1>2, <3>2 DEF Start
      <4> QED
        BY <3>2, <4>1, <4>2
    <3> QED
      BY <3>1, <3>2
  <2>3. plan' \in [Drivers -> PlanState] /\ plan'[d] = n
        /\ \A e \in Drivers \ {d} : plan'[e] = plan[e]
    BY <2>1 DEF WorkflowTypeOK
  <2>4. WorkflowTypeOK'
    BY <1>2, <2>3 DEF Start, Goto, inst, queues, WorkflowTypeOK, Place, Holding, Waiting
  <2> QED
    <3>1. /\ pc' = [pc EXCEPT ![d] = "enter"] /\ mode' = [mode EXCEPT ![d] = m]
          /\ UNCHANGED <<step, todo, after>>
      BY <1>2 DEF Start, Goto
    <3>2. ASSUME NEW e \in Drivers PROVE DriverInv!(e)'
      <4>1. CASE e = d
        BY <2>1, <2>3, <3>1, <4>1 DEF WorkflowTypeOK
      <4>2. CASE e # d
        BY <2>3, <3>1, <4>2 DEF WorkflowTypeOK, DriverInv
      <4> QED
        BY <4>1, <4>2
    <3>3. DriverInv'
      BY <3>2 DEF DriverInv
    <3> QED
      BY <2>4, <3>3
<1>3. ASSUME NEW d \in Drivers, NEW s \in Steps, Approve(d, s) PROVE WorkflowInv'
  BY <1>3 DEF Approve, Goto, queues, WorkflowTypeOK, DriverInv, Place, Holding, Waiting, Status
<1>4. ASSUME NEW d \in Drivers, NEW s \in Steps, RejectStep(d, s) PROVE WorkflowInv'
  <2>1. CASE Comp[s] # NoStep
    <3>1. Compensate(d, s, "idle") /\ pc[d] = "idle"
          /\ UNCHANGED <<current, attempts, results, queues, mode, step, att, plan,
                         wired, calls, approved, dropped>>
      BY <1>4, <2>1 DEF RejectStep
    <3>2. DriverInv'
      BY <2>1, <3>1, CompensateDriver
    <3> QED
      BY <2>1, <3>1, <3>2, CompensateStep DEF WorkflowTypeOK, queues
  <2>2. CASE Comp[s] = NoStep
    BY <1>4, <2>2 DEF RejectStep, queues, WorkflowTypeOK, DriverInv, Status
  <2> QED
    BY <2>1, <2>2
<1>5. ASSUME NEW d \in Drivers, EnterCompleted(d) PROVE WorkflowInv'
  BY <1>5, <1>a, <1>c DEF EnterCompleted, Goto, history, queues, WorkflowTypeOK, DriverInv, Place, Holding, Waiting, Status
<1>6. ASSUME NEW d \in Drivers, EnterGate(d) PROVE WorkflowInv'
  BY <1>6, <1>a, <1>c DEF EnterGate, CountAttempt, Goto, history, queues, WorkflowTypeOK, DriverInv, Place, Holding, Waiting, Status
<1>7. ASSUME NEW d \in Drivers, EnterStep(d) PROVE WorkflowInv'
  BY <1>7, <1>a, <1>c DEF EnterStep, CountAttempt, Goto, inst, history, queues, WorkflowTypeOK, DriverInv, Place, Holding, Waiting, Status
<1>8. ASSUME NEW d \in Drivers, StepUnwired(d) \/ StepDenied(d) PROVE WorkflowInv'
  BY <1>8, <1>a, <1>c DEF StepUnwired, StepDenied, FailStep, Goto, inst, history, queues, WorkflowTypeOK, DriverInv, Place, Holding, Waiting, Status
<1>9. ASSUME NEW d \in Drivers, VaultOk(d) \/ StepBody(d) PROVE WorkflowInv'
  BY <1>9, <1>a, <1>c DEF VaultOk, StepBody, Goto, inst, history, queues, WorkflowTypeOK, DriverInv, Place, Holding, Waiting, Status
<1>10. ASSUME NEW d \in Drivers, BodyOk(d) PROVE WorkflowInv'
  BY <1>10, <1>a, <1>c, <1>f DEF BodyOk, Goto, history, queues, WorkflowTypeOK, DriverInv, Place, Holding, Waiting, Status, PlanState
<1>11. ASSUME NEW d \in Drivers, BodyRetry(d) PROVE WorkflowInv'
  BY <1>11, <1>a, <1>c, <1>f DEF BodyRetry, Goto, inst, history, queues, WorkflowTypeOK, DriverInv, Place, Holding, Waiting, Status, PlanState
<1>12. ASSUME NEW d \in Drivers, RetryWakes(d) PROVE WorkflowInv'
  BY <1>12, <1>a, <1>c, <1>f DEF RetryWakes, Goto, inst, history, queues, WorkflowTypeOK, DriverInv, Place, Holding, Waiting, Status, PlanState
<1>13. ASSUME NEW d \in Drivers, BodyExhausted(d) PROVE WorkflowInv'
  <2>0. pc[d] = "body" /\ step[d] \in Steps /\ Park(d)
        /\ UNCHANGED <<current, attempts, results, mode, step, att, plan, wired, calls, approved, dropped>>
    BY <1>13 DEF BodyExhausted, DriverInv
  <2>1. dlq' \subseteq Steps \X Nat /\ resDlq' \subseteq Steps
    BY <2>0 DEF Park, WorkflowTypeOK
  <2>2. CASE Comp[step[d]] # NoStep
    <3>1. Compensate(d, step[d], "err")
      BY <1>13, <2>2 DEF BodyExhausted
    <3>2. mode[d] = "plan" => plan[d].left > 0
      BY <2>0 DEF DriverInv
    <3>3. DriverInv'
      BY <2>0, <2>2, <3>1, <3>2, CompensateDriver
    <3> QED
      BY <2>0, <2>1, <2>2, <3>1, <3>3, CompensateStep DEF WorkflowTypeOK
  <2>3. CASE Comp[step[d]] = NoStep
    BY <1>13, <2>0, <2>1, <2>3 DEF BodyExhausted, Goto, WorkflowTypeOK, DriverInv, Place, Holding, Waiting, Status
  <2> QED
    BY <2>2, <2>3
<1>14. ASSUME NEW d \in Drivers, BodyBreach(d) PROVE WorkflowInv'
  <2>0. pc[d] = "body" /\ current \in Steps \cup {NoStep}
    BY <1>14 DEF BodyBreach, WorkflowTypeOK
  <2>1. CASE CompOf(current) # NoStep
    <3>1. /\ Compensate(d, current, "idle") /\ current \in Steps /\ Comp[current] # NoStep
          /\ UNCHANGED <<current, attempts, results, queues, mode, step, att, plan,
                         wired, calls, approved, dropped>>
      BY <1>14, <2>0, <2>1 DEF BodyBreach, CompOf
    <3>2. DriverInv'
      BY <2>0, <3>1, CompensateDriver
    <3> QED
      BY <2>0, <3>1, <3>2, CompensateStep DEF WorkflowTypeOK, queues
  <2>2. CASE CompOf(current) = NoStep
    BY <1>14, <2>2, DropStep DEF BodyBreach
  <2> QED
    BY <2>1, <2>2
<1>15. ASSUME NEW d \in Drivers, CompensationOk(d) PROVE WorkflowInv'
  <2>1. pc[d] = "comp" /\ NextCompensation(d) /\ results' = results \cup {Head(todo[d])}
        /\ UNCHANGED <<current, attempts, queues, mode, step, att, plan, after, wired,
                       calls, approved, dropped>>
    BY <1>15 DEF CompensationOk
  <2>2. todo[d] \in Seq(Steps \cup {NoStep}) /\ todo[d] # <<>> /\ Head(todo[d]) # NoStep
    BY <2>1 DEF WorkflowTypeOK, DriverInv
  <2>3. results' \subseteq Steps
    <3>1. Head(todo[d]) \in Steps
      BY <2>2
    <3> QED
      BY <2>1, <3>1 DEF WorkflowTypeOK
  <2>4. WorkflowTypeOK'
    BY <2>1, <2>3, NextCompensationStep DEF WorkflowTypeOK, queues
  <2>5. ASSUME NEW e \in Drivers PROVE DriverInv!(e)'
    <3>1. CASE e = d
      BY <2>1, <3>1, NextCompensationStep DEF WorkflowTypeOK, DriverInv
    <3>2. CASE e # d
      BY <2>1, <3>2, NextCompensationStep DEF DriverInv
    <3> QED
      BY <3>1, <3>2
  <2> QED
    BY <2>4, <2>5 DEF DriverInv
<1>16. ASSUME NEW d \in Drivers, CompensationFails(d) PROVE WorkflowInv'
  <2>1. pc[d] = "comp" /\ NextCompensation(d) /\ results' = results
        /\ UNCHANGED <<current, attempts, queues, mode, step, att, plan, after, wired,
                       calls, approved, dropped>>
    BY <1>16 DEF CompensationFails
  <2>2. todo[d] \in Seq(Steps \cup {NoStep}) /\ todo[d] # <<>> /\ Head(todo[d]) # NoStep
    BY <2>1 DEF WorkflowTypeOK, DriverInv
  <2>3. results' \subseteq Steps
    <3>1. Head(todo[d]) \in Steps
      BY <2>2
    <3> QED
      BY <2>1, <3>1 DEF WorkflowTypeOK
  <2>4. WorkflowTypeOK'
    BY <2>1, <2>3, NextCompensationStep DEF WorkflowTypeOK, queues
  <2>5. ASSUME NEW e \in Drivers PROVE DriverInv!(e)'
    <3>1. CASE e = d
      BY <2>1, <3>1, NextCompensationStep DEF WorkflowTypeOK, DriverInv
    <3>2. CASE e # d
      BY <2>1, <3>2, NextCompensationStep DEF DriverInv
    <3> QED
      BY <3>1, <3>2
  <2> QED
    BY <2>4, <2>5 DEF DriverInv
<1>17. ASSUME NEW d \in Drivers, ReturnStep(d) PROVE WorkflowInv'
  BY <1>17, <1>a, <1>c, <1>f DEF ReturnStep, Goto, inst, history, queues, WorkflowTypeOK, DriverInv, Place, Holding, Waiting, Status, PlanState
<1>18. ASSUME NEW d \in Drivers, ReturnLoop(d) PROVE WorkflowInv'
  BY <1>18, <1>a, <1>c, <1>f DEF ReturnLoop, Goto, inst, history, queues, WorkflowTypeOK, DriverInv, Place, Holding, Waiting, Status, PlanState
<1>19. ASSUME NEW d \in Drivers, PlanSuccess(d) PROVE WorkflowInv'
  BY <1>19, <1>a, <1>c, <1>f, SMTT(30) DEF PlanSuccess, NextPlanStep, Goto, inst, history, queues, WorkflowTypeOK, DriverInv, Place, Holding, Waiting, Status, PlanState
<1>20. ASSUME NEW d \in Drivers, PlanBackoff(d) PROVE WorkflowInv'
  <2>1. PICK n \in PlanState : plan' = [plan EXCEPT ![d] = n] /\ (n.left > 0 \/ pc'[d] = "idle")
    <3>1. plan[d] \in PlanState /\ plan[d].left > 0 /\ plan[d].left \in Nat
      BY <1>20 DEF PlanBackoff, WorkflowTypeOK, DriverInv, PlanState
    <3>2. pc' = [pc EXCEPT ![d] = pc'[d]] /\ pc \in [Drivers -> Place]
      BY <1>20 DEF PlanBackoff, Goto, WorkflowTypeOK
    <3> DEFINE r == [plan[d] EXCEPT !.budget = @ - 1]
    <3>3. plan' = [plan EXCEPT ![d] = r] /\ plan[d].budget > 0
      BY <1>20 DEF PlanBackoff
    <3>4. r \in PlanState /\ r.left = plan[d].left
      BY <3>1, <3>3 DEF PlanState
    <3> QED
      BY <3>1, <3>3, <3>4
  <2>2. plan' \in [Drivers -> PlanState] /\ plan'[d] = n
        /\ \A e \in Drivers \ {d} : plan'[e] = plan[e]
    BY <2>1 DEF WorkflowTypeOK
  <2>3. WorkflowTypeOK'
    BY <1>20, <2>2 DEF PlanBackoff, Goto, inst, history, queues, WorkflowTypeOK, Place, Holding, Waiting
  <2> QED
    BY <1>20, <2>1, <2>2, <2>3 DEF PlanBackoff, Goto, inst, history, queues, WorkflowTypeOK, DriverInv, Place, Holding, Waiting
<1>21. ASSUME NEW d \in Drivers, PlanWakes(d) PROVE WorkflowInv'
  BY <1>21, <1>a, <1>c, <1>f DEF PlanWakes, Goto, inst, history, queues, WorkflowTypeOK, DriverInv, Place, Holding, Waiting, Status, PlanState
<1>22. ASSUME NEW d \in Drivers, NEW n \in Nat, Adapt(d, n), pc[d] # "idle", pc[d] # "comp",
              mode[d] = "plan", UNCHANGED <<inst, queues, mode, step, att, todo, after, history>>
       PROVE  WorkflowInv'
  <2> DEFINE r == [plan[d] EXCEPT !.extra = n]
  <2>1. plan[d] \in PlanState /\ plan[d].left > 0
    BY <1>22 DEF WorkflowTypeOK, DriverInv
  <2>2. plan' = [plan EXCEPT ![d] = r] /\ pc' = [pc EXCEPT ![d] = "enter"]
    BY <1>22 DEF Adapt, Goto
  <2>3. r \in PlanState /\ r.left > 0
    BY <2>1 DEF PlanState
  <2> HIDE DEF r
  <2>4. plan' \in [Drivers -> PlanState] /\ plan'[d] = r
        /\ \A e \in Drivers \ {d} : plan'[e] = plan[e]
    BY <2>2, <2>3 DEF WorkflowTypeOK
  <2>5. WorkflowTypeOK'
    BY <1>22, <2>2, <2>4 DEF inst, history, queues, WorkflowTypeOK, Place, Holding, Waiting
  <2> QED
    BY <1>22, <2>2, <2>3, <2>4, <2>5 DEF inst, history, queues, WorkflowTypeOK, DriverInv
<1>24. ASSUME NEW d \in Drivers, PlanReplan(d) PROVE WorkflowInv'
  <2>1. RulePlan \in Nat
    BY <1>a DEF RulePlan
  <2>2. CASE ~wired.llm
    BY <1>22, <1>24, <2>1, <2>2 DEF PlanReplan
  <2>3. CASE wired.llm
    BY <1>24, <2>3 DEF PlanReplan, Goto, inst, history, queues, WorkflowTypeOK, DriverInv, Place, Waiting
  <2> QED
    BY <2>2, <2>3
<1>25. ASSUME NEW d \in Drivers, LlmReplies(d) PROVE WorkflowInv'
  <2>0. mode[d] = "plan"
    BY <1>25 DEF LlmReplies, DriverInv
  <2>1. PICK n \in LlmPlans \cup {RulePlan} : Adapt(d, n)
    BY <1>25 DEF LlmReplies
  <2>2. n \in Nat
    BY <1>a, <1>c DEF RulePlan
  <2> QED
    BY <1>22, <1>25, <2>0, <2>1, <2>2 DEF LlmReplies
<1>26. ASSUME NEW d \in Drivers, VaultFails(d) \/ LlmCycle(d) \/ Cancelled(d) PROVE WorkflowInv'
  BY <1>26, DropStep DEF VaultFails, LlmCycle, Cancelled
<1>23. ASSUME NEW d \in Drivers, PlanAdapted(d) PROVE WorkflowInv'
  <2>1. PICK n \in PlanState : plan' = [plan EXCEPT ![d] = n] /\ (n.left > 0 \/ pc'[d] = "idle")
    <3>1. plan[d] \in PlanState /\ plan[d].left > 0 /\ plan[d].left \in Nat
      BY <1>23 DEF PlanAdapted, WorkflowTypeOK, DriverInv, PlanState
    <3>2. pc' = [pc EXCEPT ![d] = pc'[d]] /\ pc \in [Drivers -> Place]
      BY <1>23 DEF PlanAdapted, NextPlanStep, Goto, WorkflowTypeOK
    <3>3. CASE plan[d].extra > 1
      <4> DEFINE r == [plan[d] EXCEPT !.extra = @ - 1]
      <4>1. plan' = [plan EXCEPT ![d] = r]
        BY <1>23, <3>3 DEF PlanAdapted
      <4>2. r \in PlanState /\ r.left = plan[d].left
        BY <3>1, <3>3 DEF PlanState
      <4> QED
        BY <3>1, <4>1, <4>2
    <3>4. CASE plan[d].extra = 1
      <4> DEFINE r == [left |-> plan[d].left - 1, budget |-> RetryBudget, extra |-> 0]
      <4>1. plan' = [plan EXCEPT ![d] = r] /\ (plan[d].left > 1 \/ pc'[d] = "idle")
        BY <1>23, <3>4 DEF PlanAdapted, NextPlanStep, Goto, WorkflowTypeOK
      <4>2. r \in PlanState /\ r.left = plan[d].left - 1
        BY <1>c, <3>1 DEF PlanState
      <4>3. r.left > 0 \/ pc'[d] = "idle"
        BY <3>1, <4>1, <4>2
      <4> HIDE DEF r
      <4> QED
        BY <4>1, <4>2, <4>3
    <3> QED
      BY <1>23, <3>1, <3>3, <3>4 DEF PlanAdapted, PlanState
  <2>2. plan' \in [Drivers -> PlanState] /\ plan'[d] = n
        /\ \A e \in Drivers \ {d} : plan'[e] = plan[e]
    BY <2>1 DEF WorkflowTypeOK
  <2>3. WorkflowTypeOK'
    BY <1>23, <2>2 DEF PlanAdapted, NextPlanStep, Goto, inst, history, queues, WorkflowTypeOK, Place, Holding, Waiting
  <2> QED
    BY <1>23, <2>1, <2>2, <2>3 DEF PlanAdapted, NextPlanStep, Goto, inst, history, queues, WorkflowTypeOK, DriverInv, Place, Holding, Waiting
<1> QED
  BY <1>1, <1>2, <1>3, <1>4, <1>5, <1>6, <1>7, <1>8, <1>9, <1>10, <1>11, <1>12, <1>13, <1>14, <1>15, <1>16, <1>17, <1>18, <1>19, <1>20, <1>21, <1>23, <1>24,
     <1>25, <1>26 DEF Next, Execute, Return

\* The engine keeps its types whatever drivers share the instance, and a driver has
\* at its place what execute_step, compensate or the planner go on with there.
THEOREM WorkflowTypeCorrect == Spec => []WorkflowInv
<1>1. Init => WorkflowInv
  BY IndexFacts, WorkflowAssumption DEF Init, WorkflowInv, WorkflowTypeOK, DriverInv, NoPlan, PlanState,
     Place, Holding, Waiting, Status
<1> QED
  BY <1>1, WorkflowStep, PTL DEF Spec

\* An instance is COMPENSATING only while some driver works on its compensations,
\* whoever else drives it (workflow.py compensate), or after a driver was cancelled
\* inside one: a driver that gets to the end of compensate() leaves with the status
\* FAILED, and no other one writes COMPENSATING.
THEOREM CompensationHasDriverCorrect == Spec => []CompensationHasDriver
<1>1. Init => CompensationHasDriver
  BY DEF Init, CompensationHasDriver
<1>2. WorkflowInv /\ CompensationHasDriver /\ [Next]_vars => CompensationHasDriver'
  <2> DEFINE Cut(D) == \E s \in Steps \cup {NoStep} : <<"comp", s>> \in D
             Goal == (\E e \in Drivers : pc'[e] = "comp") \/ Cut(dropped')
  <2> SUFFICES ASSUME WorkflowInv, CompensationHasDriver, [Next]_vars, status' = "COMPENSATING"
               PROVE  Goal
    BY DEF CompensationHasDriver
  <2>0. pc \in [Drivers -> Place] /\ WorkflowTypeOK /\ DriverInv /\ current \in Steps \cup {NoStep}
    BY DEF WorkflowInv, WorkflowTypeOK
  <2>1. CASE UNCHANGED vars
    BY <2>1 DEF vars, CompensationHasDriver
  <2>2. ASSUME NEW d \in Drivers, NEW f, NEW next, Compensate(d, f, next) PROVE Goal
    BY <2>0, <2>2 DEF Compensate, Goto
  <2>3. ASSUME NEW d \in Drivers, NEW l, pc[d] # "comp", status' = status, Goto(d, l),
               dropped \subseteq dropped'
        PROVE  Goal
    <3>1. CASE Cut(dropped)
      BY <2>3, <3>1
    <3>2. CASE ~Cut(dropped)
      <4>1. PICK e \in Drivers : pc[e] = "comp"
        BY <2>3, <3>2 DEF CompensationHasDriver
      <4>2. pc'[e] = "comp"
        BY <2>0, <2>3, <4>1 DEF Goto
      <4> QED
        BY <4>2
    <3> QED
      BY <3>1, <3>2
  <2>10. ASSUME NEW d \in Drivers, Drop(d) PROVE Goal
    <3>1. status' = status /\ Goto(d, "idle") /\ dropped' = dropped \cup {<<pc[d], current>>}
      BY <2>10 DEF Drop, inst
    <3>2. CASE pc[d] = "comp"
      BY <2>0, <3>1, <3>2
    <3>3. CASE pc[d] # "comp"
      BY <2>3, <3>1, <3>3
    <3> QED
      BY <3>2, <3>3
  <2> HIDE DEF Goal
  <2>4. ASSUME NEW d \in Drivers, NEW m \in {"loop", "plan", "step"}, Start(d, m) PROVE Goal
    BY <2>3, <2>4 DEF Start, inst
  <2>5. ASSUME NEW d \in Drivers, NEW s \in Steps, RejectStep(d, s) PROVE Goal
    BY <2>2, <2>5 DEF RejectStep
  <2>6. ASSUME NEW d \in Drivers, BodyOk(d) PROVE Goal
    <3>1. status' = status /\ pc[d] # "comp" /\ Goto(d, "ok") /\ dropped' = dropped
      BY <2>6 DEF BodyOk, history
    <3> QED
      BY <2>3, <3>1
  <2>7. ASSUME NEW d \in Drivers, BodyExhausted(d) \/ BodyBreach(d) PROVE Goal
    <3>1. (\E f, next : Compensate(d, f, next)) \/ Drop(d)
      BY <2>7 DEF BodyExhausted, BodyBreach
    <3> QED
      BY <2>2, <2>10, <3>1
  <2>8. ASSUME NEW d \in Drivers, CompensationOk(d) \/ CompensationFails(d) PROVE Goal
    <3>1. pc[d] = "comp" /\ NextCompensation(d)
      BY <2>8 DEF CompensationOk, CompensationFails
    <3>2. pc' = pc
      BY <3>1 DEF NextCompensation
    <3> QED
      BY <3>1, <3>2 DEF Goal
  <2>9. ASSUME NEW d \in Drivers,
               \/ EnterStep(d) \/ VaultOk(d) \/ StepBody(d)
               \/ BodyRetry(d) \/ RetryWakes(d) \/ ReturnStep(d) \/ ReturnLoop(d)
               \/ PlanSuccess(d) \/ PlanBackoff(d) \/ PlanWakes(d) \/ PlanReplan(d)
               \/ LlmReplies(d) \/ PlanAdapted(d)
        PROVE  Goal
    <3>1. status' = status /\ pc[d] # "comp" /\ dropped' = dropped /\ \E l : Goto(d, l)
      BY <2>9 DEF EnterStep, VaultOk, StepBody, BodyRetry, RetryWakes, ReturnStep, ReturnLoop,
         PlanSuccess, PlanBackoff, PlanWakes, PlanReplan, LlmReplies, Adapt, PlanAdapted,
         NextPlanStep, inst, history
    <3> QED
      BY <2>3, <3>1
  <2>11. ASSUME NEW d \in Drivers, VaultFails(d) \/ LlmCycle(d) \/ Cancelled(d) PROVE Goal
    BY <2>10, <2>11 DEF VaultFails, LlmCycle, Cancelled
  <2> QED
    BY <2>1, <2>4, <2>5, <2>6, <2>7, <2>8, <2>9, <2>11
       DEF Next, Execute, Return, Approve, EnterCompleted, EnterGate, StepUnwired, StepDenied, FailStep
<1> QED
  BY <1>1, <1>2, WorkflowTypeCorrect, PTL DEF Spec

-----------------------------------------------------------------------------
(* One linear driver. *)

Linear == (\E d : Drivers = {d}) /\ Modes \subseteq {"loop"}

\* Where the driver is tells the status.
PlaceInv ==
  \A d \in Drivers :
    /\ pc[d] \notin {"nap", "llm"}
    /\ pc[d] \in {"enter", "vault", "ready", "body", "sleep"} => status = "RUNNING"
    /\ pc[d] \in {"vault", "ready", "body", "sleep"} =>
         current = step[d] /\ attempts[step[d]] > 0
    /\ pc[d] = "ok" => status \in {"RUNNING", "COMPLETED"}
    /\ pc[d] = "err" => status = "FAILED"
    /\ pc[d] = "gate" => status = "PAUSED"
    /\ pc[d] = "comp" => status = "COMPENSATING"
    /\ status = "COMPENSATING" => pc[d] \in {"comp", "idle"}
    /\ pc[d] \in {"idle", "comp"} \/ mode[d] = "loop"
    /\ pc[d] = "comp" => after[d] = "idle" \/ mode[d] = "loop"

\* A gated step has been attempted without an approval given at it only while the
\* instance is held at it.
GateInv ==
  \A s \in NeedsApproval :
    attempts[s] > 0 => \/ \E t \in Steps : <<s, t>> \in approved
                       \/ s = current /\ status \notin {"RUNNING", "COMPLETED"}

\* The instance has ended when and only when no step is left, and the steps before the
\* current one have their results.
OrderInv ==
  /\ status = "COMPLETED" <=> current = NoStep
  /\ current # NoStep => \A i \in 1 .. Index(current) - 1 : StepSeq[i] \in results
  /\ current = NoStep => Steps \subseteq results

\* A compensation of the failed step's list has been started or is still ahead, unless
\* the driver was cancelled in the middle: then the instance stays COMPENSATING.
UndoInv ==
  /\ resDlq # {} => status \in {"COMPENSATING", "FAILED"}
  /\ \A d \in Drivers :
       /\ pc[d] = "comp" => Head(todo[d]) \in undone
       /\ pc[d] # "comp" => todo[d] = <<>>
       /\ /\ current \in resDlq /\ CompOf(current) # NoStep
          /\ pc[d] = "comp" \/ status # "COMPENSATING"
          => \A i \in 1 .. Index(current) :
               Comp[StepSeq[i]] \in undone \cup {NoStep} \cup ToSet(todo[d])

\* The instance is RUNNING with its driver, or was not started yet, or an exception took
\* the driver out of its current step.
RunInv ==
  /\ calls = 0 => status = "RUNNING" /\ \A d \in Drivers : pc[d] = "idle"
  /\ calls > 0 /\ status = "RUNNING" =>
       \A d \in Drivers : pc[d] = "idle" =>
         \E l \in {"vault", "body", "sleep"} : <<l, current>> \in dropped

LinearInv == Linear /\ PlaceInv /\ GateInv /\ OrderInv /\ UndoInv /\ RunInv

\* One step of the linear driver.
LEMMA LinearStep == WorkflowInv /\ LinearInv /\ [Next]_vars => LinearInv'
<1> SUFFICES ASSUME WorkflowInv, LinearInv, [Next]_vars PROVE LinearInv'
  OBVIOUS
<1>0. WorkflowTypeOK /\ DriverInv /\ PlaceInv /\ GateInv /\ OrderInv /\ UndoInv /\ RunInv
  BY DEF WorkflowInv, LinearInv
<1>l. Modes \subseteq {"loop"} /\ \A d, e \in Drivers : d = e
  BY DEF LinearInv, Linear
<1>c. /\ NoStep \notin Steps /\ Comp \in [Steps -> Steps \cup {NoStep}]
      /\ NeedsApproval \subseteq Steps
  BY WorkflowAssumption
<1>1. Linear'
  BY DEF LinearInv, Linear
<1>2. CASE UNCHANGED vars
  BY <1>0, <1>1, <1>2 DEF LinearInv, vars, PlaceInv, GateInv, OrderInv, UndoInv, RunInv
<1>3. ASSUME NEW d \in Drivers, NEW m \in {"loop", "plan", "step"}, Start(d, m) PROVE LinearInv'
  <2>1. PlaceInv'
    BY <1>0, <1>l, <1>c, <1>3 DEF Start, Goto, inst, queues, WorkflowTypeOK, Place, Holding, Waiting, Status, DriverInv, PlaceInv, OrderInv
  <2>2. GateInv'
    BY <1>0, <1>l, <1>c, <1>3 DEF Start, Goto, inst, queues, WorkflowTypeOK, Place, Holding, Waiting, Status, PlaceInv, OrderInv, GateInv
  <2>3. OrderInv'
    BY <1>0, <1>l, <1>c, <1>3 DEF Start, Goto, inst, queues, WorkflowTypeOK, Place, Holding, Waiting, Status, DriverInv, PlaceInv, OrderInv
  <2>4. UndoInv'
    BY <1>0, <1>l, <1>c, <1>3 DEF Start, Goto, inst, queues, WorkflowTypeOK, Place, Holding, Waiting, Status, PlaceInv, OrderInv, UndoInv
  <2>5. RunInv'
    BY <1>0, <1>l, <1>c, <1>3 DEF Start, Goto, inst, queues, WorkflowTypeOK, Place, Holding, Waiting, Status, PlaceInv, OrderInv, RunInv
  <2> QED
    BY <1>1, <2>1, <2>2, <2>3, <2>4, <2>5 DEF LinearInv
<1>4. ASSUME NEW d \in Drivers, NEW s \in Steps, Approve(d, s) PROVE LinearInv'
  <2>1. PlaceInv'
    BY <1>0, <1>l, <1>c, <1>4 DEF Approve, Goto, queues, WorkflowTypeOK, Place, Holding, Waiting, Status, DriverInv, PlaceInv, OrderInv
  <2>2. GateInv'
    BY <1>0, <1>l, <1>c, <1>4 DEF Approve, Goto, queues, WorkflowTypeOK, Place, Holding, Waiting, Status, PlaceInv, OrderInv, GateInv
  <2>3. OrderInv'
    BY <1>0, <1>l, <1>c, <1>4 DEF Approve, Goto, queues, WorkflowTypeOK, Place, Holding, Waiting, Status, DriverInv, PlaceInv, OrderInv
  <2>4. UndoInv'
    BY <1>0, <1>l, <1>c, <1>4 DEF Approve, Goto, queues, WorkflowTypeOK, Place, Holding, Waiting, Status, PlaceInv, OrderInv, UndoInv
  <2>5. RunInv'
    BY <1>0, <1>l, <1>c, <1>4 DEF Approve, Goto, queues, WorkflowTypeOK, Place, Holding, Waiting, Status, PlaceInv, OrderInv, RunInv
  <2> QED
    BY <1>1, <2>1, <2>2, <2>3, <2>4, <2>5 DEF LinearInv
<1>6. ASSUME NEW d \in Drivers, EnterGate(d) PROVE LinearInv'
  <2>1. PlaceInv'
    BY <1>0, <1>l, <1>c, <1>6 DEF EnterGate, CountAttempt, AtGate, Goto, history, queues, WorkflowTypeOK, Place, Holding, Waiting, Status, DriverInv, PlaceInv, OrderInv
  <2>2. GateInv'
    BY <1>0, <1>l, <1>c, <1>6 DEF EnterGate, CountAttempt, AtGate, Goto, history, queues, WorkflowTypeOK, Place, Holding, Waiting, Status, PlaceInv, OrderInv, GateInv
  <2>3. OrderInv'
    BY <1>0, <1>l, <1>c, <1>6 DEF EnterGate, CountAttempt, AtGate, Goto, history, queues, WorkflowTypeOK, Place, Holding, Waiting, Status, DriverInv, PlaceInv, OrderInv
  <2>4. UndoInv'
    BY <1>0, <1>l, <1>c, <1>6 DEF EnterGate, CountAttempt, AtGate, Goto, history, queues, WorkflowTypeOK, Place, Holding, Waiting, Status, PlaceInv, OrderInv, UndoInv
  <2>5. RunInv'
    BY <1>0, <1>l, <1>c, <1>6 DEF EnterGate, CountAttempt, AtGate, Goto, history, queues, WorkflowTypeOK, Place, Holding, Waiting, Status, PlaceInv, OrderInv, RunInv
  <2> QED
    BY <1>1, <2>1, <2>2, <2>3, <2>4, <2>5 DEF LinearInv
<1>7. ASSUME NEW d \in Drivers, EnterStep(d) PROVE LinearInv'
  <2>1. PlaceInv'
    BY <1>0, <1>l, <1>c, <1>7 DEF EnterStep, CountAttempt, AtGate, Goto, inst, history, queues, WorkflowTypeOK, Place, Holding, Waiting, Status, DriverInv, PlaceInv, OrderInv
  <2>2. GateInv'
    <3>1. /\ status = "RUNNING" /\ current \in Steps /\ UNCHANGED <<status, current, approved>>
          /\ attempts' = [attempts EXCEPT ![current] = @ + 1] /\ attempts \in [Steps -> Nat]
          /\ current \in NeedsApproval => attempts[current] > 0
      BY <1>0, <1>7 DEF EnterStep, CountAttempt, AtGate, history, PlaceInv, WorkflowTypeOK
    <3>2. ASSUME NEW s \in NeedsApproval, attempts'[s] > 0
          PROVE  \E t \in Steps : <<s, t>> \in approved
      BY <1>0, <1>c, <3>1, <3>2 DEF GateInv
    <3> QED
      BY <3>1, <3>2 DEF GateInv
  <2>3. OrderInv'
    BY <1>0, <1>l, <1>c, <1>7 DEF EnterStep, CountAttempt, AtGate, Goto, inst, history, queues, WorkflowTypeOK, Place, Holding, Waiting, Status, DriverInv, PlaceInv, OrderInv
  <2>4. UndoInv'
    BY <1>0, <1>l, <1>c, <1>7 DEF EnterStep, CountAttempt, AtGate, Goto, inst, history, queues, WorkflowTypeOK, Place, Holding, Waiting, Status, PlaceInv, OrderInv, UndoInv
  <2>5. RunInv'
    BY <1>0, <1>l, <1>c, <1>7 DEF EnterStep, CountAttempt, AtGate, Goto, inst, history, queues, WorkflowTypeOK, Place, Holding, Waiting, Status, PlaceInv, OrderInv, RunInv
  <2> QED
    BY <1>1, <2>1, <2>2, <2>3, <2>4, <2>5 DEF LinearInv
<1>8. ASSUME NEW d \in Drivers, StepUnwired(d) \/ StepDenied(d) PROVE LinearInv'
  <2>1. PlaceInv'
    BY <1>0, <1>l, <1>c, <1>8 DEF StepUnwired, StepDenied, FailStep, Goto, inst, history, queues, WorkflowTypeOK, Place, Holding, Waiting, Status, DriverInv, PlaceInv, OrderInv
  <2>2. GateInv'
    BY <1>0, <1>l, <1>c, <1>8 DEF StepUnwired, StepDenied, FailStep, Goto, inst, history, queues, WorkflowTypeOK, Place, Holding, Waiting, Status, PlaceInv, OrderInv, GateInv
  <2>3. OrderInv'
    BY <1>0, <1>l, <1>c, <1>8 DEF StepUnwired, StepDenied, FailStep, Goto, inst, history, queues, WorkflowTypeOK, Place, Holding, Waiting, Status, DriverInv, PlaceInv, OrderInv
  <2>4. UndoInv'
    BY <1>0, <1>l, <1>c, <1>8 DEF StepUnwired, StepDenied, FailStep, Goto, inst, history, queues, WorkflowTypeOK, Place, Holding, Waiting, Status, PlaceInv, OrderInv, UndoInv
  <2>5. RunInv'
    BY <1>0, <1>l, <1>c, <1>8 DEF StepUnwired, StepDenied, FailStep, Goto, inst, history, queues, WorkflowTypeOK, Place, Holding, Waiting, Status, PlaceInv, OrderInv, RunInv
  <2> QED
    BY <1>1, <2>1, <2>2, <2>3, <2>4, <2>5 DEF LinearInv
<1>9. ASSUME NEW d \in Drivers, VaultOk(d) \/ StepBody(d) PROVE LinearInv'
  <2>1. PlaceInv'
    BY <1>0, <1>l, <1>c, <1>9 DEF VaultOk, StepBody, Goto, inst, history, queues, WorkflowTypeOK, Place, Holding, Waiting, Status, DriverInv, PlaceInv, OrderInv
  <2>2. GateInv'
    BY <1>0, <1>l, <1>c, <1>9 DEF VaultOk, StepBody, Goto, inst, history, queues, WorkflowTypeOK, Place, Holding, Waiting, Status, PlaceInv, OrderInv, GateInv
  <2>3. OrderInv'
    BY <1>0, <1>l, <1>c, <1>9 DEF VaultOk, StepBody, Goto, inst, history, queues, WorkflowTypeOK, Place, Holding, Waiting, Status, DriverInv, PlaceInv, OrderInv
  <2>4. UndoInv'
    BY <1>0, <1>l, <1>c, <1>9 DEF VaultOk, StepBody, Goto, inst, history, queues, WorkflowTypeOK, Place, Holding, Waiting, Status, PlaceInv, OrderInv, UndoInv
  <2>5. RunInv'
    BY <1>0, <1>l, <1>c, <1>9 DEF VaultOk, StepBody, Goto, inst, history, queues, WorkflowTypeOK, Place, Holding, Waiting, Status, PlaceInv, OrderInv, RunInv
  <2> QED
    BY <1>1, <2>1, <2>2, <2>3, <2>4, <2>5 DEF LinearInv
<1>10. ASSUME NEW d \in Drivers, BodyOk(d) PROVE LinearInv'
  <2>1. PlaceInv'
    BY <1>0, <1>l, <1>c, <1>10 DEF BodyOk, Goto, history, queues, WorkflowTypeOK, Place, Holding, Waiting, Status, DriverInv, PlaceInv, OrderInv
  <2>2. GateInv'
    BY <1>0, <1>l, <1>c, <1>10 DEF BodyOk, Goto, history, queues, WorkflowTypeOK, Place, Holding, Waiting, Status, PlaceInv, OrderInv, GateInv
  <2>3. OrderInv'
    <3> DEFINE k == Index(current)
    <3>1. current = step[d] /\ current \in Steps /\ status = "RUNNING" /\ pc[d] = "body"
      BY <1>0, <1>10 DEF BodyOk, PlaceInv, DriverInv
    <3>2. /\ results' = results \cup {current}
          /\ current' = Following(current)
          /\ status' = IF current' = NoStep THEN "COMPLETED" ELSE status
      BY <1>c, <1>10, <3>1 DEF BodyOk
    <3>3. \A i \in 1 .. k - 1 : StepSeq[i] \in results
      BY <1>0, <1>c, <3>1 DEF OrderInv
    <3>4. k \in 1 .. Len(StepSeq) /\ Len(StepSeq) \in Nat /\ StepSeq[k] = current
      BY <3>1, IndexFacts
    <3> HIDE DEF k
    <3>5. \A i \in 1 .. k : StepSeq[i] \in results'
      BY <3>2, <3>3, <3>4
    <3>6. CASE k < Len(StepSeq)
      <4>1. current' = StepSeq[k + 1] /\ k + 1 \in 1 .. Len(StepSeq)
        BY <3>2, <3>4, <3>6 DEF Following, k
      <4>2. current' \in Steps /\ Index(current') = k + 1
        BY <4>1, IndexFacts
      <4>3. \A i \in 1 .. Index(current') - 1 : StepSeq[i] \in results'
        BY <3>4, <3>5, <4>2
      <4>4. current' # NoStep /\ status' # "COMPLETED"
        BY <1>c, <3>1, <3>2, <4>2
      <4>5. Index(current)' = Index(current')
        BY DEF Index
      <4> QED
        BY <4>3, <4>4, <4>5 DEF OrderInv
    <3>7. CASE ~ (k < Len(StepSeq))
      <4>1. current' = NoStep /\ k = Len(StepSeq) /\ status' = "COMPLETED"
        BY <3>2, <3>4, <3>7 DEF Following, k
      <4>2. Steps \subseteq results'
        BY <3>5, <4>1, IndexFacts
      <4> QED
        BY <4>1, <4>2 DEF OrderInv
    <3> QED
      BY <3>6, <3>7
  <2>4. UndoInv'
    BY <1>0, <1>l, <1>c, <1>10 DEF BodyOk, Goto, history, queues, WorkflowTypeOK, Place, Holding, Waiting, Status, PlaceInv, OrderInv, UndoInv
  <2>5. RunInv'
    BY <1>0, <1>l, <1>c, <1>10 DEF BodyOk, Goto, history, queues, WorkflowTypeOK, Place, Holding, Waiting, Status, PlaceInv, OrderInv, RunInv
  <2> QED
    BY <1>1, <2>1, <2>2, <2>3, <2>4, <2>5 DEF LinearInv
<1>11. ASSUME NEW d \in Drivers, BodyRetry(d) PROVE LinearInv'
  <2>1. PlaceInv'
    BY <1>0, <1>l, <1>c, <1>11 DEF BodyRetry, Goto, inst, history, queues, WorkflowTypeOK, Place, Holding, Waiting, Status, DriverInv, PlaceInv, OrderInv
  <2>2. GateInv'
    BY <1>0, <1>l, <1>c, <1>11 DEF BodyRetry, Goto, inst, history, queues, WorkflowTypeOK, Place, Holding, Waiting, Status, PlaceInv, OrderInv, GateInv
  <2>3. OrderInv'
    BY <1>0, <1>l, <1>c, <1>11 DEF BodyRetry, Goto, inst, history, queues, WorkflowTypeOK, Place, Holding, Waiting, Status, DriverInv, PlaceInv, OrderInv
  <2>4. UndoInv'
    BY <1>0, <1>l, <1>c, <1>11 DEF BodyRetry, Goto, inst, history, queues, WorkflowTypeOK, Place, Holding, Waiting, Status, PlaceInv, OrderInv, UndoInv
  <2>5. RunInv'
    BY <1>0, <1>l, <1>c, <1>11 DEF BodyRetry, Goto, inst, history, queues, WorkflowTypeOK, Place, Holding, Waiting, Status, PlaceInv, OrderInv, RunInv
  <2> QED
    BY <1>1, <2>1, <2>2, <2>3, <2>4, <2>5 DEF LinearInv
<1>12. ASSUME NEW d \in Drivers, RetryWakes(d) PROVE LinearInv'
  <2>1. PlaceInv'
    BY <1>0, <1>l, <1>c, <1>12 DEF RetryWakes, Goto, inst, history, queues, WorkflowTypeOK, Place, Holding, Waiting, Status, DriverInv, PlaceInv, OrderInv
  <2>2. GateInv'
    BY <1>0, <1>l, <1>c, <1>12 DEF RetryWakes, Goto, inst, history, queues, WorkflowTypeOK, Place, Holding, Waiting, Status, PlaceInv, OrderInv, GateInv
  <2>3. OrderInv'
    BY <1>0, <1>l, <1>c, <1>12 DEF RetryWakes, Goto, inst, history, queues, WorkflowTypeOK, Place, Holding, Waiting, Status, DriverInv, PlaceInv, OrderInv
  <2>4. UndoInv'
    BY <1>0, <1>l, <1>c, <1>12 DEF RetryWakes, Goto, inst, history, queues, WorkflowTypeOK, Place, Holding, Waiting, Status, PlaceInv, OrderInv, UndoInv
  <2>5. RunInv'
    BY <1>0, <1>l, <1>c, <1>12 DEF RetryWakes, Goto, inst, history, queues, WorkflowTypeOK, Place, Holding, Waiting, Status, PlaceInv, OrderInv, RunInv
  <2> QED
    BY <1>1, <2>1, <2>2, <2>3, <2>4, <2>5 DEF LinearInv
<1>16. ASSUME NEW d \in Drivers, ReturnLoop(d) PROVE LinearInv'
  <2>1. PlaceInv'
    BY <1>0, <1>l, <1>c, <1>16 DEF ReturnLoop, Goto, inst, history, queues, WorkflowTypeOK, Place, Holding, Waiting, Status, DriverInv, PlaceInv, OrderInv
  <2>2. GateInv'
    BY <1>0, <1>l, <1>c, <1>16 DEF ReturnLoop, Goto, inst, history, queues, WorkflowTypeOK, Place, Holding, Waiting, Status, PlaceInv, OrderInv, GateInv
  <2>3. OrderInv'
    BY <1>0, <1>l, <1>c, <1>16 DEF ReturnLoop, Goto, inst, history, queues, WorkflowTypeOK, Place, Holding, Waiting, Status, DriverInv, PlaceInv, OrderInv
  <2>4. UndoInv'
    BY <1>0, <1>l, <1>c, <1>16 DEF ReturnLoop, Goto, inst, history, queues, WorkflowTypeOK, Place, Holding, Waiting, Status, PlaceInv, OrderInv, UndoInv
  <2>5. RunInv'
    BY <1>0, <1>l, <1>c, <1>16 DEF ReturnLoop, Goto, inst, history, queues, WorkflowTypeOK, Place, Holding, Waiting, Status, PlaceInv, OrderInv, RunInv
  <2> QED
    BY <1>1, <2>1, <2>2, <2>3, <2>4, <2>5 DEF LinearInv
<1>13. ASSUME NEW d \in Drivers, NEW f \in Steps, Comp[f] # NoStep, NEW next \in {"idle", "err"},
             Compensate(d, f, next), status \in {"RUNNING", "PAUSED"}, calls > 0,
             next = "idle" \/ mode[d] = "loop", UNCHANGED <<current, attempts, results, mode, step, calls,
                                                             approved, wired, dropped>>,
             resDlq' = resDlq \/ (resDlq' = resDlq \cup {f} /\ f = current)
      PROVE  LinearInv'
  <2>0. /\ pc'[d] = "comp" /\ after'[d] = next /\ status' = "COMPENSATING"
        /\ todo'[d] = Compensations(f) /\ undone' = undone \cup {Head(Compensations(f))}
        /\ current # NoStep /\ current \in Steps /\ resDlq = {}
    BY <1>0, <1>13 DEF Compensate, Goto, WorkflowTypeOK, OrderInv, UndoInv
  <2>1. PlaceInv'
    BY <1>0, <1>l, <1>13, <2>0 DEF PlaceInv
  <2>2. GateInv'
    BY <1>0, <1>13, <2>0 DEF GateInv
  <2>3. OrderInv'
    BY <1>0, <1>13, <2>0 DEF OrderInv, Index
  <2>4. UndoInv'
    <3>1. \A e \in Drivers : e = d
      BY <1>l
    <3>2. CASE resDlq' = {}
      BY <2>0, <3>1, <3>2 DEF UndoInv
    <3>3. CASE resDlq' # {}
      <4>1. f = current
        BY <1>13, <2>0, <3>3
      <4>2. \A i \in 1 .. Index(f) : Comp[StepSeq[i]] \in ToSet(todo'[d]) \cup {NoStep}
        BY <1>13, <2>0, CompensationFacts
      <4>3. \A i \in 1 .. Index(current') : Comp[StepSeq[i]] \in undone' \cup {NoStep} \cup ToSet(todo'[d])
        BY <1>13, <4>1, <4>2
      <4>4. Index(current)' = Index(current') /\ ToSet(todo[d])' = ToSet(todo'[d])
        BY DEF Index, ToSet
      <4> QED
        BY <2>0, <3>1, <4>3 DEF UndoInv, Index, ToSet
    <3> QED
      BY <3>2, <3>3
  <2>5. RunInv'
    BY <1>0, <1>l, <1>13, <2>0 DEF RunInv, WorkflowTypeOK
  <2> QED
    BY <1>1, <2>1, <2>2, <2>3, <2>4, <2>5 DEF LinearInv
<1>14. ASSUME NEW d \in Drivers, status \notin {"COMPENSATING", "COMPLETED"}, calls > 0,
              status' = "FAILED", pc[d] # "comp",
              pc' = [pc EXCEPT ![d] = pc'[d]], pc'[d] \in {"err", "idle"},
              pc'[d] = "idle" \/ mode[d] = "loop",
              UNCHANGED <<current, attempts, results, mode, todo, after, undone, calls, approved, wired, dropped>>,
              resDlq' = resDlq \/ (resDlq' = resDlq \cup {current} /\ CompOf(current) = NoStep)
      PROVE  LinearInv'
  <2>0. current # NoStep /\ current \in Steps /\ \A e \in Drivers : e = d
    BY <1>0, <1>l, <1>14 DEF WorkflowTypeOK, OrderInv
  <2>1. PlaceInv'
    BY <1>0, <1>14, <2>0 DEF PlaceInv, WorkflowTypeOK
  <2>2. GateInv'
    BY <1>0, <1>14, <2>0 DEF GateInv
  <2>3. OrderInv'
    BY <1>0, <1>14, <2>0 DEF OrderInv, Index
  <2>4. UndoInv'
    BY <1>0, <1>14, <2>0 DEF UndoInv, CompOf, Index, ToSet
  <2>5. RunInv'
    BY <1>0, <1>14, <2>0 DEF RunInv, WorkflowTypeOK
  <2> QED
    BY <1>1, <2>1, <2>2, <2>3, <2>4, <2>5 DEF LinearInv
<1>15. ASSUME NEW d \in Drivers, pc[d] \in {"body", "enter"} \/ status = "PAUSED"
       PROVE  calls > 0 /\ (pc[d] \in {"body", "enter"} => mode[d] = "loop" /\ status = "RUNNING")
  BY <1>0, <1>15 DEF RunInv, PlaceInv, WorkflowTypeOK
<1>17. ASSUME NEW d \in Drivers, NEW s \in Steps, RejectStep(d, s) PROVE LinearInv'
  <2>1. pc[d] = "idle" /\ status = "PAUSED"
        /\ UNCHANGED <<current, attempts, results, resDlq, mode, step, calls, approved, wired, dropped>>
    BY <1>17 DEF RejectStep, queues
  <2>2. CASE Comp[s] # NoStep
    BY <1>13, <1>15, <1>17, <2>1, <2>2 DEF RejectStep
  <2>3. CASE Comp[s] = NoStep
    <3>1. pc' = [pc EXCEPT ![d] = pc'[d]] /\ pc'[d] = "idle" /\ status' = "FAILED"
          /\ UNCHANGED <<todo, after, undone>>
      BY <1>0, <1>17, <2>1, <2>3 DEF RejectStep, WorkflowTypeOK
    <3> QED
      BY <1>14, <1>15, <2>1, <3>1
  <2> QED
    BY <2>2, <2>3
<1>18. ASSUME NEW d \in Drivers, BodyExhausted(d) PROVE LinearInv'
  <2>1. /\ pc[d] = "body" /\ status = "RUNNING" /\ current = step[d] /\ current \in Steps
        /\ mode[d] = "loop" /\ calls > 0
        /\ UNCHANGED <<current, attempts, results, mode, step, calls, approved, wired, dropped>>
        /\ resDlq' = resDlq \cup {current}
    BY <1>0, <1>15, <1>18 DEF BodyExhausted, Park, PlaceInv, DriverInv
  <2>2. CASE Comp[current] # NoStep
    BY <1>13, <1>18, <2>1, <2>2 DEF BodyExhausted
  <2>3. CASE Comp[current] = NoStep
    <3>1. pc' = [pc EXCEPT ![d] = pc'[d]] /\ pc'[d] = "err" /\ status' = "FAILED"
          /\ UNCHANGED <<todo, after, undone>>
      BY <1>0, <1>18, <2>1, <2>3 DEF BodyExhausted, Goto, WorkflowTypeOK
    <3>2. CompOf(current) = NoStep
      BY <2>3 DEF CompOf
    <3> QED
      BY <1>14, <2>1, <3>1, <3>2
  <2> QED
    BY <2>2, <2>3
<1>22. ASSUME NEW d \in Drivers, Drop(d), pc[d] \in {"vault", "body", "sleep", "comp"}
       PROVE  LinearInv'
  <2>1. /\ pc' = [pc EXCEPT ![d] = "idle"] /\ todo' = [todo EXCEPT ![d] = <<>>]
        /\ UNCHANGED <<status, current, attempts, results, resDlq, mode, step, after, calls,
                       approved, undone>>
        /\ dropped' = dropped \cup {<<pc[d], current>>}
        /\ \A e \in Drivers : e = d
    BY <1>l, <1>22 DEF Drop, Goto, inst, queues
  <2>2. pc'[d] = "idle" /\ todo'[d] = <<>>
    BY <1>0, <2>1 DEF WorkflowTypeOK
  <2>3. PlaceInv'
    BY <1>0, <1>22, <2>1, <2>2 DEF PlaceInv
  <2>4. GateInv' /\ OrderInv'
    BY <1>0, <2>1 DEF GateInv, OrderInv, Index
  <2>5. UndoInv'
    <3>1. CASE pc[d] = "comp"
      <4>1. status' = "COMPENSATING"
        BY <1>0, <2>1, <3>1 DEF PlaceInv
      <4> QED
        BY <2>1, <2>2, <4>1 DEF UndoInv
    <3>2. CASE pc[d] # "comp"
      <4>1. resDlq' = {}
        BY <1>0, <1>22, <2>1, <3>2 DEF PlaceInv, UndoInv
      <4> QED
        BY <2>1, <2>2, <4>1 DEF UndoInv
    <3> QED
      BY <3>1, <3>2
  <2>6. RunInv'
    BY <1>0, <1>22, <2>1, <2>2 DEF RunInv, PlaceInv
  <2> QED
    BY <1>1, <2>3, <2>4, <2>5, <2>6 DEF LinearInv
<1>23. ASSUME NEW d \in Drivers, VaultFails(d) \/ Cancelled(d) PROVE LinearInv'
  BY <1>0, <1>22, <1>23 DEF VaultFails, Cancelled, Waiting, PlaceInv
<1>19. ASSUME NEW d \in Drivers, BodyBreach(d) PROVE LinearInv'
  <2>1. /\ pc[d] = "body" /\ status = "RUNNING" /\ current = step[d] /\ current \in Steps
        /\ mode[d] = "loop" /\ calls > 0
    BY <1>0, <1>15, <1>19 DEF BodyBreach, PlaceInv, DriverInv
  <2>2. CASE CompOf(current) # NoStep
    <3>1. /\ UNCHANGED <<current, attempts, results, resDlq, mode, step, calls, approved, wired, dropped>>
          /\ Compensate(d, current, "idle") /\ Comp[current] # NoStep
      BY <1>c, <1>19, <2>1, <2>2 DEF BodyBreach, CompOf, queues
    <3> QED
      BY <1>13, <2>1, <3>1
  <2>3. CASE CompOf(current) = NoStep
    BY <1>19, <1>22, <2>1, <2>3 DEF BodyBreach
  <2> QED
    BY <2>2, <2>3
<1>20. ASSUME NEW d \in Drivers, CompensationOk(d) \/ CompensationFails(d) PROVE LinearInv'
  <2>1. /\ pc[d] = "comp" /\ status = "COMPENSATING" /\ NextCompensation(d)
        /\ results \subseteq results' /\ Head(todo[d]) \in undone /\ \A e \in Drivers : e = d
        /\ UNCHANGED <<current, attempts, resDlq, mode, step, after, calls, approved, wired, dropped>>
    BY <1>0, <1>l, <1>20 DEF CompensationOk, CompensationFails, PlaceInv, UndoInv, queues
  <2>2. \/ /\ pc' = pc /\ status' = status
           /\ undone' = undone \cup {Head(todo'[d])}
           /\ ToSet(todo[d]) \subseteq {Head(todo[d]), NoStep} \cup ToSet(todo'[d])
        \/ /\ pc'[d] = after[d] /\ status' = "FAILED" /\ todo'[d] = <<>>
           /\ undone' = undone /\ ToSet(todo[d]) = {Head(todo[d])}
    BY <1>0, <2>1, NextCompensationStep
  <2>3. after[d] \in {"idle", "err"} /\ (after[d] = "err" => mode[d] = "loop") /\ calls > 0
    BY <1>0, <2>1 DEF PlaceInv, WorkflowTypeOK, RunInv
  <2>4. PlaceInv'
    BY <1>0, <2>1, <2>2, <2>3 DEF PlaceInv
  <2>5. GateInv'
    BY <1>0, <2>1, <2>2 DEF GateInv
  <2>6. OrderInv'
    BY <1>0, <2>1, <2>2 DEF OrderInv, Index
  <2>7. UndoInv'
    <3> DEFINE Q == ToSet(todo[d])
    <3>1. PICK P : P = ToSet(todo'[d])
      OBVIOUS
    <3>2. Q \subseteq undone' \cup {NoStep} \cup P
      BY <2>1, <2>2, <3>1
    <3>3. undone \subseteq undone'
      BY <2>2
    <3>4. current \in resDlq /\ CompOf(current) # NoStep =>
            \A i \in 1 .. Index(current) : Comp[StepSeq[i]] \in undone \cup {NoStep} \cup Q
      BY <1>0, <2>1 DEF UndoInv
    <3>5. current \in resDlq /\ CompOf(current) # NoStep =>
            \A i \in 1 .. Index(current) : Comp[StepSeq[i]] \in undone' \cup {NoStep} \cup P
      BY <3>2, <3>3, <3>4
    <3>6. /\ resDlq' # {} => status' \in {"COMPENSATING", "FAILED"}
          /\ pc'[d] = "comp" => Head(todo'[d]) \in undone'
          /\ pc'[d] # "comp" => todo'[d] = <<>>
      BY <2>1, <2>2, <2>3
    <3> QED
      BY <2>1, <3>1, <3>5, <3>6 DEF UndoInv, CompOf, Index, ToSet
  <2>8. RunInv'
    BY <1>0, <2>1, <2>2, <2>3 DEF RunInv, WorkflowTypeOK
  <2> QED
    BY <1>1, <2>4, <2>5, <2>6, <2>7, <2>8 DEF LinearInv
<1>21. ASSUME NEW d \in Drivers,
              \/ EnterCompleted(d) \/ ReturnStep(d) \/ PlanSuccess(d) \/ PlanBackoff(d)
              \/ PlanWakes(d) \/ PlanReplan(d) \/ LlmReplies(d) \/ LlmCycle(d) \/ PlanAdapted(d)
       PROVE  FALSE
  BY <1>0, <1>21 DEF EnterCompleted, ReturnStep, PlanSuccess, PlanBackoff, PlanWakes, PlanReplan,
     LlmReplies, LlmCycle, PlanAdapted, PlaceInv, OrderInv
<1> QED
  BY <1>2, <1>3, <1>4, <1>6, <1>7, <1>8, <1>9, <1>10, <1>11, <1>12, <1>16, <1>17, <1>18, <1>19,
     <1>20, <1>21, <1>23 DEF Next, Execute, Return

LEMMA LinearInit == Linear /\ Init => LinearInv
<1> SUFFICES ASSUME Linear, Init PROVE LinearInv
  OBVIOUS
<1>1. current \in Steps /\ Index(current) = 1 /\ NoStep \notin Steps
  BY IndexFacts, WorkflowAssumption DEF Init
<1>2. PlaceInv /\ GateInv /\ RunInv
  BY WorkflowAssumption DEF Init, PlaceInv, GateInv, RunInv
<1>3. OrderInv
  BY <1>1 DEF Init, OrderInv
<1>4. UndoInv
  BY DEF Init, UndoInv
<1> QED
  BY <1>2, <1>3, <1>4 DEF LinearInv

LEMMA LinearCorrect == Linear /\ Spec => [](WorkflowInv /\ LinearInv)
BY LinearInit, LinearStep, WorkflowTypeCorrect, PTL DEF Spec

\* Under one linear driver a step that requires approval runs only after the instance
\* was paused at it and approved there, whatever is retried, rejected, breached or
\* cancelled, and whatever step the approvals name (workflow.py execute_step, approve;
\* domain.py PAUSED).
THEOREM ApprovalRespectedCorrect == Linear /\ Spec => []ApprovalRespected
<1>1. WorkflowInv /\ LinearInv => ApprovalRespected
  BY WorkflowAssumption DEF WorkflowInv, LinearInv, PlaceInv, GateInv, DriverInv, ApprovalRespected
<1> QED
  BY <1>1, LinearCorrect, PTL

\* Under one linear driver no step before the current one is left out, and a COMPLETED
\* instance has a result of every step (workflow.py _advance).
THEOREM NoStepSkippedCorrect == Linear /\ Spec => []NoStepSkipped
<1>1. LinearInv => NoStepSkipped
  BY DEF LinearInv, OrderInv, NoStepSkipped
<1> QED
  BY <1>1, LinearCorrect, PTL

\* Under one linear driver an instance that failed at a compensated step after its last
\* attempt has had every compensation up to that step started, whatever the
\* compensations themselves did (workflow.py compensate).
THEOREM FailureIsUndoneCorrect == Linear /\ Spec => []FailureIsUndone
<1>1. WorkflowInv /\ LinearInv => FailureIsUndone
  <2> SUFFICES ASSUME NEW d \in Drivers, WorkflowInv, LinearInv, status = "FAILED",
                      current \in resDlq, CompOf(current) # NoStep
               PROVE  \A i \in 1 .. Index(current) : Comp[StepSeq[i]] \in undone \cup {NoStep}
    BY DEF FailureIsUndone, LinearInv, Linear
  <2>1. todo[d] = <<>>
    BY DEF LinearInv, PlaceInv, UndoInv
  <2>2. ToSet(todo[d]) = {}
    BY <2>1 DEF ToSet
  <2> QED
    BY <2>2 DEF LinearInv, UndoInv
<1> QED
  BY <1>1, LinearCorrect, PTL

\* Under one linear driver, with or without a sandbox, a started instance that nobody
\* drives any more is left RUNNING only at the step out of which an exception took its
\* driver (workflow.py execute_adaptive, approve, execute_step).
THEOREM NotAbandonedCorrect == Linear /\ Spec => []NotAbandoned
<1>1. WorkflowInv /\ LinearInv => NotAbandoned
  <2> SUFFICES ASSUME WorkflowInv, LinearInv, NEW d \in Drivers, calls > 0,
                      \A e \in Drivers : pc[e] = "idle", status = "RUNNING"
               PROVE  \E l \in {"vault", "body", "sleep"} : <<l, current>> \in dropped
    BY DEF NotAbandoned, LinearInv, Linear
  <2> QED
    BY DEF LinearInv, RunInv
<1> QED
  BY <1>1, LinearCorrect, PTL
=============================================================================
