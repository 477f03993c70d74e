----------------------------- MODULE SwarmProofs -----------------------------
(***************************************************************************)
(* Theorems about the swarm coordinator for any set of agents: types, the  *)
(* leader is a member, the saved swarm is the current one, an elected      *)
(* leader is not unhealthy and the leader is stable.  All rest on what an  *)
(* election leaves behind.  Delegating implements the swarm, so they hold  *)
(* beside it; a retried task moves on, and two equal members take turns.   *)
(***************************************************************************)
EXTENDS SwarmDelegation, FiniteSetTheorems, SequenceTheorems, WellFoundedInduction, TLAPS

\* _run_election changes the leader only, and elects a healthy member or nobody.
LEMMA ElectedFacts ==
  ASSUME NEW s \in Swarms
  PROVE  /\ Elected(s) \in Swarms
         /\ Elected(s).members = s.members
         /\ Elected(s).health = s.health
         /\ Elected(s).leader = NoAgent \/ Elected(s).leader \in Candidates(s)
<1> DEFINE C == Candidates(s)
           l == IF C = {} THEN NoAgent ELSE CHOOSE a \in C : \A b \in C : b <= a
<1>1. C \in SUBSET Agents
  BY DEF Candidates, Swarms
<1>2. C # {} => \E m \in C : \A c \in C : c <= m
  BY <1>1, AgentAssumption DEF AgentAssumption
<1>3. l = NoAgent \/ l \in C
  BY <1>2
<1>4. Elected(s) = [s EXCEPT !.leader = l]
  BY DEF Elected
<1>5. l \in Agents \cup {NoAgent}
  BY <1>1, <1>3
<1> HIDE DEF C, l
<1>6. Elected(s) \in Swarms /\ Elected(s).members = s.members
      /\ Elected(s).health = s.health /\ Elected(s).leader = l
  BY <1>4, <1>5 DEF Swarms
<1> QED
  BY <1>3, <1>6 DEF C

\* An edit of one member's health is a swarm again.
LEMMA HealthEdit ==
  ASSUME NEW s \in Swarms, NEW a \in Agents, NEW h \in Health
  PROVE  /\ [s EXCEPT !.health[a] = h] \in Swarms
         /\ [s EXCEPT !.health[a] = h].members = s.members
         /\ [s EXCEPT !.health[a] = h].leader = s.leader
         /\ [s EXCEPT !.health[a] = h].health = [s.health EXCEPT ![a] = h]
  BY DEF Swarms

LEMMA JoinedFacts ==
  ASSUME sw \in Swarms, NEW a \in Agents
  PROVE  /\ Joined(a) \in Swarms
         /\ Joined(a).members = sw.members \cup {a}
         /\ Joined(a).leader = sw.leader
         /\ Joined(a).health = [sw.health EXCEPT ![a] = "healthy"]
<1> DEFINE s == [sw EXCEPT !.members = sw.members \cup {a}]
<1>1. s \in Swarms /\ s.members = sw.members \cup {a} /\ s.leader = sw.leader
      /\ s.health = sw.health
  BY DEF Swarms
<1>2. Joined(a) = [s EXCEPT !.health[a] = "healthy"]
  BY DEF Joined, Swarms
<1> HIDE DEF s
<1>3. "healthy" \in Health
  BY DEF Health
<1>4. /\ [s EXCEPT !.health[a] = "healthy"] \in Swarms
      /\ [s EXCEPT !.health[a] = "healthy"].members = s.members
      /\ [s EXCEPT !.health[a] = "healthy"].leader = s.leader
      /\ [s EXCEPT !.health[a] = "healthy"].health = [s.health EXCEPT ![a] = "healthy"]
  BY <1>1, <1>3, HealthEdit
<1> QED
  BY <1>1, <1>2, <1>4

-----------------------------------------------------------------------------
(* What one step does to the swarm object. *)

\* The leader goes on: it stays a member, and an edit does not make it unhealthy.
GoesOn(s, t) ==
  /\ t.leader = s.leader
  /\ t.leader # NoAgent =>
       /\ t.leader \in s.members => t.leader \in t.members
       /\ s.health[t.leader] # "unhealthy" => t.health[t.leader] # "unhealthy"

\* An election was due, because the leader left or was declared unhealthy or
\* there was none, and its winner is healthy.
Voted(s, t) ==
  /\ t.leader = NoAgent \/ t.leader \in Candidates(t)
  /\ s.leader # NoAgent => s.leader \notin t.members \/ t.health[s.leader] = "unhealthy"

\* The new swarm is in the store, and a hand appointment ends with the office.
Saved == row' = sw' /\ appointed' = (appointed /\ sw'.leader = sw.leader)

\* A step saves what it changed; the leader goes on, an election is held, a
\* role is assigned, or the row is read back.
LEMMA StepFacts ==
  ASSUME TypeOK, Next
  PROVE  /\ sw' \in Swarms
         /\ appointed' \in BOOLEAN
         /\ \/ Saved /\ (GoesOn(sw, sw') \/ Voted(sw, sw'))
            \/ /\ row' = sw' /\ sw'.leader \in sw'.members /\ appointed' = TRUE
               /\ AssignLeader(sw'.leader)
            \/ row' = row /\ sw' = sw /\ appointed' = appointed
            \/ row' = row /\ sw' = row /\ appointed' = appointed
<1> USE DEF TypeOK
<1>h. "healthy" \in Health /\ "suspected" \in Health /\ "unhealthy" \in Health
  BY DEF Health
<1>t. sw \in Swarms /\ sw.health \in [Agents -> Health] /\ sw.leader \in Agents \cup {NoAgent}
  BY DEF Swarms
<1>e. Empty \in Swarms /\ Empty.leader = NoAgent /\ Empty.members = {}
  BY <1>h DEF Empty, Swarms
<1>v. ASSUME NEW s \in Swarms,
             sw.leader # NoAgent => sw.leader \notin s.members \/ s.health[sw.leader] = "unhealthy"
      PROVE  Elected(s) \in Swarms /\ Voted(sw, Elected(s))
  BY <1>v, ElectedFacts DEF Voted, Candidates
<1>1. CASE CreateSwarm \/ Disband
  BY <1>1, <1>e DEF CreateSwarm, Disband, Save, Saved, Voted
<1>2. CASE BeginSweep \/ StartStop
  BY <1>2 DEF BeginSweep, StartStop
<1>3. CASE Restart
  BY <1>3 DEF Restart
<1>4. ASSUME NEW a \in Agents, Join(a)
      PROVE  sw' \in Swarms /\ Saved /\ (GoesOn(sw, sw') \/ Voted(sw, sw'))
  <2>1. /\ Joined(a) \in Swarms /\ Joined(a).leader = sw.leader
        /\ Joined(a).members = sw.members \cup {a}
        /\ Joined(a).health = [sw.health EXCEPT ![a] = "healthy"]
    BY <1>t, JoinedFacts
  <2>2. GoesOn(sw, Joined(a))
    BY <1>t, <2>1 DEF GoesOn
  <2> QED
    BY <1>4, <1>v, <2>1, <2>2 DEF Join, Save, Saved
<1>5. ASSUME NEW a \in Agents, Leave(a)
      PROVE  sw' \in Swarms /\ Saved /\ (GoesOn(sw, sw') \/ Voted(sw, sw'))
  <2> DEFINE s == [sw EXCEPT !.members = sw.members \ {a}]
  <2>1. s \in Swarms /\ s.members = sw.members \ {a} /\ s.leader = sw.leader /\ s.health = sw.health
    BY DEF Swarms
  <2>2. sw' = (IF sw.leader = a THEN Elected(s) ELSE s) /\ Saved
    BY <1>5 DEF Leave, Save, Saved
  <2> HIDE DEF s
  <2>3. sw.leader # a => GoesOn(sw, s)
    BY <2>1 DEF GoesOn
  <2> QED
    BY <1>v, <2>1, <2>2, <2>3
<1>6. ASSUME NEW a \in Agents, AssignLeader(a)
      PROVE  /\ sw' \in Swarms /\ row' = sw' /\ sw'.leader \in sw'.members /\ appointed' = TRUE
             /\ AssignLeader(sw'.leader)
  <2>1. sw' = [sw EXCEPT !.leader = a] /\ row' = sw' /\ appointed' = TRUE /\ a \in sw.members
    BY <1>6 DEF AssignLeader
  <2>2. sw' \in Swarms /\ sw'.leader = a /\ sw'.members = sw.members
    BY <2>1 DEF Swarms
  <2> QED
    BY <1>6, <2>1, <2>2
<1>7. ASSUME NEW a \in Agents, NEW match \in BOOLEAN, Heartbeat(a, match)
      PROVE  sw' \in Swarms /\ Saved /\ GoesOn(sw, sw')
  <2>1. /\ [sw EXCEPT !.health[a] = "healthy"] \in Swarms
        /\ GoesOn(sw, [sw EXCEPT !.health[a] = "healthy"])
    BY <1>h, <1>t, HealthEdit DEF GoesOn
  <2> QED
    BY <1>7, <2>1 DEF Heartbeat, Save, Saved, GoesOn
<1>8. ASSUME NEW a \in Agents, CheckMember(a)
      PROVE  sw' \in Swarms /\ Saved /\ (GoesOn(sw, sw') \/ Voted(sw, sw'))
  <2> DEFINE s == [sw EXCEPT !.health[a] = "unhealthy"]
             u == [sw EXCEPT !.health[a] = "suspected"]
  <2>1. s \in Swarms /\ (sw.leader # a => GoesOn(sw, s))
    BY <1>h, <1>t, HealthEdit DEF GoesOn
  <2>6. s.health[a] = "unhealthy"
    BY <1>h, <1>t, HealthEdit
  <2>2. u \in Swarms /\ GoesOn(sw, u)
    BY <1>h, <1>t, HealthEdit DEF GoesOn
  <2>3. /\ sw' = IF Fail(a) THEN (IF sw.leader = a THEN Elected(s) ELSE s)
                 ELSE IF Suspect(a) THEN u ELSE sw
        /\ Saved
    BY <1>8 DEF CheckMember, Save, Saved
  <2>4. sw' \in {u, sw} \/ (sw' = s /\ sw.leader # a) \/ (sw' = Elected(s) /\ sw.leader = a)
    BY <2>3
  <2> HIDE DEF s, u
  <2>5. GoesOn(sw, sw)
    BY DEF GoesOn
  <2> QED
    BY <1>v, <2>1, <2>2, <2>3, <2>4, <2>5, <2>6
<1>9. ASSUME NEW a \in Agents, GrowsOld(a) \/ Dies(a) PROVE row' = row /\ sw' = sw /\ appointed' = appointed
  BY <1>9 DEF GrowsOld, Dies
<1> QED
  BY <1>1, <1>2, <1>3, <1>4, <1>5, <1>6, <1>7, <1>8, <1>9 DEF Next, Coordinate, Direct, Saved

-----------------------------------------------------------------------------
(* The invariants. *)

\* The swarm and its row, the ages and the sweep keep their types for any set
\* of agents; a sweep never looks at an agent that is no member.
THEOREM TypeCorrect == Spec => []TypeOK
<1>1. Init => TypeOK
  <2>1. Empty \in Swarms /\ Empty.members = {}
    BY DEF Empty, Swarms, Health
  <2> QED
    BY <2>1 DEF Init, TypeOK, Ages
<1>2. TypeOK /\ [Next]_vars => TypeOK'
  <2> SUFFICES ASSUME TypeOK, [Next]_vars PROVE TypeOK'
    OBVIOUS
  <2>1. CASE UNCHANGED vars
    BY <2>1 DEF TypeOK, vars
  <2>2. CASE Next
    <3>1. sw' \in Swarms /\ row' \in Swarms
      BY <2>2, StepFacts DEF TypeOK, Saved
    <3>2. beat' \in [Agents -> Ages]
      BY <2>2 DEF TypeOK, Ages, Next, Coordinate, Direct, CreateSwarm, Disband, BeginSweep,
         StartStop, Restart,
         Join, Leave, AssignLeader, Heartbeat, CheckMember, GrowsOld, Dies
    <3>5. appointed' \in BOOLEAN
      BY <2>2, StepFacts
    <3>3. looping' \in BOOLEAN /\ dead' \subseteq Agents
      BY <2>2, AgentAssumption DEF AgentAssumption, TypeOK, Next, Coordinate, Direct, CreateSwarm,
         Disband, BeginSweep, StartStop, Restart,
         Join, Leave, AssignLeader, Heartbeat, CheckMember, GrowsOld, Dies
    <3>4. sweep' \subseteq sw'.members
      <4>1. ASSUME NEW a \in Agents, CheckMember(a) PROVE sweep' \subseteq sw'.members
        <5> DEFINE s == [sw EXCEPT !.health[a] = "unhealthy"]
                   u == [sw EXCEPT !.health[a] = "suspected"]
        <5>1. s \in Swarms /\ s.members = sw.members /\ u.members = sw.members
          BY HealthEdit DEF TypeOK, Health
        <5>2. sw' \in {s, u, sw, Elected(s)} /\ sweep' \subseteq sweep
          BY <4>1 DEF CheckMember, Save
        <5> HIDE DEF s, u
        <5> QED
          BY <5>1, <5>2, ElectedFacts DEF TypeOK
      <4> QED
        BY <2>2, <4>1 DEF TypeOK, Next, Coordinate, Direct, CreateSwarm, Disband, BeginSweep,
           StartStop, Restart,
           Join, Leave, AssignLeader, Heartbeat, GrowsOld, Dies
    <3> QED
      BY <3>1, <3>2, <3>3, <3>4, <3>5 DEF TypeOK
  <2> QED
    BY <2>1, <2>2
<1> QED
  BY <1>1, <1>2, PTL DEF Spec

\* What join_swarm, leave_swarm, check_partitions, assign_role and heartbeats
\* change is saved before anything else runs.
THEOREM SavedSwarmCorrect == Spec => []SavedSwarmIsCurrent
<1>1. Init => SavedSwarmIsCurrent
  BY DEF Init, SavedSwarmIsCurrent
<1>2. TypeOK /\ SavedSwarmIsCurrent /\ [Next]_vars => SavedSwarmIsCurrent'
  BY StepFacts DEF Saved, SavedSwarmIsCurrent, vars
<1> QED
  BY <1>1, <1>2, TypeCorrect, PTL DEF Spec

\* The leader is always a member: joins, departures, elections, role changes,
\* re-creations and restarts cannot leave an absent agent in office.
THEOREM LeaderIsMemberCorrect == Spec => []LeaderIsMember
<1>1. Init => LeaderIsMember
  BY DEF Init, LeaderIsMember, Empty
<1>2. TypeOK /\ SavedSwarmIsCurrent /\ LeaderIsMember /\ [Next]_vars => LeaderIsMember'
  BY StepFacts DEF Saved, SavedSwarmIsCurrent, LeaderIsMember, GoesOn, Voted, Candidates, vars
<1> QED
  BY <1>1, <1>2, TypeCorrect, SavedSwarmCorrect, PTL DEF Spec

\* No member declared unhealthy by check_partitions holds the office by election.
THEOREM LeaderHealthCorrect == Spec => []LeaderNotUnhealthy
<1>1. Init => LeaderNotUnhealthy
  BY DEF Init, LeaderNotUnhealthy, Empty
<1>2. TypeOK /\ SavedSwarmIsCurrent /\ LeaderNotUnhealthy /\ [Next]_vars => LeaderNotUnhealthy'
  BY StepFacts DEF Saved, SavedSwarmIsCurrent, LeaderNotUnhealthy, GoesOn, Voted, Candidates, vars
<1> QED
  BY <1>1, <1>2, TypeCorrect, SavedSwarmCorrect, PTL DEF Spec

\* A leader is replaced only after it left or was declared unhealthy, or by
\* assign_role.
THEOREM LeaderStableCorrect == Spec => LeaderIsStable
<1> DEFINE Step == (sw.leader # NoAgent /\ sw'.leader # sw.leader)
                     => \/ sw.leader \notin sw'.members
                        \/ sw'.health[sw.leader] = "unhealthy"
                        \/ AssignLeader(sw'.leader)
<1>1. TypeOK /\ SavedSwarmIsCurrent /\ [Next]_vars => [Step]_vars
  BY StepFacts DEF Saved, SavedSwarmIsCurrent, GoesOn, Voted, vars
<1> QED
  BY <1>1, TypeCorrect, SavedSwarmCorrect, PTL DEF Spec, LeaderIsStable

-----------------------------------------------------------------------------
(* Delegation on top of the swarm. *)

\* Delegating tasks is a swarm that stutters: whatever managers and executors do,
\* the members, their health and the leader change as Swarm says.
THEOREM DelegationImplementsSwarm == DSpec => Spec
<1>1. DInit => Init
  BY DEF DInit
<1>2. [DNext]_allVars => [Next]_vars
  <2>1. CASE UNCHANGED allVars
    BY <2>1 DEF allVars
  <2>2. CASE Coordinated \/ Restarted
    BY <2>2 DEF Coordinated, Restarted, Next
  <2>3. ASSUME NEW a \in Agents, NEW match \in BOOLEAN, NEW l \in Loads, Beats(a, match, l)
        PROVE  Next
    BY <2>3 DEF Beats, Next
  <2>4. ASSUME NEW x \in Tasks, NEW a \in Agents,
               StepToSwarm(x, a) \/ ScheduleSwarm(x, a) \/ AgentDelegates(x, a)
        PROVE  UNCHANGED vars
    BY <2>4 DEF StepToSwarm, ScheduleSwarm, AgentDelegates, Outside
  <2>5. ASSUME NEW m \in Managers, Manage(m) \/ \E b \in Batches : StartBatch(m, b)
        PROVE  UNCHANGED vars
    BY <2>5 DEF Manage, NoEligible, Delegate, ExecutorReturns, ExecutorRaises, StartBatch
  <2> QED
    BY <2>1, <2>2, <2>3, <2>4, <2>5 DEF DNext
<1> QED
  BY <1>1, <1>2, PTL DEF DSpec, Spec

\* A set of numbers that is not empty has a least one.
LEMMA LeastNumber ==
  ASSUME NEW T \in SUBSET Nat, T # {}
  PROVE  \E x \in T : \A y \in T : x <= y
<1> DEFINE R == OpToRel(<, Nat)
<1>1. \E x \in T : \A y \in T : ~ (<<y, x>> \in R)
  <2>1. IsWellFoundedOn(R, Nat)
    BY NatLessThanWellFounded
  <2> HIDE DEF R
  <2> QED
    BY <2>1, WFMin
<1>2. PICK x \in T : \A y \in T : ~ (y < x)
  BY <1>1 DEF OpToRel
<1> QED
  BY <1>2

\* The sort of delegate_task has a first element: the choice is an eligible member
\* that comes before all others.
LEMMA ChosenFacts ==
  ASSUME TypeOK, DelegationTypeOK, NEW x \in Tasks, NEW from, Eligible(x, from) # {}
  PROVE  /\ Chosen(x, from) \in Eligible(x, from)
         /\ \A b \in Eligible(x, from) \ {Chosen(x, from)} : Before(Chosen(x, from), b)
<1>1. PICK E : E = Eligible(x, from)
  OBVIOUS
<1>2. E \subseteq Agents /\ E # {} /\ Agents \subseteq Nat
  BY <1>1, AgentAssumption DEF Eligible, TypeOK, Swarms, AgentAssumption
<1>3. PICK l \in Nat : /\ \E a \in E : load[a] = l
                       /\ \A a \in E : l <= load[a]
  <2> DEFINE L == {load[a] : a \in E}
  <2>1. L \subseteq Nat /\ L # {}
    BY <1>2 DEF DelegationTypeOK
  <2>2. PICK l \in L : \A y \in L : l <= y
    BY <2>1, LeastNumber
  <2> QED
    BY <2>1, <2>2
<1>4. PICK a \in E : /\ load[a] = l
                     /\ \A b \in E : load[b] = l /\ b # a =>
                          (a # rr /\ b = rr) \/ (a # rr /\ b # rr /\ a < b)
  <2> DEFINE T == {b \in E : load[b] = l /\ b # rr}
  <2>1. CASE T = {}
    <3>1. PICK a \in E : load[a] = l
      BY <1>3
    <3> QED
      BY <2>1, <3>1
  <2>2. CASE T # {}
    <3>1. T \subseteq Nat
      BY <1>2
    <3>2. PICK a \in T : \A y \in T : a <= y
      BY <2>2, <3>1, LeastNumber
    <3>3. \A b \in T : b # a => a < b
      BY <3>1, <3>2
    <3> QED
      BY <3>2, <3>3
  <2> QED
    BY <2>1, <2>2
<1>5. \A b \in E \ {a} : Before(a, b)
  <2> SUFFICES ASSUME NEW b \in E \ {a} PROVE Before(a, b)
    OBVIOUS
  <2>1. load[b] \in Nat /\ l <= load[b]
    BY <1>2, <1>3 DEF DelegationTypeOK
  <2>2. CASE load[b] = l
    BY <1>4, <2>2 DEF Before
  <2>3. CASE load[b] # l
    BY <1>4, <2>1, <2>3 DEF Before
  <2> QED
    BY <2>2, <2>3
<1>6. Chosen(x, from) = CHOOSE c \in E : \A b \in E \ {c} : Before(c, b)
  BY <1>1 DEF Chosen
<1> QED
  BY <1>1, <1>5, <1>6

\* The agent a task is assigned to is that of its latest delegation.
LastInv ==
  \A i \in known :
    (deleg[i].task \in Tasks /\ \A k \in i + 1 .. Len(deleg) : deleg[k].task # deleg[i].task)
      => assigned[deleg[i].task] = deleg[i].to

DelegationInv == DelegationTypeOK /\ LastInv /\ RetryMovesOn

\* A delegation is appended; a manager's goes to another agent than the task is
\* assigned to.
LEMMA AppendDelegation ==
  ASSUME DelegationTypeOK, LastInv, RetryMovesOn, NEW d \in Delegation,
         deleg' = Append(deleg, d), known' = known \cup {Len(deleg) + 1},
         assigned' = [x \in Tasks |-> IF x = d.task THEN d.to ELSE assigned[x]],
         d.by = "team" => d.task \in Tasks /\ assigned[d.task] # d.to
  PROVE  /\ deleg' \in Seq(Delegation) /\ DOMAIN deleg' = 1 .. Len(deleg) + 1
         /\ DOMAIN deleg = 1 .. Len(deleg) /\ Len(deleg) \in Nat
         /\ known' \subseteq DOMAIN deleg' /\ LastInv' /\ RetryMovesOn'
<1>1. PICK n \in Nat : n = Len(deleg)
  BY LenProperties DEF DelegationTypeOK
<1>2. /\ deleg' \in Seq(Delegation) /\ Len(deleg') = n + 1 /\ DOMAIN deleg' = 1 .. n + 1
      /\ DOMAIN deleg = 1 .. n /\ deleg'[n + 1] = d
      /\ \A i \in 1 .. n : deleg'[i] = deleg[i]
  BY <1>1, AppendProperties, LenProperties DEF DelegationTypeOK
<1>3. known \subseteq 1 .. n /\ known' = known \cup {n + 1}
  BY <1>1, <1>2 DEF DelegationTypeOK
<1>4. StepTask \notin Tasks
  BY DelegationAssumption DEF DelegationAssumption
<1>5. ASSUME NEW i \in known, deleg[i].task \in Tasks,
             \A k \in i + 1 .. n : deleg[k].task # deleg[i].task
      PROVE  assigned[deleg[i].task] = deleg[i].to
  BY <1>1, <1>5 DEF LastInv
<1>6. LastInv'
  <2> SUFFICES ASSUME NEW i \in known', deleg'[i].task \in Tasks,
                      \A k \in i + 1 .. Len(deleg') : deleg'[k].task # deleg'[i].task
               PROVE  assigned'[deleg'[i].task] = deleg'[i].to
    BY DEF LastInv
  <2>0. \A k \in i + 1 .. n + 1 : deleg'[k].task # deleg'[i].task
    BY <1>2
  <2>1. CASE i = n + 1
    BY <1>2, <1>4, <2>1 DEF DelegationTypeOK
  <2>2. CASE i # n + 1
    <3>1. i \in known /\ i \in 1 .. n /\ deleg'[i] = deleg[i]
      BY <1>2, <1>3, <2>2
    <3>2. \A k \in i + 1 .. n : deleg[k].task # deleg[i].task
      <4> SUFFICES ASSUME NEW k \in i + 1 .. n PROVE deleg[k].task # deleg[i].task
        OBVIOUS
      <4>1. k \in 1 .. n /\ k \in i + 1 .. n + 1
        BY <3>1
      <4> QED
        BY <1>2, <2>0, <3>1, <4>1
    <3>3. n + 1 \in i + 1 .. n + 1
      BY <3>1
    <3>4. d.task # deleg[i].task
      BY <1>2, <2>0, <3>1, <3>3
    <3>5. assigned'[deleg[i].task] = assigned[deleg[i].task]
      BY <3>1, <3>4 DEF DelegationTypeOK
    <3> QED
      BY <1>5, <3>1, <3>2, <3>5
  <2> QED
    BY <2>1, <2>2
<1>7. RetryMovesOn'
  <2> SUFFICES ASSUME NEW i \in known', NEW j \in known', i < j,
                      deleg'[i].task = deleg'[j].task, deleg'[j].by = "team",
                      \A k \in i + 1 .. j - 1 : deleg'[k].task # deleg'[i].task
               PROVE  deleg'[i].to # deleg'[j].to
    BY DEF RetryMovesOn
  <2>1. i \in known /\ i \in 1 .. n /\ deleg'[i] = deleg[i] /\ j \in 1 .. n + 1
    <3>1. i \in 1 .. n + 1 /\ j \in 1 .. n + 1
      BY <1>3
    <3>2. i \in 1 .. n /\ i # n + 1
      BY <3>1
    <3> QED
      BY <1>2, <1>3, <3>1, <3>2
  <2>2. ASSUME NEW k \in i + 1 .. j - 1 PROVE deleg[k].task # deleg[i].task
    <3>1. k \in 1 .. n
      BY <2>1
    <3> QED
      BY <1>2, <2>1, <3>1
  <2>3. CASE j = n + 1
    <3>1. \A k \in i + 1 .. n : deleg[k].task # deleg[i].task
      BY <2>2, <2>3
    <3>2. d.by = "team" /\ d.task = deleg[i].task /\ deleg[i].task \in Tasks
      BY <1>2, <2>1, <2>3
    <3>3. assigned[deleg[i].task] = deleg[i].to
      BY <1>5, <2>1, <3>1, <3>2
    <3> QED
      BY <1>2, <2>1, <2>3, <3>2, <3>3
  <2>4. CASE j # n + 1
    <3>1. j \in known /\ deleg'[j] = deleg[j]
      BY <1>2, <1>3, <2>4
    <3> QED
      BY <2>1, <2>2, <3>1 DEF RetryMovesOn
  <2> QED
    BY <2>3, <2>4
<1>8. known' \subseteq DOMAIN deleg'
  <2> SUFFICES ASSUME NEW k \in known' PROVE k \in 1 .. n + 1
    BY <1>2
  <2>1. k \in 1 .. n \/ k = n + 1
    BY <1>3
  <2> QED
    BY <2>1
<1> QED
  BY <1>1, <1>2, <1>6, <1>7, <1>8

\* Steps that make no delegation.
LEMMA KeptDelegations ==
  ASSUME LastInv, RetryMovesOn, UNCHANGED <<deleg, known, assigned>>
  PROVE  LastInv' /\ RetryMovesOn'
BY DEF LastInv, RetryMovesOn

LEMMA CoordinatedStep ==
  ASSUME TypeOK', DelegationInv,
         \/ Coordinated \/ Restarted
         \/ \E a \in Agents, match \in BOOLEAN, l \in Loads : Beats(a, match, l)
  PROVE  DelegationInv'
<1> USE DEF DelegationInv
<1>1. turns' = NoTurns
  BY DEF Coordinated, Restarted, Beats
<1>2. turns' \in [Agents -> Nat]
  BY <1>1 DEF NoTurns
<1>3. CASE Coordinated \/ \E a \in Agents, match \in BOOLEAN, l \in Loads : Beats(a, match, l)
  <2>1. UNCHANGED <<rr, deleg, known, assigned, todo, cur>>
    BY <1>3 DEF Coordinated, Beats
  <2>2. load' \in [Agents -> Nat]
    BY <1>3, DelegationAssumption DEF Coordinated, Beats, DelegationTypeOK, DelegationAssumption
  <2>3. DelegationTypeOK'
    BY <1>2, <2>1, <2>2 DEF DelegationTypeOK
  <2> QED
    BY <1>2, <2>1, <2>3, KeptDelegations
<1>4. CASE Restarted
  <2>1. /\ load' = [a \in Agents |-> 0] /\ rr' = NoAgent /\ known' = {} /\ deleg' = deleg
        /\ assigned' = [x \in Tasks |-> NoAgent]
        /\ todo' = [m \in Managers |-> <<>>] /\ cur' = [m \in Managers |-> 0]
    BY <1>4 DEF Restarted
  <2>2. DelegationTypeOK'
    BY <1>2, <2>1, EmptySeq DEF DelegationTypeOK
  <2>3. LastInv' /\ RetryMovesOn'
    BY <2>1 DEF LastInv, RetryMovesOn
  <2> QED
    BY <1>2, <2>2, <2>3
<1> QED
  BY <1>3, <1>4

\* A batch starts, a task has no eligible member, or an executor answers or raises.
LEMMA BatchStep ==
  ASSUME TypeOK, DelegationInv, NEW m \in Managers,
         \/ NoEligible(m) \/ ExecutorReturns(m) \/ ExecutorRaises(m)
         \/ \E b \in Batches : StartBatch(m, b)
  PROVE  DelegationInv'
<1> USE DEF DelegationInv
<1>1. UNCHANGED <<sw, load, rr, known, assigned, turns>>
  BY DEF NoEligible, ExecutorReturns, ExecutorRaises, StartBatch, vars
<1>3. PICK q \in Seq(Tasks), c \in Nat :
        /\ todo' = [todo EXCEPT ![m] = q] /\ cur' = [cur EXCEPT ![m] = c] /\ c = 0
  <2>1. <<>> \in Seq(Tasks) /\ todo[m] \in Seq(Tasks) /\ cur[m] \in Nat
    BY EmptySeq DEF DelegationTypeOK
  <2>2. todo[m] # <<>> => Tail(todo[m]) \in Seq(Tasks)
    BY <2>1, HeadTailProperties
  <2>3. cur[m] # 0 => todo[m] # <<>>
    BY DEF DelegationTypeOK
  <2>4. cur[m] = 0 => cur = [cur EXCEPT ![m] = 0]
    BY DEF DelegationTypeOK
  <2>5. CASE NoEligible(m)
    <3>1. todo[m] # <<>> /\ cur[m] = 0 /\ todo' = [todo EXCEPT ![m] = Tail(todo[m])] /\ cur' = cur
      BY <2>5 DEF NoEligible
    <3>2. cur' = [cur EXCEPT ![m] = 0]
      BY <2>4, <3>1
    <3>3. PICK q \in Seq(Tasks) : q = Tail(todo[m])
      BY <2>2, <3>1
    <3>4. todo' = [todo EXCEPT ![m] = q]
      BY <3>1, <3>3
    <3> QED
      BY <3>2, <3>4
  <2>6. CASE ExecutorReturns(m)
    BY <2>2, <2>3, <2>6 DEF ExecutorReturns
  <2>7. CASE ExecutorRaises(m)
    BY <2>1, <2>7 DEF ExecutorRaises
  <2>8. ASSUME NEW b \in Batches, StartBatch(m, b)
        PROVE  b \in Seq(Tasks) /\ todo' = [todo EXCEPT ![m] = b] /\ cur' = cur /\ cur[m] = 0
    <3>1. Cardinality(Tasks) \in Nat
      BY DelegationAssumption, FS_CardinalityType DEF DelegationAssumption
    <3>2. PICK n \in 1 .. Cardinality(Tasks) : b \in [1 .. n -> Tasks]
      BY DEF Batches
    <3>3. b \in Seq(Tasks)
      BY <3>1, <3>2, SeqDef
    <3> QED
      BY <2>8, <3>3 DEF StartBatch, Idle
  <2> QED
    BY <2>4, <2>5, <2>6, <2>7, <2>8
<1>4. /\ todo' \in [Managers -> Seq(Tasks)] /\ cur' \in [Managers -> Nat]
      /\ \A n \in Managers : n # m => todo'[n] = todo[n] /\ cur'[n] = cur[n]
      /\ cur'[m] = 0
  BY <1>3 DEF DelegationTypeOK
<1>5. CASE UNCHANGED deleg
  <2>1. DelegationTypeOK'
    BY <1>1, <1>4, <1>5 DEF DelegationTypeOK
  <2> QED
    BY <1>1, <1>5, <2>1, KeptDelegations
<1>6. CASE cur[m] # 0 /\ deleg' = [deleg EXCEPT ![cur[m]].status = "completed"]
  <2>1. cur[m] \in DOMAIN deleg /\ deleg[cur[m]] \in Delegation /\ cur[m] \in 1 .. Len(deleg)
    BY <1>6, LenProperties DEF DelegationTypeOK
  <2>2. PICK d \in Delegation : /\ d = [deleg[cur[m]] EXCEPT !.status = "completed"]
                                /\ d.task = deleg[cur[m]].task /\ d.to = deleg[cur[m]].to
                                /\ d.by = deleg[cur[m]].by
    <3>1. PICK e \in Delegation : e = deleg[cur[m]]
      BY <2>1
    <3>2. [e EXCEPT !.status = "completed"] \in Delegation
      BY SMTT(20) DEF Delegation
    <3>3. /\ [e EXCEPT !.status = "completed"].task = e.task
          /\ [e EXCEPT !.status = "completed"].to = e.to
          /\ [e EXCEPT !.status = "completed"].by = e.by
      BY DEF Delegation
    <3> QED
      BY <3>1, <3>2, <3>3
  <2>3. deleg' = [deleg EXCEPT ![cur[m]] = d]
    BY <1>6, <2>2
  <2>4. deleg' \in Seq(Delegation) /\ Len(deleg') = Len(deleg) /\ DOMAIN deleg' = DOMAIN deleg
    BY <2>1, <2>3, ExceptSeq DEF DelegationTypeOK
  <2>5. \A i \in DOMAIN deleg : /\ deleg'[i].task = deleg[i].task /\ deleg'[i].to = deleg[i].to
                              /\ deleg'[i].by = deleg[i].by
    BY <2>1, <2>2, <2>3
  <2>6. DelegationTypeOK'
    BY <1>1, <1>4, <2>4 DEF DelegationTypeOK
  <2>7. DOMAIN deleg = 1 .. Len(deleg) /\ Len(deleg) \in Nat /\ known \subseteq 1 .. Len(deleg)
    BY LenProperties DEF DelegationTypeOK
  <2>8. LastInv'
    BY <1>1, <2>4, <2>5, <2>7 DEF LastInv
  <2>9. RetryMovesOn'
    <3> SUFFICES ASSUME NEW i \in known, NEW j \in known, i < j,
                        deleg'[i].task = deleg'[j].task, deleg'[j].by = "team",
                        \A k \in i + 1 .. j - 1 : deleg'[k].task # deleg'[i].task
                 PROVE  deleg'[i].to # deleg'[j].to
      BY <1>1 DEF RetryMovesOn
    <3>1. i \in 1 .. Len(deleg) /\ j \in 1 .. Len(deleg)
      BY <2>7
    <3>2. ASSUME NEW k \in i + 1 .. j - 1 PROVE deleg[k].task # deleg[i].task
      <4>1. k \in 1 .. Len(deleg)
        BY <2>7, <3>1
      <4> QED
        BY <2>5, <2>7, <3>1, <4>1
    <3> QED
      BY <2>5, <2>7, <3>1, <3>2 DEF RetryMovesOn
  <2> QED
    BY <2>6, <2>8, <2>9
<1> QED
  BY <1>5, <1>6 DEF NoEligible, ExecutorReturns, ExecutorRaises, StartBatch

\* delegate_task: the member chosen gets the task.
LEMMA DelegateTaskStep ==
  ASSUME TypeOK, DelegationTypeOK, LastInv, RetryMovesOn,
         NEW x \in Tasks, NEW task \in Tasks \cup {StepTask}, NEW from,
         NEW by \in {"team", "agent", "engine"}, NEW status \in {"pending", "completed"},
         DelegateTask(x, task, from, by, status),
         by = "team" => task = x /\ from = assigned[x]
  PROVE  /\ deleg' \in Seq(Delegation) /\ DOMAIN deleg' = 1 .. Len(deleg) + 1
         /\ DOMAIN deleg = 1 .. Len(deleg) /\ Len(deleg) \in Nat
         /\ known' \subseteq DOMAIN deleg' /\ LastInv' /\ RetryMovesOn'
         /\ rr' \in Agents /\ assigned' \in [Tasks -> Agents \cup {NoAgent}]
<1>1. PICK to : to = Chosen(x, from)
  OBVIOUS
<1>2. /\ Eligible(x, from) # {} /\ rr' = to
      /\ deleg' = Append(deleg, [task |-> task, to |-> to, by |-> by, status |-> status])
      /\ known' = known \cup {Len(deleg) + 1}
      /\ assigned' = [y \in Tasks |-> IF y = task THEN to ELSE assigned[y]]
  BY <1>1 DEF DelegateTask
<1>3. to \in Agents /\ to # from
  BY <1>1, <1>2, ChosenFacts DEF Eligible, TypeOK, Swarms
<1>4. PICK d \in Delegation :
        /\ d = [task |-> task, to |-> to, by |-> by, status |-> status]
        /\ d.task = task /\ d.to = to /\ d.by = by
  <2>1. [task |-> task, to |-> to, by |-> by, status |-> status] \in Delegation
    BY <1>3 DEF Delegation
  <2> QED
    BY <2>1
<1>5. assigned' \in [Tasks -> Agents \cup {NoAgent}]
  BY <1>2, <1>3 DEF DelegationTypeOK
<1>6. d.by = "team" => d.task \in Tasks /\ assigned[d.task] # d.to
  BY <1>3, <1>4
<1>7. /\ deleg' = Append(deleg, d)
      /\ assigned' = [y \in Tasks |-> IF y = d.task THEN d.to ELSE assigned[y]]
  BY <1>2, <1>4
<1> QED
  BY <1>2, <1>3, <1>5, <1>6, <1>7, AppendDelegation

\* A manager delegates the head of its batch.
LEMMA DelegateStep ==
  ASSUME TypeOK, DelegationInv, NEW m \in Managers, Delegate(m)
  PROVE  DelegationInv'
<1> USE DEF DelegationInv
<1>1. PICK x, from : x = Head(todo[m]) /\ from = From(m)
  OBVIOUS
<1>2. /\ todo[m] # <<>> /\ cur[m] = 0 /\ DelegateTask(x, x, from, "team", "pending")
      /\ cur' = [cur EXCEPT ![m] = Len(deleg) + 1]
      /\ turns' = IF from = NoAgent THEN [turns EXCEPT ![rr'] = @ + 1] ELSE NoTurns
      /\ UNCHANGED <<load, todo>>
  BY <1>1 DEF Delegate
<1>3. x \in Tasks /\ from = assigned[x]
  BY <1>1, <1>2, HeadTailProperties DEF DelegationTypeOK, From
<1>4. /\ deleg' \in Seq(Delegation) /\ DOMAIN deleg' = 1 .. Len(deleg) + 1
      /\ DOMAIN deleg = 1 .. Len(deleg) /\ Len(deleg) \in Nat
      /\ known' \subseteq DOMAIN deleg' /\ LastInv' /\ RetryMovesOn'
      /\ rr' \in Agents /\ assigned' \in [Tasks -> Agents \cup {NoAgent}]
  BY <1>2, <1>3, DelegateTaskStep
<1>5. turns' \in [Agents -> Nat]
  BY <1>2, <1>4 DEF DelegationTypeOK, NoTurns
<1>6. /\ cur' \in [Managers -> Nat]
      /\ \A n \in Managers : cur'[n] # 0 => cur'[n] \in DOMAIN deleg' /\ todo'[n] # <<>>
  BY <1>2, <1>4 DEF DelegationTypeOK
<1>7. DelegationTypeOK'
  BY <1>2, <1>4, <1>5, <1>6 DEF DelegationTypeOK
<1> QED
  BY <1>4, <1>7

\* An agent or the workflow engine delegates.
LEMMA OutsideStep ==
  ASSUME TypeOK, DelegationInv, NEW x \in Tasks, NEW from \in Agents,
         StepToSwarm(x, from) \/ ScheduleSwarm(x, from) \/ AgentDelegates(x, from)
  PROVE  DelegationInv'
<1> USE DEF DelegationInv
<1>1. PICK task \in Tasks \cup {StepTask}, by \in {"agent", "engine"},
           status \in {"pending", "completed"} : Outside(x, task, from, by, status)
  BY DEF StepToSwarm, ScheduleSwarm, AgentDelegates
<1>2. /\ DelegateTask(x, task, from, by, status) /\ turns' = NoTurns
      /\ UNCHANGED <<load, todo, cur>>
  BY <1>1 DEF Outside
<1>3. by \in {"team", "agent", "engine"} /\ by # "team"
  OBVIOUS
<1>4. /\ deleg' \in Seq(Delegation) /\ DOMAIN deleg' = 1 .. Len(deleg) + 1
      /\ DOMAIN deleg = 1 .. Len(deleg) /\ Len(deleg) \in Nat
      /\ known' \subseteq DOMAIN deleg' /\ LastInv' /\ RetryMovesOn'
      /\ rr' \in Agents /\ assigned' \in [Tasks -> Agents \cup {NoAgent}]
  BY <1>2, <1>3, DelegateTaskStep
<1>5. \A n \in Managers : cur'[n] # 0 => cur'[n] \in DOMAIN deleg' /\ todo'[n] # <<>>
  BY <1>2, <1>4 DEF DelegationTypeOK
<1>6. DelegationTypeOK'
  BY <1>2, <1>4, <1>5 DEF DelegationTypeOK, NoTurns
<1> QED
  BY <1>4, <1>6

\* The delegations keep their types and their inductive invariant.
THEOREM DelegationInvCorrect == DSpec => []DelegationInv
<1>1. DInit => DelegationInv
  <2> SUFFICES ASSUME DInit PROVE DelegationInv
    OBVIOUS
  <2>1. DelegationTypeOK
    BY EmptySeq DEF DInit, DelegationTypeOK, NoTurns
  <2>2. LastInv /\ RetryMovesOn
    BY DEF DInit, LastInv, RetryMovesOn
  <2> QED
    BY <2>1, <2>2 DEF DelegationInv
<1>2. TypeOK /\ TypeOK' /\ DelegationInv /\ [DNext]_allVars => DelegationInv'
  <2> SUFFICES ASSUME TypeOK, TypeOK', DelegationInv, [DNext]_allVars PROVE DelegationInv'
    OBVIOUS
  <2>1. CASE UNCHANGED allVars
    <3>1. UNCHANGED <<sw, load, rr, deleg, known, assigned, todo, cur, turns>>
      BY <2>1 DEF allVars, vars, dvars
    <3>2. LastInv' /\ RetryMovesOn'
      BY <3>1, KeptDelegations DEF DelegationInv
    <3>3. DelegationTypeOK'
      BY <3>1 DEF DelegationInv, DelegationTypeOK
    <3> QED
      BY <3>2, <3>3 DEF DelegationInv
  <2>2. CASE DNext
    BY <2>2, CoordinatedStep, BatchStep, DelegateStep, OutsideStep DEF DNext, Manage
  <2> QED
    BY <2>1, <2>2
<1>3. DSpec => []TypeOK
  BY DelegationImplementsSwarm, TypeCorrect, PTL
<1> QED
  BY <1>1, <1>2, <1>3, PTL DEF DSpec

\* A task that a manager retries moves to another agent (team_manager.py
\* execute_distributed, swarm.py delegate_task), whoever delegated it before, for
\* any number of managers, tasks and agents.
THEOREM RetryMovesOnCorrect == DSpec => []RetryMovesOn
<1>1. DelegationInv => RetryMovesOn
  BY DEF DelegationInv
<1> QED
  BY <1>1, DelegationInvCorrect, PTL
=============================================================================
