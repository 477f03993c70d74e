-------------------------------- MODULE Swarm --------------------------------
(***************************************************************************)
(* kernel/swarm.py, SwarmCoordinator: membership, leadership and failure   *)
(* detection of one swarm, saved in the SwarmStore (kernel/swarm_store.py) *)
(* after every change, and the operations TeamManager puts on top of them  *)
(* (create_team, assign_role, disband_team).                               *)
(*                                                                         *)
(* The coroutines of the coordinator await only EventStore.append, which   *)
(* never suspends, so each is one action.  check_partitions is one step    *)
(* per member and nothing else runs before it ends.  An age is the class   *)
(* of now - _last_beat against the two timeouts; agents are their ids, of  *)
(* which the bully election takes the greatest.                            *)
(***************************************************************************)
EXTENDS Naturals

CONSTANTS Agents,        \* agent ids
          LeaderWorker,  \* swarm.topology == LEADER_WORKER
          Mortal         \* agents whose process may end for good

\* Ids are positive and every group of agents has a greatest one.
ASSUME AgentAssumption ==
  /\ Agents \subseteq Nat \ {0}
  /\ \A C \in SUBSET Agents : C # {} => \E m \in C : \A c \in C : c <= m
  /\ LeaderWorker \in BOOLEAN /\ Mortal \subseteq Agents

VARIABLES
  sw,       \* the Swarm object of self._store: members, health, leader_id
  row,      \* its row in the swarms table
  beat,     \* age class of _last_beat[a] against the timeouts
  sweep,    \* members check_partitions has still to look at
  looping,  \* self._running: the check loop is started
  dead,     \* agents that send no heartbeat any more
  appointed \* history: the leader in office got the role by assign_role

vars == <<sw, row, beat, sweep, looping, dead, appointed>>

NoAgent == 0
Ages == {"fresh", "late", "lost"}
Health == {"healthy", "suspected", "unhealthy"}
Swarms == [members : SUBSET Agents, health : [Agents -> Health],
           leader : Agents \cup {NoAgent}]
Empty == [members |-> {}, health |-> [a \in Agents |-> "healthy"], leader |-> NoAgent]

Init == /\ sw = Empty
        /\ row = Empty
        /\ beat = [a \in Agents |-> "fresh"]
        /\ sweep = {}
        /\ looping = FALSE
        /\ dead = {}
        /\ appointed = FALSE

\* put: the object is stored and written to SQLite.
Save(s) == /\ sw' = s /\ row' = s
           /\ appointed' = (appointed /\ s.leader = sw.leader)

-----------------------------------------------------------------------------
(* Leadership. *)

Candidates(s) == {a \in s.members : s.health[a] = "healthy"}

\* Seeded fault: every member is a candidate.
FaultElectsAnyone(s) ==
  [s EXCEPT !.leader = IF s.members = {} THEN NoAgent
                       ELSE CHOOSE a \in s.members : \A b \in s.members : b <= a]

\* _run_election.
Elected(s) ==
  [s EXCEPT !.leader = IF Candidates(s) = {} THEN NoAgent
                       ELSE CHOOSE a \in Candidates(s) : \A b \in Candidates(s) : b <= a]

-----------------------------------------------------------------------------
(* Membership. *)

\* create_swarm, with which create_team begins.  The guard compares an id with
\* Swarm objects, so an existing swarm is replaced too.
CreateSwarm ==
  /\ sweep = {} /\ Save(Empty)
  /\ UNCHANGED <<beat, sweep, looping, dead>>

\* disband_team: everybody leaves and the team is deleted.
Disband ==
  /\ sweep = {} /\ sw # Empty /\ Save(Empty)
  /\ UNCHANGED <<beat, sweep, looping, dead>>

\* Seeded fault: every join runs an election.
FaultJoinElects(a) ==
  /\ sweep = {} /\ a \notin dead
  /\ Save(Elected([sw EXCEPT !.members = @ \cup {a}, !.health[a] = "healthy"]))
  /\ beat' = [beat EXCEPT ![a] = "fresh"]
  /\ UNCHANGED <<sweep, looping, dead>>

Joined(a) == [sw EXCEPT !.members = @ \cup {a}, !.health[a] = "healthy"]

\* join_swarm.
Join(a) ==
  /\ sweep = {} /\ a \notin dead
  /\ Save(IF LeaderWorker /\ sw.leader = NoAgent THEN Elected(Joined(a)) ELSE Joined(a))
  /\ beat' = [beat EXCEPT ![a] = "fresh"]
  /\ UNCHANGED <<sweep, looping, dead>>

\* leave_swarm.
Leave(a) ==
  /\ sweep = {} /\ a \in sw.members
  /\ LET s == [sw EXCEPT !.members = @ \ {a}]
     IN  Save(IF sw.leader = a THEN Elected(s) ELSE s)
  /\ UNCHANGED <<beat, sweep, looping, dead>>

\* TeamManager.assign_role(..., "leader"); nothing reads the other roles.
AssignLeader(a) ==
  /\ sweep = {} /\ a \in sw.members
  /\ sw' = [sw EXCEPT !.leader = a] /\ row' = sw' /\ appointed' = TRUE
  /\ UNCHANGED <<beat, sweep, looping, dead>>

-----------------------------------------------------------------------------
(* Heartbeats and failure detection. *)

\* handle_heartbeat; match: the heartbeat names the node the member joined from.
Heartbeat(a, match) ==
  /\ sweep = {} /\ a \notin dead
  /\ Save(IF match /\ a \in sw.members THEN [sw EXCEPT !.health[a] = "healthy"] ELSE sw)
  /\ beat' = [beat EXCEPT ![a] = "fresh"]
  /\ UNCHANGED <<sweep, looping, dead>>

\* check_partitions reads the clock once and copies the members.
BeginSweep ==
  /\ sweep = {} /\ sw.members # {}
  /\ sweep' = sw.members
  /\ UNCHANGED <<sw, row, beat, looping, dead, appointed>>

Suspect(a) == beat[a] = "late" /\ sw.health[a] = "healthy"
Fail(a) == beat[a] = "lost" /\ sw.health[a] # "unhealthy"

\* Seeded fault: a suspected member is not looked at again.
FaultSuspectedForever(a) ==
  /\ a \in sweep /\ sweep' = sweep \ {a}
  /\ LET s == [sw EXCEPT !.health[a] = "unhealthy"]
     IN  Save(CASE Fail(a) /\ sw.health[a] = "healthy" ->
                     IF sw.leader = a THEN Elected(s) ELSE s
                [] Suspect(a) -> [sw EXCEPT !.health[a] = "suspected"]
                [] OTHER -> sw)
  /\ UNCHANGED <<beat, looping, dead>>

\* The body of check_partitions for one member.
CheckMember(a) ==
  /\ a \in sweep /\ sweep' = sweep \ {a}
  /\ LET s == [sw EXCEPT !.health[a] = "unhealthy"]
     IN  Save(IF Fail(a) THEN (IF sw.leader = a THEN Elected(s) ELSE s)
              ELSE IF Suspect(a) THEN [sw EXCEPT !.health[a] = "suspected"]
              ELSE sw)
  /\ UNCHANGED <<beat, looping, dead>>

\* start, stop: the check loop sleeps whenever stop() can cancel it.
StartStop ==
  /\ sweep = {} /\ looping' = ~looping
  /\ UNCHANGED <<sw, row, beat, sweep, dead, appointed>>

\* Time passes without a heartbeat of a.
GrowsOld(a) ==
  /\ sweep = {} /\ beat[a] # "lost"
  /\ beat' = [beat EXCEPT ![a] = IF @ = "fresh" THEN "late" ELSE "lost"]
  /\ UNCHANGED <<sw, row, sweep, looping, dead, appointed>>

\* The agent's process is gone.
Dies(a) == /\ a \in Mortal \ dead /\ dead' = dead \cup {a}
           /\ UNCHANGED <<sw, row, beat, sweep, looping, appointed>>

\* A new coordinator on the same database knows no heartbeat: the age of each
\* member is the value of the monotonic clock.
Restart ==
  /\ sw' = row
  /\ \E c \in Ages : beat' = [a \in Agents |-> c]
  /\ sweep' = {} /\ looping' = FALSE
  /\ UNCHANGED <<row, dead, appointed>>

\* What changes the members, their health and the ages of their heartbeats.
Coordinate == \/ CreateSwarm \/ Disband \/ BeginSweep
              \/ \E a \in Agents : Join(a) \/ Leave(a) \/ CheckMember(a) \/ GrowsOld(a) \/ Dies(a)

\* What task delegation does not read: the leader and whether the loop is on.
Direct == StartStop \/ \E a \in Agents : AssignLeader(a)

Next == \/ Coordinate \/ Direct \/ Restart
        \/ \E a \in Agents, match \in BOOLEAN : Heartbeat(a, match)

Spec == Init /\ [][Next]_vars

\* A started check loop sweeps again and again and a sweep runs to its end.  The
\* clock advances while the loop sleeps between two sweeps, hence the strong
\* fairness: a heartbeat that is never renewed gets lost.
Fairness == /\ WF_vars(looping /\ BeginSweep)
            /\ \A a \in Agents : WF_vars(CheckMember(a))
            /\ \A a \in Mortal : SF_vars(a \in dead /\ GrowsOld(a))

FairSpec == Spec /\ Fairness

-----------------------------------------------------------------------------
(* Properties. *)

\* The swarm object, its row and the bookkeeping of heartbeats keep their
\* types; a sweep is over members only.
TypeOK == /\ sw \in Swarms /\ row \in Swarms
          /\ beat \in [Agents -> Ages]
          /\ sweep \subseteq sw.members
          /\ looping \in BOOLEAN
          /\ dead \subseteq Agents /\ appointed \in BOOLEAN

\* get_leader never names an agent that has left, whatever joins, leaves,
\* elections, role changes and restarts came before.
LeaderIsMember == sw.leader # NoAgent => sw.leader \in sw.members

\* A leader in office by election is not a member declared unhealthy, not even in
\* the middle of a sweep or after a restart (assign_role does not look at health).
LeaderNotUnhealthy ==
  (sw.leader # NoAgent /\ ~appointed) => sw.health[sw.leader] # "unhealthy"

\* Every change of the swarm reaches the store before the event loop runs
\* anything else: a restart loses no member, no health and no leader.
SavedSwarmIsCurrent == row = sw

\* A leader is replaced only when it left, was declared unhealthy, the swarm was
\* created anew or assign_role named another; a join of a greater id does not
\* depose it.
LeaderIsStable ==
  [][(sw.leader # NoAgent /\ sw'.leader # sw.leader)
       => \/ sw.leader \notin sw'.members
          \/ sw'.health[sw.leader] = "unhealthy"
          \/ AssignLeader(sw'.leader)]_vars

\* While the check loop runs, a member that died is declared unhealthy or is
\* no member any more.  With LeaderNotUnhealthy, an elected leader that died
\* loses its office (ADR-023: check_partitions "re-elects if the leader is lost").
DeadIsDetected ==
  \A a \in Mortal :
    (a \in dead) ~> (~looping \/ a \notin sw.members \/ sw.health[a] = "unhealthy")
=============================================================================
