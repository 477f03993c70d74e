------------------------------ MODULE Cluster ------------------------------
(***************************************************************************)
(* kernel/cluster.py: membership by heartbeat, the leader, and broadcasts. *)
(* All is synchronous except broadcast, which iterates over the live       *)
(* dictionary and awaits the transport for each node: joins, departures    *)
(* and prunes happen between two nodes of one broadcast.                   *)
(*                                                                         *)
(* What such an iteration then does is CPython's: the entries of a         *)
(* dictionary lie in an array in insertion order, a deletion leaves a      *)
(* hole, an insertion into a full array first moves the entries to a new   *)
(* one without the holes, and an iterator is an index into the array that  *)
(* checks the size of the dictionary and the number of keys it expects.    *)
(***************************************************************************)
EXTENDS Naturals, Sequences, FiniteSets

CONSTANTS Nodes, Broadcasts, NoNode,
          NodeTimeout, MaxClock,  \* node_timeout; bound: the clock
          Room                    \* Room[n]: entries an array made for n keys can take

ASSUME ClusterAssumption ==
  /\ NoNode \notin Nodes /\ NodeTimeout \in Nat /\ MaxClock \in Nat
  /\ \A n \in DOMAIN Room : Room[n] \in Nat /\ n < Room[n]

VARIABLES
  slots,    \* _nodes: the entries of its array, NoNode where one was removed
  room,     \* entries that array can take
  beat,     \* last_heartbeat
  leader,   \* _leader
  clock,
  cast      \* per broadcast: its iteration, NoCast when it does not run

clusterVars == <<slots, room, beat, leader, clock, cast>>

Members == {slots[i] : i \in DOMAIN slots} \ {NoNode}

\* pos: the next entry the iteration looks at; size, left: the keys it has seen at
\* its start and still expects; stayed: the nodes that were members all the time
\* since; moved: the entries have been moved since.
NoCast == [pos |-> 0, size |-> 0, left |-> 0, sent |-> {}, stayed |-> {}, moved |-> FALSE,
           done |-> FALSE]

ClusterInit == /\ slots = <<>> /\ room = Room[0]
               /\ beat = [n \in Nodes |-> 0]
               /\ leader = NoNode
               /\ clock = 0
               /\ cast = [b \in Broadcasts |-> NoCast]

Sending(b) == cast[b].pos > 0

\* What leaves stops counting for the broadcasts under way.
Left(lost) == cast' = [b \in Broadcasts |-> [cast[b] EXCEPT !.stayed = @ \ lost]]

-----------------------------------------------------------------------------
\* elect_leader: the earliest heartbeat, the first such entry.
Elect(table, beats) ==
  LET S == {i \in DOMAIN table : table[i] # NoNode}
      oldest == {i \in S : \A j \in S : beats[table[i]] <= beats[table[j]]}
  IN  leader' = IF S = {} THEN NoNode
                ELSE table[CHOOSE i \in oldest : \A j \in oldest : i <= j]

\* The entries without the holes.
Compacted ==
  {table \in [1 .. Cardinality(Members) -> Members] :
     /\ \A n \in Members : \E i \in DOMAIN table : table[i] = n
     /\ \A i, j \in DOMAIN table : i < j =>
          \E p, q \in DOMAIN slots : p < q /\ slots[p] = table[i] /\ slots[q] = table[j]}

\* self._nodes[node_id] = node.  A node that joins again keeps its entry.
Insert(n) ==
  \/ n \in Members /\ UNCHANGED <<slots, room, cast>>
  \/ /\ n \notin Members /\ Len(slots) < room
     /\ slots' = Append(slots, n)
     /\ UNCHANGED <<room, cast>>
  \/ /\ n \notin Members /\ Len(slots) >= room
     /\ \E table \in Compacted : slots' = Append(table, n)
     /\ room' = Room[Cardinality(Members)]
     /\ cast' = [b \in Broadcasts |-> [cast[b] EXCEPT !.moved = @ \/ Sending(b)]]

\* An election only without a leader.
Join(n) ==
  /\ Insert(n)
  /\ beat' = [beat EXCEPT ![n] = clock]
  /\ IF leader = NoNode THEN Elect(slots', beat') ELSE UNCHANGED leader
  /\ UNCHANGED clock

\* Seeded fault: a list of nodes, in which the later ones move up.
FaultMoveUp(lost) == SelectSeq(slots, LAMBDA n : n \notin lost)

Without(lost) == [i \in DOMAIN slots |-> IF slots[i] \in lost THEN NoNode ELSE slots[i]]

\* Seeded fault: only an explicit departure of the leader starts an election.
FaultRemoveNodes(lost, pruned) ==
  /\ slots' = Without(lost)
  /\ IF leader \in lost /\ ~pruned THEN Elect(Without(lost), beat) ELSE UNCHANGED leader
  /\ Left(lost)
  /\ UNCHANGED <<beat, clock, room>>

RemoveNodes(lost, pruned) ==
  /\ slots' = Without(lost)
  /\ IF leader \in lost THEN Elect(Without(lost), beat) ELSE UNCHANGED leader
  /\ Left(lost)
  /\ UNCHANGED <<beat, clock, room>>

Leave(n) == n \in Members /\ RemoveNodes({n}, FALSE)

Expired == {n \in Members : clock - beat[n] > NodeTimeout}

PruneTimedOut == Expired # {} /\ RemoveNodes(Expired, TRUE)

Heartbeat(n) == /\ n \in Members
                /\ beat' = [beat EXCEPT ![n] = clock]
                /\ UNCHANGED <<slots, room, leader, clock, cast>>

Tick == /\ clock < MaxClock
        /\ clock' = clock + 1
        /\ UNCHANGED <<slots, room, beat, leader, cast>>

-----------------------------------------------------------------------------
(* broadcast. *)

StartBroadcast(b) ==
  /\ ~Sending(b) /\ ~cast[b].done
  /\ cast' = [cast EXCEPT ![b] = [pos |-> 1, size |-> Cardinality(Members),
                                  left |-> Cardinality(Members), sent |-> {},
                                  stayed |-> Members, moved |-> FALSE, done |-> FALSE]]
  /\ UNCHANGED <<slots, room, beat, leader, clock>>

\* The dictionary compares its size before every step of an iteration.
SizeChanged(b) == Cardinality(Members) # cast[b].size

Ahead(b) == {i \in DOMAIN slots : i >= cast[b].pos /\ slots[i] # NoNode}

SendNext(b) ==
  /\ Sending(b) /\ ~SizeChanged(b) /\ Ahead(b) # {} /\ cast[b].left > 0
  /\ LET i == CHOOSE i \in Ahead(b) : \A j \in Ahead(b) : i <= j IN
     cast' = [cast EXCEPT ![b].pos = i + 1, ![b].left = @ - 1,
                          ![b].sent = @ \cup {slots[i]}]
  /\ UNCHANGED <<slots, room, beat, leader, clock>>

\* Returned; kept until the caller has looked at the result.
BroadcastReturns(b) ==
  /\ Sending(b) /\ ~SizeChanged(b) /\ Ahead(b) = {}
  /\ cast' = [cast EXCEPT ![b].pos = 0, ![b].done = TRUE]
  /\ UNCHANGED <<slots, room, beat, leader, clock>>

\* RuntimeError: the size has changed, or there are more keys than expected; or the
\* transport raises.
BroadcastRaises(b) ==
  /\ Sending(b)
  /\ SizeChanged(b) \/ (Ahead(b) # {} /\ cast[b].left = 0) \/ cast[b].sent # {}
  /\ cast' = [cast EXCEPT ![b] = NoCast]
  /\ UNCHANGED <<slots, room, beat, leader, clock>>

Looked(b) == /\ cast[b].done
             /\ cast' = [cast EXCEPT ![b] = NoCast]
             /\ UNCHANGED <<slots, room, beat, leader, clock>>

ClusterNext ==
  \/ \E n \in Nodes : Join(n) \/ Leave(n) \/ Heartbeat(n)
  \/ PruneTimedOut \/ Tick
  \/ \E b \in Broadcasts : \/ StartBroadcast(b) \/ SendNext(b) \/ BroadcastReturns(b)
                           \/ BroadcastRaises(b) \/ Looked(b)

ClusterSpec == ClusterInit /\ [][ClusterNext]_clusterVars

-----------------------------------------------------------------------------
(* Properties. *)

\* Through joins, departures and prunes in any order the cluster has a leader
\* exactly when it has members, and the leader is one of them
\* (cluster.py join_cluster, leave_cluster, prune_timed_out).
ClusterLed == IF Members = {} THEN leader = NoNode ELSE leader \in Members

\* A broadcast that returns has reached every node that was a member from its
\* start to its end, although nodes joined and left in between
\* (cluster.py broadcast: "Send ``message`` to all live nodes").  The iteration
\* gives this only as long as the dictionary does not move its entries: a node
\* that takes the place of another in a full array lets it pass over a third.
BroadcastReachesMembers ==
  \A b \in Broadcasts :
    cast[b].done /\ ~cast[b].moved => cast[b].stayed \subseteq cast[b].sent
=============================================================================
