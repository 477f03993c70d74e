---------------------------- MODULE ClusterProofs ----------------------------
(***************************************************************************)
(* Theorems about the cluster manager for any nodes, timeout and number of *)
(* broadcasts: it is led exactly when it has members, and a broadcast that *)
(* returns has reached every node that stayed, if the dictionary has not   *)
(* moved its slots since.  The second rests on where the iteration of a    *)
(* broadcast stands: a node that stayed and was not sent to is at an entry *)
(* the iteration has yet to look at.                                       *)
(***************************************************************************)
EXTENDS Cluster, FiniteSetTheorems, SequenceTheorems, WellFoundedInduction, TLAPS

\* A set of natural numbers that is not empty has a least one.
LEMMA LeastNumber ==
  ASSUME NEW S \in SUBSET Nat, S # {}
  PROVE  \E n \in S : \A m \in S : n <= m
<1> DEFINE R == {ss \in Nat \X Nat : ss[1] < ss[2]}
<1>1. IsWellFoundedOn(R, Nat)
  BY NatLessThanWellFounded DEF OpToRel
<1>2. \A m, n \in Nat : m < n => <<m, n>> \in R
  OBVIOUS
<1> HIDE DEF R
<1>3. PICK n \in S : \A m \in S : ~(<<m, n>> \in R)
  BY <1>1, WFMin
<1>4. \A m \in S : ~(m < n)
  BY <1>2, <1>3
<1> QED
  BY <1>4

Casts == [pos : Nat, size : Nat, left : Nat, sent : SUBSET Nodes, stayed : SUBSET Nodes,
          moved : BOOLEAN, done : BOOLEAN]

\* The types of the cluster's state.
ClusterTypes ==
  /\ slots \in Seq(Nodes \cup {NoNode})
  /\ beat \in [Nodes -> Nat]
  /\ leader \in Nodes \cup {NoNode}
  /\ clock \in Nat
  /\ cast \in [Broadcasts -> Casts]

\* Where the iteration of a broadcast stands, as long as the entries keep their
\* places: a node that stayed has been sent to, or its entry is still ahead.
Covered(b) ==
  /\ cast[b].done => cast[b].pos = 0
  /\ ~cast[b].moved => \A n \in cast[b].stayed :
       \/ n \in cast[b].sent
       \/ cast[b].pos > 0 /\ \E i \in DOMAIN slots : i >= cast[b].pos /\ slots[i] = n

\* elect_leader leaves a leader exactly when there is a member.
LEMMA ElectFacts ==
  ASSUME NEW table \in Seq(Nodes \cup {NoNode}), NEW beats \in [Nodes -> Nat],
         Elect(table, beats)
  PROVE  IF {table[i] : i \in DOMAIN table} \ {NoNode} = {} THEN leader' = NoNode
         ELSE leader' \in {table[i] : i \in DOMAIN table} \ {NoNode}
<1> DEFINE S == {i \in DOMAIN table : table[i] # NoNode}
           oldest == {i \in S : \A j \in S : beats[table[i]] <= beats[table[j]]}
           first == CHOOSE i \in oldest : \A j \in oldest : i <= j
<1>1. leader' = IF S = {} THEN NoNode ELSE table[first]
  BY DEF Elect
<1>2. DOMAIN table \in SUBSET Nat
  BY LenProperties
<1>3. \A i \in S : table[i] \in Nodes /\ beats[table[i]] \in Nat
  BY ElementOfSeq, LenProperties
<1>4. S # {} => oldest # {}
  <2> HAVE S # {}
  <2> DEFINE B == {beats[table[i]] : i \in S}
  <2>1. B \in SUBSET Nat /\ B # {}
    BY <1>3
  <2>2. \E n \in B : \A m \in B : n <= m
    BY <2>1, LeastNumber
  <2>3. PICK i \in S : \A m \in B : beats[table[i]] <= m
    BY <2>2
  <2>4. \A j \in S : beats[table[j]] \in B
    OBVIOUS
  <2> HIDE DEF B
  <2> QED
    BY <2>3, <2>4
<1>5. S # {} => first \in oldest
  <2> HAVE S # {}
  <2>1. oldest \in SUBSET Nat /\ oldest # {}
    BY <1>2, <1>4
  <2> HIDE DEF oldest
  <2>2. \E i \in oldest : \A j \in oldest : i <= j
    BY <2>1, LeastNumber
  <2> QED
    BY <2>2
<1> HIDE DEF first
<1> QED
  BY <1>1, <1>5

\* The members are a finite set of nodes.
LEMMA MembersFinite ==
  ASSUME slots \in Seq(Nodes \cup {NoNode})
  PROVE  Members \in SUBSET Nodes /\ Cardinality(Members) \in Nat
<1>1. DOMAIN slots = 1 .. Len(slots) /\ Len(slots) \in Nat
      /\ \A i \in DOMAIN slots : slots[i] \in Nodes \cup {NoNode}
  BY LenProperties, ElementOfSeq
<1> DEFINE E == {slots[i] : i \in DOMAIN slots}
<1>2. slots \in Surjection(1 .. Len(slots), E)
  <2>1. slots \in [1 .. Len(slots) -> Nodes \cup {NoNode}]
    BY LenProperties
  <2>2. slots \in [1 .. Len(slots) -> E]
    BY <2>1
  <2>3. \A e \in E : \E i \in 1 .. Len(slots) : slots[i] = e
    BY <1>1
  <2> QED
    BY <2>2, <2>3 DEF Surjection
<1>3. IsFiniteSet(E)
  <2> HIDE DEF E
  <2>1. ExistsSurjection(1 .. Len(slots), E)
    BY <1>2 DEF ExistsSurjection
  <2>2. Len(slots) \in Nat
    BY <1>1
  <2>3. \E n \in Nat : ExistsSurjection(1 .. n, E)
    BY <2>1, <2>2
  <2> QED
    BY <2>3, FS_NatSurjection
<1>4. Members \in SUBSET E /\ Members \in SUBSET Nodes
  BY <1>1 DEF Members
<1> HIDE DEF E
<1> QED
  BY <1>3, <1>4, FS_Subset, FS_CardinalityType

\* A removal keeps every other entry where it is, and the members but those lost.
LEMMA WithoutFacts ==
  ASSUME ClusterTypes, NEW lost \in SUBSET Nodes
  PROVE  /\ Without(lost) \in Seq(Nodes \cup {NoNode})
         /\ DOMAIN Without(lost) = DOMAIN slots
         /\ \A i \in DOMAIN slots : slots[i] \notin lost => Without(lost)[i] = slots[i]
         /\ {Without(lost)[i] : i \in DOMAIN slots} \ {NoNode} = Members \ lost
<1>1. slots \in Seq(Nodes \cup {NoNode}) /\ DOMAIN slots = 1 .. Len(slots)
      /\ Len(slots) \in Nat
      /\ \A i \in DOMAIN slots : slots[i] \in Nodes \cup {NoNode}
  BY LenProperties, ElementOfSeq DEF ClusterTypes
<1>2. NoNode \notin lost
  BY ClusterAssumption DEF ClusterAssumption
<1>3. Without(lost) \in Seq(Nodes \cup {NoNode})
  BY <1>1, IsASeq DEF Without
<1> QED
  BY <1>1, <1>2, <1>3 DEF Without, Members

\* What an expiry or departure does to the state, for the proofs below.
LEMMA RemoveTypes ==
  ASSUME ClusterTypes, NEW lost \in SUBSET Nodes, NEW pruned, RemoveNodes(lost, pruned)
  PROVE  ClusterTypes'
<1>1. slots' = Without(lost) /\ beat' = beat /\ clock' = clock
      /\ cast' = [b \in Broadcasts |-> [cast[b] EXCEPT !.stayed = @ \ lost]]
  BY DEF RemoveNodes, Left
<1>2. slots' \in Seq(Nodes \cup {NoNode})
  BY <1>1, WithoutFacts
<1>3. leader' \in Nodes \cup {NoNode}
  <2>1. CASE leader' = leader
    BY <2>1 DEF ClusterTypes
  <2>2. CASE Elect(Without(lost), beat)
    <3>1. leader' = NoNode
          \/ leader' \in {Without(lost)[i] : i \in DOMAIN slots} \ {NoNode}
      BY <2>2, WithoutFacts, ElectFacts DEF ClusterTypes
    <3> QED
      BY <3>1, WithoutFacts, MembersFinite DEF ClusterTypes
  <2> QED
    BY <2>1, <2>2 DEF RemoveNodes
<1>4. cast' \in [Broadcasts -> Casts]
  BY <1>1 DEF ClusterTypes, Casts
<1> QED
  BY <1>1, <1>2, <1>3, <1>4 DEF ClusterTypes

\* A table without its holes holds the same nodes.
LEMMA CompactedFacts ==
  ASSUME ClusterTypes, NEW table \in Compacted
  PROVE  /\ table \in Seq(Nodes \cup {NoNode})
         /\ {table[i] : i \in DOMAIN table} = Members
<1>1. Members \in SUBSET Nodes /\ Cardinality(Members) \in Nat
  BY MembersFinite DEF ClusterTypes
<1>2. table \in [1 .. Cardinality(Members) -> Members]
      /\ \A n \in Members : \E i \in DOMAIN table : table[i] = n
  BY DEF Compacted
<1>3. PICK k \in Nat : k = Cardinality(Members)
  BY <1>1
<1>4. table \in [1 .. k -> Nodes \cup {NoNode}]
  BY <1>1, <1>2, <1>3
<1>5. table \in Seq(Nodes \cup {NoNode})
  BY <1>4, SeqDef
<1> QED
  BY <1>2, <1>5

\* An insertion appends the node, to the entries as they are or without the holes.
LEMMA InsertTypes ==
  ASSUME ClusterTypes, NEW n \in Nodes, Insert(n)
  PROVE  /\ slots' \in Seq(Nodes \cup {NoNode}) /\ cast' \in [Broadcasts -> Casts]
         /\ Members' = Members \cup {n}
<1>1. ASSUME NEW table \in Seq(Nodes \cup {NoNode}),
             {table[i] : i \in DOMAIN table} \ {NoNode} = Members, slots' = Append(table, n)
      PROVE  slots' \in Seq(Nodes \cup {NoNode}) /\ Members' = Members \cup {n}
  <2>1. PICK k \in Nat : k = Len(table)
    BY LenProperties
  <2>2. /\ DOMAIN table = 1 .. k /\ slots' \in Seq(Nodes \cup {NoNode})
        /\ DOMAIN slots' = 1 .. k + 1 /\ slots'[k + 1] = n
        /\ \A i \in 1 .. k : slots'[i] = table[i]
    BY <1>1, <2>1, AppendProperties, LenProperties
  <2>3. n # NoNode
    BY ClusterAssumption DEF ClusterAssumption
  <2>4. {slots'[i] : i \in DOMAIN slots'} = {table[i] : i \in DOMAIN table} \cup {n}
    BY <2>2
  <2> QED
    BY <1>1, <2>2, <2>3, <2>4 DEF Members
<1>2. CASE n \in Members /\ UNCHANGED <<slots, room, cast>>
  BY <1>2 DEF ClusterTypes, Members
<1>3. CASE slots' = Append(slots, n) /\ cast' = cast
  BY <1>1, <1>3 DEF ClusterTypes, Members
<1>4. CASE /\ \E table \in Compacted : slots' = Append(table, n)
           /\ cast' = [b \in Broadcasts |-> [cast[b] EXCEPT !.moved = @ \/ Sending(b)]]
  <2>1. PICK table \in Compacted : slots' = Append(table, n)
    BY <1>4
  <2>2. NoNode \notin Members
    BY DEF Members
  <2>3. slots' \in Seq(Nodes \cup {NoNode}) /\ Members' = Members \cup {n}
    BY <1>1, <2>1, <2>2, CompactedFacts
  <2>4. cast' \in [Broadcasts -> Casts]
    BY <1>4 DEF ClusterTypes, Casts, Sending
  <2> QED
    BY <2>3, <2>4
<1> QED
  BY <1>2, <1>3, <1>4 DEF Insert

\* SendNext sends to the first entry ahead: those before it are empty.
LEMMA FirstAhead ==
  ASSUME ClusterTypes, NEW b \in Broadcasts, Ahead(b) # {}
  PROVE  LET i == CHOOSE i \in Ahead(b) : \A j \in Ahead(b) : i <= j
         IN  /\ i \in Ahead(b) /\ i \in Nat /\ slots[i] \in Nodes
             /\ \A j \in Ahead(b) : i <= j
<1>1. \A i \in DOMAIN slots : i \in Nat /\ slots[i] \in Nodes \cup {NoNode}
  BY LenProperties, ElementOfSeq DEF ClusterTypes
<1>2. Ahead(b) \in SUBSET Nat /\ \A i \in Ahead(b) : slots[i] \in Nodes
  BY <1>1 DEF Ahead
<1>3. \E i \in Ahead(b) : \A j \in Ahead(b) : i <= j
  BY <1>2, LeastNumber
<1> QED
  BY <1>2, <1>3

\* Every step keeps the types.
LEMMA ClusterTypeStep == ClusterTypes /\ [ClusterNext]_clusterVars => ClusterTypes'
<1> SUFFICES ASSUME ClusterTypes, [ClusterNext]_clusterVars PROVE ClusterTypes'
  OBVIOUS
<1>1. ASSUME NEW n \in Nodes, Join(n) PROVE ClusterTypes'
  <2>1. slots' \in Seq(Nodes \cup {NoNode}) /\ cast' \in [Broadcasts -> Casts]
    BY <1>1, InsertTypes DEF Join
  <2>2. beat' \in [Nodes -> Nat]
    BY <1>1 DEF Join, ClusterTypes
  <2>3. leader' \in Nodes \cup {NoNode}
    <3>1. CASE leader' = leader
      BY <3>1 DEF ClusterTypes
    <3>2. CASE Elect(slots', beat')
      <4>1. leader' = NoNode \/ leader' \in {slots'[i] : i \in DOMAIN slots'}
        BY <2>1, <2>2, <3>2, ElectFacts
      <4>2. \A i \in DOMAIN slots' : slots'[i] \in Nodes \cup {NoNode}
        BY <2>1, ElementOfSeq, LenProperties
      <4> QED
        BY <4>1, <4>2
    <3> QED
      BY <1>1, <3>1, <3>2 DEF Join
  <2> QED
    BY <1>1, <2>1, <2>2, <2>3 DEF Join, ClusterTypes
<1>2. ASSUME NEW n \in Nodes, Leave(n) PROVE ClusterTypes'
  BY <1>2, RemoveTypes DEF Leave
<1>3. ASSUME PruneTimedOut PROVE ClusterTypes'
  <2>1. Expired \in SUBSET Nodes
    BY MembersFinite DEF Expired, ClusterTypes
  <2> QED
    BY <1>3, <2>1, RemoveTypes DEF PruneTimedOut
<1>4. ASSUME NEW n \in Nodes, Heartbeat(n) PROVE ClusterTypes'
  BY <1>4 DEF Heartbeat, ClusterTypes
<1>5. ASSUME Tick PROVE ClusterTypes'
  BY <1>5 DEF Tick, ClusterTypes
<1>6. ASSUME NEW b \in Broadcasts, StartBroadcast(b) PROVE ClusterTypes'
  <2>1. Members \in SUBSET Nodes /\ Cardinality(Members) \in Nat
    BY MembersFinite DEF ClusterTypes
  <2> QED
    BY <1>6, <2>1 DEF StartBroadcast, ClusterTypes, Casts
<1>7. ASSUME NEW b \in Broadcasts, SendNext(b) PROVE ClusterTypes'
  <2> DEFINE i == CHOOSE i \in Ahead(b) : \A j \in Ahead(b) : i <= j
  <2>1. i \in Nat /\ slots[i] \in Nodes
    BY <1>7, FirstAhead DEF SendNext
  <2> HIDE DEF i
  <2> DEFINE sent == cast[b].sent \cup {slots[i]}
  <2>2. cast' = [cast EXCEPT ![b].pos = i + 1, ![b].left = cast[b].left - 1, ![b].sent = sent]
    BY <1>7 DEF SendNext, i, ClusterTypes, Casts
  <2>3. sent \in SUBSET Nodes /\ i + 1 \in Nat
    BY <2>1 DEF ClusterTypes, Casts
  <2>4. cast[b].left \in Nat /\ cast[b].left > 0
    BY <1>7 DEF SendNext, ClusterTypes, Casts
  <2> HIDE DEF sent
  <2>5. PICK q \in Nat, left \in Nat : q = i + 1 /\ left = cast[b].left - 1
    BY <2>3, <2>4
  <2>6. cast[b] \in Casts
    BY DEF ClusterTypes
  <2>7. [cast[b] EXCEPT !.pos = q, !.left = left, !.sent = sent] \in Casts
    BY <2>3, <2>6 DEF Casts
  <2>8. cast' = [cast EXCEPT ![b] = [cast[b] EXCEPT !.pos = q, !.left = left, !.sent = sent]]
    BY <2>2, <2>5
  <2>9. cast' \in [Broadcasts -> Casts]
    BY <2>7, <2>8 DEF ClusterTypes
  <2> QED
    BY <1>7, <2>9 DEF SendNext, ClusterTypes
<1>8. ASSUME NEW b \in Broadcasts, BroadcastReturns(b) PROVE ClusterTypes'
  BY <1>8 DEF BroadcastReturns, ClusterTypes, Casts
<1>9. ASSUME NEW b \in Broadcasts, BroadcastRaises(b) \/ Looked(b) PROVE ClusterTypes'
  <2>1. NoCast \in Casts
    BY DEF NoCast, Casts
  <2> QED
    BY <1>9, <2>1 DEF BroadcastRaises, Looked, ClusterTypes
<1>10. ASSUME UNCHANGED clusterVars PROVE ClusterTypes'
  BY <1>10 DEF clusterVars, ClusterTypes
<1> QED
  BY <1>1, <1>2, <1>3, <1>4, <1>5, <1>6, <1>7, <1>8, <1>9, <1>10 DEF ClusterNext

\* The state of the cluster has its types.
THEOREM ClusterTypeCorrect == ClusterSpec => []ClusterTypes
<1>1. ClusterInit => ClusterTypes
  <2> SUFFICES ASSUME ClusterInit PROVE ClusterTypes
    OBVIOUS
  <2>1. NoCast \in Casts
    BY DEF NoCast, Casts
  <2> QED
    BY <2>1 DEF ClusterInit, ClusterTypes
<1> QED
  BY <1>1, ClusterTypeStep, PTL DEF ClusterSpec

\* A departure or an expiry leaves the cluster led by one of those who stay.
LEMMA RemoveLed ==
  ASSUME ClusterTypes, ClusterLed, NEW lost \in SUBSET Nodes, NEW pruned,
         RemoveNodes(lost, pruned)
  PROVE  ClusterLed'
<1>1. slots' = Without(lost)
  BY DEF RemoveNodes
<1>2. Members' = Members \ lost
  BY <1>1, WithoutFacts DEF Members
<1>3. CASE leader \in lost
  <2>1. Elect(Without(lost), beat)
    BY <1>3 DEF RemoveNodes
  <2> QED
    BY <1>1, <1>2, <2>1, WithoutFacts, ElectFacts DEF ClusterLed, ClusterTypes, Members
<1>4. CASE leader \notin lost
  <2>1. leader' = leader
    BY <1>4 DEF RemoveNodes
  <2> QED
    BY <1>2, <1>4, <2>1, ClusterAssumption DEF ClusterLed, ClusterAssumption
<1> QED
  BY <1>3, <1>4

\* The cluster has a leader exactly when it has members, and it is one of them,
\* for any set of nodes and any timeout (join_cluster, leave_cluster,
\* prune_timed_out, elect_leader).
THEOREM ClusterIsLed == ClusterSpec => []ClusterLed
<1>1. ClusterInit => ClusterLed
  BY DEF ClusterInit, ClusterLed, Members
<1>2. ASSUME ClusterTypes, ClusterTypes', ClusterLed, [ClusterNext]_clusterVars
      PROVE  ClusterLed'
  <2>1. ASSUME NEW n \in Nodes, Join(n) PROVE ClusterLed'
    <3>1. Members' = Members \cup {n}
      BY <1>2, <2>1, InsertTypes DEF Join
    <3>2. CASE leader = NoNode
      <4>1. Elect(slots', beat')
        BY <2>1, <3>2 DEF Join
      <4> QED
        BY <1>2, <3>1, <4>1, ElectFacts DEF ClusterTypes, ClusterLed, Members
    <3>3. CASE leader # NoNode
      BY <1>2, <2>1, <3>1, <3>3 DEF Join, ClusterLed
    <3> QED
      BY <3>2, <3>3
  <2>2. ASSUME NEW n \in Nodes, Leave(n) PROVE ClusterLed'
    BY <1>2, <2>2, RemoveLed DEF Leave
  <2>3. ASSUME PruneTimedOut PROVE ClusterLed'
    <3>1. Expired \in SUBSET Nodes
      BY <1>2, MembersFinite DEF Expired, ClusterTypes
    <3> QED
      BY <1>2, <2>3, <3>1, RemoveLed DEF PruneTimedOut
  <2>4. ASSUME UNCHANGED <<slots, leader>> PROVE ClusterLed'
    BY <1>2, <2>4 DEF ClusterLed, Members
  <2>5. /\ \A n \in Nodes : Heartbeat(n) => UNCHANGED <<slots, leader>>
        /\ Tick => UNCHANGED <<slots, leader>>
        /\ UNCHANGED clusterVars => UNCHANGED <<slots, leader>>
    BY DEF Heartbeat, Tick, clusterVars
  <2>6. \A b \in Broadcasts :
          StartBroadcast(b) \/ SendNext(b) \/ BroadcastReturns(b) \/ BroadcastRaises(b) \/ Looked(b)
            => UNCHANGED <<slots, leader>>
    BY DEF StartBroadcast, SendNext, BroadcastReturns, BroadcastRaises, Looked
  <2> QED
    BY <1>2, <2>1, <2>2, <2>3, <2>4, <2>5, <2>6 DEF ClusterNext
<1> QED
  BY <1>1, <1>2, ClusterTypeCorrect, PTL DEF ClusterSpec

\* A departure or an expiry moves no entry, so every broadcast stays covered.
LEMMA RemoveCovered ==
  ASSUME ClusterTypes, NEW lost \in SUBSET Nodes, NEW pruned, RemoveNodes(lost, pruned),
         NEW b \in Broadcasts, Covered(b)
  PROVE  Covered(b)'
<1>1. /\ cast'[b].stayed = cast[b].stayed \ lost
      /\ cast'[b].pos = cast[b].pos /\ cast'[b].sent = cast[b].sent
      /\ cast'[b].done = cast[b].done /\ cast'[b].moved = cast[b].moved
  BY DEF RemoveNodes, Left, ClusterTypes, Casts
<1>2. DOMAIN slots' = DOMAIN slots
      /\ \A i \in DOMAIN slots : slots[i] \notin lost => slots'[i] = slots[i]
  BY WithoutFacts DEF RemoveNodes
<1> QED
  BY <1>1, <1>2 DEF Covered

\* A broadcast keeps its coverage while another one takes a step.
LEMMA CoveredByOther ==
  ASSUME NEW b, Covered(b), cast'[b] = cast[b], slots' = slots
  PROVE  Covered(b)'
BY DEF Covered

\* Sending to the first entry ahead passes over empty slots only.
LEMMA SendCovered ==
  ASSUME ClusterTypes, NEW b \in Broadcasts, Covered(b), SendNext(b)
  PROVE  Covered(b)'
<1> DEFINE f == CHOOSE i \in Ahead(b) : \A j \in Ahead(b) : i <= j
<1>1. /\ f \in Ahead(b) /\ f \in Nat /\ \A j \in Ahead(b) : f <= j
  BY FirstAhead DEF SendNext
<1>2. cast' = [cast EXCEPT ![b].pos = f + 1, ![b].left = @ - 1, ![b].sent = @ \cup {slots[f]}]
      /\ slots' = slots
  BY DEF SendNext
<1> HIDE DEF f
<1>3. /\ cast'[b].pos = f + 1 /\ cast'[b].sent = cast[b].sent \cup {slots[f]}
      /\ cast'[b].stayed = cast[b].stayed /\ cast'[b].done = cast[b].done
      /\ cast'[b].moved = cast[b].moved
  BY <1>2 DEF ClusterTypes, Casts
<1>4. cast[b].pos > 0 /\ ~cast[b].done
  <2>1. cast[b].pos > 0 /\ cast[b].pos \in Nat
    BY DEF SendNext, Sending, ClusterTypes, Casts
  <2>2. cast[b].done => cast[b].pos = 0
    BY DEF Covered
  <2> QED
    BY <2>1, <2>2
<1>5. ASSUME ~cast[b].moved, NEW n \in cast[b].stayed, n \notin cast[b].sent, n # slots[f]
      PROVE  \E i \in DOMAIN slots : i >= f + 1 /\ slots[i] = n
  <2>1. PICK i \in DOMAIN slots : i >= cast[b].pos /\ slots[i] = n
    BY <1>5 DEF Covered
  <2>2. n # NoNode
    BY <1>5, ClusterAssumption DEF ClusterTypes, Casts, ClusterAssumption
  <2>3. i \in Ahead(b) /\ i # f
    BY <1>5, <2>1, <2>2 DEF Ahead
  <2>4. i \in Nat
    BY LenProperties DEF ClusterTypes
  <2> QED
    BY <1>1, <2>1, <2>3, <2>4
<1>6. ~cast'[b].moved => \A n \in cast'[b].stayed :
        n \in cast'[b].sent \/ \E i \in DOMAIN slots' : i >= cast'[b].pos /\ slots'[i] = n
  BY <1>2, <1>3, <1>5
<1>7. cast'[b].pos > 0 /\ ~cast'[b].done
  BY <1>1, <1>3, <1>4
<1> QED
  BY <1>6, <1>7 DEF Covered

\* A broadcast that returns and during which the dictionary did not move its
\* entries has reached every node that was a member all the time, for any nodes,
\* broadcasts and sizes of the array (broadcast, next to join_cluster,
\* leave_cluster and prune_timed_out).
THEOREM BroadcastIsComplete == ClusterSpec => []BroadcastReachesMembers
<1> DEFINE Inv == \A b \in Broadcasts : Covered(b)
<1>1. ClusterInit => Inv
  <2> SUFFICES ASSUME ClusterInit, NEW b \in Broadcasts PROVE Covered(b)
    OBVIOUS
  <2>1. cast[b] = NoCast
    BY DEF ClusterInit
  <2>2. NoCast.done = FALSE /\ NoCast.stayed = {}
    BY DEF NoCast
  <2> QED
    BY <2>1, <2>2 DEF Covered
<1>2. ASSUME ClusterTypes, Inv, [ClusterNext]_clusterVars PROVE Inv'
  <2> SUFFICES ASSUME NEW b \in Broadcasts PROVE Covered(b)'
    OBVIOUS
  <2>0. Covered(b)
    BY <1>2
  <2>1. ASSUME NEW n \in Nodes, Join(n) PROVE Covered(b)'
    <3>1. CASE cast' = cast /\ (slots' = slots \/ slots' = Append(slots, n))
      <4>1. \A i \in DOMAIN slots : i \in DOMAIN slots' /\ slots'[i] = slots[i]
        <5>1. CASE slots' = Append(slots, n)
          BY <1>2, <5>1, AppendProperties, LenProperties DEF ClusterTypes
        <5> QED
          BY <3>1, <5>1
      <4> QED
        BY <2>0, <3>1, <4>1 DEF Covered
    <3>2. CASE cast' = [c \in Broadcasts |-> [cast[c] EXCEPT !.moved = @ \/ Sending(c)]]
      <4>1. /\ cast'[b].pos = cast[b].pos /\ cast'[b].done = cast[b].done
            /\ cast'[b].sent = cast[b].sent /\ cast'[b].stayed = cast[b].stayed
            /\ cast'[b].moved = (cast[b].moved \/ cast[b].pos > 0)
        BY <1>2, <3>2 DEF ClusterTypes, Casts, Sending
      <4> QED
        BY <2>0, <4>1 DEF Covered
    <3> QED
      BY <2>1, <3>1, <3>2 DEF Join, Insert
  <2>2. ASSUME NEW n \in Nodes, Leave(n) PROVE Covered(b)'
    BY <1>2, <2>0, <2>2, RemoveCovered DEF Leave
  <2>3. ASSUME PruneTimedOut PROVE Covered(b)'
    <3>1. Expired \in SUBSET Nodes
      BY <1>2, MembersFinite DEF Expired, ClusterTypes
    <3> QED
      BY <1>2, <2>0, <2>3, <3>1, RemoveCovered DEF PruneTimedOut
  <2>4. ASSUME NEW n \in Nodes, Heartbeat(n) PROVE Covered(b)'
    BY <2>0, <2>4, CoveredByOther DEF Heartbeat
  <2>5. ASSUME Tick PROVE Covered(b)'
    BY <2>0, <2>5, CoveredByOther DEF Tick
  <2>6. ASSUME NEW c \in Broadcasts, StartBroadcast(c) PROVE Covered(b)'
    <3>1. CASE b # c
      BY <1>2, <2>0, <2>6, <3>1, CoveredByOther DEF StartBroadcast, ClusterTypes
    <3>2. CASE b = c
      <4>1. /\ cast'[b].pos = 1 /\ cast'[b].stayed = Members /\ cast'[b].done = FALSE
            /\ slots' = slots
        BY <1>2, <2>6, <3>2 DEF StartBroadcast, ClusterTypes
      <4>2. \A n \in Members : \E i \in DOMAIN slots : i >= 1 /\ slots[i] = n
        BY <1>2, LenProperties DEF Members, ClusterTypes
      <4> QED
        BY <4>1, <4>2 DEF Covered
    <3> QED
      BY <3>1, <3>2
  <2>7. ASSUME NEW c \in Broadcasts, SendNext(c) PROVE Covered(b)'
    <3>1. CASE b # c
      <4> DEFINE f == CHOOSE i \in Ahead(c) : \A j \in Ahead(c) : i <= j
      <4>1. cast' = [cast EXCEPT ![c].pos = f + 1, ![c].left = @ - 1,
                                 ![c].sent = @ \cup {slots[f]}]
            /\ slots' = slots
        BY <2>7 DEF SendNext
      <4> HIDE DEF f
      <4>2. cast'[b] = cast[b]
        BY <1>2, <3>1, <4>1 DEF ClusterTypes
      <4> QED
        BY <2>0, <4>1, <4>2, CoveredByOther
    <3> QED
      BY <1>2, <2>0, <2>7, <3>1, SendCovered
  <2>8. ASSUME NEW c \in Broadcasts, BroadcastReturns(c) PROVE Covered(b)'
    <3>1. CASE b # c
      BY <1>2, <2>0, <2>8, <3>1, CoveredByOther DEF BroadcastReturns, ClusterTypes
    <3>2. CASE b = c
      <4>1. /\ cast'[b].pos = 0 /\ cast'[b].stayed = cast[b].stayed
            /\ cast'[b].sent = cast[b].sent /\ cast'[b].moved = cast[b].moved
        BY <1>2, <2>8, <3>2 DEF BroadcastReturns, ClusterTypes, Casts
      <4>2. \A n \in cast[b].stayed : n # NoNode
        BY <1>2, ClusterAssumption DEF ClusterTypes, Casts, ClusterAssumption
      <4>3. ~cast[b].moved => cast[b].stayed \subseteq cast[b].sent
        BY <2>0, <2>8, <3>2, <4>2 DEF BroadcastReturns, Ahead, Covered
      <4> QED
        BY <4>1, <4>3 DEF Covered
    <3> QED
      BY <3>1, <3>2
  <2>9. ASSUME NEW c \in Broadcasts, BroadcastRaises(c) \/ Looked(c) PROVE Covered(b)'
    <3>1. CASE b # c
      BY <1>2, <2>0, <2>9, <3>1, CoveredByOther DEF BroadcastRaises, Looked, ClusterTypes
    <3>2. CASE b = c
      <4>1. cast'[b] = NoCast
        BY <1>2, <2>9, <3>2 DEF BroadcastRaises, Looked, ClusterTypes
      <4>2. NoCast.done = FALSE /\ NoCast.stayed = {}
        BY DEF NoCast
      <4> QED
        BY <4>1, <4>2 DEF Covered
    <3> QED
      BY <3>1, <3>2
  <2>10. ASSUME UNCHANGED clusterVars PROVE Covered(b)'
    BY <2>0, <2>10, CoveredByOther DEF clusterVars
  <2> QED
    BY <1>2, <2>1, <2>2, <2>3, <2>4, <2>5, <2>6, <2>7, <2>8, <2>9, <2>10 DEF ClusterNext
<1>3. ClusterTypes /\ Inv => BroadcastReachesMembers
  BY DEF BroadcastReachesMembers, Covered, ClusterTypes, Casts
<1> QED
  BY <1>1, <1>2, <1>3, ClusterTypeCorrect, PTL DEF ClusterSpec
=============================================================================
