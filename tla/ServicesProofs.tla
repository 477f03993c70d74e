--------------------------- MODULE ServicesProofs ---------------------------
(***************************************************************************)
(* Theorems about the services at the edge of the kernel, for any number   *)
(* of threads, sessions, loops and runs: the event stream and the SSE      *)
(* transport of the MCP server, the background monitors, the recovery of a *)
(* component and the observability engine.  Each of them stands alone, so  *)
(* its theorems are about its own specification.                           *)
(***************************************************************************)
EXTENDS StreamableHttp, SseTransport, MonitorLoops, HealthRecovery, Observability,
        SequenceTheorems, FiniteSetTheorems, WellFoundedInduction, TLAPS

(* The event stream. *)

\* A set of numbers that is not empty has a least one.
LEMMA LeastNumber ==
  ASSUME NEW T \in SUBSET Nat, T # {}
  PROVE  \E x \in T : \A y \in T : x <= y
<1> DEFINE R == OpToRel(<, Nat)
<1>1. \E x \in T : \A y \in T : ~ (<<y, x>> \in R)
  <2>1. IsWellFoundedOn(R, Nat)
    BY NatLessThanWellFounded
  <2> HIDE DEF R
  <2> QED
    BY <2>1, WFMin
<1>2. PICK x \in T : \A y \in T : ~ (y < x)
  BY <1>1 DEF OpToRel
<1> QED
  BY <1>2

\* A set of frame numbers that is not empty has a newest one.
LEMMA NewestFrame ==
  ASSUME NEW max \in Nat, NEW T \in SUBSET (0 .. max), T # {}
  PROVE  \E n \in T : \A k \in T : k <= n
<1> DEFINE U == {max - n : n \in T}
<1>0. \A n \in T : n \in Int /\ 0 <= n /\ n <= max
  OBVIOUS
<1>1. U \subseteq Nat /\ U # {}
  <2>1. \A n \in T : max - n \in Nat
    BY <1>0
  <2>2. PICK t : t \in T
    OBVIOUS
  <2>3. max - t \in U
    BY <2>2
  <2> QED
    BY <2>1, <2>3
<1>3. PICK x \in U : \A y \in U : x <= y
  BY <1>1, LeastNumber
<1>4. PICK n \in T : x = max - n
  OBVIOUS
<1>5. ASSUME NEW k \in T PROVE k <= n
  <2>1. max - k \in U
    OBVIOUS
  <2>2. max - n <= max - k
    BY <1>3, <1>4, <2>1
  <2> QED
    BY <1>0, <2>2
<1> QED
  BY <1>5

\* What a client receives next is a number of the session.
LEMMA ReceiveType ==
  ASSUME StreamTypeOK, NEW frames \in SUBSET (1 .. MaxSeq), Receive(frames)
  PROVE  received' \subseteq 1 .. MaxSeq /\ lastId' \in 0 .. MaxSeq
<1>1. CASE frames = {}
  BY <1>1 DEF Receive, StreamTypeOK
<1>2. CASE frames # {}
  <2>1. \E n \in frames : \A m \in frames : m <= n
    <3>1. frames \in SUBSET (0 .. MaxSeq) /\ MaxSeq \in Nat
      BY StreamAssumption DEF StreamAssumption
    <3> QED
      BY <1>2, <3>1, NewestFrame
  <2>2. PICK n \in frames : n = CHOOSE x \in frames : \A m \in frames : m <= x
    BY <2>1
  <2>3. lastId' = n /\ received' = received \cup frames
    BY <1>2, <2>2 DEF Receive
  <2>4. n \in 0 .. MaxSeq
    OBVIOUS
  <2> QED
    BY <2>3, <2>4 DEF StreamTypeOK
<1> QED
  BY <1>1, <1>2

\* The state of a push under way.
LEMMA PushType ==
  ASSUME StreamTypeOK, NEW p \in Pushers, push[p].at # "idle"
  PROVE  push[p] \in [at : {"put", "persist"}, seq : 1 .. MaxSeq] /\ push[p].seq \in 1 .. MaxSeq
BY DEF StreamTypeOK, NoPush

\* What a GET thread remembers.
LEMMA StreamRecord ==
  ASSUME NEW A, NEW S, NEW B, NEW U, NEW a \in A, NEW i \in S, NEW b \in B, NEW u \in U,
         NEW r \in [at : A, since : S, sure : B, underway : U]
  PROVE  /\ r.at \in A /\ r.since \in S
         /\ [r EXCEPT !.at = a] \in [at : A, since : S, sure : B, underway : U]
         /\ [r EXCEPT !.at = a].at = a
         /\ [at |-> a, since |-> i, sure |-> b, underway |-> u]
              \in [at : A, since : S, sure : B, underway : U]
OBVIOUS

LEMMA StreamParts ==
  ASSUME StreamTypeOK, NEW h \in Streams, NEW a \in {"none", "replay", "live", "cut"},
         NEW i \in 0 .. MaxSeq, NEW b \in BOOLEAN, NEW u \in SUBSET (1 .. MaxSeq)
  PROVE  /\ stream[h].since \in 0 .. MaxSeq
         /\ [stream[h] EXCEPT !.at = a] \in StreamState
         /\ [stream[h] EXCEPT !.at = a].at = a
         /\ [at |-> a, since |-> i, sure |-> b, underway |-> u] \in StreamState
<1>1. stream[h] \in StreamState
  BY DEF StreamTypeOK
<1> QED
  BY <1>1, StreamRecord, ZenonT(40) DEF StreamState

LEMMA NoStreamType ==
  ASSUME StreamAssumption
  PROVE  NoStream \in StreamState
<1>1. "none" \in {"none", "replay", "live", "cut"} /\ 0 \in 0 .. MaxSeq /\ FALSE \in BOOLEAN
      /\ {} \in SUBSET (1 .. MaxSeq)
  BY DEF StreamAssumption
<1>2. \A A, S, B, U : \A a \in A, i \in S, b \in B, u \in U :
        [at |-> a, since |-> i, sure |-> b, underway |-> u]
          \in [at : A, since : S, sure : B, underway : U]
  OBVIOUS
<1> QED
  BY <1>1, <1>2, Zenon DEF NoStream, StreamState

\* The frames of the queue, after a put and after a take.
QueuedFrames(q) == {q[i] : i \in DOMAIN q}

LEMMA FramesPut ==
  ASSUME NEW q \in Seq(1 .. MaxSeq), NEW t \in 1 .. MaxSeq
  PROVE  QueuedFrames(q) \subseteq QueuedFrames(Append(q, t)) /\ t \in QueuedFrames(Append(q, t))
<1>1. PICK n \in Nat : n = Len(q) /\ DOMAIN q = 1 .. n
  BY LenProperties
<1>2. PICK a : a = Append(q, t)
  OBVIOUS
<1>3. DOMAIN a = 1 .. n + 1 /\ a[n + 1] = t /\ \A i \in 1 .. n : a[i] = q[i]
  BY <1>1, <1>2, AppendProperties
<1>4. n + 1 \in 1 .. n + 1 /\ \A i \in 1 .. n : i \in 1 .. n + 1
  BY <1>1
<1>5. t \in QueuedFrames(a)
  BY <1>3, <1>4 DEF QueuedFrames
<1>6. QueuedFrames(q) \subseteq QueuedFrames(a)
  BY <1>1, <1>3, <1>4 DEF QueuedFrames
<1> QED
  BY <1>2, <1>5, <1>6

LEMMA FramesTaken ==
  ASSUME NEW q \in Seq(1 .. MaxSeq), q # <<>>
  PROVE  QueuedFrames(q) \subseteq QueuedFrames(Tail(q)) \cup {Head(q)}
<1>1. PICK n \in Nat : n = Len(q) /\ DOMAIN q = 1 .. n
  BY LenProperties
<1>2. PICK a : a = Tail(q)
  OBVIOUS
<1>3. DOMAIN a = 1 .. n - 1 /\ \A j \in 1 .. n - 1 : a[j] = q[j + 1]
  BY <1>1, <1>2, HeadTailProperties
<1>4. Head(q) = q[1]
  BY HeadTailProperties
<1>5. ASSUME NEW i \in 1 .. n, i # 1 PROVE q[i] \in QueuedFrames(a)
  <2>1. i - 1 \in 1 .. n - 1 /\ (i - 1) + 1 = i
    BY <1>5
  <2> QED
    BY <1>3, <2>1 DEF QueuedFrames
<1> QED
  BY <1>1, <1>2, <1>4, <1>5 DEF QueuedFrames

\* Every step of the stream keeps the types.
LEMMA StreamTypeStep == StreamTypeOK /\ [StreamNext]_streamVars => StreamTypeOK'
<1> SUFFICES ASSUME StreamTypeOK, [StreamNext]_streamVars PROVE StreamTypeOK'
  OBVIOUS
<1> USE StreamAssumption DEF StreamAssumption
<1>0. 1 .. seq \subseteq 1 .. MaxSeq
  BY DEF StreamTypeOK
<1>1. ASSUME CreateSession \/ StreamRestart PROVE StreamTypeOK'
  <2>1. queue' \in Seq(1 .. MaxSeq)
    BY <1>1, EmptySeq DEF CreateSession, StreamRestart, StreamTypeOK
  <2>2. stream' \in [Streams -> StreamState]
    BY <1>1, NoStreamType DEF CreateSession, StreamRestart, StreamTypeOK
  <2> QED
    BY <1>1, <2>1, <2>2 DEF CreateSession, StreamRestart, StreamTypeOK
<1>2. ASSUME NEW p \in Pushers, TakeNumber(p) PROVE StreamTypeOK'
  BY <1>2 DEF TakeNumber, StreamTypeOK
<1>3. ASSUME NEW p \in Pushers, PutFrame(p) PROVE StreamTypeOK'
  <2>1. push[p] \in [at : {"put", "persist"}, seq : 1 .. MaxSeq] /\ push[p].seq \in 1 .. MaxSeq
    BY <1>3, PushType DEF PutFrame
  <2>2. push' = [push EXCEPT ![p] = [push[p] EXCEPT !.at = "persist"]]
    BY <1>3 DEF PutFrame, StreamTypeOK
  <2>3. [push[p] EXCEPT !.at = "persist"] \in [at : {"put", "persist"}, seq : 1 .. MaxSeq]
    BY <2>1
  <2>4. Append(queue, push[p].seq) \in Seq(1 .. MaxSeq)
    BY <2>1, AppendProperties DEF StreamTypeOK
  <2> QED
    BY <1>3, <2>2, <2>3, <2>4 DEF PutFrame, StreamTypeOK
<1>4. ASSUME NEW p \in Pushers, PersistFrame(p) \/ PersistFails(p) PROVE StreamTypeOK'
  <2>1. push[p].seq \in 1 .. MaxSeq
    BY <1>4, PushType DEF PersistFrame, PersistFails
  <2> QED
    BY <1>4, <2>1 DEF PersistFrame, PersistFails, StreamTypeOK
<1>5. ASSUME NEW n \in 1 .. MaxSeq, Evict(n) PROVE StreamTypeOK'
  BY <1>5 DEF Evict, StreamTypeOK
<1>6. ASSUME NEW h \in Streams, OpenStream(h) \/ Disconnect(h) \/ ReplayFails(h)
      PROVE  StreamTypeOK'
  <2>1. PICK x \in StreamState : stream' = [stream EXCEPT ![h] = x]
    <3>1. lastId \in 0 .. MaxSeq /\ FALSE \in BOOLEAN /\ {} \in SUBSET (1 .. MaxSeq)
      BY DEF StreamTypeOK
    <3>2. \/ stream' = [stream EXCEPT ![h] = [at |-> "replay", since |-> lastId, sure |-> FALSE,
                                              underway |-> {}]]
          \/ stream' = [stream EXCEPT ![h] = [stream[h] EXCEPT !.at = "cut"]]
          \/ stream' = [stream EXCEPT ![h] = [stream[h] EXCEPT !.at = "live"]]
      BY <1>6 DEF OpenStream, Disconnect, ReplayFails, StreamTypeOK
    <3>3. /\ [at |-> "replay", since |-> lastId, sure |-> FALSE, underway |-> {}] \in StreamState
          /\ [stream[h] EXCEPT !.at = "cut"] \in StreamState
          /\ [stream[h] EXCEPT !.at = "live"] \in StreamState
      BY <3>1, StreamParts, ZenonT(40)
    <3> QED
      BY <3>2, <3>3
  <2>2. UNCHANGED <<known, seq, queue, push, log, gone, lastId, received>>
    BY <1>6 DEF OpenStream, Disconnect, ReplayFails
  <2> QED
    BY <2>1, <2>2 DEF StreamTypeOK
<1>7. ASSUME NEW h \in Streams, Replay(h) PROVE StreamTypeOK'
  <2>1. received' \subseteq 1 .. MaxSeq /\ lastId' \in 0 .. MaxSeq
    <3>1. {n \in log : n > stream[h].since} \in SUBSET (1 .. MaxSeq) /\ {} \in SUBSET (1 .. MaxSeq)
      BY DEF StreamTypeOK
    <3> QED
      BY <1>7, <3>1, ReceiveType DEF Replay, Replays, StreamTypeOK
  <2>2. PICK b \in BOOLEAN :
          b = (stream[h].since > 0 /\ \A g \in Streams \ {h} : stream[g].at = "none")
    OBVIOUS
  <2>3. UnderWay \in SUBSET (1 .. MaxSeq)
    BY <1>0 DEF UnderWay
  <2>4. stream' = [stream EXCEPT ![h] = [at |-> "live", since |-> stream[h].since,
                                         underway |-> UnderWay, sure |-> b]]
    BY <1>7, <2>2 DEF Replay, Replays, StreamTypeOK
  <2>5. [at |-> "live", since |-> stream[h].since, underway |-> UnderWay, sure |-> b] \in StreamState
    <3>1. PICK i \in 0 .. MaxSeq, u \in SUBSET (1 .. MaxSeq) : i = stream[h].since /\ u = UnderWay
      BY <2>3 DEF StreamTypeOK, StreamState
    <3>2. [at |-> "live", since |-> i, sure |-> b, underway |-> u] \in StreamState
      BY StreamParts, ZenonT(40)
    <3>3. [at |-> "live", since |-> i, underway |-> u, sure |-> b]
          = [at |-> "live", since |-> i, sure |-> b, underway |-> u]
      OBVIOUS
    <3> QED
      BY <3>1, <3>2, <3>3
  <2> QED
    BY <1>7, <2>1, <2>4, <2>5 DEF Replay, Replays, StreamTypeOK
<1>8. ASSUME NEW h \in Streams, TakeFrame(h) PROVE StreamTypeOK'
  <2>1. Head(queue) \in 1 .. MaxSeq /\ Tail(queue) \in Seq(1 .. MaxSeq)
    BY <1>8, HeadTailProperties DEF TakeFrame, StreamTypeOK
  <2>2. received' \subseteq 1 .. MaxSeq /\ lastId' \in 0 .. MaxSeq
    BY <1>8, <2>1, ReceiveType DEF TakeFrame, StreamTypeOK
  <2> QED
    BY <1>8, <2>1, <2>2 DEF TakeFrame, StreamTypeOK
<1>9. ASSUME NEW h \in Streams, StreamIdles(h) \/ StreamBreaks(h) PROVE StreamTypeOK'
  <2>1. <<>> \in Seq(1 .. MaxSeq)
    OBVIOUS
  <2> QED
    BY <1>9, <2>1, NoStreamType DEF StreamIdles, StreamBreaks, CloseStream, StreamTypeOK
<1>10. ASSUME UNCHANGED streamVars PROVE StreamTypeOK'
  BY <1>10 DEF streamVars, StreamTypeOK
<1> QED
  BY <1>1, <1>2, <1>3, <1>4, <1>5, <1>6, <1>7, <1>8, <1>9, <1>10 DEF StreamNext

\* Type correctness of the event stream: numbers, queue, log and streams.
THEOREM StreamTypeCorrect == StreamSpec => []StreamTypeOK
<1>1. StreamInit => StreamTypeOK
  <2> SUFFICES ASSUME StreamInit PROVE StreamTypeOK
    OBVIOUS
  <2>1. NoStream \in StreamState /\ 0 \in 0 .. MaxSeq
    BY StreamAssumption, NoStreamType DEF StreamAssumption
  <2> QED
    BY <2>1, EmptySeq DEF StreamInit, StreamTypeOK
<1> QED
  BY <1>1, StreamTypeStep, PTL DEF StreamSpec

\* While the session lasts, a frame that has a number is with the thread that
\* pushes it until it is in the log or known to be gone, so neither a drained
\* queue nor a dying connection can be the last to hold it.
FrameInv ==
  known => \A n \in 1 .. seq : n \in log \cup gone \/ \E p \in Pushers : push[p].seq = n

LEMMA FrameStep ==
  ASSUME StreamTypeOK, FrameInv, [StreamNext]_streamVars
  PROVE  FrameInv'
<1>1. ASSUME NEW p \in Pushers, TakeNumber(p) PROVE FrameInv'
  <2>1. /\ push'[p].seq = seq + 1 /\ seq' = seq + 1 /\ seq \in Nat
        /\ UNCHANGED <<log, gone, known>>
    BY <1>1, StreamAssumption DEF TakeNumber, StreamTypeOK, StreamAssumption
  <2>2. \A q \in Pushers, n \in 1 .. seq : push[q].seq = n => push'[q].seq = n
    <3>1. push[p].seq = 0
      BY <1>1 DEF TakeNumber, StreamTypeOK, NoPush
    <3> QED
      BY <1>1, <2>1, <3>1 DEF TakeNumber, StreamTypeOK
  <2> QED
    BY <2>1, <2>2 DEF FrameInv
<1>2. ASSUME NEW p \in Pushers, PutFrame(p) PROVE FrameInv'
  <2>1. \A q \in Pushers : push'[q].seq = push[q].seq
    BY <1>2 DEF PutFrame, StreamTypeOK
  <2> QED
    BY <1>2, <2>1 DEF PutFrame, FrameInv
<1>3. ASSUME NEW p \in Pushers, PersistFrame(p) \/ PersistFails(p) PROVE FrameInv'
  <2>1. /\ seq' = seq /\ log \subseteq log' /\ gone \subseteq gone' /\ known' = known
        /\ push[p].seq \in log' \cup gone'
        /\ \A q \in Pushers : q # p => push'[q] = push[q]
    BY <1>3 DEF PersistFrame, PersistFails, StreamTypeOK
  <2> QED
    BY <2>1 DEF FrameInv
<1>4. ASSUME NEW n \in 1 .. MaxSeq, Evict(n) PROVE FrameInv'
  BY <1>4 DEF Evict, FrameInv
<1>5. ASSUME StreamRestart \/ CreateSession PROVE FrameInv'
  BY <1>5 DEF StreamRestart, CreateSession, FrameInv
<1>6. ASSUME UNCHANGED <<known, seq, push, log, gone>> PROVE FrameInv'
  BY <1>6 DEF FrameInv
<1> QED
  BY <1>1, <1>2, <1>3, <1>4, <1>5, <1>6
  DEF StreamNext, OpenStream, Replay, Replays, ReplayFails, TakeFrame, StreamIdles,
      StreamBreaks, CloseStream, Disconnect, streamVars

\* A stream belongs to a session that is known, and one that is sure is the only
\* one: the client opens no other while it reads it.
Sure(h) == stream[h].at = "live" /\ stream[h].sure

SoleInv == \A h \in Streams :
  /\ stream[h].at # "none" => known
  /\ stream[h].at # "live" => ~stream[h].sure \/ stream[h].at = "cut"
  /\ Sure(h) => \A g \in Streams \ {h} : stream[g].at = "none"

LEMMA SoleStep ==
  ASSUME StreamTypeOK, SoleInv, [StreamNext]_streamVars
  PROVE  SoleInv'
<1> USE DEF SoleInv, Sure
<1>1. ASSUME UNCHANGED <<known, stream>> PROVE SoleInv'
  BY <1>1
<1>2. ASSUME CreateSession PROVE SoleInv'
  BY <1>2 DEF CreateSession
<1>3. ASSUME StreamRestart PROVE SoleInv'
  BY <1>3 DEF StreamRestart, NoStream
<1>4. ASSUME NEW h \in Streams, OpenStream(h) PROVE SoleInv'
  <2>1. \A g \in Streams : stream[g].at # "live"
    BY <1>4 DEF OpenStream, Reading
  <2>2. /\ stream'[h].at = "replay" /\ ~stream'[h].sure /\ known /\ known' = known
        /\ \A g \in Streams \ {h} : stream'[g] = stream[g]
    BY <1>4 DEF OpenStream, StreamTypeOK
  <2> QED
    BY <2>1, <2>2
<1>5. ASSUME NEW h \in Streams, Replay(h) PROVE SoleInv'
  <2>1. /\ stream[h].at = "replay" /\ stream'[h].at = "live" /\ known' = known
        /\ stream'[h].sure => \A g \in Streams \ {h} : stream[g].at = "none"
        /\ \A g \in Streams \ {h} : stream'[g] = stream[g]
    BY <1>5 DEF Replay, Replays, StreamTypeOK
  <2> QED
    BY <2>1
<1>6. ASSUME NEW h \in Streams, ReplayFails(h) PROVE SoleInv'
  <2>1. /\ stream[h].at = "replay" /\ stream'[h].at = "live" /\ known' = known
        /\ stream'[h].sure = stream[h].sure
        /\ \A g \in Streams \ {h} : stream'[g] = stream[g]
    BY <1>6 DEF ReplayFails, StreamTypeOK, StreamState
  <2> QED
    BY <2>1
<1>7. ASSUME NEW h \in Streams, StreamIdles(h) \/ StreamBreaks(h) PROVE SoleInv'
  <2>1. /\ stream'[h].at = "none" /\ ~stream'[h].sure /\ known' = known
        /\ \A g \in Streams \ {h} : stream'[g] = stream[g]
    BY <1>7 DEF StreamIdles, StreamBreaks, CloseStream, StreamTypeOK, NoStream
  <2> QED
    BY <2>1
<1>8. ASSUME NEW h \in Streams, Disconnect(h) PROVE SoleInv'
  <2>1. /\ stream[h].at = "live" /\ stream'[h].at = "cut" /\ known' = known
        /\ \A g \in Streams \ {h} : stream'[g] = stream[g]
    BY <1>8 DEF Disconnect, StreamTypeOK, StreamState
  <2> QED
    BY <2>1
<1> QED
  BY <1>1, <1>2, <1>3, <1>4, <1>5, <1>6, <1>7, <1>8
  DEF StreamNext, TakeNumber, PutFrame, PersistFrame, PersistFails, Evict, TakeFrame, streamVars

\* Where a frame past the client's id may be.
Accounted(h, n) == \/ n \in received \cup InQueue \cup gone \cup stream[h].underway
                   \/ \E p \in Pushers : push[p] = [at |-> "put", seq |-> n]

LEMMA GapForm ==
  ResumeHasNoGap <=>
    \A h \in Streams : Sure(h) => \A n \in stream[h].since + 1 .. seq : Accounted(h, n)
BY DEF ResumeHasNoGap, Sure, Accounted

LEMMA GapStep ==
  ASSUME StreamTypeOK, FrameInv, SoleInv, ResumeHasNoGap, [StreamNext]_streamVars
  PROVE  ResumeHasNoGap'
<1>0. \A h \in Streams : Sure(h) => \A n \in stream[h].since + 1 .. seq : Accounted(h, n)
  BY GapForm
<1>t. /\ seq \in Nat /\ \A h \in Streams : stream[h].since \in Nat
      /\ queue \in Seq(1 .. MaxSeq)
  BY StreamAssumption DEF StreamTypeOK, StreamState, StreamAssumption
<1>a. SUFFICES ASSUME NEW h \in Streams, Sure(h)', NEW n \in stream'[h].since + 1 .. seq'
               PROVE  Accounted(h, n)'
  BY DEF ResumeHasNoGap, Sure, Accounted
<1>b. ASSUME stream' = stream, n \in 1 .. seq
      PROVE  /\ Sure(h) /\ Accounted(h, n) /\ stream'[h] = stream[h]
             /\ \A g \in Streams \ {h} : stream[g].at = "none"
  <2>1. Sure(h) /\ n \in stream[h].since + 1 .. seq
    BY <1>a, <1>b, <1>t DEF Sure
  <2> QED
    BY <1>0, <1>b, <2>1 DEF SoleInv
<1>1. ASSUME NEW p \in Pushers, TakeNumber(p) PROVE Accounted(h, n)'
  <2>1. /\ stream' = stream /\ seq' = seq + 1 /\ UNCHANGED <<queue, gone, received>>
        /\ push'[p] = [at |-> "put", seq |-> seq + 1]
        /\ push[p].at = "idle" /\ \A q \in Pushers \ {p} : push'[q] = push[q]
    BY <1>1 DEF TakeNumber, StreamTypeOK
  <2>2. CASE n = seq + 1
    BY <2>1, <2>2 DEF Accounted
  <2>3. CASE n # seq + 1
    <3>1. n \in 1 .. seq
      <4>1. PICK i \in Nat : i = stream[h].since
        BY <1>t
      <4>2. n \in i + 1 .. seq + 1
        BY <1>a, <2>1, <4>1
      <4> QED
        BY <1>t, <2>3, <4>1, <4>2
    <3>2. Accounted(h, n) /\ stream'[h] = stream[h]
      BY <1>b, <2>1, <3>1
    <3>3. InQueue' = InQueue
      BY <2>1 DEF InQueue
    <3>4. \A q \in Pushers : push[q] = [at |-> "put", seq |-> n] => q # p
      BY <2>1
    <3> QED
      BY <2>1, <3>2, <3>3, <3>4 DEF Accounted
  <2> QED
    BY <2>2, <2>3
<1>c. ASSUME seq' = seq, stream' = stream
      PROVE  n \in 1 .. seq
  BY <1>a, <1>c, <1>t
<1>2. ASSUME NEW p \in Pushers, PutFrame(p) PROVE Accounted(h, n)'
  <2>1. /\ stream' = stream /\ seq' = seq /\ UNCHANGED <<gone, received>>
        /\ queue' = Append(queue, push[p].seq) /\ push[p].seq \in 1 .. MaxSeq
        /\ \A q \in Pushers \ {p} : push'[q] = push[q]
    BY <1>2, PushType DEF PutFrame, StreamTypeOK
  <2>2. Accounted(h, n) /\ stream'[h] = stream[h]
    BY <1>b, <1>c, <2>1
  <2>3. InQueue \subseteq InQueue' /\ push[p].seq \in InQueue'
    <3>1. InQueue = QueuedFrames(queue) /\ InQueue' = QueuedFrames(queue')
      BY DEF InQueue, QueuedFrames
    <3> QED
      BY <1>t, <2>1, <3>1, FramesPut
  <2>4. \A q \in Pushers : push[q] = [at |-> "put", seq |-> n] => q # p \/ push[p].seq = n
    OBVIOUS
  <2> QED
    BY <2>1, <2>2, <2>3, <2>4 DEF Accounted
<1>3. ASSUME NEW p \in Pushers, PersistFrame(p) \/ PersistFails(p) PROVE Accounted(h, n)'
  <2>1. /\ stream' = stream /\ seq' = seq /\ UNCHANGED <<received, queue>>
        /\ gone \subseteq gone' /\ push[p].at = "persist"
        /\ \A q \in Pushers \ {p} : push'[q] = push[q]
    BY <1>3 DEF PersistFrame, PersistFails, StreamTypeOK
  <2>2. Accounted(h, n) /\ stream'[h] = stream[h] /\ InQueue' = InQueue
    BY <1>b, <1>c, <2>1 DEF InQueue
  <2>3. \A q \in Pushers : push[q] = [at |-> "put", seq |-> n] => q # p
    BY <2>1
  <2> QED
    BY <2>1, <2>2, <2>3 DEF Accounted
<1>4. ASSUME UNCHANGED <<stream, seq, received, queue, push>>, gone \subseteq gone'
      PROVE  Accounted(h, n)'
  <2>1. Accounted(h, n) /\ stream'[h] = stream[h] /\ InQueue' = InQueue
    BY <1>b, <1>c, <1>4 DEF InQueue
  <2> QED
    BY <1>4, <2>1 DEF Accounted
<1>5. ASSUME NEW g \in Streams, TakeFrame(g) PROVE Accounted(h, n)'
  <2>1. /\ stream' = stream /\ seq' = seq /\ UNCHANGED <<gone, push>>
        /\ queue' = Tail(queue) /\ queue # <<>> /\ stream[g].at # "none"
    BY <1>5 DEF TakeFrame
  <2>2. Accounted(h, n) /\ stream'[h] = stream[h] /\ g = h /\ Sure(h)
    BY <1>b, <1>c, <2>1
  <2>3. received' = received \cup {Head(queue)}
    BY <1>5, <2>2 DEF TakeFrame, Receive, Sure
  <2>4. InQueue \subseteq InQueue' \cup {Head(queue)}
    <3>1. InQueue = QueuedFrames(queue) /\ InQueue' = QueuedFrames(queue')
      BY DEF InQueue, QueuedFrames
    <3> QED
      BY <1>t, <2>1, <3>1, FramesTaken
  <2> QED
    BY <2>1, <2>2, <2>3, <2>4 DEF Accounted
<1>6. ASSUME NEW g \in Streams,
             \/ OpenStream(g) \/ StreamIdles(g) \/ StreamBreaks(g) \/ Disconnect(g)
             \/ ReplayFails(g)
      PROVE  FALSE
  <2>1. /\ stream'[g].at # "live" \/ (stream[g].at = "replay" /\ stream'[g].sure = stream[g].sure)
        /\ \A f \in Streams \ {g} : stream'[f] = stream[f]
        /\ \/ stream[g].at # "none" \/ \A f \in Streams : stream[f].at # "live"
    BY <1>6 DEF OpenStream, Reading, StreamIdles, StreamBreaks, CloseStream, Disconnect,
                ReplayFails, StreamTypeOK, NoStream, StreamState
  <2>2. h # g
    BY <1>a, <2>1 DEF Sure, SoleInv
  <2>3. Sure(h)
    BY <1>a, <2>1, <2>2 DEF Sure
  <2> QED
    BY <2>1, <2>2, <2>3 DEF SoleInv, Sure
<1>7. ASSUME NEW g \in Streams, Replay(g) PROVE Accounted(h, n)'
  <2>1. /\ stream[g].at = "replay" /\ stream'[g].since = stream[g].since
        /\ stream'[g].underway = UnderWay /\ (stream'[g].sure => stream[g].since > 0)
        /\ \A f \in Streams \ {g} : stream'[f] = stream[f]
        /\ UNCHANGED <<known, seq, queue, push, gone>>
    BY <1>7 DEF Replay, Replays, StreamTypeOK
  <2>2. h = g
    BY <1>a, <2>1 DEF Sure, SoleInv
  <2>3. known /\ n \in 1 .. seq /\ n > stream[h].since /\ stream[h].since > 0
    BY <1>a, <1>t, <2>1, <2>2 DEF SoleInv, Sure
  <2>4. CASE n \in log
    <3>1. received' = received \cup {k \in log : k > stream[h].since}
      BY <1>7, <1>t, <2>2, <2>3 DEF Replay, Replays, Receive
    <3> QED
      BY <2>3, <2>4, <3>1 DEF Accounted
  <2>5. CASE n \in gone
    BY <2>1, <2>5 DEF Accounted
  <2>6. CASE \E p \in Pushers : push[p].seq = n
    <3>1. n \in UnderWay
      BY <2>3, <2>6 DEF UnderWay
    <3> QED
      BY <2>1, <2>2, <3>1 DEF Accounted
  <2> QED
    BY <2>3, <2>4, <2>5, <2>6 DEF FrameInv
<1>8. ASSUME StreamRestart PROVE FALSE
  BY <1>a, <1>8 DEF StreamRestart, NoStream, Sure
<1>9. ASSUME CreateSession \/ UNCHANGED streamVars \/ \E k \in 1 .. MaxSeq : Evict(k)
      PROVE  Accounted(h, n)'
  BY <1>4, <1>9 DEF CreateSession, Evict, streamVars
<1> QED
  BY <1>1, <1>2, <1>3, <1>5, <1>6, <1>7, <1>8, <1>9 DEF StreamNext

\* On the only stream of a session, opened with an id, no frame after that id
\* falls between the log and the queue, for any number of pushers, any order of
\* their steps, and any evictions and failed writes.  The invariant needs that a
\* numbered frame is with its pusher until it is logged or gone, and that no
\* second thread can appear while the client reads.
THEOREM ResumeHasNoGapCorrect == StreamSpec => []ResumeHasNoGap
<1>1. StreamInit => FrameInv /\ SoleInv /\ ResumeHasNoGap
  BY DEF StreamInit, FrameInv, SoleInv, Sure, ResumeHasNoGap, NoStream
<1>2. StreamTypeOK /\ FrameInv /\ SoleInv /\ ResumeHasNoGap /\ [StreamNext]_streamVars
      => FrameInv' /\ SoleInv' /\ ResumeHasNoGap'
  BY FrameStep, SoleStep, GapStep
<1> QED
  BY <1>1, <1>2, StreamTypeCorrect, PTL DEF StreamSpec

-----------------------------------------------------------------------------
(* The background monitors. *)

\* A loop a start makes is one that was not there before.
LEMMA CreateLoop ==
  ASSUME MonitorTypeOK, NEW m \in Monitors, Create(m)
  PROVE  \E i \in Loops : /\ loop[m][i] = "none" /\ i # 0
                          /\ loop' = [loop EXCEPT ![m][i] = "new"]
                          /\ current' = [current EXCEPT ![m] = i]
<1> DEFINE i == CHOOSE i \in Unmade(m) : \A j \in Unmade(m) : i <= j
<1>1. Unmade(m) # {} /\ Unmade(m) \in SUBSET Loops
  BY DEF Create, Unmade
<1>2. \E x \in Unmade(m) : \A j \in Unmade(m) : x <= j
  BY <1>1, LeastNumber DEF Loops
<1>3. PICK k \in Loops : k = i /\ loop[m][k] = "none"
  BY <1>1, <1>2 DEF Unmade
<1>4. loop' = [loop EXCEPT ![m][i] = "new"] /\ current' = [current EXCEPT ![m] = i]
  BY DEF Create
<1>5. k # 0
  BY DEF Loops
<1> HIDE DEF i
<1> QED
  BY <1>3, <1>4, <1>5

\* The steps of a monitor, as what they do to a loop.
LEMMA LoopMoves ==
  ASSUME MonitorTypeOK, NEW m \in Monitors, NEW i \in Loops,
         LoopTurn(m, i) \/ LoopCancelled(m, i) \/ (m = "beats" /\ Beat(i))
  PROVE  \E at \in {"asleep", "gone"} :
           loop' = [loop EXCEPT ![m][i] = at] /\ (at = "asleep" => loop[m][i] \in {"new", "due"})
BY DEF LoopTurn, LoopCancelled, Beat, Again, Awake

\* Every step of the monitors keeps the types.
LEMMA MonitorTypeStep == MonitorTypeOK /\ [BeatsNext \/ ProbesNext]_monitorVars => MonitorTypeOK'
<1> SUFFICES ASSUME MonitorTypeOK, [BeatsNext \/ ProbesNext]_monitorVars PROVE MonitorTypeOK'
  OBVIOUS
<1> USE MonitorAssumption DEF MonitorAssumption, Monitors
<1>0. /\ Never \in Nat /\ Oldest \in Nat /\ Oldest < Never /\ 0 \in 0 .. Never
      /\ \A i \in Loops : i \in 0 .. MaxLoops
  BY DEF Never, Oldest, Loops
<1>1. ASSUME StartBeats PROVE MonitorTypeOK'
  BY <1>0, <1>1, CreateLoop DEF StartBeats, registration, MonitorTypeOK
<1>2. ASSUME StartProbes PROVE MonitorTypeOK'
  BY <1>0, <1>2, CreateLoop DEF StartProbes, registration, MonitorTypeOK
<1>3. ASSUME NEW s \in Stoppers, NEW m \in Monitors, StopBegins(s, m) PROVE MonitorTypeOK'
  <2>1. current[m] # 0 => current[m] \in Loops
    BY DEF MonitorTypeOK, Loops
  <2>2. overlap' \in BOOLEAN
    BY <1>3 DEF StopBegins
  <2> QED
    BY <1>3, <2>1, <2>2 DEF StopBegins, registration, MonitorTypeOK
<1>4. ASSUME NEW s \in Stoppers, StopEnds(s) PROVE MonitorTypeOK'
  <2>1. stopping[s].m \in Monitors
    BY <1>4 DEF StopEnds, registration, MonitorTypeOK
  <2> QED
    BY <1>0, <1>4, <2>1 DEF StopEnds, registration, MonitorTypeOK
<1>5. ASSUME NEW m \in Monitors, NEW i \in Loops, LoopTurn(m, i) \/ LoopCancelled(m, i)
      PROVE  MonitorTypeOK'
  BY <1>5, LoopMoves DEF LoopTurn, LoopCancelled, lifeCycle, registration, MonitorTypeOK
<1>6. ASSUME NEW i \in Loops, Beat(i) PROVE MonitorTypeOK'
  <2>1. loop' \in [Monitors -> [Loops -> {"none", "new", "asleep", "due", "gone"}]]
    BY <1>6, LoopMoves DEF MonitorTypeOK
  <2>2. age' \in [Nodes -> 0 .. Never]
    BY <1>0, <1>6 DEF Beat, Seen, Nodes, MonitorTypeOK
  <2> QED
    BY <1>6, <2>1, <2>2 DEF Beat, lifeCycle, registration, MonitorTypeOK
<1>7. ASSUME NEW n \in Nodes, HearFrom(n) PROVE MonitorTypeOK'
  BY <1>0, <1>7 DEF HearFrom, Seen, lifeCycle, registration, MonitorTypeOK
<1>8. ASSUME IntervalPasses PROVE MonitorTypeOK'
  <2>1. loop' \in [Monitors -> [Loops -> {"none", "new", "asleep", "due", "gone"}]]
    BY <1>8 DEF IntervalPasses, MonitorTypeOK
  <2>2. age' \in [Nodes -> 0 .. Never]
    BY <1>0, <1>8 DEF IntervalPasses, MonitorTypeOK
  <2>3. upFor' \in 0 .. 2
    BY <1>8 DEF IntervalPasses, MonitorTypeOK
  <2> QED
    BY <1>8, <2>1, <2>2, <2>3 DEF IntervalPasses, lifeCycle, registration, MonitorTypeOK
<1>9. ASSUME UNCHANGED monitorVars PROVE MonitorTypeOK'
  BY <1>9 DEF monitorVars, lifeCycle, registration, MonitorTypeOK
<1>10. ASSUME NEW m \in Monitors, LifeCycle(m) PROVE MonitorTypeOK'
  BY <1>3, <1>4, <1>5, <1>8, <1>10 DEF LifeCycle
<1>11. ASSUME NEW check \in {"enabled", "disabled"}, Register(check) PROVE MonitorTypeOK'
  <2>1. /\ loop' \in [Monitors -> [Loops -> {"none", "new", "asleep", "due", "gone"}]]
        /\ current' \in [Monitors -> 0 .. MaxLoops]
    BY <1>0, <1>11, CreateLoop DEF Register, MonitorTypeOK
  <2>2. replaced' \in BOOLEAN /\ entry' \in {"none", "enabled", "disabled"}
    BY <1>11 DEF Register
  <2> QED
    BY <1>11, <2>1, <2>2 DEF Register, MonitorTypeOK
<1>12. ASSUME Unregister PROVE MonitorTypeOK'
  <2>1. {current["probes"]} \ {0} \subseteq Loops
    BY DEF MonitorTypeOK, Loops
  <2> QED
    BY <1>0, <1>12, <2>1 DEF Unregister, MonitorTypeOK
<1> QED
  BY <1>1, <1>2, <1>6, <1>7, <1>9, <1>10, <1>11, <1>12 DEF BeatsNext, ProbesNext

\* Type correctness of the monitors.
THEOREM MonitorTypeCorrect == MonitorSpec => []MonitorTypeOK
<1>1. MonitorInit => MonitorTypeOK
  <2> SUFFICES ASSUME MonitorInit PROVE MonitorTypeOK
    OBVIOUS
  <2>1. Never \in 0 .. Never /\ 0 \in 0 .. MaxLoops /\ 0 \in 0 .. 2
    BY MonitorAssumption DEF MonitorAssumption, Never, Oldest
  <2> QED
    BY <2>1 DEF MonitorInit, MonitorTypeOK
<1> QED
  BY <1>1, MonitorTypeStep, PTL DEF MonitorSpec

\* A task that was cancelled, or is held in _task, has been created.
MadeInv == \A m \in Monitors : /\ \A i \in told[m] : loop[m][i] # "none"
                               /\ current[m] # 0 => loop[m][current[m]] # "none"

\* A loop of a running beat monitor that nobody will cancel, and how late it is:
\* it is new since the start, sleeps after a beat, or owes one since an interval.
OnTime(i) ==
  \/ loop["beats"][i] = "new" /\ upFor = 0
  \/ loop["beats"][i] = "asleep" /\ (upFor = 0 \/ age["self"] = 0)
  \/ loop["beats"][i] = "due" /\ (upFor <= 1 \/ age["self"] <= 1)

\* Inductive form of StartedLooksHealthy.  The loop need not be the one in _task:
\* a stop that ends after the start has forgotten it, without cancelling it.
BeatInv == up["beats"] => \E i \in Loops : i \notin told["beats"] /\ OnTime(i)

Stops(s) == stopping[s].m = "probes"

\* Inductive form of ProbedByOneLoop: the only loop that goes on probing is the
\* one in reg.task, and a stop awaits a loop it has cancelled: the one in reg.task,
\* or one whose component has been unregistered, for which a start makes no loop.
ProbeInv ==
  ~overlap /\ ~replaced =>
    /\ \A i \in Loops : Probing(i) => i = current["probes"]
    /\ \A s \in Stoppers : Stops(s) =>
         /\ stopping[s].i \in told["probes"]
         /\ stopping[s].i = current["probes"] \/ (current["probes"] = 0 /\ entry = "none")
    /\ \A s, x \in Stoppers : Stops(s) /\ Stops(x) => s = x

\* Loops that exist stay in existence, and tasks refer to loops that exist.
LEMMA MadeStep ==
  ASSUME MonitorTypeOK, MadeInv, [BeatsNext \/ ProbesNext]_monitorVars
  PROVE  MadeInv'
<1> USE DEF MadeInv, Monitors
<1>1. ASSUME NEW m \in Monitors, Create(m), UNCHANGED told PROVE MadeInv'
  BY <1>1, CreateLoop DEF MonitorTypeOK
<1>2. ASSUME UNCHANGED <<loop, current, told>> PROVE MadeInv'
  BY <1>2
<1>3. ASSUME NEW s \in Stoppers, NEW m \in Monitors, StopBegins(s, m) PROVE MadeInv'
  BY <1>3 DEF StopBegins, registration, MonitorTypeOK
<1>4. ASSUME NEW s \in Stoppers, StopEnds(s) PROVE MadeInv'
  BY <1>4 DEF StopEnds, registration, MonitorTypeOK
<1>5. ASSUME NEW m \in Monitors, NEW i \in Loops,
             LoopTurn(m, i) \/ LoopCancelled(m, i) \/ (m = "beats" /\ Beat(i))
      PROVE  MadeInv'
  <2>1. PICK at \in {"asleep", "gone"} : loop' = [loop EXCEPT ![m][i] = at]
    BY <1>5, LoopMoves
  <2>2. UNCHANGED <<told, current>>
    BY <1>5 DEF LoopTurn, LoopCancelled, Beat, lifeCycle
  <2> QED
    BY <2>1, <2>2 DEF MonitorTypeOK
<1>6. ASSUME IntervalPasses PROVE MadeInv'
  <2>1. \A m \in Monitors, i \in Loops : loop[m][i] # "none" => loop'[m][i] # "none"
    BY <1>6 DEF IntervalPasses
  <2>2. UNCHANGED <<told, current>> /\ \A m \in Monitors : current[m] # 0 => current[m] \in Loops
    BY <1>6 DEF IntervalPasses, lifeCycle, MonitorTypeOK, Loops
  <2> QED
    BY <2>1, <2>2 DEF MonitorTypeOK
<1>7. ASSUME NEW m \in Monitors, LifeCycle(m) PROVE MadeInv'
  BY <1>3, <1>4, <1>5, <1>6, <1>7 DEF LifeCycle
<1>8. ASSUME NEW check \in {"enabled", "disabled"}, Register(check) PROVE MadeInv'
  <2>1. ASSUME current' = [current EXCEPT !["probes"] = 0], UNCHANGED <<loop, told>>
        PROVE  MadeInv'
    BY <2>1 DEF MonitorTypeOK
  <2> QED
    BY <1>1, <1>8, <2>1 DEF Register
<1>9. ASSUME Unregister PROVE MadeInv'
  BY <1>9 DEF Unregister, MonitorTypeOK
<1> QED
  BY <1>1, <1>2, <1>5, <1>7, <1>8, <1>9
  DEF BeatsNext, ProbesNext, StartBeats, StartProbes, HearFrom, lifeCycle, monitorVars

\* The node of a monitor that has been running for two intervals looks healthy,
\* for any overlap of starts and stops of both monitors.
THEOREM StartedLooksHealthyCorrect == MonitorSpec => []StartedLooksHealthy
<1>1. MonitorInit => MadeInv /\ BeatInv
  BY DEF MonitorInit, MadeInv, BeatInv, Monitors
<1>2. MonitorTypeOK /\ MadeInv /\ BeatInv /\ [BeatsNext \/ ProbesNext]_monitorVars => BeatInv'
  <2> SUFFICES ASSUME MonitorTypeOK, MadeInv, BeatInv, [BeatsNext \/ ProbesNext]_monitorVars,
                      up'["beats"]
               PROVE  \E i \in Loops : i \notin told'["beats"] /\ OnTime(i)'
    BY DEF BeatInv
  <2> USE DEF Monitors
  <2>1. CASE StartBeats
    <3>1. PICK i \in Loops : loop["beats"][i] = "none" /\ loop' = [loop EXCEPT !["beats"][i] = "new"]
      BY <2>1, CreateLoop DEF StartBeats
    <3>2. i \notin told["beats"] /\ loop'["beats"][i] = "new" /\ upFor' = 0 /\ told' = told
      BY <2>1, <3>1 DEF MadeInv, StartBeats, MonitorTypeOK
    <3> QED
      BY <3>2 DEF OnTime
  <2>2. ASSUME NEW s \in Stoppers, NEW m \in Monitors, StopBegins(s, m)
        PROVE  m = "probes" /\ up["beats"] /\ UNCHANGED <<loop, age, upFor>>
               /\ told'["beats"] = told["beats"]
    BY <2>2 DEF StopBegins, registration, MonitorTypeOK
  <2>3. ASSUME ~StartBeats PROVE up["beats"]
    BY <2>2, <2>3 DEF BeatsNext, ProbesNext, LifeCycle, StartProbes, Register, Unregister,
       StopEnds, LoopTurn, LoopCancelled, Beat, HearFrom, IntervalPasses, lifeCycle, monitorVars, MonitorTypeOK
  <2>4. ASSUME up["beats"] PROVE \E i \in Loops : i \notin told'["beats"] /\ OnTime(i)'
    <3>1. PICK i \in Loops : i \notin told["beats"] /\ OnTime(i)
      BY <2>4 DEF BeatInv
    <3> SUFFICES i \notin told'["beats"] /\ OnTime(i)'
      OBVIOUS
    <3>2. ASSUME UNCHANGED <<age, upFor>>, loop'["beats"][i] = loop["beats"][i],
                 told'["beats"] = told["beats"]
          PROVE  i \notin told'["beats"] /\ OnTime(i)'
      BY <3>1, <3>2 DEF OnTime
    <3>3. ASSUME NEW s \in Stoppers, NEW m \in Monitors, StopBegins(s, m) \/ StopEnds(s)
          PROVE  i \notin told'["beats"] /\ OnTime(i)'
      BY <2>2, <3>2, <3>3 DEF StopEnds
    <3>4. ASSUME NEW j \in Loops, NEW m \in Monitors, LoopTurn(m, j)
          PROVE  i \notin told'["beats"] /\ OnTime(i)'
      <4>1. UNCHANGED <<up, told, age, upFor>>
        BY <3>4 DEF LoopTurn, lifeCycle
      <4>2. CASE m = "beats" /\ j = i
        <5>1. loop["beats"][i] = "new" /\ loop'["beats"][i] = "asleep"
          BY <2>4, <3>4, <4>2 DEF LoopTurn, Again, MonitorTypeOK
        <5> QED
          BY <3>1, <4>1, <5>1 DEF OnTime
      <4>3. CASE ~(m = "beats" /\ j = i)
        <5>1. loop'["beats"][i] = loop["beats"][i]
          BY <3>4, <4>3 DEF LoopTurn, MonitorTypeOK
        <5> QED
          BY <3>2, <4>1, <5>1
      <4> QED
        BY <4>2, <4>3
    <3>5. ASSUME NEW j \in Loops, NEW m \in Monitors, LoopCancelled(m, j)
          PROVE  i \notin told'["beats"] /\ OnTime(i)'
      <4>1. UNCHANGED <<told, age, upFor>> /\ loop'["beats"][i] = loop["beats"][i]
        BY <3>1, <3>5 DEF LoopCancelled, lifeCycle, MonitorTypeOK
      <4> QED
        BY <3>2, <4>1
    <3>6. ASSUME NEW j \in Loops, Beat(j) PROVE i \notin told'["beats"] /\ OnTime(i)'
      <4>1. /\ UNCHANGED <<up, told, upFor>> /\ age'["self"] = 0
            /\ loop' = [loop EXCEPT !["beats"][j] = "asleep"]
        BY <2>4, <3>6 DEF Beat, Seen, Again, lifeCycle, MonitorTypeOK, Nodes
      <4>2. loop'["beats"][i] = "asleep" \/ loop'["beats"][i] = loop["beats"][i]
        BY <4>1 DEF MonitorTypeOK
      <4> QED
        BY <3>1, <4>1, <4>2 DEF OnTime
    <3>7. ASSUME NEW n \in Nodes, HearFrom(n) PROVE i \notin told'["beats"] /\ OnTime(i)'
      <4>1. /\ UNCHANGED <<told, upFor, loop>>
            /\ age'["self"] = 0 \/ age'["self"] = age["self"]
        BY <3>7 DEF HearFrom, Seen, lifeCycle, MonitorTypeOK, Nodes
      <4> QED
        BY <3>1, <4>1 DEF OnTime
    <3>8. ASSUME IntervalPasses PROVE i \notin told'["beats"] /\ OnTime(i)'
      <4>1. loop["beats"][i] = "asleep" /\ (upFor = 0 \/ age["self"] = 0)
        BY <3>1, <3>8 DEF IntervalPasses, Awake, OnTime
      <4>2. loop'["beats"][i] = "due" /\ told' = told
        BY <3>8, <4>1 DEF IntervalPasses, lifeCycle
      <4>3. upFor = 0 => upFor' = 1
        BY <3>8 DEF IntervalPasses
      <4>4. age["self"] = 0 => age'["self"] = 1
        BY <3>8, MonitorAssumption DEF IntervalPasses, Oldest, Nodes, MonitorAssumption
      <4> QED
        BY <3>1, <4>1, <4>2, <4>3, <4>4 DEF OnTime
    <3>9. CASE StartProbes \/ (\E check \in {"enabled", "disabled"} : Register(check))
                \/ Unregister \/ UNCHANGED monitorVars
      <4>1. UNCHANGED <<age, upFor>> /\ told'["beats"] = told["beats"]
        BY <3>9 DEF StartProbes, Register, Unregister, monitorVars, lifeCycle, MonitorTypeOK
      <4>2. loop'["beats"] = loop["beats"]
        BY <3>9, CreateLoop DEF StartProbes, Register, Unregister, monitorVars, MonitorTypeOK
      <4> QED
        BY <3>2, <4>1, <4>2
    <3>10. CASE StartBeats
      BY <2>1, <2>4, <3>10 DEF StartBeats
    <3>11. ASSUME NEW m \in Monitors, LifeCycle(m) PROVE i \notin told'["beats"] /\ OnTime(i)'
      BY <3>3, <3>4, <3>5, <3>8, <3>11 DEF LifeCycle
    <3> QED
      BY <3>6, <3>7, <3>9, <3>10, <3>11 DEF BeatsNext, ProbesNext
  <2> QED
    BY <2>1, <2>3, <2>4
<1>3. MonitorTypeOK /\ BeatInv => StartedLooksHealthy
  BY MonitorAssumption
  DEF MonitorTypeOK, BeatInv, OnTime, StartedLooksHealthy, NodeHealth, MonitorAssumption,
      Never, Oldest, Nodes
<1>4. MonitorTypeOK /\ MadeInv /\ [BeatsNext \/ ProbesNext]_monitorVars => MadeInv'
  BY MadeStep
<1> QED
  BY <1>1, <1>2, <1>3, <1>4, MonitorTypeCorrect, PTL DEF MonitorSpec

\* No component is probed by two loops at once as long as stops do not overlap and
\* no registration displaces a task or falls into a stop, for any number of starts
\* that fall into a stop and of registrations.
THEOREM ProbedByOneLoopCorrect == MonitorSpec => []ProbedByOneLoop
<1>1. MonitorInit => ProbeInv
  BY DEF MonitorInit, ProbeInv, Probing, Stops, NoStop, Monitors
<1>2. MonitorTypeOK /\ ProbeInv /\ [BeatsNext \/ ProbesNext]_monitorVars => ProbeInv'
  <2> DEFINE One == \A i \in Loops : Probing(i) => i = current["probes"]
             Awaited == \A s \in Stoppers : Stops(s) =>
               /\ stopping[s].i \in told["probes"]
               /\ stopping[s].i = current["probes"] \/ (current["probes"] = 0 /\ entry = "none")
             Sole == \A s, x \in Stoppers : Stops(s) /\ Stops(x) => s = x
             Good == One' /\ Awaited' /\ Sole'
  <2> SUFFICES ASSUME MonitorTypeOK, ProbeInv, [BeatsNext \/ ProbesNext]_monitorVars,
                      ~overlap', ~replaced'
               PROVE  Good
    BY DEF ProbeInv
  <2> USE DEF Monitors
  <2>1. ~overlap /\ ~replaced
    <3>1. ASSUME NEW check \in {"enabled", "disabled"}, Register(check) PROVE ~overlap /\ ~replaced
      BY <3>1, Zenon DEF Register
    <3>2. ASSUME NEW s \in Stoppers, NEW m \in Monitors, StopBegins(s, m)
          PROVE  ~overlap /\ ~replaced
      BY <3>2, Zenon DEF StopBegins, registration
    <3>3. ASSUME UNCHANGED <<overlap, replaced>> PROVE ~overlap /\ ~replaced
      BY <3>3
    <3> QED
      BY <3>1, <3>2, <3>3 DEF BeatsNext, ProbesNext, LifeCycle, StartBeats, StartProbes, StopEnds,
         LoopTurn, LoopCancelled, Beat, HearFrom, IntervalPasses, Unregister,
         lifeCycle, registration, monitorVars
  <2>2. One /\ Awaited /\ Sole
    BY <2>1 DEF ProbeInv
  <2>3. ASSUME UNCHANGED <<stopping, entry>>, current'["probes"] = current["probes"],
               told'["probes"] = told["probes"], \A i \in Loops : Probing(i)' => Probing(i)
        PROVE  Good
    BY <2>2, <2>3 DEF Stops
  \* A loop is made only when none goes on and no stop is under way.
  <2>4. ASSUME Create("probes"), UNCHANGED <<stopping, told>>, current["probes"] = 0,
               \A s \in Stoppers : ~Stops(s)
        PROVE  Good
    <3>1. PICK k \in Loops : /\ loop' = [loop EXCEPT !["probes"][k] = "new"]
                             /\ current' = [current EXCEPT !["probes"] = k]
      BY <2>4, CreateLoop
    <3>2. \A i \in Loops : ~Probing(i)
      BY <2>2, <2>4 DEF Loops
    <3>3. current'["probes"] = k /\ \A i \in Loops : i # k => loop'["probes"][i] = loop["probes"][i]
      BY <3>1 DEF MonitorTypeOK
    <3> QED
      BY <2>4, <3>2, <3>3 DEF Probing, Stops
  <2>5. CASE StartProbes
    <3>1. CASE entry = "enabled" /\ current["probes"] = 0
      <4>1. \A s \in Stoppers : ~Stops(s)
        BY <2>2, <3>1 DEF Loops, Stops, MonitorTypeOK, NoStop
      <4> QED
        BY <2>4, <2>5, <3>1, <4>1 DEF StartProbes
    <3>2. CASE ~(entry = "enabled" /\ current["probes"] = 0)
      BY <2>3, <2>5, <3>2 DEF StartProbes, Probing, registration
    <3> QED
      BY <3>1, <3>2
  <2>6. CASE StartBeats
    <3>1. current'["probes"] = current["probes"] /\ loop'["probes"] = loop["probes"]
          /\ UNCHANGED <<stopping, told, entry>>
      BY <2>6, CreateLoop DEF StartBeats, registration, MonitorTypeOK
    <3> QED
      BY <2>3, <3>1 DEF Probing
  <2>7. ASSUME NEW s \in Stoppers, NEW m \in Monitors, StopBegins(s, m) PROVE Good
    <3>1. UNCHANGED <<current, loop, entry>> /\ \A x \in Stoppers : stopping[x].m # m
      BY <2>7 DEF StopBegins, registration
    <3>2. \A x \in Stoppers : x # s => stopping'[x] = stopping[x]
      BY <2>7 DEF StopBegins, MonitorTypeOK
    <3>3. told["probes"] \subseteq told'["probes"]
      BY <2>7 DEF StopBegins, MonitorTypeOK
    <3>4. Stops(s)' => /\ m = "probes" /\ stopping'[s].i = current["probes"]
                       /\ current["probes"] \in told'["probes"]
      BY <2>7 DEF StopBegins, MonitorTypeOK, Stops, NoStop
    <3> QED
      BY <2>2, <3>1, <3>2, <3>3, <3>4 DEF Probing, Stops
  <2>8. ASSUME NEW s \in Stoppers, StopEnds(s) PROVE Good
    <3>1. /\ UNCHANGED <<loop, told, entry>> /\ stopping[s].m \in Monitors
          /\ current' = [current EXCEPT ![stopping[s].m] = 0]
          /\ stopping' = [stopping EXCEPT ![s] = NoStop]
      BY <2>8 DEF StopEnds, registration, MonitorTypeOK
    <3>2. ~Stops(s)' /\ \A x \in Stoppers : Stops(x)' => Stops(x) /\ x # s /\ stopping'[x] = stopping[x]
      BY <3>1 DEF Stops, MonitorTypeOK, NoStop
    <3>3. CASE stopping[s].m = "probes"
      <4>1. Stops(s)
        BY <3>3 DEF Stops
      <4>2. \A x \in Stoppers : ~Stops(x)'
        BY <2>2, <3>2, <4>1
      <4>3. \A i \in Loops : ~Probing(i)
        BY <2>2, <4>1 DEF Probing, Loops
      <4> QED
        BY <3>1, <4>2, <4>3 DEF Probing
    <3>4. CASE stopping[s].m # "probes"
      <4>1. current'["probes"] = current["probes"]
        BY <3>1, <3>4 DEF MonitorTypeOK
      <4> QED
        BY <2>2, <3>1, <3>2, <4>1 DEF Probing
    <3> QED
      BY <3>3, <3>4
  <2>9. ASSUME NEW m \in Monitors, NEW i \in Loops,
               LoopTurn(m, i) \/ LoopCancelled(m, i) \/ (m = "beats" /\ Beat(i))
        PROVE  Good
    <3>1. PICK at \in {"asleep", "gone"} :
            loop' = [loop EXCEPT ![m][i] = at] /\ (at = "asleep" => loop[m][i] \in {"new", "due"})
      BY <2>9, LoopMoves
    <3>2. UNCHANGED <<stopping, entry, current, told>>
      BY <2>9 DEF LoopTurn, LoopCancelled, Beat, lifeCycle, registration
    <3>3. \A j \in Loops : Probing(j)' => Probing(j)
      BY <3>1, <3>2 DEF Probing, MonitorTypeOK
    <3> QED
      BY <2>3, <3>2, <3>3
  <2>10. CASE IntervalPasses
    <3>1. \A j \in Loops : Probing(j)' => Probing(j)
      BY <2>10 DEF Probing, IntervalPasses, lifeCycle
    <3> QED
      BY <2>3, <2>10, <3>1 DEF IntervalPasses, lifeCycle, registration
  <2>11. ASSUME UNCHANGED <<current, loop, told, stopping, entry>> PROVE Good
    BY <2>3, <2>11 DEF Probing
  <2>12. ASSUME NEW m \in Monitors, LifeCycle(m) PROVE Good
    BY <2>7, <2>8, <2>9, <2>10, <2>12 DEF LifeCycle
  <2>13. ASSUME NEW check \in {"enabled", "disabled"}, Register(check) PROVE Good
    <3>1. current["probes"] = 0 /\ UNCHANGED <<stopping, told>> /\ \A s \in Stoppers : ~Stops(s)
      BY <2>13 DEF Register, Stops
    <3>2. CASE Create("probes")
      BY <2>4, <3>1, <3>2
    <3>3. CASE current' = [current EXCEPT !["probes"] = 0] /\ loop' = loop
      <4>1. \A i \in Loops : ~Probing(i)
        BY <2>2, <3>1 DEF Loops
      <4> QED
        BY <3>1, <3>3, <4>1 DEF Probing, Stops
    <3> QED
      BY <2>13, <3>2, <3>3 DEF Register
  <2>14. CASE Unregister
    <3>1. /\ UNCHANGED <<stopping, loop>> /\ current'["probes"] = 0 /\ entry' = "none"
          /\ told'["probes"] = told["probes"] \cup ({current["probes"]} \ {0})
      BY <2>14 DEF Unregister, MonitorTypeOK
    <3>2. \A i \in Loops : ~Probing(i)'
      BY <2>2, <3>1 DEF Probing, Loops
    <3> QED
      BY <2>2, <3>1, <3>2 DEF Stops
  <2> QED
    BY <2>5, <2>6, <2>9, <2>11, <2>12, <2>13, <2>14
    DEF BeatsNext, ProbesNext, HearFrom, lifeCycle, registration, monitorVars
<1>3. ProbeInv => ProbedByOneLoop
  BY DEF ProbeInv, ProbedByOneLoop
<1> QED
  BY <1>1, <1>2, <1>3, MonitorTypeCorrect, PTL DEF MonitorSpec

-----------------------------------------------------------------------------
(* The SSE transport. *)

\* Moving the head of a queue to the end of what was received keeps the whole.
LEMMA MoveHead ==
  ASSUME NEW S, NEW g \in Seq(S), NEW q \in Seq(S), q # <<>>
  PROVE  Append(g, Head(q)) \o Tail(q) = g \o q
<1>1. PICK h \in S, t \in Seq(S) : h = Head(q) /\ t = Tail(q)
  BY HeadTailProperties
<1>2. q = <<h>> \o t
  <2>1. <<h>> \in Seq(S) /\ Len(<<h>>) = 1
    OBVIOUS
  <2>2. <<h>> \o t \in Seq(S) /\ Len(<<h>> \o t) = 1 + Len(t)
    BY <2>1, ConcatProperties
  <2>3. Len(q) = 1 + Len(t) /\ Len(t) \in Nat
    BY <1>1, HeadTailProperties, LenProperties
  <2>4. ASSUME NEW i \in 1 .. Len(q) PROVE q[i] = (<<h>> \o t)[i]
    <3>1. CASE i = 1
      BY <1>1, <2>1, <2>3, <3>1, ConcatProperties
    <3>2. CASE i # 1
      <4>1. i - 1 \in 1 .. Len(t)
        BY <2>3, <3>2
      <4>2. t[i - 1] = q[i]
        BY <1>1, <4>1, HeadTailProperties
      <4>3. (<<h>> \o t)[i] = t[i - 1]
        BY <2>1, <2>3, <3>2, ConcatProperties
      <4> QED
        BY <4>2, <4>3
    <3> QED
      BY <3>1, <3>2
  <2> QED
    BY <2>2, <2>3, <2>4, SeqEqual
<1>3. Append(g, h) = g \o <<h>>
  BY AppendIsConcat
<1>4. (g \o <<h>>) \o t = g \o (<<h>> \o t)
  <2>1. <<h>> \in Seq(S)
    OBVIOUS
  <2> QED
    BY <2>1, ConcatAssociative
<1> QED
  BY <1>1, <1>2, <1>3, <1>4

\* A frame put on the queue comes after all the others.
LEMMA AppendToStream ==
  ASSUME NEW S, NEW g \in Seq(S), NEW q \in Seq(S), NEW e \in S
  PROVE  /\ DOMAIN (g \o Append(q, e)) = 1 .. Len(g \o q) + 1 /\ Len(g \o q) \in Nat
         /\ DOMAIN (g \o q) = 1 .. Len(g \o q)
         /\ \A i \in 1 .. Len(g \o q) : (g \o Append(q, e))[i] = (g \o q)[i]
         /\ (g \o Append(q, e))[Len(g \o q) + 1] = e
<1>1. Append(q, e) = q \o <<e>> /\ <<e>> \in Seq(S) /\ g \o q \in Seq(S)
  BY AppendIsConcat, ConcatProperties
<1>2. g \o Append(q, e) = (g \o q) \o <<e>>
  BY <1>1, ConcatAssociative
<1>3. g \o Append(q, e) = Append(g \o q, e)
  BY <1>1, <1>2, AppendIsConcat
<1> QED
  BY <1>1, <1>3, AppendProperties, LenProperties

\* A request that is being dispatched, and the frame of its next answer.
LEMMA DispatchType ==
  ASSUME SseTypeOK, NEW p \in Posts, post[p].rest # <<>>
  PROVE  /\ post[p] \in PostState /\ Frame(p) \in Frames /\ Frame(p).post = p
         /\ Tail(post[p].rest) \in Seq({"call", "note", "bad"})
         /\ Len(post[p].rest) \in Nat /\ Frame(p).n = Len(post[p].rest)
         /\ Len(Tail(post[p].rest)) = Len(post[p].rest) - 1
         /\ [post[p] EXCEPT !.rest = Tail(post[p].rest)] \in PostState
<1>1. post[p] \in PostState /\ post[p].rest \in Seq({"call", "note", "bad"})
  BY DEF SseTypeOK, PostState
<1>2. /\ Tail(post[p].rest) \in Seq({"call", "note", "bad"})
      /\ Len(Tail(post[p].rest)) = Len(post[p].rest) - 1
      /\ Len(post[p].rest) \in Nat
  BY <1>1, HeadTailProperties, LenProperties
<1>3. [post[p] EXCEPT !.rest = Tail(post[p].rest)] \in PostState
  BY <1>1, <1>2 DEF PostState
<1> QED
  BY <1>1, <1>2, <1>3 DEF Frame, Frames

\* Every step of the transport keeps the types.  A dispatched POST is an accepted
\* one, so the queue it answers on is that of a session.
LEMMA SseTypeStep ==
  ASSUME SseTypeOK, \A p \in Posts : post[p].rest # <<>> => post[p].session \in SseSessions,
         [SseNext]_sseVars
  PROVE  SseTypeOK'
<1>1. ASSUME SseStart \/ SseStop PROVE SseTypeOK'
  <2>1. serving' \in BOOLEAN
    BY <1>1 DEF SseStart, SseStop
  <2>2. starts' \in Nat
    BY <1>1 DEF SseStart, SseStop, SseTypeOK
  <2>3. UNCHANGED <<registry, sse, peer, out, got, post, answered>>
    BY <1>1 DEF SseStart, SseStop
  <2> QED
    BY <2>1, <2>2, <2>3 DEF SseTypeOK
<1>2. ASSUME NEW s \in SseSessions, NEW broken \in BOOLEAN, OpenSse(s, broken) PROVE SseTypeOK'
  <2>1. sse' \in [SseSessions -> {"none", "open", "ended"}]
    BY <1>2 DEF OpenSse, SseTypeOK
  <2>2. peer' \in [SseSessions -> BOOLEAN]
    <3>1. PICK b \in BOOLEAN : b = ~broken
      OBVIOUS
    <3>2. peer' = [peer EXCEPT ![s] = b] /\ peer \in [SseSessions -> BOOLEAN]
      BY <1>2, <3>1 DEF OpenSse, SseTypeOK
    <3> QED
      BY <3>2
  <2> QED
    BY <1>2, <2>1, <2>2 DEF OpenSse, SseTypeOK
<1>3. ASSUME NEW s \in SseSessions, SendFrame(s) PROVE SseTypeOK'
  <2>1. out[s] \in Seq(Frames) /\ got[s] \in Seq(Frames)
    BY DEF SseTypeOK
  <2>2. Head(out[s]) \in Frames /\ Tail(out[s]) \in Seq(Frames)
    BY <1>3, <2>1, HeadTailProperties DEF SendFrame
  <2>3. Append(got[s], Head(out[s])) \in Seq(Frames)
    BY <2>1, <2>2, AppendProperties
  <2>4. registry' \subseteq SseSessions /\ sse' \in [SseSessions -> {"none", "open", "ended"}]
    BY <1>3 DEF SendFrame, EndSession, SseTypeOK
  <2>5. out' \in [SseSessions -> Seq(Frames)] /\ got' \in [SseSessions -> Seq(Frames)]
    BY <1>3, <2>2, <2>3 DEF SendFrame, SseTypeOK
  <2> QED
    BY <1>3, <2>4, <2>5 DEF SendFrame, SseTypeOK
<1>4. ASSUME NEW s \in SseSessions, IdleEnds(s) \/ ClientGone(s) PROVE SseTypeOK'
  BY <1>4 DEF IdleEnds, EndSession, ClientGone, SseTypeOK
<1>5. ASSUME NEW p \in Posts, NEW s \in SseSessions, NEW batch \in Batches,
             PostMessages(p, s, batch)
      PROVE  SseTypeOK'
  <2>1. batch \in Seq({"call", "note", "bad"}) /\ <<>> \in Seq({"call", "note", "bad"})
    BY SseAssumption, EmptySeq DEF SseAssumption
  <2>2. [at |-> "accepted", session |-> s, rest |-> IF s \in registry THEN batch ELSE <<>>]
          \in PostState
    BY <2>1 DEF PostState
  <2> QED
    BY <1>5, <2>2 DEF PostMessages, SseTypeOK
<1>6. ASSUME NEW p \in Posts, Dispatch(p) PROVE SseTypeOK'
  <2> DEFINE s == post[p].session
  <2>1. s \in SseSessions /\ post[p].rest # <<>> /\ out[s] \in Seq(Frames)
    BY <1>6 DEF Dispatch, SseTypeOK
  <2>2. Append(out[s], Frame(p)) \in Seq(Frames)
    BY <2>1, DispatchType, AppendProperties
  <2>3. out' \in [SseSessions -> Seq(Frames)] /\ answered' \subseteq Frames
    BY <1>6, <2>1, <2>2, DispatchType DEF Dispatch, SseTypeOK
  <2>4. post' = [post EXCEPT ![p] = [post[p] EXCEPT !.rest = Tail(post[p].rest)]]
    BY <1>6 DEF Dispatch, SseTypeOK
  <2>5. post' \in [Posts -> PostState]
    BY <2>1, <2>4, DispatchType DEF SseTypeOK
  <2> QED
    BY <1>6, <2>3, <2>5 DEF Dispatch, SseTypeOK
<1>7. ASSUME UNCHANGED sseVars PROVE SseTypeOK'
  BY <1>7 DEF sseVars, SseTypeOK
<1> QED
  BY <1>1, <1>2, <1>3, <1>4, <1>5, <1>6, <1>7 DEF SseNext

\* What the client of session s received, and what waits for it.
Stream(s) == got[s] \o out[s]

\* Frame f belongs to session s and to a message already dispatched.
Sent(f, s) == /\ post[f.post].at = "accepted" /\ post[f.post].session = s
              /\ f.n > Len(post[f.post].rest)

\* Inductive form of StreamCarriesAnswers: a POST is accepted for a session that
\* has been opened, and the frames of a stream are of messages dispatched before
\* those still left, so the next one comes last.
PostInv ==
  /\ \A p \in Posts : post[p].at = "new" => post[p].rest = <<>>
  /\ \A p \in Posts : post[p].at = "accepted" =>
       post[p].session \in SseSessions /\ sse[post[p].session] # "none"
  /\ \A f \in answered : post[f.post].at = "accepted"
  /\ \A s \in SseSessions : sse[s] = "none" => out[s] = <<>> /\ got[s] = <<>>

StreamInv(s) ==
  sse[s] = "open" /\ peer[s] =>
    /\ \A i \in DOMAIN Stream(s) : Sent(Stream(s)[i], s)
    /\ \A i, j \in DOMAIN Stream(s) :
         i < j /\ Stream(s)[i].post = Stream(s)[j].post => Stream(s)[i].n > Stream(s)[j].n
    /\ \A f \in answered : post[f.post].session = s =>
         \E i \in DOMAIN Stream(s) : Stream(s)[i] = f

SseInv == PostInv /\ \A s \in SseSessions : StreamInv(s)

\* A stream's invariant survives what leaves its frames and all POSTs alone.
LEMMA StreamKept ==
  ASSUME NEW s \in SseSessions, StreamInv(s), UNCHANGED <<post, answered>>,
         (sse[s] = "open" /\ peer[s])' => sse[s] = "open" /\ peer[s],
         (sse[s] = "open" /\ peer[s])' => Stream(s)' = Stream(s)
  PROVE  StreamInv(s)'
<1> SUFFICES ASSUME (sse[s] = "open" /\ peer[s])'
             PROVE  /\ \A i \in DOMAIN Stream(s)' : Sent(Stream(s)[i], s)'
                    /\ \A i, j \in DOMAIN Stream(s)' :
                         i < j /\ Stream(s)'[i].post = Stream(s)'[j].post
                           => Stream(s)'[i].n > Stream(s)'[j].n
                    /\ \A f \in answered' : post'[f.post].session = s =>
                         \E i \in DOMAIN Stream(s)' : Stream(s)'[i] = f
  BY DEF StreamInv
<1>1. Stream(s)' = Stream(s)
  OBVIOUS
<1> QED
  BY <1>1 DEF StreamInv, Sent

\* POSTs stay as they are when they and the set of opened sessions do.
LEMMA PostsKept ==
  ASSUME SseTypeOK, PostInv, UNCHANGED <<post, answered>>,
         \A s \in SseSessions : sse'[s] = "none" =>
           sse[s] = "none" /\ out'[s] = out[s] /\ got'[s] = got[s],
         \A s \in SseSessions : sse[s] # "none" => sse'[s] # "none"
  PROVE  PostInv'
BY DEF PostInv, SseTypeOK

\* An accepted POST adds no frame to any stream.
LEMMA PostMessagesStep ==
  ASSUME SseTypeOK, SseInv, NEW p \in Posts, NEW s \in SseSessions, NEW batch \in Batches,
         PostMessages(p, s, batch)
  PROVE  SseInv'
<1>1. /\ post[p].at = "new" /\ sse[s] # "none"
      /\ post'[p].at = "accepted" /\ post'[p].session = s
      /\ \A q \in Posts \ {p} : post'[q] = post[q]
      /\ UNCHANGED <<sse, peer, out, got, answered>>
  BY DEF PostMessages, SseTypeOK
<1>2. PostInv'
  <2>1. \A f \in answered : f.post \in Posts
    BY DEF SseTypeOK, Frames
  <2> QED
    BY <1>1, <2>1 DEF SseInv, PostInv
<1>3. ASSUME NEW r \in SseSessions PROVE StreamInv(r)'
  <2> SUFFICES ASSUME sse[r] = "open", peer[r] PROVE StreamInv(r)'
    BY <1>1 DEF StreamInv
  <2> DEFINE st == Stream(r)
  <2>1. Stream(r)' = st
    BY <1>1 DEF Stream
  <2>2. st \in Seq(Frames)
    BY ConcatProperties DEF Stream, SseTypeOK
  <2>3. \A i \in DOMAIN st : st[i].post \in Posts /\ Sent(st[i], r)
    <3>1. \A i \in DOMAIN st : st[i] \in Frames
      BY <2>2
    <3>2. \A i \in DOMAIN st : Sent(st[i], r)
      BY DEF SseInv, StreamInv
    <3> QED
      BY <3>1, <3>2 DEF Frames
  <2>4. \A i \in DOMAIN st : st[i].post # p
    BY <1>1, <2>3 DEF Sent
  <2>5. \A i \in DOMAIN st : \A f : f = st[i] => Sent(f, r)'
    BY <1>1, <2>3, <2>4 DEF Sent
  <2>6. \A f \in answered : f.post \in Posts \ {p}
    BY <1>1 DEF SseTypeOK, Frames, SseInv, PostInv
  <2>7. \A f \in answered : post'[f.post].session = r => \E i \in DOMAIN st : st[i] = f
    BY <1>1, <2>6 DEF SseInv, StreamInv
  <2>8. \A i, j \in DOMAIN st : i < j /\ st[i].post = st[j].post => st[i].n > st[j].n
    BY DEF SseInv, StreamInv
  <2> HIDE DEF st
  <2>9. UNCHANGED <<sse, peer, answered>>
    BY <1>1
  <2>10. (\A i \in DOMAIN Stream(r) : Sent(Stream(r)[i], r))'
    BY <2>1, <2>5 DEF Sent
  <2>11. (\A f \in answered : post[f.post].session = r =>
         \E i \in DOMAIN Stream(r) : Stream(r)[i] = f)'
    BY <2>1, <2>7, <2>9
  <2> QED
    BY <2>1, <2>8, <2>10, <2>11 DEF StreamInv
<1> QED
  BY <1>2, <1>3 DEF SseInv

\* The answer to a message goes to the end of its session's stream, after those to
\* the messages before it in the batch.
LEMMA DispatchStep ==
  ASSUME SseTypeOK, SseInv, NEW p \in Posts, Dispatch(p)
  PROVE  SseInv'
<1> DEFINE s == post[p].session
<1>0. PICK e : e = Frame(p)
  OBVIOUS
<1>1. /\ post[p].rest # <<>> /\ post[p].at = "accepted" /\ s \in SseSessions /\ sse[s] # "none"
  BY DEF Dispatch, SseInv, PostInv, SseTypeOK, PostState
<1>2. /\ e \in Frames /\ e.post = p /\ e.n = Len(post[p].rest) /\ e.n \in Nat
      /\ Len(Tail(post[p].rest)) = e.n - 1
  BY <1>0, <1>1, DispatchType
<1>3. /\ post'[p].at = "accepted" /\ post'[p].session = s /\ Len(post'[p].rest) = e.n - 1
      /\ \A q \in Posts \ {p} : post'[q] = post[q]
      /\ UNCHANGED <<sse, peer, got>>
  <2>1. post' = [post EXCEPT ![p] = [post[p] EXCEPT !.rest = Tail(post[p].rest)]]
    BY DEF Dispatch, SseTypeOK
  <2>2. post[p] \in PostState
    BY DEF SseTypeOK
  <2>3. post'[p] = [post[p] EXCEPT !.rest = Tail(post[p].rest)]
    BY <2>1 DEF SseTypeOK
  <2>4. post'[p].at = post[p].at /\ post'[p].session = s /\ post'[p].rest = Tail(post[p].rest)
    BY <2>2, <2>3 DEF PostState
  <2>5. \A q \in Posts \ {p} : post'[q] = post[q]
    BY <2>1 DEF SseTypeOK
  <2> QED
    BY <1>1, <1>2, <2>4, <2>5 DEF Dispatch
<1>4. \A q \in Posts : post'[q].at = post[q].at /\ post'[q].session = post[q].session
  BY <1>1, <1>3
<1>5. \/ /\ \A r \in SseSessions \ {s} : out'[r] = out[r]
         /\ out'[s] = Append(out[s], e)
         /\ answered' = answered \cup {e}
      \/ UNCHANGED <<out, answered>>
  BY <1>0, <1>1 DEF Dispatch, SseTypeOK
<1>6. PostInv'
  <2>1. \A f \in answered \cup {e} : f.post \in Posts /\ post[f.post].at = "accepted"
    BY <1>1, <1>2 DEF SseTypeOK, Frames, SseInv, PostInv
  <2>2. \A f \in answered' : post'[f.post].at = "accepted"
    BY <1>4, <1>5, <2>1
  <2>3. \A q \in Posts : post'[q].at = "new" => post'[q].rest = <<>>
    BY <1>1, <1>3 DEF SseInv, PostInv
  <2>4. \A r \in SseSessions : sse'[r] = "none" => out'[r] = <<>> /\ got'[r] = <<>>
    BY <1>1, <1>3, <1>5 DEF SseInv, PostInv
  <2>5. \A q \in Posts : post'[q].at = "accepted" =>
          post'[q].session \in SseSessions /\ sse'[post'[q].session] # "none"
    BY <1>3, <1>4 DEF SseInv, PostInv
  <2> QED
    BY <2>2, <2>3, <2>4, <2>5 DEF PostInv
<1>7. ASSUME NEW r \in SseSessions PROVE StreamInv(r)'
  <2> SUFFICES ASSUME sse[r] = "open", peer[r] PROVE StreamInv(r)'
    BY <1>3 DEF StreamInv
  <2> DEFINE st == Stream(r)
  <2>1. st \in Seq(Frames) /\ got[r] \in Seq(Frames) /\ out[r] \in Seq(Frames)
    BY ConcatProperties DEF Stream, SseTypeOK
  <2>2. \A i \in DOMAIN st : st[i] \in Frames /\ Sent(st[i], r)
    BY <2>1 DEF SseInv, StreamInv
  <2>3. \A i, j \in DOMAIN st : i < j /\ st[i].post = st[j].post => st[i].n > st[j].n
    BY DEF SseInv, StreamInv
  <2>4. \A f \in answered : post[f.post].session = r => \E i \in DOMAIN st : st[i] = f
    BY DEF SseInv, StreamInv
  <2>5. \A f \in answered : f \in Frames /\ f.post \in Posts
    BY DEF SseTypeOK, Frames
  <2>6. ASSUME NEW f \in Frames, Sent(f, r) PROVE Sent(f, r)' /\ (f.post = p => f.n > e.n)
    <3>1. f.post \in Posts /\ f.n \in Nat
      BY DEF Frames
    <3> QED
      BY <1>2, <1>3, <2>6, <3>1 DEF Sent
  <2>7. CASE UNCHANGED <<out, answered>>
    <3>1. Stream(r)' = st
      BY <1>3, <2>7 DEF Stream
    <3>2. (\A i \in DOMAIN Stream(r) : Sent(Stream(r)[i], r))'
      BY <2>2, <2>6, <3>1 DEF Sent
    <3>3. (\A f \in answered : post[f.post].session = r =>
             \E i \in DOMAIN Stream(r) : Stream(r)[i] = f)'
      BY <1>4, <2>4, <2>5, <2>7, <3>1
    <3> QED
      BY <2>3, <3>1, <3>2, <3>3 DEF StreamInv
  <2>8. CASE r # s /\ out'[r] = out[r] /\ answered' = answered \cup {e}
    <3>1. Stream(r)' = st
      BY <1>3, <2>8 DEF Stream
    <3>2. (\A i \in DOMAIN Stream(r) : Sent(Stream(r)[i], r))'
      BY <2>2, <2>6, <3>1 DEF Sent
    <3>3. (\A f \in answered : post[f.post].session = r =>
             \E i \in DOMAIN Stream(r) : Stream(r)[i] = f)'
      BY <1>2, <1>4, <2>4, <2>5, <2>8, <3>1
    <3> QED
      BY <2>3, <3>1, <3>2, <3>3 DEF StreamInv
  <2>9. CASE r = s /\ out'[r] = Append(out[r], e) /\ answered' = answered \cup {e}
    <3>0. PICK nx : nx = Stream(r)'
      OBVIOUS
    <3> DEFINE k == Len(st)
    <3>1. nx = got[r] \o Append(out[r], e) /\ st = got[r] \o out[r]
      BY <1>3, <2>9, <3>0 DEF Stream
    <3>2. /\ DOMAIN nx = 1 .. k + 1 /\ k \in Nat /\ DOMAIN st = 1 .. k
          /\ \A i \in 1 .. k : nx[i] = st[i]
          /\ nx[k + 1] = e
      <4>1. e \in Frames /\ got[r] \in Seq(Frames) /\ out[r] \in Seq(Frames)
        BY <1>2, <2>1
      <4>2. PICK g \in Seq(Frames), q \in Seq(Frames) : g = got[r] /\ q = out[r]
        BY <4>1
      <4>3. /\ DOMAIN (g \o Append(q, e)) = 1 .. Len(g \o q) + 1 /\ Len(g \o q) \in Nat
            /\ DOMAIN (g \o q) = 1 .. Len(g \o q)
            /\ \A i \in 1 .. Len(g \o q) : (g \o Append(q, e))[i] = (g \o q)[i]
            /\ (g \o Append(q, e))[Len(g \o q) + 1] = e
        <5>1. e \in Frames
          BY <4>1
        <5> HIDE DEF st, k
        <5> QED
          BY <5>1, AppendToStream, SMTT(30)
      <4>4. nx = g \o Append(q, e) /\ st = g \o q
        BY <3>1, <4>2
      <4> HIDE DEF st
      <4> QED
        BY <4>3, <4>4, Zenon
    <3> HIDE DEF k, st
    <3>3. Sent(e, r)'
      BY <1>2, <1>3, <2>9 DEF Sent
    <3>4. \A i \in DOMAIN nx : Sent(nx[i], r)'
      BY <2>2, <2>6, <3>2, <3>3 DEF Sent
    <3>5. \A i \in DOMAIN st : st[i].post = p => st[i].n > e.n
      BY <2>2, <2>6
    <3>6. \A i, j \in DOMAIN nx : i < j /\ nx[i].post = nx[j].post => nx[i].n > nx[j].n
      <4> SUFFICES ASSUME NEW i \in 1 .. k + 1, NEW j \in 1 .. k + 1, i < j,
                          nx[i].post = nx[j].post
                   PROVE  nx[i].n > nx[j].n
        BY <3>2
      <4>1. i \in DOMAIN st /\ nx[i] = st[i]
        BY <3>2
      <4>2. CASE j = k + 1
        BY <1>2, <3>2, <3>5, <4>1, <4>2
      <4>3. CASE j # k + 1
        <5>1. j \in DOMAIN st /\ nx[j] = st[j]
          BY <3>2, <4>3
        <5> QED
          BY <2>3, <4>1, <5>1
      <4> QED
        BY <4>2, <4>3
    <3>7. \A f \in answered' : post'[f.post].session = r => \E i \in DOMAIN nx : nx[i] = f
      <4> SUFFICES ASSUME NEW f \in answered \cup {e}, post'[f.post].session = r
                   PROVE  \E i \in DOMAIN nx : nx[i] = f
        BY <2>9
      <4>1. CASE f = e
        BY <3>2, <4>1
      <4>2. CASE f \in answered
        <5>1. PICK i \in DOMAIN st : st[i] = f
          BY <1>4, <2>4, <2>5, <4>2
        <5> QED
          BY <3>2, <5>1
      <4> QED
        BY <4>1, <4>2
    <3>8. (\A i \in DOMAIN Stream(r) : Sent(Stream(r)[i], r))'
      BY <3>0, <3>4 DEF Sent
    <3> QED
      BY <3>0, <3>6, <3>7, <3>8 DEF StreamInv
  <2> QED
    BY <1>5, <2>7, <2>8, <2>9
<1> QED
  BY <1>6, <1>7 DEF SseInv

\* So does a step that changes neither streams nor POSTs.
LEMMA SseKept ==
  ASSUME SseTypeOK, SseInv, UNCHANGED <<sse, peer, out, got, post, answered>>
  PROVE  SseInv'
<1>1. PostInv'
  BY PostsKept DEF SseInv
<1>2. \A s \in SseSessions : StreamInv(s)'
  BY StreamKept DEF Stream, SseInv
<1> QED
  BY <1>1, <1>2 DEF SseInv

\* The steps of a session: no POST changes.
LEMMA SessionSteps ==
  ASSUME SseTypeOK, SseInv, NEW s \in SseSessions,
         \/ SendFrame(s) \/ IdleEnds(s) \/ ClientGone(s)
         \/ \E broken \in BOOLEAN : OpenSse(s, broken)
  PROVE  SseInv'
<1> USE DEF SseInv
<1>1. CASE IdleEnds(s) \/ ClientGone(s)
  <2>1. /\ UNCHANGED <<out, got, post, answered>>
        /\ \A r \in SseSessions : sse[r] # "none" <=> sse'[r] # "none"
        /\ \A r \in SseSessions : sse'[r] = "open" /\ peer'[r] => sse[r] = "open" /\ peer[r]
    BY <1>1 DEF IdleEnds, EndSession, ClientGone, SseTypeOK
  <2>2. PostInv'
    BY <2>1, PostsKept
  <2>3. \A r \in SseSessions : StreamInv(r)'
    BY <2>1, StreamKept DEF Stream
  <2> QED
    BY <2>2, <2>3
<1>2. CASE SendFrame(s)
  <2>1. /\ UNCHANGED <<peer, post, answered>> /\ sse[s] = "open" /\ out[s] # <<>>
        /\ \A r \in SseSessions : sse[r] # "none" <=> sse'[r] # "none"
        /\ \A r \in SseSessions : sse'[r] = "open" => sse[r] = "open"
        /\ \A r \in SseSessions \ {s} : out'[r] = out[r] /\ got'[r] = got[r]
        /\ out'[s] = Tail(out[s])
        /\ peer[s] => got'[s] = Append(got[s], Head(out[s]))
    BY <1>2 DEF SendFrame, EndSession, SseTypeOK
  <2>2. PostInv'
    BY <2>1, PostsKept
  <2>3. out[s] \in Seq(Frames) /\ got[s] \in Seq(Frames)
    BY DEF SseTypeOK
  <2>4. peer[s] => Stream(s)' = Stream(s)
    <3>1. PICK g \in Seq(Frames), q \in Seq(Frames) : g = got[s] /\ q = out[s]
      BY <2>3
    <3>2. Append(g, Head(q)) \o Tail(q) = g \o q
      BY <2>1, <3>1, MoveHead
    <3> QED
      BY <2>1, <3>1, <3>2 DEF Stream
  <2>5. \A r \in SseSessions \ {s} : Stream(r)' = Stream(r)
    BY <2>1 DEF Stream
  <2>6. \A r \in SseSessions : StreamInv(r)'
    BY <2>1, <2>4, <2>5, StreamKept
  <2> QED
    BY <2>2, <2>6
<1>3. ASSUME NEW broken \in BOOLEAN, OpenSse(s, broken) PROVE SseInv'
  <2>1. /\ UNCHANGED <<out, got, post, answered>> /\ sse[s] = "none" /\ sse'[s] # "none"
        /\ \A r \in SseSessions \ {s} : sse'[r] = sse[r] /\ peer'[r] = peer[r]
    BY <1>3 DEF OpenSse, SseTypeOK
  <2>2. PostInv'
    BY <2>1, PostsKept
  <2>3. \A r \in SseSessions \ {s} : StreamInv(r)'
    BY <2>1, StreamKept DEF Stream
  <2>4. StreamInv(s)'
    <3>1. Stream(s)' = <<>>
      BY <2>1, ConcatEmptySeq, EmptySeq DEF PostInv, Stream
    <3>2. \A f \in answered : f.post \in Posts
      BY DEF SseTypeOK, Frames
    <3>3. \A f \in answered' : post'[f.post].session # s
      BY <2>1, <3>2 DEF PostInv
    <3> QED
      BY <3>1, <3>3 DEF StreamInv
  <2> QED
    BY <2>2, <2>3, <2>4
<1> QED
  BY <1>1, <1>2, <1>3

\* The types of the transport and its inductive invariant hold.
THEOREM SseTypeCorrect == SseSpec => [](SseTypeOK /\ SseInv)
<1>1. SseInit => SseTypeOK /\ SseInv
  <2> SUFFICES ASSUME SseInit PROVE SseTypeOK /\ SseInv
    OBVIOUS
  <2>1. SseTypeOK
    <3>1. <<>> \in Seq(Frames) /\ <<>> \in Seq({"call", "note", "bad"})
      BY EmptySeq
    <3>2. [at |-> "new", session |-> 0, rest |-> <<>>] \in PostState
      BY <3>1 DEF PostState
    <3>3. serving \in BOOLEAN /\ peer \in [SseSessions -> BOOLEAN]
      BY DEF SseInit
    <3> QED
      BY <3>1, <3>2, <3>3 DEF SseInit, SseTypeOK
  <2>2. PostInv
    BY DEF SseInit, PostInv
  <2>3. \A s \in SseSessions : StreamInv(s)
    BY DEF SseInit, StreamInv
  <2> QED
    BY <2>1, <2>2, <2>3 DEF SseInv
<1>2. SseTypeOK /\ SseInv /\ [SseNext]_sseVars => (SseTypeOK /\ SseInv)'
  <2> SUFFICES ASSUME SseTypeOK, SseInv, [SseNext]_sseVars PROVE (SseTypeOK /\ SseInv)'
    OBVIOUS
  <2>1. \A p \in Posts : post[p].rest # <<>> => post[p].session \in SseSessions
    <3>1. \A p \in Posts : post[p].at \in {"new", "accepted"}
      BY DEF SseTypeOK, PostState
    <3> QED
      BY <3>1 DEF SseInv, PostInv
  <2>2. SseTypeOK'
    BY <2>1, SseTypeStep
  <2>3. CASE UNCHANGED sseVars
    BY <2>2, <2>3, SseKept DEF sseVars
  <2>4. CASE SseStart \/ SseStop
    BY <2>2, <2>4, SseKept DEF SseStart, SseStop
  <2>5. CASE \E s \in SseSessions : \/ SendFrame(s) \/ IdleEnds(s) \/ ClientGone(s)
                                    \/ \E broken \in BOOLEAN : OpenSse(s, broken)
    BY <2>2, <2>5, SessionSteps
  <2>6. CASE \E p \in Posts : \/ Dispatch(p)
                              \/ \E s \in SseSessions, batch \in Batches : PostMessages(p, s, batch)
    BY <2>2, <2>6, DispatchStep, PostMessagesStep
  <2> QED
    BY <2>3, <2>4, <2>5, <2>6 DEF SseNext
<1> QED
  BY <1>1, <1>2, PTL DEF SseSpec

\* While its stream lasts a client gets every answer exactly once and the answers
\* to a batch in order (server_sse.py dispatch, _handle_get_sse), for every number
\* of sessions, POSTs, batches and restarts of the loop.
THEOREM StreamCarriesAnswersCorrect == SseSpec => []StreamCarriesAnswers
<1>1. SseTypeOK /\ SseInv => StreamCarriesAnswers
  BY DEF SseInv, StreamInv, Stream, StreamCarriesAnswers
<1> QED
  BY <1>1, SseTypeCorrect, PTL

-----------------------------------------------------------------------------
(* Health monitoring and recovery of a component.                              *)

\* Registrations are numbered in order, and the record of one to come is new.
RegInv ==
  /\ reg <= regs
  /\ \A p \in Probers : held[p] <= regs
  /\ \A g \in Regs : g > regs => rec[g] = NewRecord

\* As long as recoveries have not overlapped, the one under way has read the present
\* count, which is the number of restarts carried out.
CountInv ==
  /\ ctype = "workflow" => done = 0 /\ \A h \in Handlers : hpc[h] = "idle"
  /\ ~overlapped =>
       /\ \A h, k \in Handlers : hpc[h] # "idle" /\ hpc[k] # "idle" => h = k
       /\ \A h \in Handlers : hpc[h] # "idle" => saved[h] = count /\ count < MaxRestarts
       /\ ctype = "agent" => done = count /\ count <= MaxRestarts

HealthInv == HealthTypeOK /\ RegInv /\ UnhealthyIsHandled /\ CountInv

\* A result leaves a record that is UNHEALTHY only if it was, or with an event.
LEMMA ResultFacts ==
  ASSUME NEW r \in HealthRecord, NEW healthy \in BOOLEAN
  PROVE  /\ ApplyResult(r, healthy) \in HealthRecord
         /\ Unhealthy(r, ApplyResult(r, healthy)) \in {0, 1}
         /\ ApplyResult(r, healthy).status = "UNHEALTHY" =>
              r.status = "UNHEALTHY" \/ Unhealthy(r, ApplyResult(r, healthy)) = 1
<1>0. ProbeFailures \in Nat /\ ProbeSuccesses \in Nat
  BY HealthAssumption
<1>1. CASE healthy
  <2> DEFINE n == Saturated(r.successes, ProbeSuccesses)
  <2>1. n \in 0 .. ProbeSuccesses
    BY <1>0 DEF Saturated, HealthRecord
  <2>2. ApplyResult(r, healthy) = [status |-> IF n >= ProbeSuccesses THEN "HEALTHY" ELSE r.status,
                                   failures |-> 0, successes |-> n]
    BY <1>1 DEF ApplyResult
  <2> HIDE DEF n
  <2> QED
    BY <1>0, <2>1, <2>2 DEF HealthRecord, Unhealthy
<1>2. CASE ~healthy
  <2> DEFINE n == Saturated(r.failures, ProbeFailures)
  <2>1. n \in 0 .. ProbeFailures
    BY <1>0 DEF Saturated, HealthRecord
  <2>2. ApplyResult(r, healthy) =
          [status |-> IF n >= ProbeFailures THEN "UNHEALTHY"
                      ELSE IF r.status \in {"HEALTHY", "UNKNOWN"} THEN "DEGRADED" ELSE r.status,
           failures |-> n, successes |-> 0]
    BY <1>2 DEF ApplyResult
  <2> HIDE DEF n
  <2> QED
    BY <1>0, <2>1, <2>2 DEF HealthRecord, Unhealthy
<1> QED
  BY <1>1, <1>2

\* What is kept of the records.
LEMMA KeptFacts ==
  ASSUME NEW t \in [Regs -> HealthRecord], NEW n, NEW u
  PROVE  /\ Kept(t, n, u) \in [Regs -> HealthRecord]
         /\ \A g \in Regs : Kept(t, n, u)[g] \in {t[g], NewRecord}
         /\ n \in Regs => Kept(t, n, u)[n] = t[n]
<1>1. NewRecord \in HealthRecord
  BY HealthAssumption DEF NewRecord, HealthRecord
<1> HIDE DEF HealthRecord, NewRecord, Regs
<1> QED
  BY <1>1 DEF Kept

LEMMA HealthStep == HealthInv /\ [HealthNext]_healthVars => HealthInv'
<1> SUFFICES ASSUME HealthInv, [HealthNext]_healthVars PROVE HealthInv'
  OBVIOUS
<1>0. HealthTypeOK /\ RegInv /\ UnhealthyIsHandled /\ CountInv
  BY DEF HealthInv
<1>a. /\ Kinds \subseteq {"agent", "workflow"} /\ MaxRegs \in Nat \ {0} /\ MaxEvents \in Nat
      /\ MaxRestarts \in Nat /\ Regs = 1 .. MaxRegs /\ Regs \subseteq Probers
      /\ NewRecord \in HealthRecord /\ NewRecord.status = "UNKNOWN"
  BY HealthAssumption DEF Regs, Probers, NewRecord, HealthRecord
<1>1. CASE UNCHANGED healthVars
  BY <1>0, <1>1 DEF healthVars, HealthInv, HealthTypeOK, RegInv, UnhealthyIsHandled, CountInv
<1>2. ASSUME NEW g \in Regs, LoopProbes(g) \/ LoopEnds(g) PROVE HealthInv'
  <2>1. HealthTypeOK'
    BY <1>0, <1>a, <1>2 DEF LoopProbes, LoopEnds, HealthTypeOK
  <2>2. RegInv'
    BY <1>0, <1>a, <1>2 DEF LoopProbes, LoopEnds, HealthTypeOK, RegInv
  <2>3. UnhealthyIsHandled'
    BY <1>0, <1>a, <1>2 DEF LoopProbes, LoopEnds, HealthTypeOK, UnhealthyIsHandled
  <2>4. CountInv'
    BY <1>0, <1>a, <1>2 DEF LoopProbes, LoopEnds, HealthTypeOK, CountInv
  <2> QED
    BY <2>1, <2>2, <2>3, <2>4 DEF HealthInv
<1>3. ASSUME NEW c \in Checkers, CheckNow(c) PROVE HealthInv'
  <2>1. HealthTypeOK'
    BY <1>0, <1>a, <1>3 DEF CheckNow, Probers, HealthTypeOK
  <2>2. RegInv'
    BY <1>0, <1>a, <1>3 DEF CheckNow, Probers, HealthTypeOK, RegInv
  <2>3. UnhealthyIsHandled'
    BY <1>0, <1>a, <1>3 DEF CheckNow, Probers, HealthTypeOK, UnhealthyIsHandled
  <2>4. CountInv'
    BY <1>0, <1>a, <1>3 DEF CheckNow, Probers, HealthTypeOK, CountInv
  <2> QED
    BY <2>1, <2>2, <2>3, <2>4 DEF HealthInv
<1>4. ASSUME NEW p \in Probers, NEW ok \in BOOLEAN, ProbeEnds(p, ok) PROVE HealthInv'
  <2> DEFINE g == held[p]
  <2>1. PICK r \in HealthRecord : r = ApplyResult(rec[g], ok)
    BY <1>0, <1>a, <1>4, ResultFacts DEF ProbeEnds, HealthTypeOK
  <2>2. PICK n \in {0, 1} : /\ n = Unhealthy(rec[g], r)
                            /\ r.status = "UNHEALTHY" => rec[g].status = "UNHEALTHY" \/ n = 1
    BY <1>0, <1>a, <1>4, <2>1, ResultFacts DEF ProbeEnds, HealthTypeOK
  <2>3. PICK t \in [Regs -> HealthRecord] : t = [rec EXCEPT ![g] = r]
    BY <1>0, <2>1 DEF HealthTypeOK
  <2>4. /\ events' = events + n /\ events' <= MaxEvents /\ held' = [held EXCEPT ![p] = 0]
        /\ rec' = Kept(t, reg, held') /\ g \in Regs /\ g <= regs
        /\ UNCHANGED <<ctype, reg, regs, loops, present, hpc, saved, count,
                       done, parked, dead, overlapped>>
    BY <1>0, <1>a, <1>4, <2>1, <2>2, <2>3 DEF ProbeEnds, HealthTypeOK, RegInv
  <2>5. /\ rec' \in [Regs -> HealthRecord]
        /\ \A x \in Regs : rec'[x] \in {t[x], NewRecord}
        /\ reg \in Regs => rec'[reg] = t[reg]
    BY <2>3, <2>4, KeptFacts
  <2>6. HealthTypeOK'
    <3>1. held' \in [Probers -> 0 .. MaxRegs]
      BY <1>0, <1>a, <2>4 DEF HealthTypeOK
    <3>2. events' \in 0 .. MaxEvents
      BY <1>0, <1>a, <2>2, <2>4 DEF HealthTypeOK
    <3> QED
      BY <1>0, <2>4, <2>5, <3>1, <3>2 DEF HealthTypeOK
  <2>7. RegInv'
    <3>1. \A q \in Probers : held'[q] <= regs'
      BY <1>0, <1>a, <2>4 DEF HealthTypeOK, RegInv
    <3>2. ASSUME NEW x \in Regs, x > regs PROVE rec'[x] = NewRecord
      <4>1. x # g /\ t[x] = rec[x]
        BY <1>0, <1>a, <2>3, <2>4, <3>2 DEF HealthTypeOK
      <4> QED
        BY <1>0, <2>5, <3>2, <4>1 DEF RegInv
    <3> QED
      BY <1>0, <2>4, <3>1, <3>2 DEF RegInv
  <2>8. UnhealthyIsHandled'
    <3> SUFFICES ASSUME reg # 0, rec'[reg].status = "UNHEALTHY"
                 PROVE  events' > 0 \/ parked \/ \E h \in Handlers : hpc[h] # "idle"
      BY <2>4 DEF UnhealthyIsHandled
    <3>1. reg \in Regs /\ t[reg].status = "UNHEALTHY" /\ events \in Nat
      BY <1>0, <1>a, <2>5 DEF HealthTypeOK
    <3>2. rec[reg].status = "UNHEALTHY" \/ n = 1
      BY <1>0, <2>2, <2>3, <2>4, <3>1 DEF HealthTypeOK
    <3>3. CASE n = 1
      BY <2>4, <3>1, <3>3
    <3>4. CASE rec[reg].status = "UNHEALTHY"
      BY <1>0, <2>2, <2>4, <3>1, <3>4 DEF UnhealthyIsHandled
    <3> QED
      BY <3>2, <3>3, <3>4
  <2>9. CountInv'
    BY <1>0, <2>4 DEF CountInv
  <2> QED
    BY <2>6, <2>7, <2>8, <2>9 DEF HealthInv
<1>5. ASSUME NEW h \in Handlers, HandleEscalate(h) PROVE HealthInv'
  <2>1. HealthTypeOK'
    BY <1>0, <1>a, <1>5 DEF HandleEscalate, HealthTypeOK
  <2>2. RegInv'
    BY <1>0, <1>a, <1>5 DEF HandleEscalate, HealthTypeOK, RegInv
  <2>3. UnhealthyIsHandled'
    BY <1>0, <1>a, <1>5 DEF HandleEscalate, HealthTypeOK, UnhealthyIsHandled
  <2>4. CountInv'
    BY <1>0, <1>a, <1>5 DEF HandleEscalate, HealthTypeOK, CountInv
  <2> QED
    BY <2>1, <2>2, <2>3, <2>4 DEF HealthInv
<1>6. ASSUME NEW h \in Handlers, HandleWorkflow(h) PROVE HealthInv'
  <2>1. HealthTypeOK'
    BY <1>0, <1>a, <1>6 DEF HandleWorkflow, HealthTypeOK
  <2>2. RegInv'
    BY <1>0, <1>a, <1>6 DEF HandleWorkflow, HealthTypeOK, RegInv
  <2>3. UnhealthyIsHandled'
    BY <1>0, <1>a, <1>6 DEF HandleWorkflow, HealthTypeOK, UnhealthyIsHandled
  <2>4. CountInv'
    BY <1>0, <1>a, <1>6 DEF HandleWorkflow, HealthTypeOK, CountInv
  <2> QED
    BY <2>1, <2>2, <2>3, <2>4 DEF HealthInv
<1>7. ASSUME NEW h \in Handlers, HandleMissing(h) PROVE HealthInv'
  <2>1. HealthTypeOK'
    BY <1>0, <1>a, <1>7 DEF HandleMissing, HealthTypeOK
  <2>2. RegInv'
    BY <1>0, <1>a, <1>7 DEF HandleMissing, HealthTypeOK, RegInv
  <2>3. UnhealthyIsHandled'
    BY <1>0, <1>a, <1>7 DEF HandleMissing, HealthTypeOK, UnhealthyIsHandled
  <2>4. CountInv'
    BY <1>0, <1>a, <1>7 DEF HandleMissing, HealthTypeOK, CountInv
  <2> QED
    BY <2>1, <2>2, <2>3, <2>4 DEF HealthInv
<1>8. ASSUME NEW h \in Handlers, HandleRestart(h) PROVE HealthInv'
  <2>1. HealthTypeOK'
    BY <1>0, <1>a, <1>8 DEF HandleRestart, HealthTypeOK
  <2>2. RegInv'
    BY <1>0, <1>a, <1>8 DEF HandleRestart, HealthTypeOK, RegInv
  <2>3. UnhealthyIsHandled'
    BY <1>0, <1>a, <1>8 DEF HandleRestart, HealthTypeOK, UnhealthyIsHandled
  <2>4. CountInv'
    BY <1>0, <1>a, <1>8 DEF HandleRestart, HealthTypeOK, CountInv
  <2> QED
    BY <2>1, <2>2, <2>3, <2>4 DEF HealthInv
<1>9. ASSUME NEW h \in Handlers, AgentStopped(h) PROVE HealthInv'
  <2>1. /\ present' = FALSE /\ reg' = 0 /\ loops' = loops \ {reg} /\ hpc[h] = "stop"
        /\ held' = [p \in Probers |-> IF p = reg THEN 0 ELSE held[p]]
        /\ rec' = Kept(rec, 0, held') /\ hpc' = [hpc EXCEPT ![h] = "start"]
        /\ UNCHANGED <<ctype, regs, events, saved, count, done, parked, dead, overlapped>>
    BY <1>9 DEF AgentStopped
  <2>2. rec' \in [Regs -> HealthRecord] /\ \A x \in Regs : rec'[x] \in {rec[x], NewRecord}
    BY <1>0, <2>1, KeptFacts DEF HealthTypeOK
  <2>3. HealthTypeOK'
    <3>1. held' \in [Probers -> 0 .. MaxRegs] /\ loops' \subseteq Regs /\ reg' \in 0 .. MaxRegs
      BY <1>0, <1>a, <2>1 DEF HealthTypeOK
    <3>2. hpc' \in [Handlers -> {"idle", "stop", "start"}]
      BY <1>0, <2>1 DEF HealthTypeOK
    <3> QED
      BY <1>0, <2>1, <2>2, <3>1, <3>2 DEF HealthTypeOK
  <2>4. RegInv'
    BY <1>0, <1>a, <2>1, <2>2 DEF HealthTypeOK, RegInv
  <2>5. UnhealthyIsHandled'
    BY <2>1 DEF UnhealthyIsHandled
  <2>6. CountInv'
    BY <1>0, <2>1 DEF CountInv, HealthTypeOK
  <2> QED
    BY <2>3, <2>4, <2>5, <2>6 DEF HealthInv
<1>10. ASSUME NEW h \in Handlers, AgentStarted(h) PROVE HealthInv'
  <2>1. /\ hpc[h] = "start" /\ regs < MaxRegs /\ present' = TRUE
        /\ regs' = regs + 1 /\ reg' = regs + 1 /\ loops' = loops \cup {regs + 1}
        /\ hpc' = [hpc EXCEPT ![h] = "idle"] /\ rec' = Kept(rec, reg', held)
        /\ count' = saved[h] + 1 /\ saved' = [saved EXCEPT ![h] = 0] /\ done' = done + 1
        /\ UNCHANGED <<ctype, held, events, parked, dead, overlapped>>
    BY <1>10 DEF AgentStarted
  <2>2. regs + 1 \in Regs /\ rec[regs + 1] = NewRecord
    BY <1>0, <1>a, <2>1 DEF HealthTypeOK, RegInv
  <2>3. /\ rec' \in [Regs -> HealthRecord] /\ \A x \in Regs : rec'[x] \in {rec[x], NewRecord}
    BY <1>0, <2>1, KeptFacts DEF HealthTypeOK
  <2>4. rec'[regs + 1] = NewRecord
    BY <2>2, <2>3
  <2>5. HealthTypeOK'
    BY <1>0, <1>a, <2>1, <2>2, <2>3 DEF HealthTypeOK
  <2>6. RegInv'
    BY <1>0, <1>a, <2>1, <2>2, <2>3 DEF HealthTypeOK, RegInv
  <2>7. UnhealthyIsHandled'
    BY <1>a, <2>1, <2>4 DEF UnhealthyIsHandled
  <2>8. CountInv'
    BY <1>0, <1>a, <2>1 DEF CountInv, HealthTypeOK
  <2> QED
    BY <2>5, <2>6, <2>7, <2>8 DEF HealthInv
<1>11. ASSUME NEW h \in Handlers, RestartFails(h) PROVE HealthInv'
  <2>1. HealthTypeOK'
    BY <1>0, <1>a, <1>11 DEF RestartFails, HealthTypeOK
  <2>2. RegInv'
    BY <1>0, <1>a, <1>11 DEF RestartFails, HealthTypeOK, RegInv
  <2>3. UnhealthyIsHandled'
    BY <1>0, <1>a, <1>11 DEF RestartFails, HealthTypeOK, UnhealthyIsHandled
  <2>4. CountInv'
    BY <1>0, <1>a, <1>11 DEF RestartFails, HealthTypeOK, CountInv
  <2> QED
    BY <2>1, <2>2, <2>3, <2>4 DEF HealthInv
<1>12. ASSUME Breaks PROVE HealthInv'
  <2>1. HealthTypeOK'
    BY <1>0, <1>a, <1>12 DEF Breaks, HealthTypeOK
  <2>2. RegInv'
    BY <1>0, <1>a, <1>12 DEF Breaks, HealthTypeOK, RegInv
  <2>3. UnhealthyIsHandled'
    BY <1>0, <1>a, <1>12 DEF Breaks, HealthTypeOK, UnhealthyIsHandled
  <2>4. CountInv'
    BY <1>0, <1>a, <1>12 DEF Breaks, HealthTypeOK, CountInv
  <2> QED
    BY <2>1, <2>2, <2>3, <2>4 DEF HealthInv
<1> QED
  BY <1>1, <1>2, <1>3, <1>4, <1>5, <1>6, <1>7, <1>8, <1>9, <1>10, <1>11, <1>12
     DEF HealthNext, Monitor, Recover

\* The records, registrations and counts of the monitor and the recovery engine keep
\* their types for every number of handlers, checkers and thresholds.
THEOREM HealthTypeCorrect == HealthSpec => []HealthInv
<1>1. HealthInit => HealthInv
  <2> SUFFICES ASSUME HealthInit PROVE HealthInv
    OBVIOUS
  <2>1. /\ Kinds \subseteq {"agent", "workflow"} /\ MaxRegs \in Nat \ {0} /\ MaxEvents \in Nat
        /\ MaxRestarts \in Nat /\ Regs = 1 .. MaxRegs
        /\ NewRecord \in HealthRecord /\ NewRecord.status = "UNKNOWN"
    BY HealthAssumption DEF Regs, NewRecord, HealthRecord
  <2>2. HealthTypeOK
    <3>1. rec \in [Regs -> HealthRecord] /\ held \in [Probers -> 0 .. MaxRegs]
          /\ loops \subseteq Regs /\ reg \in 0 .. MaxRegs /\ regs \in Regs
      BY <2>1 DEF HealthInit
    <3>2. events \in 0 .. MaxEvents /\ hpc \in [Handlers -> {"idle", "stop", "start"}]
          /\ saved \in [Handlers -> Nat] /\ count \in Nat /\ done \in Nat
      BY <2>1 DEF HealthInit
    <3> QED
      BY <3>1, <3>2 DEF HealthInit, HealthTypeOK
  <2> QED
    BY <2>1, <2>2 DEF HealthInit, HealthInv, RegInv, UnhealthyIsHandled, CountInv
<1> QED
  BY <1>1, HealthStep, PTL DEF HealthSpec

\* An UNHEALTHY component is never forgotten, however many recoveries overlap: an
\* event or a recovery is under way, or it is in the dead-letter queue (health.py
\* _emit_transition, on_unhealthy, _restart_agent).
THEOREM UnhealthyIsHandledCorrect == HealthSpec => []UnhealthyIsHandled
<1>1. HealthInv => UnhealthyIsHandled
  BY DEF HealthInv
<1> QED
  BY <1>1, HealthTypeCorrect, PTL

\* Recoveries that have not overlapped restart a component at most max_restarts times
\* (health.py RecoveryEngine).
THEOREM RestartsBoundedCorrect == HealthSpec => []RestartsBounded
<1>1. HealthInv => RestartsBounded
  BY HealthAssumption DEF HealthInv, HealthTypeOK, CountInv, RestartsBounded
<1> QED
  BY <1>1, HealthTypeCorrect, PTL

-----------------------------------------------------------------------------
(* Observability.                                                              *)

\* q has the newest ids up to n of those after b, in order, as many as memory holds.
IsWindow(q, n, b) ==
  /\ Len(q) <= SpansLimit /\ Len(q) <= n - b
  /\ Len(q) = SpansLimit \/ Len(q) = n - b
  /\ \A k \in 1 .. Len(q) : q[k] = n - Len(q) + k

\* A run has one or two spans, started by this process.
RunInv ==
  \A w \in Runners :
    \/ run[w] = NoRun
    \/ /\ run[w].kind # "none" /\ Len(run[w].ids) \in {1, 2}
       /\ \A k \in 1 .. Len(run[w].ids) : run[w].ids[k] \in booted + 1 .. Len(rows)

SpanInv == booted <= Len(rows) /\ IsWindow(spans, Len(rows), booted)

ObsInv == ObsTypeOK /\ RunInv /\ SpanInv /\ RecentSpansSettle

\* Starting one more span moves the window by one.
LEMMA WindowMoves ==
  ASSUME NEW q \in Seq(Nat), NEW n \in Nat, NEW b \in Nat, b <= n, IsWindow(q, n, b)
  PROVE  SpanStarted(q, n + 1) \in Seq(Nat) /\ IsWindow(SpanStarted(q, n + 1), n + 1, b)
<1>0. PICK m \in Nat, limit \in Nat : m = Len(q) /\ limit = SpansLimit /\ limit > 0
  BY ObsAssumption
<1>w. /\ m <= limit /\ m <= n - b /\ (m = limit \/ m = n - b)
      /\ \A k \in 1 .. m : q[k] = n - m + k
  BY <1>0 DEF IsWindow
<1>1. PICK all \in Seq(Nat) :
        /\ all = Append(q, n + 1) /\ Len(all) = m + 1
        /\ (\A k \in 1 .. m : all[k] = q[k]) /\ all[m + 1] = n + 1
  <2>1. n + 1 \in Nat
    OBVIOUS
  <2>2. Append(q, n + 1) \in Seq(Nat) /\ Len(Append(q, n + 1)) = Len(q) + 1
    BY <2>1, AppendProperties
  <2>3. /\ \A k \in 1 .. Len(q) : Append(q, n + 1)[k] = q[k]
        /\ Append(q, n + 1)[Len(q) + 1] = n + 1
    BY <2>1, AppendProperties
  <2> QED
    BY <1>0, <2>2, <2>3
<1>2. \A k \in 1 .. m + 1 : all[k] = n - m + k
  <2> SUFFICES ASSUME NEW k \in 1 .. m + 1 PROVE all[k] = n - m + k
    OBVIOUS
  <2>1. CASE k = m + 1
    BY <1>1, <2>1
  <2>2. CASE k \in 1 .. m
    BY <1>1, <1>w, <2>2
  <2> QED
    BY <2>1, <2>2
<1>3. CASE m = limit
  <2>1. SpanStarted(q, n + 1) = Tail(all)
    <3>1. Len(all) > SpansLimit
      BY <1>0, <1>1, <1>3
    <3> QED
      BY <1>1, <3>1 DEF SpanStarted
  <2>2. PICK r \in Seq(Nat) : /\ r = Tail(all) /\ Len(r) = m
                              /\ \A k \in 1 .. m : r[k] = all[k + 1]
    <3>1. all # <<>>
      BY <1>1, EmptySeq
    <3>2. Tail(all) \in Seq(Nat) /\ Len(Tail(all)) = Len(all) - 1
          /\ \A k \in 1 .. Len(Tail(all)) : Tail(all)[k] = all[k + 1]
      BY <3>1, HeadTailProperties
    <3>3. Len(Tail(all)) = m
      BY <1>1, <3>2
    <3> QED
      BY <3>2, <3>3
  <2>3. \A k \in 1 .. m : r[k] = n + 1 - m + k
    <3> SUFFICES ASSUME NEW k \in 1 .. m PROVE r[k] = n + 1 - m + k
      OBVIOUS
    <3>1. k + 1 \in 1 .. m + 1
      OBVIOUS
    <3>2. r[k] = n - m + (k + 1)
      BY <1>2, <2>2, <3>1
    <3> QED
      BY <3>2
  <2>4. m <= n + 1 - b
    BY <1>w
  <2>5. IsWindow(r, n + 1, b)
    <3>1. Len(r) <= SpansLimit /\ Len(r) <= n + 1 - b /\ Len(r) = SpansLimit
      BY <1>0, <1>3, <2>2, <2>4
    <3>2. \A k \in 1 .. Len(r) : r[k] = n + 1 - Len(r) + k
      BY <2>2, <2>3
    <3> QED
      BY <3>1, <3>2 DEF IsWindow
  <2> QED
    BY <2>1, <2>2, <2>5
<1>4. CASE m # limit
  <2>1. SpanStarted(q, n + 1) = all
    <3>1. ~ (Len(all) > SpansLimit)
      BY <1>0, <1>1, <1>w, <1>4
    <3> QED
      BY <1>1, <3>1 DEF SpanStarted
  <2>2. m + 1 = n + 1 - b /\ m + 1 <= limit
    BY <1>w, <1>4
  <2>3. \A k \in 1 .. m + 1 : all[k] = n + 1 - (m + 1) + k
    BY <1>2
  <2>4. IsWindow(all, n + 1, b)
    BY <1>0, <1>1, <2>2, <2>3 DEF IsWindow
  <2> QED
    BY <1>1, <2>1, <2>4
<1> QED
  BY <1>3, <1>4

\* A recent span is in memory.
LEMMA RecentIsHeld ==
  ASSUME NEW q \in Seq(Nat), NEW n \in Nat, NEW b \in Nat, IsWindow(q, n, b),
         NEW i \in b + 1 .. n, i > n - SpansLimit
  PROVE  i \in ToSet(q)
<1>0. PICK m \in Nat, limit \in Nat : m = Len(q) /\ limit = SpansLimit /\ DOMAIN q = 1 .. m
  BY ObsAssumption, LenProperties
<1>w. /\ m <= limit /\ m <= n - b /\ (m = limit \/ m = n - b)
      /\ \A k \in 1 .. m : q[k] = n - m + k
  BY <1>0 DEF IsWindow
<1>1. PICK k \in 1 .. m : k = i - n + m
  <2>1. i > n - limit /\ i \in Int /\ b + 1 <= i /\ i <= n
    BY <1>0
  <2>2. i - n + m >= 1 /\ i - n + m <= m /\ i - n + m \in Int
    BY <1>w, <2>1
  <2> QED
    BY <2>2
<1>2. q[k] = i
  BY <1>w, <1>1
<1> QED
  BY <1>0, <1>2 DEF ToSet

\* Finishing a span closes it if memory holds it, and opens none.
LEMMA FinishFacts ==
  ASSUME NEW t \in Seq({"open", "ok"}), NEW i \in 1 .. Len(t)
  PROVE  /\ SpanFinished(t, i, "ok") \in Seq({"open", "ok"})
         /\ Len(SpanFinished(t, i, "ok")) = Len(t)
         /\ \A j \in 1 .. Len(t) : SpanFinished(t, i, "ok")[j] = "open" => t[j] = "open"
         /\ i \in ToSet(spans) => SpanFinished(t, i, "ok")[i] = "ok"
<1> DEFINE r == [t EXCEPT ![i] = "ok"]
<1>1. r \in Seq({"open", "ok"}) /\ Len(r) = Len(t)
      /\ \A j \in 1 .. Len(t) : r[j] = IF j = i THEN "ok" ELSE t[j]
  BY ExceptSeq
<1>2. SpanFinished(t, i, "ok") = IF i \in ToSet(spans) THEN r ELSE t
  BY DEF SpanFinished
<1> HIDE DEF r
<1>3. CASE i \in ToSet(spans)
  BY <1>1, <1>2, <1>3
<1>4. CASE i \notin ToSet(spans)
  BY <1>2, <1>4
<1> QED
  BY <1>3, <1>4

\* The same for all the spans of a run.
LEMMA RunFinishFacts ==
  ASSUME NEW t \in Seq({"open", "ok"}), NEW q \in Seq(Nat), Len(q) \in {1, 2},
         \A k \in 1 .. Len(q) : q[k] \in 1 .. Len(t)
  PROVE  /\ RunFinished(t, q) \in Seq({"open", "ok"})
         /\ Len(RunFinished(t, q)) = Len(t)
         /\ \A j \in 1 .. Len(t) : RunFinished(t, q)[j] = "open" => t[j] = "open"
         /\ \A j \in ToSet(q) \cap ToSet(spans) : RunFinished(t, q)[j] = "ok"
<1>0. DOMAIN q = 1 .. Len(q)
  BY LenProperties
<1>1. CASE Len(q) = 1
  <2>1. PICK a \in 1 .. Len(t) : q[1] = a /\ ToSet(q) = {a}
    BY <1>0, <1>1 DEF ToSet
  <2>2. RunFinished(t, q) = SpanFinished(t, a, "ok")
    BY <1>1, <2>1 DEF RunFinished
  <2> QED
    BY <2>1, <2>2, FinishFacts
<1>2. CASE Len(q) = 2
  <2>1. PICK a \in 1 .. Len(t), c \in 1 .. Len(t) : q[1] = a /\ q[2] = c /\ ToSet(q) = {a, c}
    BY <1>0, <1>2 DEF ToSet
  <2>2. PICK u \in Seq({"open", "ok"}) :
          /\ u = SpanFinished(t, c, "ok") /\ Len(u) = Len(t)
          /\ \A j \in 1 .. Len(t) : u[j] = "open" => t[j] = "open"
          /\ c \in ToSet(spans) => u[c] = "ok"
    BY FinishFacts
  <2>3. PICK v \in Seq({"open", "ok"}) :
          /\ v = SpanFinished(u, a, "ok") /\ Len(v) = Len(u)
          /\ \A j \in 1 .. Len(u) : v[j] = "open" => u[j] = "open"
          /\ a \in ToSet(spans) => v[a] = "ok"
    <3>1. a \in 1 .. Len(u)
      BY <2>2
    <3> QED
      BY <3>1, FinishFacts
  <2>4. RunFinished(t, q) = v
    BY <1>2, <2>1, <2>2, <2>3 DEF RunFinished
  <2>5. c \in ToSet(spans) => v[c] = "ok"
    <3>1. v[c] \in {"open", "ok"} /\ (v[c] = "open" => u[c] = "open")
      BY <2>2, <2>3
    <3> QED
      BY <2>2, <3>1
  <2> QED
    BY <2>1, <2>2, <2>3, <2>4, <2>5
<1> QED
  BY <1>1, <1>2

\* Metrics and logs stay within their types.
LEMMA MetricsType ==
  ASSUME ObsTypeOK, NEW q \in Seq(MetricNames), RecordMetrics(q)
  PROVE  samples' \in Seq(MetricNames) /\ counters' \in [MetricNames -> Nat]
<1>0. MetricsLimit \in Nat /\ Len(q) \in Nat /\ DOMAIN q = 1 .. Len(q)
  BY ObsAssumption, LenProperties
<1>1. PICK s \in Seq(MetricNames) : s = samples \o q
  BY ConcatProperties DEF ObsTypeOK
<1>2. samples' = IF Len(s) > MetricsLimit THEN SubSeq(s, Len(s) - MetricsLimit + 1, Len(s)) ELSE s
  BY <1>1 DEF RecordMetrics, Newest
<1>3. samples' \in Seq(MetricNames)
  <2>1. Len(s) \in Nat /\ \A i \in 1 .. Len(s) : s[i] \in MetricNames
    BY ElementOfSeq
  <2>2. Len(s) > MetricsLimit => SubSeq(s, Len(s) - MetricsLimit + 1, Len(s)) \in Seq(MetricNames)
    BY <1>0, <2>1, SubSeqProperties
  <2> QED
    BY <1>2, <2>2
<1> DEFINE Card(n) == Cardinality({k \in DOMAIN q : q[k] = n})
<1>4. ASSUME NEW n PROVE Card(n) \in Nat
  <2>1. IsFiniteSet(1 .. Len(q))
    BY <1>0, FS_Interval
  <2>2. IsFiniteSet({k \in DOMAIN q : q[k] = n})
    BY <1>0, <2>1, FS_Subset
  <2> QED
    BY <2>2, FS_CardinalityType
<1>5. counters' = [n \in MetricNames |-> counters[n] + Card(n)]
  BY DEF RecordMetrics
<1>6. counters \in [MetricNames -> Nat]
  BY DEF ObsTypeOK
<1> HIDE DEF MetricNames, Card
<1>7. counters' \in [MetricNames -> Nat]
  BY <1>4, <1>5, <1>6
<1> QED
  BY <1>3, <1>7

LEMMA LogType ==
  ASSUME ObsTypeOK, NEW l \in {"debug", "info", "error"}, Log(l)
  PROVE  logs' \in Seq({"debug", "info", "error"}) /\ errors' \in Nat
<1> DEFINE L == {"debug", "info", "error"}
<1>1. LogsLimit \in Nat /\ l \in L /\ logs \in Seq(L)
  BY ObsAssumption DEF ObsTypeOK
<1> HIDE DEF L
<1>2. PICK s \in Seq(L) : s = Append(logs, l)
  BY <1>1, AppendProperties
<1>3. logs' = IF Len(s) > LogsLimit THEN SubSeq(s, Len(s) - LogsLimit + 1, Len(s)) ELSE s
  BY <1>2 DEF Log, Newest
<1>4. logs' \in Seq(L)
  <2>1. Len(s) \in Nat /\ \A i \in 1 .. Len(s) : s[i] \in L
    BY ElementOfSeq
  <2>2. Len(s) > LogsLimit => SubSeq(s, Len(s) - LogsLimit + 1, Len(s)) \in Seq(L)
    BY <1>1, <2>1, SubSeqProperties
  <2> QED
    BY <1>3, <2>2
<1>5. errors' \in Nat
  BY DEF Log, ObsTypeOK
<1> QED
  BY <1>4, <1>5 DEF L

\* What the end of a run leaves behind: a span that is recent and open was so before,
\* and not because of this run.
LEMMA RunEndStep ==
  ASSUME ObsInv, NEW w \in Runners, run[w] # NoRun,
         NEW t \in Seq({"open", "ok"}), rows' = t, Len(t) = Len(rows),
         \A j \in 1 .. Len(rows) : t[j] = "open" => rows[j] = "open",
         \A j \in ToSet(run[w].ids) \cap ToSet(spans) : t[j] = "ok" \/ j \in left',
         run' = [run EXCEPT ![w] = NoRun], left \subseteq left', UNCHANGED <<spans, booted>>
  PROVE  RunInv' /\ SpanInv' /\ RecentSpansSettle'
<1>0. ObsTypeOK /\ RunInv /\ SpanInv /\ RecentSpansSettle
  BY DEF ObsInv
<1>1. run \in [Runners -> RunState] /\ booted \in Nat /\ Len(rows) \in Nat /\ spans \in Seq(Nat)
  BY <1>0 DEF ObsTypeOK
<1>2. run'[w] = NoRun /\ \A x \in Runners \ {w} : run'[x] = run[x]
  BY <1>1
<1>3. RunInv'
  BY <1>0, <1>2 DEF RunInv
<1>4. SpanInv'
  BY <1>0 DEF SpanInv, IsWindow
<1>5. RecentSpansSettle'
  <2> SUFFICES ASSUME NEW i \in booted + 1 .. Len(rows), t[i] = "open", i > Len(rows) - SpansLimit
               PROVE  i \in left' \/ \E x \in Runners : i \in ToSet(run'[x].ids)
    BY DEF RecentSpansSettle, ToSet
  <2>1. rows[i] = "open"
    BY <1>1
  <2>2. i \in ToSet(spans)
    BY <1>0, <1>1, RecentIsHeld DEF SpanInv
  <2>3. i \in left \/ \E x \in Runners : i \in ToSet(run[x].ids)
    BY <1>0, <2>1 DEF RecentSpansSettle
  <2>4. CASE i \in left
    BY <2>4
  <2>5. ASSUME NEW x \in Runners, i \in ToSet(run[x].ids)
        PROVE  i \in left' \/ \E y \in Runners : i \in ToSet(run'[y].ids)
    <3>1. CASE x = w
      BY <2>2, <2>5, <3>1
    <3>2. CASE x # w
      BY <1>2, <2>5, <3>2
    <3> QED
      BY <3>1, <3>2
  <2> QED
    BY <2>3, <2>4, <2>5
<1> QED
  BY <1>3, <1>4, <1>5

LEMMA ObsStep == ObsInv /\ [ObsNext]_obsVars => ObsInv'
<1> SUFFICES ASSUME ObsInv, [ObsNext]_obsVars PROVE ObsInv'
  OBVIOUS
<1>0. ObsTypeOK /\ RunInv /\ SpanInv /\ RecentSpansSettle
  BY DEF ObsInv
<1>a. /\ spans \in Seq(Nat) /\ rows \in Seq({"open", "ok"}) /\ Len(rows) \in Nat
      /\ run \in [Runners -> RunState] /\ booted \in Nat /\ left \subseteq Nat
      /\ booted <= Len(rows) /\ IsWindow(spans, Len(rows), booted)
  BY <1>0 DEF ObsTypeOK, SpanInv
<1>n. NoRun \in RunState /\ NoRun.kind = "none" /\ NoRun.ids = <<>>
  <2>1. <<>> \in Seq(Nat)
    OBVIOUS
  <2> QED
    BY <2>1 DEF NoRun, RunState
<1>1. CASE UNCHANGED obsVars
  BY <1>0, <1>1 DEF obsVars, ObsInv, ObsTypeOK, RunInv, SpanInv, IsWindow, RecentSpansSettle, ToSet
<1>2. CASE ObsRestart
  <2>1. /\ spans' = <<>> /\ samples' = <<>> /\ logs' = <<>> /\ rows' = rows
        /\ counters' = [n \in DOMAIN counters |-> 0] /\ errors' = 0
        /\ run' = [v \in Runners |-> NoRun] /\ booted' = Len(rows) /\ left' = {}
    BY <1>2 DEF ObsRestart
  <2>2. ObsTypeOK'
    <3>1. counters' \in [MetricNames -> Nat]
      BY <1>0, <2>1 DEF ObsTypeOK
    <3>2. run' \in [Runners -> RunState]
      BY <1>n, <2>1
    <3> QED
      BY <1>a, <2>1, <3>1, <3>2 DEF ObsTypeOK
  <2>3. SpanInv'
    <3>1. Len(<<>>) = 0
      BY EmptySeq
    <3>2. SpansLimit \in Nat
      BY ObsAssumption
    <3>3. IsWindow(<<>>, Len(rows), Len(rows))
      BY <1>a, <3>1, <3>2 DEF IsWindow
    <3> QED
      BY <1>a, <2>1, <3>3 DEF SpanInv, IsWindow
  <2>4. RunInv'
    BY <2>1 DEF RunInv
  <2>5. RecentSpansSettle'
    BY <1>a, <2>1 DEF RecentSpansSettle
  <2> QED
    BY <2>2, <2>3, <2>4, <2>5 DEF ObsInv
<1>3. ASSUME NEW w \in Runners, NEW kind \in {"agent", "workflow", "context"}, RunBegins(w, kind)
      PROVE  ObsInv'
  <2>1. PICK m \in {1, 2} : m = IF kind = "context" THEN 2 ELSE 1
    OBVIOUS
  <2>2. PICK n \in Nat : n = Len(rows)
    BY <1>a
  <2>3. PICK q \in Seq(Nat) : /\ q = Fresh(m) /\ Len(q) = m /\ DOMAIN q = 1 .. m
                              /\ \A k \in 1 .. m : q[k] = n + k
    <3>1. [k \in 1 .. m |-> n + k] \in Seq(Nat)
      BY <2>1, <2>2
    <3>2. Fresh(m) = [k \in 1 .. m |-> n + k]
      BY <2>2 DEF Fresh
    <3>3. Len([k \in 1 .. m |-> n + k]) = m
      BY <2>1, <3>1
    <3> QED
      BY <3>1, <3>2, <3>3
  <2>4. /\ run[w] = NoRun /\ run' = [run EXCEPT ![w] = [kind |-> kind, ids |-> q]]
        /\ spans' = RunStarted(spans, q) /\ rows' = rows \o [k \in DOMAIN q |-> "open"]
        /\ IF kind = "agent" THEN Log("debug") ELSE UNCHANGED <<logs, errors>>
        /\ UNCHANGED <<samples, counters, booted, left>>
    BY <1>3, <2>1, <2>3 DEF RunBegins
  <2>5. rows' \in Seq({"open", "ok"}) /\ Len(rows') = n + m
        /\ \A j \in 1 .. n : rows'[j] = rows[j]
    <3>1. PICK u \in Seq({"open", "ok"}) : u = [k \in 1 .. m |-> "open"] /\ Len(u) = m
      <4>1. [k \in 1 .. m |-> "open"] \in Seq({"open", "ok"})
        BY <2>1
      <4>2. Len([k \in 1 .. m |-> "open"]) = m
        BY <2>1, <4>1
      <4> QED
        BY <4>1, <4>2
    <3>2. rows' = rows \o u
      BY <2>3, <2>4, <3>1
    <3>3. /\ rows \o u \in Seq({"open", "ok"}) /\ Len(rows \o u) = Len(rows) + Len(u)
          /\ \A j \in 1 .. Len(rows) + Len(u) :
               (rows \o u)[j] = IF j <= Len(rows) THEN rows[j] ELSE u[j - Len(rows)]
      BY <1>a, ConcatProperties
    <3> QED
      BY <2>1, <2>2, <3>1, <3>2, <3>3
  <2>6. spans' \in Seq(Nat) /\ IsWindow(spans', n + m, booted)
    <3>1. PICK s \in Seq(Nat) : s = SpanStarted(spans, n + 1) /\ IsWindow(s, n + 1, booted)
      BY <1>a, <2>2, WindowMoves
    <3>2. CASE m = 1
      <4>1. spans' = s
        BY <2>3, <2>4, <3>1, <3>2 DEF RunStarted
      <4> QED
        BY <3>1, <3>2, <4>1
    <3>3. CASE m = 2
      <4>1. spans' = SpanStarted(s, n + 1 + 1)
        BY <2>3, <2>4, <3>1, <3>3 DEF RunStarted
      <4>2. n + 1 \in Nat /\ booted <= n + 1 /\ n + 1 + 1 = n + m
        BY <1>a, <2>2, <3>3
      <4> QED
        BY <1>a, <3>1, <4>1, <4>2, WindowMoves
    <3> QED
      BY <2>1, <3>2, <3>3
  <2>7. [kind |-> kind, ids |-> q] \in RunState
    BY DEF RunState
  <2>8. PICK r \in RunState : r = [kind |-> kind, ids |-> q] /\ r.kind = kind /\ r.ids = q
    BY <2>7
  <2>9. run' = [run EXCEPT ![w] = r] /\ run' \in [Runners -> RunState] /\ run'[w] = r
        /\ \A x \in Runners \ {w} : run'[x] = run[x]
    BY <1>a, <2>4, <2>8
  <2>10. logs' \in Seq({"debug", "info", "error"}) /\ errors' \in Nat
    BY <1>0, <2>4, LogType DEF ObsTypeOK
  <2>11. ObsTypeOK'
    BY <1>0, <2>4, <2>5, <2>6, <2>9, <2>10 DEF ObsTypeOK
  <2>c. PICK p \in Nat : p = n + m /\ p = Len(rows')
    BY <2>1, <2>2, <2>5
  <2>12. SpanInv'
    <3>1. PICK s \in Seq(Nat) : s = spans' /\ IsWindow(s, p, booted)
      BY <2>6, <2>c
    <3>2. booted <= p /\ booted' = booted
      BY <1>a, <2>1, <2>2, <2>4, <2>c
    <3>3. booted' <= Len(rows')
      BY <3>2, <2>c
    <3>4. /\ Len(s) <= SpansLimit /\ Len(s) <= p - booted
          /\ Len(s) = SpansLimit \/ Len(s) = p - booted
          /\ \A k \in 1 .. Len(s) : s[k] = p - Len(s) + k
      BY <3>1 DEF IsWindow
    <3>5. IsWindow(spans', Len(rows'), booted')
      BY <3>1, <3>2, <3>4, <2>c DEF IsWindow
    <3> QED
      BY <3>3, <3>5 DEF SpanInv, IsWindow
  <2>13. RunInv'
    <3>1. ASSUME NEW x \in Runners, x # w PROVE RunInv!(x)'
      <4>1. \/ run'[x] = NoRun
            \/ /\ run'[x].kind # "none" /\ Len(run'[x].ids) \in {1, 2}
               /\ \A k \in 1 .. Len(run'[x].ids) : run'[x].ids[k] \in booted + 1 .. n
        BY <1>0, <2>2, <2>9, <3>1 DEF RunInv
      <4>2. booted + 1 .. n \subseteq booted + 1 .. n + m
        BY <1>a, <2>1, <2>2
      <4> QED
        BY <2>4, <2>5, <4>1, <4>2
    <3>2. RunInv!(w)'
      <4>1. \A k \in 1 .. m : q[k] \in booted + 1 .. n + m
        BY <1>a, <2>1, <2>2, <2>3
      <4>2. run'[w].kind # "none" /\ run'[w].ids = q
        BY <2>8, <2>9
      <4>3. Len(q) = m /\ m \in {1, 2}
        BY <2>1, <2>3
      <4>4. booted' = booted /\ Len(rows') = n + m
        BY <2>4, <2>5
      <4> QED
        BY <4>1, <4>2, <4>3, <4>4
    <3> QED
      BY <3>1, <3>2 DEF RunInv
  <2>14. RecentSpansSettle'
    <3>0. booted' = booted /\ left' = left
      BY <2>4
    <3> SUFFICES ASSUME NEW i \in booted' + 1 .. Len(rows'), rows'[i] = "open",
                        i > Len(rows') - SpansLimit
                 PROVE  i \in left' \/ \E x \in Runners : i \in ToSet(run'[x].ids)
      BY DEF RecentSpansSettle, ToSet
    <3>i. i \in booted + 1 .. n + m /\ i > n + m - SpansLimit
      <4>1. PICK l \in Nat : l = Len(rows') /\ l = n + m
        BY <2>c
      <4>2. i \in booted + 1 .. l /\ i > l - SpansLimit
        BY <3>0, <4>1
      <4>3. l = n + m
        BY <4>1
      <4>4. SpansLimit \in Nat /\ m \in Nat
        BY ObsAssumption
      <4> QED
        BY <1>a, <4>2, <4>3, <4>4
    <3>1. SpansLimit \in Nat
      BY ObsAssumption
    <3>2. CASE i <= n
      <4>1. i \in booted + 1 .. Len(rows) /\ rows[i] = "open" /\ i > Len(rows) - SpansLimit
        BY <1>a, <2>1, <2>2, <2>5, <3>1, <3>2, <3>i
      <4>2. i \in left \/ \E x \in Runners : i \in ToSet(run[x].ids)
        BY <1>0, <4>1 DEF RecentSpansSettle
      <4>3. \A x \in Runners : i \in ToSet(run[x].ids) => x # w
        <5>1. ToSet(<<>>) = {}
          BY DEF ToSet
        <5> QED
          BY <1>n, <2>4, <5>1
      <4> QED
        BY <2>9, <3>0, <4>2, <4>3
    <3>3. CASE ~ (i <= n)
      <4>1. i - n \in 1 .. m /\ q[i - n] = i
        BY <1>a, <2>1, <2>2, <2>3, <3>3, <3>i
      <4>2. i \in ToSet(q)
        BY <2>3, <4>1 DEF ToSet
      <4> QED
        BY <2>8, <2>9, <4>2
    <3> QED
      BY <3>2, <3>3
  <2> QED
    BY <2>11, <2>12, <2>13, <2>14 DEF ObsInv
<1>4. ASSUME NEW w \in Runners, run[w] # NoRun
      PROVE  /\ run[w].kind # "none" /\ Len(run[w].ids) \in {1, 2} /\ run[w].ids \in Seq(Nat)
             /\ \A k \in 1 .. Len(run[w].ids) : run[w].ids[k] \in 1 .. Len(rows)
  BY <1>0, <1>a, <1>4 DEF RunInv, RunState
<1>5. ASSUME NEW w \in Runners, run[w].kind # "none", RunReturns(w)
      PROVE  /\ rows' \in Seq({"open", "ok"}) /\ run' \in [Runners -> RunState]
             /\ spans' \in Seq(Nat) /\ booted' \in Nat /\ left' \subseteq Nat
             /\ RunInv' /\ SpanInv' /\ RecentSpansSettle'
  <2>1. run[w] # NoRun
    BY <1>n, <1>5
  <2>2. PICK t \in Seq({"open", "ok"}) :
          /\ t = RunFinished(rows, run[w].ids) /\ Len(t) = Len(rows)
          /\ \A j \in 1 .. Len(rows) : t[j] = "open" => rows[j] = "open"
          /\ \A j \in ToSet(run[w].ids) \cap ToSet(spans) : t[j] = "ok"
    BY <1>a, <1>4, <2>1, RunFinishFacts
  <2>3. rows' = t /\ run' = [run EXCEPT ![w] = NoRun] /\ UNCHANGED <<spans, booted, left>>
    BY <1>5, <2>2 DEF RunReturns
  <2>4. RunInv' /\ SpanInv' /\ RecentSpansSettle'
    BY <2>1, <2>2, <2>3, RunEndStep
  <2> QED
    BY <1>a, <1>n, <2>2, <2>3, <2>4
<1>6. ASSUME NEW w \in Runners, RunEndsEarly(w)
      PROVE  /\ rows' \in Seq({"open", "ok"}) /\ run' \in [Runners -> RunState]
             /\ spans' \in Seq(Nat) /\ booted' \in Nat /\ left' \subseteq Nat
             /\ RunInv' /\ SpanInv' /\ RecentSpansSettle'
  <2>1. run[w] # NoRun
    BY <1>6 DEF RunEndsEarly
  <2>2. PICK q \in Seq(Nat), m \in {1, 2} :
          q = run[w].ids /\ m = Len(q) /\ DOMAIN q = 1 .. m /\ \A k \in 1 .. m : q[k] \in 1 .. Len(rows)
    BY <1>4, <2>1, LenProperties
  <2>3. PICK a \in 1 .. Len(rows) : a = q[m] /\ a = Last(q)
    <3>1. Last(q) = q[Len(q)]
      BY DEF Last
    <3>0. m = 1 \/ m = 2
      OBVIOUS
    <3>2. m \in 1 .. m
      BY <3>0
    <3> QED
      BY <2>2, <3>1, <3>2
  <2>4. Front(q) \in Seq(Nat) /\ ToSet(q) \subseteq ToSet(Front(q)) \cup {a} /\ ToSet(Front(q)) \subseteq Nat
    <3>1. Front(q) = SubSeq(q, 1, m - 1)
      BY <2>2 DEF Front
    <3>2. \A i \in 1 .. m - 1 : q[i] \in Nat
      BY <2>2
    <3>4. PICK f \in Seq(Nat) : /\ f = Front(q) /\ Len(f) = m - 1 /\ DOMAIN f = 1 .. m - 1
                                /\ m = 2 => f[1] = q[1]
      <4>1. CASE m = 1
        <5>1. Front(q) = SubSeq(q, 1, 0)
          BY <3>1, <4>1
        <5>2. SubSeq(q, 1, 0) = <<>>
          BY SubSeqEmpty
        <5>3. PICK f \in Seq(Nat) : f = <<>> /\ Len(f) = 0
          BY EmptySeq
        <5>4. DOMAIN f = 1 .. 0
          BY <5>3, LenProperties
        <5>5. Len(f) = m - 1 /\ DOMAIN f = 1 .. m - 1 /\ m # 2
          BY <4>1, <5>3, <5>4
        <5>6. f = Front(q)
          BY <5>1, <5>2, <5>3
        <5> QED
          BY <5>5, <5>6
      <4>2. CASE m = 2
        <5>1. Front(q) = SubSeq(q, 1, 1)
          BY <3>1, <4>2
        <5>2. \A i \in 1 .. 1 : q[i] \in Nat
          BY <3>2, <4>2
        <5>3. /\ SubSeq(q, 1, 1) \in Seq(Nat)
              /\ Len(SubSeq(q, 1, 1)) = 1
              /\ SubSeq(q, 1, 1)[1] = q[1]
          BY <5>2, SubSeqProperties
        <5>4. PICK f \in Seq(Nat) : f = SubSeq(q, 1, 1) /\ Len(f) = 1 /\ f[1] = q[1]
          BY <5>3
        <5>5. DOMAIN f = 1 .. 1
          BY <5>4, LenProperties
        <5>6. Len(f) = m - 1 /\ DOMAIN f = 1 .. m - 1 /\ f[1] = q[1]
          BY <4>2, <5>4, <5>5
        <5>7. f = Front(q)
          BY <5>1, <5>4
        <5> QED
          BY <5>6, <5>7
      <4> QED
        BY <2>2, <4>1, <4>2
    <3>5. ToSet(f) \subseteq Nat
      BY <3>4, ElementOfSeq DEF ToSet
    <3>6. ToSet(q) \subseteq ToSet(f) \cup {a}
      <4>1. ASSUME NEW x \in ToSet(q) PROVE x \in ToSet(f) \cup {a}
        <5>1. PICK k \in 1 .. m : x = q[k]
          BY <2>2 DEF ToSet
        <5>2. CASE k = m
          BY <2>3, <5>1, <5>2
        <5>3. CASE k # m
          <6>0. m = 1 \/ m = 2
            OBVIOUS
          <6>1. m = 2 /\ k = 1
            BY <5>3, <6>0
          <6>2. 1 \in DOMAIN f /\ f[1] = x
            BY <3>4, <5>1, <6>1
          <6> QED
            BY <6>2 DEF ToSet
        <5> QED
          BY <5>2, <5>3
      <4> QED
        BY <4>1
    <3> QED
      BY <3>4, <3>5, <3>6
  <2>5. PICK t \in Seq({"open", "ok"}) :
          /\ t = SpanFinished(rows, a, "ok") /\ Len(t) = Len(rows)
          /\ \A j \in 1 .. Len(rows) : t[j] = "open" => rows[j] = "open"
          /\ a \in ToSet(spans) => t[a] = "ok"
    BY <1>a, FinishFacts
  <2>6. /\ rows' = t /\ run' = [run EXCEPT ![w] = NoRun]
        /\ left' = left \cup ToSet(Front(q)) /\ UNCHANGED <<spans, booted>>
    BY <1>6, <2>2, <2>3, <2>5 DEF RunEndsEarly
  <2>7. \A j \in ToSet(run[w].ids) \cap ToSet(spans) : t[j] = "ok" \/ j \in left'
    BY <2>2, <2>4, <2>5, <2>6
  <2>8. RunInv' /\ SpanInv' /\ RecentSpansSettle'
    BY <2>1, <2>5, <2>6, <2>7, RunEndStep
  <2> QED
    BY <1>a, <1>n, <2>4, <2>5, <2>6, <2>8
<1>7. ASSUME NEW w \in Runners, AgentRunReturns(w) PROVE ObsInv'
  <2>1. <<"agent.executions">> \in Seq(MetricNames)
    BY DEF MetricNames
  <2>2. samples' \in Seq(MetricNames) /\ counters' \in [MetricNames -> Nat]
    BY <1>0, <1>7, <2>1, MetricsType DEF AgentRunReturns
  <2>3. run[w].kind # "none" /\ RunReturns(w) /\ UNCHANGED <<logs, errors>>
    BY <1>7 DEF AgentRunReturns
  <2> QED
    BY <1>0, <1>5, <2>2, <2>3 DEF ObsInv, ObsTypeOK
<1>8. ASSUME NEW w \in Runners, NEW failed \in BOOLEAN, WorkflowRunReturns(w, failed) PROVE ObsInv'
  <2>1. PICK q \in Seq(MetricNames) :
          q = <<"wf.executions", "wf.steps_total">> \o IF failed THEN <<"wf.errors">> ELSE <<>>
    <3>1. <<"wf.executions", "wf.steps_total">> \in Seq(MetricNames)
      BY DEF MetricNames
    <3>2. <<"wf.errors">> \in Seq(MetricNames) /\ <<>> \in Seq(MetricNames)
      BY DEF MetricNames
    <3>3. PICK u \in Seq(MetricNames) : u = IF failed THEN <<"wf.errors">> ELSE <<>>
      <4>1. CASE failed
        BY <3>2, <4>1
      <4>2. CASE ~ failed
        BY <3>2, <4>2
      <4> QED
        BY <4>1, <4>2
    <3> HIDE DEF MetricNames
    <3> QED
      BY <3>1, <3>3, ConcatProperties
  <2>2. PICK l \in {"debug", "info", "error"} : l = IF failed THEN "error" ELSE "info"
    OBVIOUS
  <2>3. run[w].kind # "none" /\ RunReturns(w) /\ RecordMetrics(q) /\ Log(l)
    BY <1>8, <2>1, <2>2 DEF WorkflowRunReturns
  <2>4. samples' \in Seq(MetricNames) /\ counters' \in [MetricNames -> Nat]
    BY <1>0, <2>3, MetricsType
  <2>5. logs' \in Seq({"debug", "info", "error"}) /\ errors' \in Nat
    BY <1>0, <2>3, LogType
  <2> QED
    BY <1>5, <2>3, <2>4, <2>5 DEF ObsInv, ObsTypeOK
<1>9. ASSUME NEW w \in Runners, RunRaises(w) PROVE ObsInv'
  <2>1. PICK q \in Seq(MetricNames) : q = IF run[w].kind = "agent" THEN <<>> ELSE <<"wf.errors">>
    <3>1. <<"wf.errors">> \in Seq(MetricNames) /\ <<>> \in Seq(MetricNames)
      BY DEF MetricNames
    <3>2. CASE run[w].kind = "agent"
      BY <3>1, <3>2
    <3>3. CASE run[w].kind # "agent"
      BY <3>1, <3>3
    <3> QED
      BY <3>2, <3>3
  <2>2. RunEndsEarly(w) /\ RecordMetrics(q) /\ Log("error")
    BY <1>9, <2>1 DEF RunRaises
  <2>3. samples' \in Seq(MetricNames) /\ counters' \in [MetricNames -> Nat]
    BY <1>0, <2>2, MetricsType
  <2>4. logs' \in Seq({"debug", "info", "error"}) /\ errors' \in Nat
    BY <1>0, <2>2, LogType
  <2> QED
    BY <1>6, <2>2, <2>3, <2>4 DEF ObsInv, ObsTypeOK
<1>10. ASSUME NEW w \in Runners, RunCancelled(w) PROVE ObsInv'
  BY <1>0, <1>6, <1>10 DEF RunCancelled, ObsInv, ObsTypeOK
<1> QED
  BY <1>1, <1>2, <1>3, <1>7, <1>8, <1>9, <1>10 DEF ObsNext

\* Memory holds the newest spans this process has started, whatever runs overlap.
THEOREM ObsTypeCorrect == ObsSpec => []ObsInv
<1>1. ObsInit => ObsInv
  <2> SUFFICES ASSUME ObsInit PROVE ObsInv
    OBVIOUS
  <2>1. Len(<<>>) = 0 /\ SpansLimit \in Nat /\ NoRun \in RunState
    <3>1. <<>> \in Seq(Nat)
      OBVIOUS
    <3> QED
      BY <3>1, ObsAssumption, EmptySeq DEF NoRun, RunState
  <2>2. ObsTypeOK
    BY <2>1 DEF ObsInit, ObsTypeOK
  <2>3. RunInv /\ RecentSpansSettle
    BY <2>1 DEF ObsInit, RunInv, RecentSpansSettle
  <2>4. IsWindow(<<>>, 0, 0)
    BY <2>1 DEF IsWindow
  <2>5. SpanInv
    BY <2>1, <2>4 DEF ObsInit, SpanInv
  <2> QED
    BY <2>2, <2>3, <2>5 DEF ObsInv
<1> QED
  BY <1>1, ObsStep, PTL DEF ObsSpec

\* Of the newest spans one stays open in the store only while its run is under way, or
\* because execute_with_context left it, for every limit and every number of overlapping
\* runs (observability.py start_span, finish_span).
THEOREM RecentSpansSettleCorrect == ObsSpec => []RecentSpansSettle
<1>1. ObsInv => RecentSpansSettle
  BY DEF ObsInv
<1> QED
  BY <1>1, ObsTypeCorrect, PTL
=============================================================================
