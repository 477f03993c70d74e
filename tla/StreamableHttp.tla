--------------------------- MODULE StreamableHttp ---------------------------
(***************************************************************************)
(* mcp/server_streamable.py: the server-to-client event stream of one      *)
(* session of the Streamable HTTP transport, with the event log that       *)
(* kernel/persistence.py keeps.  Every GET is a thread of its own, frames  *)
(* are pushed by any thread: a frame gets its number under a lock, is put  *)
(* into the session's queue, and is then written to the log, as three      *)
(* steps.  Requests (POST) touch the stream only by creating the session.  *)
(***************************************************************************)
EXTENDS Naturals, Sequences, FiniteSets

CONSTANTS Pushers, Streams,  \* threads that push, threads that serve a GET
          MaxSeq             \* bound: frames of the session

ASSUME StreamAssumption == MaxSeq \in Nat

VARIABLES
  known,    \* the session is in _sessions
  seq,      \* _seq
  queue,    \* events: the numbers of the queued frames
  push,     \* per pusher: [at, seq]
  log,      \* numbers of the frames in the event log
  gone,     \* history: frames evicted, or whose write to the log failed
  stream,   \* per GET thread: [at, since, sure, underway], see below
  lastId,   \* the client: number of the frame received last, 0: none
  received  \* the client: numbers of the frames received

streamVars == <<known, seq, queue, push, log, gone, stream, lastId, received>>

NoPush == [at |-> "idle", seq |-> 0]
NoStream == [at |-> "none", since |-> 0, sure |-> FALSE, underway |-> {}]

StreamInit == /\ known = FALSE
              /\ seq = 0
              /\ queue = <<>>
              /\ push = [p \in Pushers |-> NoPush]
              /\ log = {}
              /\ gone = {}
              /\ stream = [h \in Streams |-> NoStream]
              /\ lastId = 0
              /\ received = {}

InQueue == {queue[i] : i \in DOMAIN queue}

-----------------------------------------------------------------------------
(* The session. *)

\* A POST without a known session id creates one.
CreateSession ==
  /\ ~known /\ seq = 0
  /\ known' = TRUE
  /\ UNCHANGED <<seq, queue, push, log, gone, stream, lastId, received>>

-----------------------------------------------------------------------------
(* push_event. *)

TakeNumber(p) ==
  /\ push[p].at = "idle" /\ seq < MaxSeq /\ known
  /\ seq' = seq + 1
  /\ push' = [push EXCEPT ![p] = [at |-> "put", seq |-> seq + 1]]
  /\ UNCHANGED <<known, queue, log, gone, stream, lastId, received>>

PutFrame(p) ==
  /\ push[p].at = "put"
  /\ queue' = Append(queue, push[p].seq)
  /\ push' = [push EXCEPT ![p].at = "persist"]
  /\ UNCHANGED <<known, seq, log, gone, stream, lastId, received>>

PersistFrame(p) ==
  /\ push[p].at = "persist"
  /\ log' = log \cup {push[p].seq}
  /\ push' = [push EXCEPT ![p] = NoPush]
  /\ UNCHANGED <<known, seq, queue, gone, stream, lastId, received>>

\* An error or a timeout of the write is only logged.
PersistFails(p) ==
  /\ push[p].at = "persist"
  /\ gone' = gone \cup {push[p].seq}
  /\ push' = [push EXCEPT ![p] = NoPush]
  /\ UNCHANGED <<known, seq, queue, log, stream, lastId, received>>

\* _evict_expired: frames of known sessions that are older than the TTL.
Evict(n) ==
  /\ known /\ n \in log
  /\ log' = log \ {n}
  /\ gone' = gone \cup {n}
  /\ UNCHANGED <<known, seq, queue, push, stream, lastId, received>>

-----------------------------------------------------------------------------
(* GET /mcp/v1/events.  A thread is at "replay" until the log has been read, *)
(* then "live"; "cut" is a live one whose client has gone without its        *)
(* noticing.  History: underway are the frames that had a number and were    *)
(* not logged yet when the log was read, and sure says that it was read past *)
(* an id while no other thread served the session.                           *)

\* The client reads at most one stream: it reconnects when its last one is cut.
Reading == {h \in Streams : stream[h].at \in {"replay", "live"}}

OpenStream(h) ==
  /\ stream[h].at = "none" /\ known /\ Reading = {}
  /\ stream' = [stream EXCEPT ![h] = [at |-> "replay", since |-> lastId, sure |-> FALSE,
                                        underway |-> {}]]
  /\ UNCHANGED <<known, seq, queue, push, log, gone, lastId, received>>

Receive(frames) ==
  /\ received' = received \cup frames
  /\ lastId' = IF frames = {} THEN lastId
               ELSE CHOOSE n \in frames : \A m \in frames : m <= n

UnderWay == {n \in 1 .. seq : \E p \in Pushers : push[p].seq = n}

Replays(h, frames) ==
  /\ Receive(frames)
  /\ stream' = [stream EXCEPT ![h] =
                   [at |-> "live", since |-> @.since, underway |-> UnderWay,
                    sure |-> @.since > 0 /\ \A g \in Streams \ {h} : stream[g].at = "none"]]
  /\ UNCHANGED <<known, seq, queue, push, log, gone>>

\* Seeded fault: the frame after the client's id is taken for one it has.
FaultReplay(h) ==
  /\ stream[h].at = "replay"
  /\ Replays(h, IF stream[h].since = 0 THEN {} ELSE {n \in log : n > stream[h].since + 1})

\* replay_since: what the log holds past the client's id, in order; without an id
\* nothing.
Replay(h) ==
  /\ stream[h].at = "replay"
  /\ Replays(h, IF stream[h].since = 0 THEN {} ELSE {n \in log : n > stream[h].since})

\* An error or a timeout of the read is only logged.
ReplayFails(h) ==
  /\ stream[h].at = "replay"
  /\ stream' = [stream EXCEPT ![h].at = "live"]
  /\ UNCHANGED <<known, seq, queue, push, log, gone, lastId, received>>

\* A frame of the queue is written to the client, or to a connection that is gone.
TakeFrame(h) ==
  /\ stream[h].at \in {"live", "cut"} /\ queue # <<>>
  /\ queue' = Tail(queue)
  /\ IF stream[h].at = "live" THEN Receive({Head(queue)}) ELSE UNCHANGED <<received, lastId>>
  /\ UNCHANGED <<known, seq, push, log, gone, stream>>

\* The finally clause: while the session is known, what is queued is thrown away.
CloseStream(h) ==
  /\ stream' = [stream EXCEPT ![h] = NoStream]
  /\ queue' = IF known THEN <<>> ELSE queue
  /\ UNCHANGED <<known, seq, push, log, gone, lastId, received>>

\* Nothing queued for 30 seconds, or a write to a connection that is gone.
StreamIdles(h) == stream[h].at \in {"live", "cut"} /\ queue = <<>> /\ CloseStream(h)

StreamBreaks(h) == stream[h].at = "cut" /\ CloseStream(h)

Disconnect(h) ==
  /\ stream[h].at = "live"
  /\ stream' = [stream EXCEPT ![h].at = "cut"]
  /\ UNCHANGED <<known, seq, queue, push, log, gone, lastId, received>>

\* A new process: the log is on disk, the sessions are not, and a GET of the old
\* session is answered 404.
StreamRestart ==
  /\ known' = FALSE
  /\ queue' = <<>>
  /\ push' = [p \in Pushers |-> NoPush]
  /\ stream' = [h \in Streams |-> NoStream]
  /\ UNCHANGED <<seq, log, gone, lastId, received>>

StreamNext ==
  \/ CreateSession \/ StreamRestart
  \/ \E p \in Pushers : \/ TakeNumber(p) \/ PutFrame(p)
                        \/ PersistFrame(p) \/ PersistFails(p)
  \/ \E n \in 1 .. MaxSeq : Evict(n)
  \/ \E h \in Streams : \/ OpenStream(h) \/ Replay(h) \/ ReplayFails(h) \/ TakeFrame(h) 
                        \/ StreamIdles(h) \/ StreamBreaks(h) \/ Disconnect(h)

StreamSpec == StreamInit /\ [][StreamNext]_streamVars

-----------------------------------------------------------------------------
(* Properties. *)

StreamState == [at : {"none", "replay", "live", "cut"}, since : 0 .. MaxSeq,
                sure : BOOLEAN, underway : SUBSET (1 .. MaxSeq)]

StreamTypeOK ==
  /\ known \in BOOLEAN /\ seq \in 0 .. MaxSeq /\ lastId \in 0 .. MaxSeq
  /\ queue \in Seq(1 .. MaxSeq)
  /\ push \in [Pushers -> [at : {"put", "persist"}, seq : 1 .. MaxSeq] \cup {NoPush}]
  /\ log \subseteq 1 .. MaxSeq /\ gone \subseteq 1 .. MaxSeq /\ received \subseteq 1 .. MaxSeq
  /\ stream \in [Streams -> StreamState]

\* What Last-Event-ID buys a client (server_streamable.py push_event,
\* _handle_get_events).  While it reads the only stream of the session, opened with
\* an id and past a log that could be read, no frame after that id slips between
\* the log and the queue: it has it or is still to get it, from the queue or from
\* a pusher that has not put it yet, except for frames evicted or not written to
\* the log, and those between their number and the log at the moment of the replay.
ResumeHasNoGap ==
  \A h \in Streams : stream[h].at = "live" /\ stream[h].sure =>
    \A n \in stream[h].since + 1 .. seq :
      \/ n \in received \cup InQueue \cup gone \cup stream[h].underway
      \/ \E p \in Pushers : push[p] = [at |-> "put", seq |-> n]
=============================================================================
