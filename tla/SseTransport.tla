----------------------------- MODULE SseTransport -----------------------------
(***************************************************************************)
(* mcp/server_sse.py around mcp/server.py: a GET thread per event stream   *)
(* writes the frames of its session's queue, a thread per POST dispatches  *)
(* a batch of messages one after the other on the server's loop and puts   *)
(* the answers on the queue.  Both hold the session object, so a stream    *)
(* that ends leaves its POSTs running.                                     *)
(***************************************************************************)
EXTENDS Naturals, Sequences, FiniteSets

CONSTANTS SseSessions,  \* bound: ids 1..n of the sessions opened
          Posts,        \* POST requests to /messages/, each one sent once
          Batches,      \* the bodies: sequences of "call", "note", "bad"
          MaxStarts     \* bound: calls of start

ASSUME SseAssumption == /\ SseSessions \subseteq Nat /\ MaxStarts \in Nat
                        /\ Batches \subseteq Seq({"call", "note", "bad"})

VARIABLES
  serving,   \* _loop: the server's event loop runs
  starts,
  registry,  \* _sessions
  sse,       \* per session: "none", "open" (its GET thread loops) or "ended"
  peer,      \* the client of the stream is there
  out,       \* per session: frames [post, n] put and not yet taken
  got,       \* history: frames the client received
  post,      \* per POST: [at, session, rest]
  answered   \* history: frames put on a queue

sseVars == <<serving, starts, registry, sse, peer, out, got, post, answered>>

SseInit == /\ serving = FALSE /\ starts = 0
           /\ registry = {}
           /\ sse = [s \in SseSessions |-> "none"]
           /\ peer = [s \in SseSessions |-> FALSE]
           /\ out = [s \in SseSessions |-> <<>>]
           /\ got = [s \in SseSessions |-> <<>>]
           /\ post = [p \in Posts |-> [at |-> "new", session |-> 0, rest |-> <<>>]]
           /\ answered = {}

\* start and stop keep the session registry and the GET threads.
SseStart == /\ ~serving /\ starts < MaxStarts
            /\ serving' = TRUE /\ starts' = starts + 1
            /\ UNCHANGED <<registry, sse, peer, out, got, post, answered>>

SseStop == /\ serving
           /\ serving' = FALSE
           /\ UNCHANGED <<starts, registry, sse, peer, out, got, post, answered>>

-----------------------------------------------------------------------------
(* GET /sse. *)

\* The endpoint event is written before the try: when that fails the session
\* stays registered and nobody reads its queue.
OpenSse(s, broken) ==
  /\ serving /\ sse[s] = "none"
  /\ \A r \in SseSessions : r < s => sse[r] # "none"
  /\ registry' = registry \cup {s}
  /\ sse' = [sse EXCEPT ![s] = IF broken THEN "ended" ELSE "open"]
  /\ peer' = [peer EXCEPT ![s] = ~broken]
  /\ UNCHANGED <<serving, starts, out, got, post, answered>>

EndSession(s) == /\ registry' = registry \ {s}
                 /\ sse' = [sse EXCEPT ![s] = "ended"]

\* One turn of the GET thread; a write after the client left may still succeed.
SendFrame(s) ==
  /\ sse[s] = "open" /\ out[s] # <<>>
  /\ out' = [out EXCEPT ![s] = Tail(@)]
  /\ IF peer[s] THEN got' = [got EXCEPT ![s] = Append(@, Head(out[s]))]
                  ELSE UNCHANGED got
  /\ UNCHANGED <<registry, sse>> \/ (~peer[s] /\ EndSession(s))
  /\ UNCHANGED <<serving, starts, peer, post, answered>>

\* queue.Empty after 30 s without a frame ends the stream, answers of POSTs that
\* are still being dispatched included.
IdleEnds(s) ==
  /\ sse[s] = "open" /\ out[s] = <<>>
  /\ EndSession(s)
  /\ UNCHANGED <<serving, starts, peer, out, got, post, answered>>

ClientGone(s) == /\ peer[s]
                 /\ peer' = [peer EXCEPT ![s] = FALSE]
                 /\ UNCHANGED <<serving, starts, registry, sse, out, got, post, answered>>

-----------------------------------------------------------------------------
(* POST /messages/. *)

\* 202 comes before everything else, also for a session that is not registered.
PostMessages(p, s, batch) ==
  /\ serving /\ post[p].at = "new" /\ sse[s] # "none"
  /\ post' = [post EXCEPT ![p] = [at |-> "accepted", session |-> s,
                                  rest |-> IF s \in registry THEN batch ELSE <<>>]]
  /\ UNCHANGED <<serving, starts, registry, sse, peer, out, got, answered>>

\* MCPServer._handle answers every request, with a result or an error; not a
\* notification, and it raises for a message that is no object.
Answers(kind) == kind = "call"

Frame(p) == [post |-> p, n |-> Len(post[p].rest)]

\* Seeded fault: the messages of a batch are dispatched concurrently.
FaultDispatch(p) ==
  LET s == post[p].session IN
  /\ post[p].rest # <<>>
  /\ \E n \in DOMAIN post[p].rest :
       LET frame == [post |-> p, n |-> Len(post[p].rest) + 1 - n] IN
       /\ serving /\ post[p].rest[n] = "call" /\ frame \notin answered
       /\ out' = [out EXCEPT ![s] = Append(@, frame)]
       /\ answered' = answered \cup {frame}
  /\ UNCHANGED <<serving, starts, registry, sse, peer, got, post>>

\* dispatch of one message.  There is no answer without a loop, to a notification,
\* to a message that is no object, and after ten seconds.
Dispatch(p) ==
  LET s == post[p].session IN
  /\ post[p].rest # <<>>
  /\ post' = [post EXCEPT ![p].rest = Tail(@)]
  /\ \/ /\ serving /\ Answers(Head(post[p].rest))
        /\ out' = [out EXCEPT ![s] = Append(@, Frame(p))]
        /\ answered' = answered \cup {Frame(p)}
     \/ UNCHANGED <<out, answered>>
  /\ UNCHANGED <<serving, starts, registry, sse, peer, got>>

SseNext ==
  \/ SseStart \/ SseStop
  \/ \E s \in SseSessions : \/ SendFrame(s) \/ IdleEnds(s) \/ ClientGone(s)
                            \/ \E broken \in BOOLEAN : OpenSse(s, broken)
  \/ \E p \in Posts : \/ Dispatch(p)
                      \/ \E s \in SseSessions, batch \in Batches : PostMessages(p, s, batch)

SseSpec == SseInit /\ [][SseNext]_sseVars

-----------------------------------------------------------------------------
(* Properties. *)

Frames == [post : Posts, n : Nat]
PostState == [at : {"new", "accepted"}, session : SseSessions \cup {0},
              rest : Seq({"call", "note", "bad"})]

SseTypeOK ==
  /\ serving \in BOOLEAN /\ starts \in Nat /\ registry \subseteq SseSessions
  /\ sse \in [SseSessions -> {"none", "open", "ended"}]
  /\ peer \in [SseSessions -> BOOLEAN]
  /\ out \in [SseSessions -> Seq(Frames)] /\ got \in [SseSessions -> Seq(Frames)]
  /\ post \in [Posts -> PostState]
  /\ answered \subseteq Frames

\* As long as its stream lasts a client gets every answer to its POSTs exactly
\* once, those of a batch in the order of the batch, however POSTs, other streams
\* and restarts of the loop interleave (server_sse.py dispatch, _handle_get_sse).
\* n counts the messages that are left, so it falls.
StreamCarriesAnswers ==
  \A s \in SseSessions : sse[s] = "open" /\ peer[s] =>
    LET frames == got[s] \o out[s] IN
    /\ \A i, j \in DOMAIN frames :
         i < j /\ frames[i].post = frames[j].post => frames[i].n > frames[j].n
    /\ \A f \in answered : post[f.post].session = s => \E i \in DOMAIN frames : frames[i] = f
=============================================================================
