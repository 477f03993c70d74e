----------------------------- MODULE StdioServer -----------------------------
(***************************************************************************)
(* mcp/server.py on a pair of streams: one loop reads a framed message,    *)
(* handles it and writes the answer, so a tool that suspends holds up the  *)
(* messages behind it.  The client writes what it likes, may close its end *)
(* in the middle of a message and goes on reading; stop() and              *)
(* notify_tools_changed() come from other coroutines.                      *)
(***************************************************************************)
EXTENDS Naturals, Sequences, SequencesExt

CONSTANTS MaxMessages   \* bound on the messages of the client

ASSUME StdioAssumption == MaxMessages \in Nat

VARIABLES
  wire,    \* messages written and not read
  sent,    \* history: all messages of the client
  hungUp,  \* the client has closed its end
  loopAt,  \* start(): "read", "handle" or "ended"
  msg,     \* msg: the index in sent of the message read last, 0 for None
  skewed,  \* the stream is read out of step with its frames
  open,    \* stop() has not been called
  reply    \* what the client received: indices answered, 0 for a notification

stdioVars == <<wire, sent, hungUp, loopAt, msg, skewed, open, reply>>

\* What the client may write: a request, a notification, a tools/call whose
\* parameters are of a wrong type (no object, or a name that cannot be hashed), a
\* frame that is no JSON, no headers at all, a frame without a length or with one
\* that is no number, a frame that holds JSON but no object, half a frame.
MessageKinds == {"call", "note", "badparams", "nojson", "blank", "nolength", "badlength",
                 "noobject", "half"}

StdioInit == /\ wire = <<>> /\ sent = <<>> /\ hungUp = FALSE
             /\ loopAt = "read" /\ msg = 0 /\ skewed = FALSE /\ open = TRUE
             /\ reply = <<>>

-----------------------------------------------------------------------------
(* The client. *)

ClientWrites(kind) ==
  /\ ~hungUp /\ Len(sent) < MaxMessages
  /\ sent' = Append(sent, kind)
  /\ wire' = Append(wire, Len(sent'))
  /\ hungUp' = (kind = "half")
  /\ UNCHANGED <<loopAt, msg, skewed, open, reply>>

ClientHangsUp == /\ ~hungUp /\ hungUp' = TRUE
                 /\ UNCHANGED <<wire, sent, loopAt, msg, skewed, open, reply>>

-----------------------------------------------------------------------------
(* The loop of start(). *)

Reads(kinds) == /\ loopAt = "read" /\ wire # <<>>
                /\ IF skewed THEN "blank" \in kinds ELSE sent[Head(wire)] \in kinds
                /\ wire' = Tail(wire)

\* `while self._running`.
RoundAgain == loopAt' = IF open THEN "read" ELSE "ended"

\* The body of a frame whose length is missing or no number is not read.  It is taken
\* for headers, its last line together with the first header of the next frame, and
\* so on: no later frame has a length, until a body that ends its last line.
Skews == /\ skewed' \in BOOLEAN
         /\ skewed' => skewed \/ sent[Head(wire)] \in {"nolength", "badlength"}

\* _read_message returns a message.
ReadMessage == /\ Reads({"call", "note", "badparams", "noobject"})
               /\ msg' = Head(wire) /\ loopAt' = "handle"
               /\ UNCHANGED <<sent, hungUp, skewed, open, reply>>

\* Seeded fault: a read error ends the loop.
FaultReadError == /\ Reads({"nojson", "half", "badlength"})
                  /\ loopAt' = "ended"
                  /\ UNCHANGED <<sent, hungUp, msg, skewed, open, reply>>

\* It raises, for a body that cannot be decoded or ends too early and for a length
\* that is no number: logged.
ReadError == /\ Reads({"nojson", "half", "badlength"})
             /\ RoundAgain /\ Skews
             /\ UNCHANGED <<sent, hungUp, msg, open, reply>>

\* It returns None, for headers without a length.
ReadNothing == /\ Reads({"blank", "nolength"})
               /\ msg' = 0 /\ RoundAgain /\ Skews
               /\ UNCHANGED <<sent, hungUp, open, reply>>

\* It returns None at the end of the stream.
ReadEnd == /\ loopAt = "read" /\ wire = <<>> /\ hungUp
           /\ msg' = 0 /\ loopAt' = "ended"
           /\ UNCHANGED <<wire, sent, hungUp, skewed, open, reply>>

\* _handle answers a request, with a result or an error (a tool that raises, or
\* arguments that do not fit its schema, included), and _send writes it.  A writer that stop() has closed loses it or
\* raises; the one over standard output still writes.
HandleCall ==
  /\ loopAt = "handle" /\ sent[msg] = "call"
  /\ \/ reply' = Append(reply, msg)
     \/ ~open /\ UNCHANGED reply
  /\ RoundAgain
  /\ UNCHANGED <<wire, sent, hungUp, msg, skewed, open>>

HandleNote == /\ loopAt = "handle" /\ sent[msg] = "note"
              /\ RoundAgain
              /\ UNCHANGED <<wire, sent, hungUp, msg, skewed, open, reply>>

\* The id of what is no object is asked for, or the parameters are used outside the
\* try of _handle_call: AttributeError or TypeError leaves start().
HandleCrashes == /\ loopAt = "handle" /\ sent[msg] \in {"noobject", "badparams"}
                 /\ loopAt' = "ended"
                 /\ UNCHANGED <<wire, sent, hungUp, msg, skewed, open, reply>>

-----------------------------------------------------------------------------
(* Other coroutines. *)

\* stop() does not wake up a loop that waits for a message.
StopServer == /\ open /\ open' = FALSE
              /\ UNCHANGED <<wire, sent, hungUp, loopAt, msg, skewed, reply>>

NotifyToolsChanged == /\ open /\ Len(SelectSeq(reply, LAMBDA r : r = 0)) < 1
                      /\ reply' = Append(reply, 0)
                      /\ UNCHANGED <<wire, sent, hungUp, loopAt, msg, skewed, open>>

LoopStep == \/ ReadMessage \/ ReadError \/ ReadNothing \/ ReadEnd
            \/ HandleCall \/ HandleNote \/ HandleCrashes

StdioNext == \/ \E kind \in MessageKinds : ClientWrites(kind)
             \/ ClientHangsUp \/ LoopStep \/ StopServer \/ NotifyToolsChanged

\* Reads and tools end.
StdioFairness == WF_stdioVars(LoopStep)

-----------------------------------------------------------------------------
(* Properties. *)

Disturbed(i) ==
  \E j \in 1 .. i - 1 : sent[j] \in {"noobject", "badparams", "nolength", "badlength"}

\* Every request is answered, whatever frames the client wrote before it and also when
\* it closes its end afterwards, unless the server is stopped.  Two kinds of frames
\* end this: one that holds no object, or a tools/call with parameters of a wrong
\* type, takes the loop down; one whose length is missing or no number takes the
\* framing (server.py start, _read_message, _handle, _handle_call).
RequestsAreServed ==
  \A i \in 1 .. MaxMessages :
    (i <= Len(sent) /\ sent[i] = "call" /\ ~Disturbed(i)) ~> (i \in ToSet(reply) \/ ~open)
=============================================================================
