------------------------------ MODULE McpClient ------------------------------
(***************************************************************************)
(* mcp/client.py: JSON-RPC calls over the pipes of an external MCP server  *)
(* process.  Calls are matched with answers by request id in _pending; a   *)
(* future is settled by the read loop only.  The process may die, the read *)
(* loop may crash on a line, a caller may give up, and disconnect waits    *)
(* for the process while the others go on.                                 *)
(***************************************************************************)
EXTENDS Naturals, SequencesExt, FiniteSets

CONSTANTS Clients,      \* coroutines that share one MCPClient
          ServerTools,  \* the tools the server lists
          MaxRequests,  \* bound: request ids
          MaxConnects   \* bound: processes started

ASSUME ClientAssumption == MaxRequests \in Nat /\ MaxConnects \in Nat

VARIABLES
  connected,  \* _connected
  shutdown,   \* _shutdown
  reading,    \* the current _read_task runs
  alive,      \* the current _proc runs
  closing,    \* 0, or which process the disconnect under way waits for
  reqId,      \* _req_id
  pending,    \* _pending: ids whose future is not settled
  waiting,    \* per caller: the id of its call, 0: none
  toServer,   \* lines in the pipe: [id, method]; id 0 for a notification
  toClient,   \* answers in the pipe: [id, method, ok]
  imported,   \* how often tools_list registered a tool (each time a new entry)
  connects

linkVars == <<connected, shutdown, reading, alive, closing, connects>>
callVars == <<reqId, pending, waiting, imported>>
clientVars == <<linkVars, callVars, toServer, toClient>>

Methods == {"initialize", "tools/list", "tools/call"}

ClientInit == /\ connected = FALSE /\ shutdown = FALSE
              /\ reading = FALSE /\ alive = FALSE /\ closing = 0
              /\ reqId = 0 /\ connects = 0 /\ imported = 0
              /\ pending = {}
              /\ waiting = [c \in Clients |-> 0]
              /\ toServer = <<>> /\ toClient = <<>>

Write(pipe, line) == IF alive THEN Append(pipe, line) ELSE pipe

\* A new process; what earlier calls are still waiting for stays in _pending, and
\* a process that a crashed read loop left behind is forgotten.
Connect == /\ ~connected /\ connects < MaxConnects
           /\ connects' = connects + 1
           /\ connected' = TRUE /\ alive' = TRUE
           /\ shutdown' = FALSE /\ reading' = TRUE
           /\ toServer' = <<>> /\ toClient' = <<>>
           /\ UNCHANGED <<closing, callVars>>

\* _rpc up to the await of its future.
Rpc(c, method) ==
  /\ connected /\ waiting[c] = 0 /\ reqId < MaxRequests
  /\ reqId' = reqId + 1
  /\ pending' = pending \cup {reqId'}
  /\ waiting' = [waiting EXCEPT ![c] = reqId']
  /\ toServer' = Write(toServer, [id |-> reqId', method |-> method])
  /\ UNCHANGED <<linkVars, toClient, imported>>

\* The server: any one that speaks MCP in lines.  It answers in the order it
\* likes, with a result or an error, and never answers a notification.
ServerAnswers ==
  /\ alive
  /\ \E i \in DOMAIN toServer, ok \in BOOLEAN :
       /\ toServer' = RemoveAt(toServer, i)
       /\ toClient' = IF toServer[i].id = 0 THEN toClient
                      ELSE Append(toClient, [id |-> toServer[i].id,
                                             method |-> toServer[i].method, ok |-> ok])
  /\ UNCHANGED <<linkVars, callVars>>

\* What the caller does next: initialize notifies the server, tools_list
\* registers every tool of the answer.
Resumes(answer) ==
  /\ toServer' = IF answer.method = "initialize"
                   THEN Write(toServer, [id |-> 0, method |-> "initialized"])
                   ELSE toServer
  /\ imported' = IF answer.method = "tools/list"
                   THEN imported + Cardinality(ServerTools) ELSE imported

\* Seeded fault: an error answer drops the entry without settling its future.
FaultReadLine ==
  /\ reading /\ toClient # <<>>
  /\ LET answer == Head(toClient)
         owners == {c \in Clients : waiting[c] = answer.id /\ answer.ok} IN
     /\ pending' = pending \ {answer.id}
     /\ waiting' = [c \in Clients |-> IF c \in owners THEN 0 ELSE waiting[c]]
     /\ IF owners # {} THEN Resumes(answer) ELSE UNCHANGED <<toServer, imported>>
  /\ toClient' = Tail(toClient)
  /\ UNCHANGED <<linkVars, reqId>>

\* The read loop settles the future of the id, if somebody still waits for it;
\* the caller resumes with the result or the error.
ReadLine ==
  /\ reading /\ toClient # <<>>
  /\ LET answer == Head(toClient)
         owners == {c \in Clients : waiting[c] = answer.id} IN
     /\ pending' = pending \ {answer.id}
     /\ waiting' = [c \in Clients |-> IF c \in owners THEN 0 ELSE waiting[c]]
     /\ IF owners # {} /\ answer.ok THEN Resumes(answer) ELSE UNCHANGED <<toServer, imported>>
  /\ toClient' = Tail(toClient)
  /\ UNCHANGED <<linkVars, reqId>>

\* A caller is cancelled: the entry stays until its answer arrives.
GiveUp(c) ==
  /\ waiting[c] # 0
  /\ waiting' = [waiting EXCEPT ![c] = 0]
  /\ UNCHANGED <<linkVars, reqId, pending, imported, toServer, toClient>>

ProcessDies ==
  /\ alive
  /\ alive' = FALSE /\ toServer' = <<>>
  /\ UNCHANGED <<connected, shutdown, reading, closing, connects, callVars, toClient>>

\* _read_loop's finally: the client is disconnected unless it is shutting down.
\* No future of _pending is settled.
ReadLoopEnds == /\ reading' = FALSE
                /\ connected' = (connected /\ shutdown)

ReadEof ==
  /\ reading /\ ~alive /\ toClient = <<>> /\ ReadLoopEnds
  /\ UNCHANGED <<shutdown, alive, closing, connects, callVars, toServer, toClient>>

\* A line the reader refuses (longer than its limit) or that is no object:
\* _emit_error disconnects, the process stays.
ReadLoopCrashes ==
  /\ reading /\ alive
  /\ reading' = FALSE /\ connected' = FALSE
  /\ UNCHANGED <<shutdown, alive, closing, connects, callVars, toServer, toClient>>

\* disconnect up to its wait for the process; at once when there is none.
DisconnectBegins ==
  /\ closing = 0 /\ connects > 0
  /\ shutdown' = TRUE
  /\ IF alive THEN closing' = connects /\ UNCHANGED <<reading, connected>>
              ELSE reading' = FALSE /\ connected' = FALSE /\ UNCHANGED closing
  /\ UNCHANGED <<alive, connects, callVars, toServer, toClient>>

\* The process has gone, or is killed after the timeout: whichever _proc is
\* current by then.  The current read task is cancelled.
DisconnectEnds ==
  /\ closing # 0
  /\ closing' = 0
  /\ \/ alive' = FALSE
     \/ closing # connects /\ UNCHANGED alive
  /\ toServer' = IF alive' THEN toServer ELSE <<>>
  /\ reading' = FALSE /\ connected' = FALSE
  /\ UNCHANGED <<shutdown, connects, callVars, toClient>>

ClientNext ==
  \/ Connect \/ ServerAnswers \/ ReadLine \/ ProcessDies \/ ReadEof \/ ReadLoopCrashes
  \/ DisconnectBegins \/ DisconnectEnds
  \/ \E c \in Clients : GiveUp(c) \/ \E method \in Methods : Rpc(c, method)

\* The event loop runs the read loop and disconnect, whose wait has a timeout; a
\* server that lives answers what it is asked.
ClientFairness == /\ WF_clientVars(ServerAnswers)
                  /\ WF_clientVars(ReadLine) /\ WF_clientVars(ReadEof)
                  /\ WF_clientVars(DisconnectEnds)

-----------------------------------------------------------------------------
(* Properties. *)

InPipe(c) == \E pipe \in {toServer, toClient} :
               \E i \in DOMAIN pipe : pipe[i].id = waiting[c] /\ waiting[c] # 0

\* A call that is sent is answered as long as the connection lasts: in whatever
\* order the server answers and whatever other callers send, give up or receive,
\* the caller resumes, or the client finds out that the connection is gone
\* (client.py _read_loop, _rpc, disconnect).  Past that nothing settles the
\* futures of _pending.
CallsAreAnswered ==
  \A c \in Clients : InPipe(c) ~> ~connected \/ waiting[c] = 0
=============================================================================
