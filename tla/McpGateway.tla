----------------------------- MODULE McpGateway -----------------------------
(***************************************************************************)
(* kernel/mcp_gateway.py over kernel/mcp_store.py: sessions with remote    *)
(* MCP servers, their tools and bearer tokens, and JSON-RPC requests with  *)
(* bounded retries.  A token not given to connect is resolved from the     *)
(* vault of ConfigVault.  Every HTTP post, backoff and decryption is       *)
(* awaited, so calls to the same server overlap.                           *)
(***************************************************************************)
EXTENDS ConfigVault

CONSTANTS Servers,      \* the key of a server's token is the server itself
          Tools, Tokens,  \* tokens a caller passes to connect
          SessionIds,   \* bound: sessions opened by one process
          MaxRetries,   \* max_retries
          MaxRuns   \* attempts of the resilience engine, 1: not wired

Session == [server : Servers, status : {"active", "closed"}]

ASSUME GatewayAssumption ==
  /\ Servers \subseteq Keys
  /\ Absent \notin Session
  /\ Tokens \cap Values = {} /\ Absent \notin Tokens \cup SessionIds \cup Tools
  /\ MaxRetries \in Nat /\ MaxRuns \in Nat \ {0}

VARIABLES
  sessions,   \* _sessions: Absent, or [server, status]
  byServer,   \* _by_server: the active session of a server
  tools,      \* _tools: the tools listed last
  auth,       \* _auth: the bearer token sent to a server
  source,     \* _auth_source
  dbServer,   \* the servers table: the token of the last connect
  dbSession,  \* the sessions table
  dbTools,    \* the tools table
  dbCalls,    \* the calls table: the servers called and the sessions (Absent: ad hoc)
  rpc         \* per user: the gateway call under way, Absent: none

gatewayVars == <<sessions, byServer, tools, auth, source, dbServer, dbSession, dbTools, dbCalls, rpc>>

GatewayInit == /\ sessions = [s \in SessionIds |-> Absent]
               /\ byServer = [u \in Servers |-> Absent]
               /\ tools = [u \in Servers |-> {}]
               /\ auth = [u \in Servers |-> Absent]
               /\ source = [u \in Servers |-> "none"]
               /\ dbServer = [u \in Servers |-> Absent]
               /\ dbSession = [s \in SessionIds |-> Absent]
               /\ dbTools = [u \in Servers |-> {}]
               /\ dbCalls = {}
               /\ rpc = [c \in Users |-> Absent]

tables == <<dbServer, dbSession, dbTools, dbCalls>>

PutServer(u, token) == dbServer' = [dbServer EXCEPT ![u] = token]
PutSession(s, session) == dbSession' = [dbSession EXCEPT ![s] = session]
PutTools(u, found) == dbTools' = [dbTools EXCEPT ![u] = @ \cup found]
PutCall(c) ==
  dbCalls' = dbCalls \cup {[server |-> rpc[c].server, session |-> rpc[c].session]}

-----------------------------------------------------------------------------
(* One request: posted, posted again after a transport error, answered. *)

\* A user awaits one call at a time, of the gateway or of the vault.
Idle(c) == rpc[c] = Absent /\ work[c] = Absent
Is(c, at) == rpc[c] # Absent /\ rpc[c].at = at

\* call_tool keeps the session it finds when it starts; outlived is history: that
\* session has been closed since.
Request(op, u, at) == [op |-> op, server |-> u, at |-> at, posts |-> 1, outer |-> 1,
                       token |-> Absent, outlived |-> FALSE,
                       session |-> IF op = "call" THEN byServer[u] ELSE Absent]

Post(c, op, u) == rpc' = [rpc EXCEPT ![c] = Request(op, u, "post")]
PostConnect(c, u, token) ==
  rpc' = [rpc EXCEPT ![c] = [Request("connect", u, "post") EXCEPT !.token = token]]
End(c) == rpc' = [rpc EXCEPT ![c] = Absent]

\* A transport error is retried after a backoff.
PostFails(c) ==
  /\ Is(c, "post") /\ rpc[c].posts <= MaxRetries
  /\ rpc' = [rpc EXCEPT ![c].at = "backoff"]
  /\ UNCHANGED <<sessions, byServer, tools, auth, source, tables>>

PostAgain(c) ==
  /\ Is(c, "backoff")
  /\ rpc' = [rpc EXCEPT ![c].at = "post", ![c].posts = @ + 1]
  /\ UNCHANGED <<sessions, byServer, tools, auth, source, tables>>

\* The request fails: the last transport error, a timeout or an error answer. It
\* is raised, except for call_tool, which the resilience engine may run again and
\* which records the failure.  An open circuit fails it without a post.
RequestFails(c) ==
  /\ Is(c, "post")
  /\ IF rpc[c].op = "call" /\ rpc[c].outer < MaxRuns
     THEN /\ rpc' = [rpc EXCEPT ![c].posts = 1, ![c].outer = @ + 1]
          /\ UNCHANGED dbCalls
     ELSE /\ End(c)
          /\ IF rpc[c].op = "call" THEN PutCall(c) ELSE UNCHANGED dbCalls
  /\ UNCHANGED <<sessions, byServer, tools, auth, source, dbServer, dbSession, dbTools>>

-----------------------------------------------------------------------------
(* connect. *)

ConnectWith(c, u, token) ==
  /\ Idle(c)
  /\ auth' = [auth EXCEPT ![u] = token]
  /\ source' = [source EXCEPT ![u] = "explicit"]
  /\ PostConnect(c, u, token)
  /\ UNCHANGED <<sessions, byServer, tools, tables>>
  /\ UNCHANGED vaultVars

\* Without a token: the vault finds the secret and awaits its decryption,
ConnectAsksVault(c, u) ==
  /\ Idle(c)
  /\ ResolveBegins(c, u)
  /\ rpc' = [rpc EXCEPT ![c] = Request("connect", u, "vault")]
  /\ UNCHANGED <<sessions, byServer, tools, auth, source, tables>>

\* or has none, and an earlier token of the server stays in use.
NoToken(c, u) ==
  /\ source' = [source EXCEPT ![u] = "none"]
  /\ PostConnect(c, u, Absent)
  /\ UNCHANGED <<sessions, byServer, tools, auth, tables>>

ConnectFindsNoSecret(c, u) == Idle(c) /\ ResolveDenied(c, u) /\ NoToken(c, u)

ConnectCannotDecrypt(c) ==
  /\ Is(c, "vault")
  /\ CipherFails(c)
  /\ NoToken(c, rpc[c].server)

ConnectGetsToken(c) ==
  LET u == rpc[c].server IN
  /\ Is(c, "vault")
  /\ ResolveEnds(c)
  /\ auth' = [auth EXCEPT ![u] = work[c].secret.value]
  /\ source' = [source EXCEPT ![u] = "vault"]
  /\ PostConnect(c, u, work[c].secret.value)
  /\ UNCHANGED <<sessions, byServer, tools, tables>>

\* initialize answered: a new session, also when the server already has one.
Connected(c) ==
  /\ Is(c, "post") /\ rpc[c].op = "connect"
  /\ \E s \in SessionIds :
       LET session == [server |-> rpc[c].server, status |-> "active"] IN
       /\ sessions[s] = Absent /\ dbSession[s] = Absent
       /\ sessions' = [sessions EXCEPT ![s] = session]
       /\ PutSession(s, session)
       /\ byServer' = [byServer EXCEPT ![rpc[c].server] = s]
  /\ PutServer(rpc[c].server, rpc[c].token)
  /\ End(c)
  /\ UNCHANGED <<tools, auth, source, dbTools, dbCalls>>

Outlive(s) == rpc' = [c \in Users |-> IF rpc[c] # Absent /\ rpc[c].session = s
                                     THEN [rpc[c] EXCEPT !.outlived = TRUE] ELSE rpc[c]]

\* Seeded fault: an old session is closed without touching the server's entry.
FaultCloseOnly(s) ==
  /\ sessions[s] # Absent
  /\ sessions' = [sessions EXCEPT ![s].status = "closed"]
  /\ PutSession(s, sessions'[s])
  /\ Outlive(s)
  /\ UNCHANGED <<byServer, tools, auth, source, dbServer, dbTools, dbCalls>>

\* close_session takes the server's entry with it, whichever session that names.
CloseSession(s) ==
  /\ sessions[s] # Absent
  /\ sessions' = [sessions EXCEPT ![s].status = "closed"]
  /\ byServer' = [byServer EXCEPT ![sessions[s].server] = Absent]
  /\ PutSession(s, sessions'[s])
  /\ Outlive(s)
  /\ UNCHANGED <<tools, auth, source, dbServer, dbTools, dbCalls>>

-----------------------------------------------------------------------------
(* Tools and resources. *)

\* list_tools, call_tool and read_resource need no session: without one the
\* call counts as ad hoc.
StartRequest(c, op, u) ==
  /\ Idle(c) /\ op \in {"list", "call", "read"}
  /\ Post(c, op, u)
  /\ UNCHANGED <<sessions, byServer, tools, auth, source, tables>>

\* The cache is replaced; the table only ever gains tools.
Tooled(c, found) ==
  LET u == rpc[c].server IN
  /\ Is(c, "post") /\ rpc[c].op = "list"
  /\ tools' = [tools EXCEPT ![u] = found]
  /\ PutTools(u, found)
  /\ End(c)
  /\ UNCHANGED <<sessions, byServer, auth, source, dbServer, dbSession, dbCalls>>

Answered(c) ==
  /\ Is(c, "post") /\ rpc[c].op \in {"call", "read"}
  /\ IF rpc[c].op = "call" THEN PutCall(c) ELSE UNCHANGED dbCalls
  /\ End(c)
  /\ UNCHANGED <<sessions, byServer, tools, auth, source, dbServer, dbSession, dbTools>>

\* discover_local_tools: the tables count only while nothing at all is cached.
Discovered == IF \E u \in Servers : tools[u] # {} THEN tools ELSE dbTools

\* A task with the capability "mcp:t" is a call to a server that has the tool.
CallCapability(c, t) ==
  /\ Idle(c)
  /\ \E u \in Servers : t \in Discovered[u] /\ Post(c, "call", u)
  /\ UNCHANGED <<sessions, byServer, tools, auth, source, tables>>

-----------------------------------------------------------------------------
GatewayRestart ==
  /\ sessions' = [s \in SessionIds |-> Absent]
  /\ byServer' = [u \in Servers |-> Absent]
  /\ tools' = [u \in Servers |-> {}]
  /\ auth' = [u \in Servers |-> Absent]
  /\ source' = [u \in Servers |-> "none"]
  /\ rpc' = [c \in Users |-> Absent]
  /\ UNCHANGED tables

Connecting(c) ==
  \/ \E u \in Servers : \/ \E t \in Tokens : ConnectWith(c, u, t)
                        \/ ConnectAsksVault(c, u) \/ ConnectFindsNoSecret(c, u)
  \/ ConnectGetsToken(c) \/ ConnectCannotDecrypt(c)
  \/ (PostFails(c) \/ PostAgain(c) \/ RequestFails(c) \/ Connected(c)) /\ UNCHANGED vaultVars

Using(c) ==
  /\ \/ \E u \in Servers, op \in {"list", "call", "read"} : StartRequest(c, op, u)
     \/ \E found \in SUBSET Tools : Tooled(c, found)
     \/ \E t \in Tools : CallCapability(c, t)
     \/ Answered(c)
  /\ UNCHANGED vaultVars

GatewayNext ==
  \/ \E c \in Users : Connecting(c) \/ Using(c)
  \/ \E s \in SessionIds : CloseSession(s) /\ UNCHANGED vaultVars

\* The gateway next to the vault it takes its tokens from, in one process.
TokensNext == \/ ConfigNext
              \/ \E c \in Users : rpc[c] = Absent /\ SecretNext(c)

GatewaySystemNext == \/ GatewayNext
                     \/ TokensNext /\ UNCHANGED gatewayVars
                     \/ VaultStops /\ GatewayRestart

GatewaySpec == /\ VaultInit /\ GatewayInit
               /\ [][GatewaySystemNext]_<<vaultVars, gatewayVars>>

-----------------------------------------------------------------------------
(* Properties. *)

Rpc == [op : {"connect", "list", "call", "read"}, server : Servers,
        at : {"post", "backoff", "vault"}, posts : Nat, outer : Nat,
        token : Tokens \cup Values \cup {Absent}, outlived : BOOLEAN,
        session : SessionIds \cup {Absent}]

GatewayTypeOK ==
  /\ sessions \in [SessionIds -> Session \cup {Absent}]
  /\ dbSession \in [SessionIds -> Session \cup {Absent}]
  /\ byServer \in [Servers -> SessionIds \cup {Absent}]
  /\ tools \in [Servers -> SUBSET Tools] /\ dbTools \in [Servers -> SUBSET Tools]
  /\ auth \in [Servers -> Tokens \cup Values \cup {Absent}]
  /\ dbServer \in [Servers -> Tokens \cup Values \cup {Absent}]
  /\ source \in [Servers -> {"none", "explicit", "vault"}]
  /\ dbCalls \subseteq [server : Servers, session : SessionIds \cup {Absent}]
  /\ rpc \in [Users -> Rpc \cup {Absent}]

\* The entry of a server names an open session of it.
EntryIsOpen ==
  \A u \in Servers : byServer[u] # Absent =>
    sessions[byServer[u]] = [server |-> u, status |-> "active"]

\* A call under way has a session of its server, closed only since it started.
CallHadSession ==
  \A c \in Users : rpc[c] # Absent /\ rpc[c].session # Absent =>
    LET session == sessions[rpc[c].session] IN
    /\ session # Absent /\ session.server = rpc[c].server
    /\ session.status = "closed" => rpc[c].outlived

\* A recorded call refers to a row of the sessions table, of the same server.
CallHasRow ==
  \A call \in dbCalls : call.session # Absent =>
    dbSession[call.session] # Absent /\ dbSession[call.session].server = call.server

SessionsSaved == \A s \in SessionIds : sessions[s] # Absent => dbSession[s] = sessions[s]

\* call_tool records a call under the session it read before its awaits, while
\* connects and closes go on (mcp_gateway.py connect, close_session, call_tool).
\* No call starts under a closed session, and one recorded under a closed session
\* was under way when that was closed; its row refers to a row of the sessions
\* table, also after a restart; and that table agrees with the gateway about the
\* server and the status of every session of this process.
ServerSessionIsOpen == EntryIsOpen /\ CallHadSession /\ CallHasRow /\ SessionsSaved
=============================================================================
