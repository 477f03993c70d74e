----------------------------- MODULE MCServices -----------------------------
(***************************************************************************)
(* Services that share no state, each a scene of its own: the pipe client, *)
(* the executor and the stdio server, which owe their users an answer; the *)
(* dead-letter queues of health.py ("dlq") and of resilience.py            *)
(* ("parked"), the background monitors and the observability engine.  Only *)
(* the actions of a scene are ever under way in it, so the fairness of the *)
(* others asks for nothing.                                                *)
(***************************************************************************)
EXTENDS McpClient, TaskExecutor, StdioServer, DeadLetterQueue, ResilienceDlq,
        MonitorLoops, Observability

CONSTANTS t1, t2, cap1, default

MCNeeds == [t \in Tasks |-> IF t = t1 THEN cap1 ELSE default]

VARIABLE scene

answering == <<clientVars, executorVars, stdioVars>>
keeping == <<dlqVars, vars, monitorVars, obsVars>>

MCInit == /\ scene \in {"client", "executor", "stdio", "dlq", "parked", "beats", "probes", "obs"}
          /\ ClientInit /\ ExecutorInit /\ StdioInit
          /\ DlqInit /\ Init /\ MonitorInit /\ ObsInit

Answers ==
  \/ scene = "client" /\ ClientNext /\ UNCHANGED <<executorVars, stdioVars>>
  \/ scene = "executor" /\ ExecutorNext /\ UNCHANGED <<clientVars, stdioVars>>
  \/ scene = "stdio" /\ StdioNext /\ UNCHANGED <<clientVars, executorVars>>

Keeps ==
  \/ scene = "dlq" /\ DlqNext /\ UNCHANGED <<vars, monitorVars, obsVars>>
  \/ scene = "parked" /\ Next /\ UNCHANGED <<dlqVars, monitorVars, obsVars>>
  \/ scene = "beats" /\ BeatsNext /\ UNCHANGED <<dlqVars, vars, obsVars>>
  \/ scene = "probes" /\ ProbesNext /\ UNCHANGED <<dlqVars, vars, obsVars>>
  \/ scene = "obs" /\ ObsNext /\ UNCHANGED <<dlqVars, vars, monitorVars>>

MCNext == /\ UNCHANGED scene
          /\ \/ Answers /\ UNCHANGED keeping
             \/ Keeps /\ UNCHANGED answering

MCSpec == MCInit /\ [][MCNext]_<<answering, keeping, scene>>
          /\ ClientFairness /\ ExecutorFairness /\ StdioFairness
=============================================================================
