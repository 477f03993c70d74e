-------------------------- MODULE MCWorkflowEngine --------------------------
(* Small workflows for TLC: a, b and c in list order, with the steps ca and *)
(* cc that compensate a and c, which the list has to contain.               *)
EXTENDS WorkflowEngine, TLC

CONSTANTS d1, d2, a, b, c, ca, cc
OneDriver == {d1}
TwoDrivers == {d1, d2}
AllModes == {"loop", "plan", "step"}
LoopOnly == {"loop"}
PlanOnly == {"plan"}
None == {}

\* a, b and c do the work: a and c are compensated, b and ca need approval, b
\* takes a secret, c belongs to a guarded plugin, and cc runs on an MCP server.
LongSeq == <<a, b, c, ca, cc>>
LongComp == a :> ca @@ b :> NoStep @@ c :> cc @@ ca :> NoStep @@ cc :> NoStep
LongMax == a :> 2 @@ b :> 3 @@ c :> 3 @@ ca :> 1 @@ cc :> 2
OnlyB == {b}
OnlyC == {c}
OnlyCc == {cc}
TwoGates == {b, ca}
StepWirings == [sandbox : BOOLEAN, mcp : BOOLEAN, llm : {FALSE}]
PlanWirings == [sandbox : BOOLEAN, mcp : {FALSE}, llm : BOOLEAN]
NoWiring == [sandbox : {FALSE}, mcp : {FALSE}, llm : {FALSE}]

\* A compensated step, one that needs approval, and the compensation.
ShortSeq == <<a, b, ca>>
ShortComp == a :> ca @@ b :> NoStep @@ ca :> NoStep
ShortMax == a :> 2 @@ b :> 1 @@ ca :> 1

\* One step that needs approval and is compensated, and its compensation.
TinySeq == <<b, ca>>
TinyComp == b :> ca @@ ca :> NoStep
TinyMax == b :> 3 @@ ca :> 1
=============================================================================
