---------------------------- MODULE Observability ----------------------------
(***************************************************************************)
(* kernel/observability.py and its store, with the runs that report to it  *)
(* (execute_adaptive and execute_with_context of kernel/workflow.py,       *)
(* execute of kernel/agent.py).  Memory holds the newest SpansLimit spans, *)
(* MetricsLimit samples and LogsLimit log entries; the store keeps a row   *)
(* of everything.  Emitting an event suspends nobody, so a run meets       *)
(* others only while it awaits its work.  start_time never goes back, so   *)
(* the oldest span is the one inserted first.                              *)
(***************************************************************************)
EXTENDS Naturals, FiniteSets, SequencesExt

CONSTANTS Runners,        \* coroutines that execute workflows and tasks
          MaxSpans,       \* bound on the spans ever started
          SpansLimit, MetricsLimit, LogsLimit

ASSUME ObsAssumption ==
  /\ MaxSpans \in Nat
  /\ SpansLimit \in Nat \ {0} /\ MetricsLimit \in Nat \ {0} /\ LogsLimit \in Nat \ {0}

VARIABLES
  spans,     \* _spans: ids in insertion order
  rows,      \* the spans table: rows[i] is "open" or the status span i ended with
  samples,   \* _metrics
  counters,  \* _counters
  logs,      \* _logs: the levels
  errors,    \* _error_count
  run,       \* per runner: the kind and the spans of its run, the outer span first
  booted,    \* spans started before this process
  left       \* history: spans whose run ended without finish_span

obsVars == <<spans, rows, samples, counters, logs, errors, run, booted, left>>

MetricNames == {"agent.executions", "wf.executions", "wf.steps_total", "wf.errors"}
NoRun == [kind |-> "none", ids |-> <<>>]

ObsInit == /\ spans = <<>> /\ rows = <<>>
           /\ samples = <<>> /\ counters = [n \in MetricNames |-> 0]
           /\ logs = <<>> /\ errors = 0
           /\ run = [w \in Runners |-> NoRun]
           /\ booted = 0 /\ left = {}

-----------------------------------------------------------------------------
(* The engine. *)

\* The newest max elements of a list that is trimmed from the front.
Newest(s, max) == IF Len(s) > max THEN SubSeq(s, Len(s) - max + 1, Len(s)) ELSE s

\* Seeded fault: the bound is tested before the span is added, too early by one.
FaultSpanStarted(memory, i) ==
  Append(IF Len(memory) >= SpansLimit - 1 THEN Tail(memory) ELSE memory, i)

\* start_span evicts the oldest span when there are too many, ended or not.
SpanStarted(memory, i) ==
  LET all == Append(memory, i) IN IF Len(all) > SpansLimit THEN Tail(all) ELSE all

\* Ids of the spans a run starts one after the other.
Fresh(n) == [k \in 1 .. n |-> Len(rows) + k]

\* finish_span: a span that memory has evicted is not found, and its row stays.
SpanFinished(table, i, status) ==
  IF i \in ToSet(spans) THEN [table EXCEPT ![i] = status] ELSE table

\* The spans of a run are started outer one first, and finished inner one first.
RunStarted(memory, ids) ==
  IF Len(ids) = 1 THEN SpanStarted(memory, ids[1])
  ELSE SpanStarted(SpanStarted(memory, ids[1]), ids[2])

RunFinished(table, ids) ==
  IF Len(ids) = 1 THEN SpanFinished(table, ids[1], "ok")
  ELSE SpanFinished(SpanFinished(table, ids[2], "ok"), ids[1], "ok")

\* record_metric of one unit each (workflows of one step).
RecordMetrics(names) ==
  /\ samples' = Newest(samples \o names, MetricsLimit)
  /\ counters' = [n \in MetricNames |-> counters[n] + Cardinality({k \in DOMAIN names : names[k] = n})]

Log(level) ==
  /\ logs' = Newest(Append(logs, level), LogsLimit)
  /\ errors' = IF level = "error" THEN errors + 1 ELSE errors

-----------------------------------------------------------------------------
(* The runs. *)

\* agent.execute and execute_adaptive start one span; execute_with_context starts
\* one and calls execute_adaptive.
RunBegins(w, kind) ==
  LET ids == Fresh(IF kind = "context" THEN 2 ELSE 1)
  IN  /\ run[w] = NoRun /\ Last(ids) <= MaxSpans
      /\ run' = [run EXCEPT ![w] = [kind |-> kind, ids |-> ids]]
      /\ spans' = RunStarted(spans, ids)
      /\ rows' = rows \o [k \in DOMAIN ids |-> "open"]
      /\ IF kind = "agent" THEN Log("debug") ELSE UNCHANGED <<logs, errors>>
      /\ UNCHANGED <<samples, counters, booted, left>>

\* The work is done.
RunReturns(w) ==
  /\ rows' = RunFinished(rows, run[w].ids)
  /\ run' = [run EXCEPT ![w] = NoRun]
  /\ UNCHANGED <<spans, booted, left>>

AgentRunReturns(w) ==
  /\ run[w].kind = "agent" /\ RunReturns(w)
  /\ RecordMetrics(<<"agent.executions">>)
  /\ UNCHANGED <<logs, errors>>

WorkflowRunReturns(w, failedSteps) ==
  /\ run[w].kind \in {"workflow", "context"} /\ RunReturns(w)
  /\ RecordMetrics(<<"wf.executions", "wf.steps_total">>
                     \o IF failedSteps THEN <<"wf.errors">> ELSE <<>>)
  /\ Log(IF failedSteps THEN "error" ELSE "info")

\* The run raises or is cancelled: `finally` finishes the span of the run, as "ok",
\* and execute_with_context leaves its own one open.
RunEndsEarly(w) ==
  /\ run[w] # NoRun
  /\ rows' = SpanFinished(rows, Last(run[w].ids), "ok")
  /\ run' = [run EXCEPT ![w] = NoRun]
  /\ left' = left \cup ToSet(Front(run[w].ids))
  /\ UNCHANGED <<spans, booted>>

RunRaises(w) ==
  /\ RunEndsEarly(w) /\ Log("error")
  /\ RecordMetrics(IF run[w].kind = "agent" THEN <<>> ELSE <<"wf.errors">>)

\* CancelledError is no Exception: nothing is logged.
RunCancelled(w) == RunEndsEarly(w) /\ UNCHANGED <<samples, counters, logs, errors>>

\* A new process: the store loads its tables, the engine starts empty.
ObsRestart ==
  /\ spans' = <<>> /\ samples' = <<>> /\ logs' = <<>>
  /\ counters' = [n \in DOMAIN counters |-> 0] /\ errors' = 0
  /\ run' = [w \in Runners |-> NoRun]
  /\ booted' = Len(rows) /\ left' = {}
  /\ UNCHANGED rows

ObsNext ==
  \/ ObsRestart
  \/ \E w \in Runners :
       \/ \E kind \in {"agent", "workflow", "context"} : RunBegins(w, kind)
       \/ AgentRunReturns(w)
       \/ \E failed \in BOOLEAN : WorkflowRunReturns(w, failed)
       \/ RunRaises(w) \/ RunCancelled(w)

ObsSpec == ObsInit /\ [][ObsNext]_obsVars

RunState == [kind : {"none", "agent", "workflow", "context"}, ids : Seq(Nat)]

ObsTypeOK ==
  /\ spans \in Seq(Nat) /\ rows \in Seq({"open", "ok"})
  /\ samples \in Seq(MetricNames) /\ counters \in [MetricNames -> Nat]
  /\ logs \in Seq({"debug", "info", "error"}) /\ errors \in Nat
  /\ run \in [Runners -> RunState]
  /\ booted \in Nat /\ left \subseteq Nat

-----------------------------------------------------------------------------
(* Properties. *)

\* Of the newest SpansLimit spans this process has started, one is open in the
\* store only while its run is under way, or because execute_with_context left
\* it: however runs overlap, none of those is evicted before it is finished
\* (observability.py start_span, finish_span; workflow.py, agent.py `finally`).
RecentSpansSettle ==
  \A i \in booted + 1 .. Len(rows) :
    (rows[i] = "open" /\ i > Len(rows) - SpansLimit) =>
      i \in left \/ \E w \in Runners : i \in ToSet(run[w].ids)
=============================================================================
