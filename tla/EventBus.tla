------------------------------ MODULE EventBus ------------------------------
(***************************************************************************)
(* The in-memory publish/subscribe bus of kernel/bus.py.                   *)
(*                                                                         *)
(* publish() creates one dispatch task per event; asyncio starts tasks in  *)
(* the order they were created (ready).  A dispatch task snapshots the     *)
(* handlers of the event's type, awaits them one after the other, and only *)
(* then resolves the wait_for() futures.  Every `await handler(event)` is  *)
(* a point where other dispatches, timers and callers run, so one step of  *)
(* this model is what a dispatch does between two such points.             *)
(*                                                                         *)
(* A subscription id is fresh (uuid4) and belongs to one event type.       *)
(***************************************************************************)
EXTENDS Naturals, FiniteSets, Sequences, SequencesExt

CONSTANTS Events,     \* the events that may be published, once each
          Types,      \* event types
          Subs,       \* subscription ids
          SubType,    \* SubType[s]: the event type s is subscribed to
          Waiters,    \* wait_for() futures
          WaitTypes,  \* WaitTypes[w]: the event types w waits for
          NoEvent     \* the value of a future that holds no result

ASSUME BusAssumption == Types # {} /\ SubType \in [Subs -> Types]

VARIABLES subs,     \* self._subs: per event type the active ids, oldest first
          usedIds,  \* ids that subscribe() has already handed out
          type,     \* type[e]: Event.type of a published event
          ready,    \* dispatch tasks not started yet, oldest first
          task,     \* task[e]: "new", "ready", "running", "done", "cancelled"
          rest,     \* rest[e]: snapshot of handlers still to finish; the
                    \* head is the one being awaited
          invoked,  \* invoked[s]: events handler s was called with, in order
          waiters,  \* futures in self._waiters
          fut,      \* fut[w]: state of the future
          val,      \* val[w]: the event a resolved future carries
          pub,      \* history: events in publish order
          audience, \* history: subscribers of e's type when e was published
          old       \* history: events already published when w was created

busVars == <<subs, usedIds, type, ready, task, rest, invoked, waiters, fut, val,
          pub, audience, old>>

BusInit == /\ subs = [t \in Types |-> <<>>]
           /\ usedIds = {}
           /\ type = [e \in Events |-> CHOOSE t \in Types : TRUE]
           /\ ready = <<>>
           /\ task = [e \in Events |-> "new"]
           /\ rest = [e \in Events |-> <<>>]
           /\ invoked = [s \in Subs |-> <<>>]
           /\ waiters = {}
           /\ fut = [w \in Waiters |-> "none"]
           /\ val = [w \in Waiters |-> NoEvent]
           /\ pub = <<>>
           /\ audience = [e \in Events |-> {}]
           /\ old = [w \in Waiters |-> {}]

-----------------------------------------------------------------------------
(* Subscribing and publishing: plain calls, no suspension point. *)

Subscribe(s) ==
  /\ s \notin usedIds
  /\ usedIds' = usedIds \cup {s}
  /\ subs' = [subs EXCEPT ![SubType[s]] = Append(@, s)]
  /\ UNCHANGED <<type, ready, task, rest, invoked, waiters, fut, val, pub, audience, old>>

Unsubscribe(s) ==
  /\ \E i \in DOMAIN subs[SubType[s]] :
       /\ subs[SubType[s]][i] = s
       /\ subs' = [subs EXCEPT ![SubType[s]] = RemoveAt(@, i)]
  /\ UNCHANGED <<usedIds, type, ready, task, rest, invoked, waiters, fut, val,
                 pub, audience, old>>

Publish(e, t) ==
  /\ task[e] = "new"
  /\ type' = [type EXCEPT ![e] = t]
  /\ task' = [task EXCEPT ![e] = "ready"]
  /\ ready' = Append(ready, e)
  /\ pub' = Append(pub, e)
  /\ audience' = [audience EXCEPT ![e] = ToSet(subs[t])]
  /\ UNCHANGED <<subs, usedIds, rest, invoked, waiters, fut, val, old>>

-----------------------------------------------------------------------------
(* _dispatch. *)

\* Seeded faults for ResolveWaiters.
FaultDropsOtherWaiters(e) ==
  LET hit == {w \in waiters : fut[w] = "pending" /\ type[e] \in WaitTypes[w]}
  IN /\ fut' = [w \in Waiters |-> IF w \in hit THEN "result" ELSE fut[w]]
     /\ val' = [w \in Waiters |-> IF w \in hit THEN e ELSE val[w]]
     /\ waiters' = {}

\* The trailing loop of _dispatch: finished futures are dropped, matching
\* ones get the event, the others stay in self._waiters.
ResolveWaiters(e) ==
  LET live == {w \in waiters : fut[w] = "pending"}
      hit == {w \in live : type[e] \in WaitTypes[w]}
  IN /\ fut' = [w \in Waiters |-> IF w \in hit THEN "result" ELSE fut[w]]
     /\ val' = [w \in Waiters |-> IF w \in hit THEN e ELSE val[w]]
     /\ waiters' = live \ hit

\* Seeded fault: the barrier is released before the handlers have run.
FaultResolveFirst(e, hs) ==
  /\ rest' = [rest EXCEPT ![e] = hs]
  /\ ResolveWaiters(e)
  /\ \/ /\ hs # <<>>
        /\ invoked' = [invoked EXCEPT ![Head(hs)] = Append(@, e)]
        /\ task' = [task EXCEPT ![e] = "running"]
     \/ /\ hs = <<>>
        /\ task' = [task EXCEPT ![e] = "done"]
        /\ UNCHANGED invoked

\* Continue with the handlers hs of e: call the first one, or, when there
\* is none left, resolve the waiters and end.
Continue(e, hs) ==
  /\ rest' = [rest EXCEPT ![e] = hs]
  /\ \/ /\ hs # <<>>
        /\ invoked' = [invoked EXCEPT ![Head(hs)] = Append(@, e)]
        /\ task' = [task EXCEPT ![e] = "running"]
        /\ UNCHANGED <<waiters, fut, val>>
     \/ /\ hs = <<>>
        /\ task' = [task EXCEPT ![e] = "done"]
        /\ ResolveWaiters(e)
        /\ UNCHANGED invoked

\* The event loop starts the oldest dispatch task.
StartDispatch(e) ==
  /\ ready # <<>>
  /\ e = Head(ready)
  /\ ready' = Tail(ready)
  /\ Continue(e, subs[type[e]])
  /\ UNCHANGED <<subs, usedIds, type, pub, audience, old>>

\* The awaited handler returns.
HandlerReturns(e) ==
  /\ task[e] = "running"
  /\ Continue(e, Tail(rest[e]))
  /\ UNCHANGED <<subs, usedIds, type, ready, pub, audience, old>>

\* Seeded fault: without the try/except the first failing handler ends the
\* whole dispatch.
FaultNoContainment(e) ==
  /\ task[e] = "running"
  /\ Continue(e, <<>>)
  /\ UNCHANGED <<subs, usedIds, type, ready, pub, audience, old>>

\* The awaited handler raises an Exception: logged, then as above.
HandlerRaises(e) ==
  /\ task[e] = "running"
  /\ Continue(e, Tail(rest[e]))
  /\ UNCHANGED <<subs, usedIds, type, ready, pub, audience, old>>

\* The awaited handler raises CancelledError (it awaited a future that clear()
\* or close() cancelled), which `except Exception` lets through: the dispatch
\* task ends there, without its remaining handlers and without resolving
\* waiters.
HandlerCancelled(e) ==
  /\ task[e] = "running"
  /\ task' = [task EXCEPT ![e] = "cancelled"]
  /\ rest' = [rest EXCEPT ![e] = <<>>]
  /\ UNCHANGED <<subs, usedIds, type, ready, invoked, waiters, fut, val,
                 pub, audience, old>>

-----------------------------------------------------------------------------
(* Sync barriers. *)

WaitFor(w) ==
  /\ fut[w] = "none"
  /\ fut' = [fut EXCEPT ![w] = "pending"]
  /\ waiters' = waiters \cup {w}
  /\ old' = [old EXCEPT ![w] = ToSet(pub)]
  /\ UNCHANGED <<subs, usedIds, type, ready, task, rest, invoked, val, pub, audience>>

\* _on_timeout: the future fails, its entry stays until the next dispatch.
Timeout(w) ==
  /\ fut[w] = "pending"
  /\ fut' = [fut EXCEPT ![w] = "timeout"]
  /\ UNCHANGED <<subs, usedIds, type, ready, task, rest, invoked, waiters, val,
                 pub, audience, old>>

\* clear() and close(): cancel pending waiters, forget subscriptions.
\* Dispatch tasks that are already running go on with their snapshot.
Clear ==
  /\ subs' = [t \in Types |-> <<>>]
  /\ waiters' = {}
  /\ fut' = [w \in Waiters |->
               IF w \in waiters /\ fut[w] = "pending" THEN "cancelled" ELSE fut[w]]
  /\ UNCHANGED <<usedIds, type, ready, task, rest, invoked, val, pub, audience, old>>

DispatchTask(e) == \/ StartDispatch(e) \/ HandlerReturns(e)
               \/ HandlerRaises(e) \/ HandlerCancelled(e)

BusNext == \/ \E s \in Subs : Subscribe(s) \/ Unsubscribe(s)
           \/ \E e \in Events : DispatchTask(e) \/ \E t \in Types : Publish(e, t)
           \/ \E w \in Waiters : WaitFor(w) \/ Timeout(w)
           \/ Clear

BusSpec == BusInit /\ [][BusNext]_busVars

-----------------------------------------------------------------------------
(* Properties. *)

TaskState == {"new", "ready", "running", "done", "cancelled"}
FutState == {"none", "pending", "result", "timeout", "cancelled"}

BusTypeOK ==
  /\ subs \in [Types -> Seq(Subs)] /\ usedIds \subseteq Subs
  /\ type \in [Events -> Types] /\ task \in [Events -> TaskState]
  /\ ready \in Seq(Events) /\ pub \in Seq(Events)
  /\ rest \in [Events -> Seq(Subs)] /\ invoked \in [Subs -> Seq(Events)]
  /\ waiters \subseteq Waiters /\ fut \in [Waiters -> FutState]
  /\ val \in [Waiters -> Events \cup {NoEvent}]
  /\ audience \in [Events -> SUBSET Subs] /\ old \in [Waiters -> SUBSET Events]

Occurrences(e, s) == Cardinality({i \in DOMAIN invoked[s] : invoked[s][i] = e})

\* Fault containment and delivery: when the dispatch of an event has run to
\* its end, each subscriber that was there when the event was published, and
\* still is, has been called with it exactly once - also when other
\* handlers raised, other dispatches interleaved, or waiters timed out.  And
\* nobody is ever called twice with the same event.
DeliveredExactlyOnce ==
  \A e \in Events, s \in Subs :
    /\ Occurrences(e, s) <= 1
    /\ task[e] = "done" /\ s \in audience[e] \cap ToSet(subs[SubType[s]]) => Occurrences(e, s) = 1

\* The sync barrier: a future that resolved with e resolved after every
\* handler of e's snapshot had finished, and with a type it asked for.
BarrierAfterHandlers ==
  \A w \in Waiters : fut[w] = "result" =>
    /\ val[w] \in Events /\ task[val[w]] = "done"
    /\ type[val[w]] \in WaitTypes[w]

\* No lost wake-up: a future still pending has not missed an event that was
\* published after wait_for() was called and whose dispatch has ended.  (The
\* dispatch reads self._waiters after its awaits, not before them.)
NoLostWakeup ==
  \A w \in Waiters, e \in Events :
    fut[w] = "pending" /\ task[e] = "done" /\ type[e] \in WaitTypes[w] => e \in old[w]
=============================================================================
