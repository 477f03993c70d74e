--------------------------- MODULE ResilienceDlq ---------------------------
(***************************************************************************)
(* The dead-letter queue of kernel/resilience.py over its store            *)
(* (kernel/resilience_store.py, table dead_letter), for one entry id.      *)
(* WorkflowEngine parks a step under the fixed id "res:<instance>:<step>", *)
(* so one id can be enqueued again while an older entry of it is replayed. *)
(*                                                                         *)
(* Entries are mutable Python objects: self._dlq refers to one, a replay   *)
(* suspended at `await coro_factory(...)` refers to the one it obtained,   *)
(* and get_dead_letter makes a new object from the row.  `heap` is the     *)
(* table of these objects, `mem` the one in self._dlq (0: none), held[p]   *)
(* the one replay p works on.  Restart is a new process over the same      *)
(* store: the queue and the replays in flight are gone, the row stays.     *)
(***************************************************************************)
EXTENDS Naturals

CONSTANTS Replayers,    \* concurrent replay_dead_letter calls
          MaxObjects,   \* bound on entry objects ever created
          MaxAttempts,  \* bound on the attempts counter
          MaxRestarts   \* bound on engine restarts

ASSUME BoundAssumption == /\ MaxObjects \in Nat \ {0}
                          /\ MaxAttempts \in Nat \ {0}
                          /\ MaxRestarts \in Nat

VARIABLES heap,      \* heap[i]: [status, attempts] of entry object i
          used,      \* objects 1..used exist
          mem,       \* self._dlq[entry_id]
          row,       \* the store's row, a record like an object, or NoRow
          held,      \* held[p]: object replay p works on, 0 when idle
          restarts,  \* engine restarts so far
          discarded, \* history: discarded since last enqueued or replayed
          delivered  \* history: a replay succeeded since last enqueued

vars == <<heap, used, mem, row, held, restarts, discarded, delivered>>

Objects == 1 .. MaxObjects
NoRow == [status |-> "absent", attempts |-> 0]
Blank == [status |-> "pending", attempts |-> 0]

Init == /\ heap = [i \in Objects |-> Blank]
        /\ used = 0
        /\ mem = 0
        /\ row = NoRow
        /\ held = [p \in Replayers |-> 0]
        /\ restarts = 0
        /\ discarded = FALSE
        /\ delivered = FALSE

\* enqueue_dead_letter: a fresh object, put in the queue and in the store
\* (put_dead_letter overwrites status and attempts of an existing row).
Enqueue(n) ==
  /\ used < MaxObjects
  /\ used' = used + 1
  /\ heap' = [heap EXCEPT ![used + 1] = [status |-> "pending", attempts |-> n]]
  /\ mem' = used + 1
  /\ row' = [status |-> "pending", attempts |-> n]
  /\ discarded' = FALSE
  /\ delivered' = FALSE
  /\ UNCHANGED <<held, restarts>>

\* The object an operation works on: the queued one, else a copy of the row.
\* Allocates when it copies; enabled only when there is an entry.
Obtain(o) ==
  \/ /\ mem # 0 /\ o = mem
     /\ UNCHANGED used
  \/ /\ mem = 0 /\ row # NoRow
     /\ used < MaxObjects
     /\ o = used + 1
     /\ used' = used + 1

\* The content of object o when it has just been obtained.
Content(o) == IF o = mem THEN heap[o] ELSE row

\* replay_dead_letter up to its await.  There is no check of the status.
ReplayStart(p) ==
  /\ held[p] = 0
  /\ \E o \in Objects :
       /\ Obtain(o)
       /\ heap' = [heap EXCEPT ![o] = Content(o)]
       /\ held' = [held EXCEPT ![p] = o]
  /\ UNCHANGED <<mem, row, restarts, discarded, delivered>>

FaultResetsStatus(p) ==
  /\ held[p] # 0
  /\ heap[held[p]].attempts < MaxAttempts
  /\ heap' = [heap EXCEPT ![held[p]] = [status |-> "pending", attempts |-> @.attempts + 1]]
  /\ mem' = held[p]
  /\ row' = heap'[held[p]]
  /\ held' = [held EXCEPT ![p] = 0]
  /\ UNCHANGED <<used, restarts, discarded, delivered>>

\* The replayed task raises: update_dead_letter_status(pending), then
\* put_dead_letter(entry), which has the last word on the row.
ReplayFails(p) ==
  /\ held[p] # 0
  /\ heap[held[p]].attempts < MaxAttempts
  /\ heap' = [heap EXCEPT ![held[p]].attempts = @ + 1]
  /\ mem' = held[p]
  /\ row' = heap'[held[p]]
  /\ held' = [held EXCEPT ![p] = 0]
  /\ UNCHANGED <<used, restarts, discarded, delivered>>

\* The replayed task returns.
ReplaySucceeds(p) ==
  /\ held[p] # 0
  /\ heap' = [heap EXCEPT ![held[p]].status = "replayed"]
  /\ mem' = held[p]
  /\ row' = [row EXCEPT !.status = "replayed"]
  /\ held' = [held EXCEPT ![p] = 0]
  /\ discarded' = FALSE
  /\ delivered' = TRUE
  /\ UNCHANGED <<used, restarts>>

\* The replaying task is cancelled: nothing is recorded.
ReplayCancelled(p) ==
  /\ held[p] # 0
  /\ held' = [held EXCEPT ![p] = 0]
  /\ UNCHANGED <<heap, used, mem, row, restarts, discarded, delivered>>

\* discard_dead_letter.
Discard ==
  /\ \E o \in Objects :
       /\ Obtain(o)
       /\ heap' = [heap EXCEPT ![o] = [Content(o) EXCEPT !.status = "discarded"]]
       /\ mem' = o
  /\ row' = [row EXCEPT !.status = "discarded"]
  /\ discarded' = TRUE
  /\ UNCHANGED <<held, restarts, delivered>>

\* The process ends; a new engine on the same store starts with an empty
\* self._dlq, so its callers obtain entries from the row.
Restart ==
  /\ restarts < MaxRestarts
  /\ restarts' = restarts + 1
  /\ mem' = 0
  /\ held' = [p \in Replayers |-> 0]
  /\ UNCHANGED <<heap, used, row, discarded, delivered>>

Next == \/ \E n \in 0 .. 1 : Enqueue(n)
        \/ \E p \in Replayers : \/ ReplayStart(p) \/ ReplayFails(p)
                                \/ ReplaySucceeds(p) \/ ReplayCancelled(p)
        \/ Discard
        \/ Restart

Spec == Init /\ [][Next]_vars

-----------------------------------------------------------------------------
(* Properties. *)

Row == [status : {"absent", "pending", "replayed", "discarded"}, attempts : Nat]

EntryTypeOK ==
  /\ heap \in [Objects -> Row] /\ row \in Row
  /\ used \in Nat /\ mem \in Nat /\ restarts \in Nat /\ held \in [Replayers -> Nat]
  /\ discarded \in BOOLEAN /\ delivered \in BOOLEAN

\* discard_dead_letter: "Mark a DLQ entry ``discarded`` (won't appear in pending
\* list)"; replay_dead_letter: "On success the entry status becomes ``replayed``".
\* As long as one object has carried the id, no replay that was awaiting its task
\* meanwhile brings the entry back by failing.
SettledNotPending == used <= 1 /\ (discarded \/ delivered) => row.status # "pending"
=============================================================================
