--------------------------- MODULE DeadLetterQueue --------------------------
(***************************************************************************)
(* DeadLetterQueue (kernel/health.py, ADR-021): an append-only list of     *)
(* failed work.  replay() hands the unrecovered entries of a component to  *)
(* an asynchronous handler, one after the other, over a copy of the list;  *)
(* recover() marks an entry.  Entries are only ever added, so the copy is  *)
(* the prefix of the list that existed when the replay began, and an entry *)
(* is named by its index.                                                  *)
(***************************************************************************)
EXTENDS Naturals, Sequences, FiniteSets

CONSTANTS Components,   \* component_ids
          Callers,      \* callers of replay()
          MaxEntries,   \* bound on the entries appended
          MaxReplays    \* bound on the replays of one caller

ASSUME DlqAssumption == Components # {} /\ MaxEntries \in Nat /\ MaxReplays \in Nat

VARIABLES entries,   \* _entries: component_id and whether recovered_at is set
          rep,       \* rep[r]: the replay of r
          replays,   \* replays[r]: replays r has begun
          handled    \* handled[r][e]: times a handler of r has succeeded for entry e

dlqVars == <<entries, rep, replays, handled>>

Index == 1 .. MaxEntries
NoReplay == [pc |-> "idle", comp |-> CHOOSE c \in Components : TRUE, last |-> 0,
             pos |-> 0, recovered |-> 0]

DlqInit == /\ entries = <<>>
           /\ rep = [r \in Callers |-> NoReplay]
           /\ replays = [r \in Callers |-> 0]
           /\ handled = [r \in Callers |-> [e \in Index |-> 0]]

\* append.
Append1(c) ==
  /\ Len(entries) < MaxEntries
  /\ entries' = Append(entries, [comp |-> c, recovered |-> FALSE])
  /\ UNCHANGED <<rep, replays, handled>>

\* recover, called by the entry's owner.
Recover(e) ==
  /\ e \in DOMAIN entries
  /\ entries' = [entries EXCEPT ![e].recovered = TRUE]
  /\ UNCHANGED <<rep, replays, handled>>

\* The entries from position from on that the replay x still has to handle.
ToHandle(x, from) ==
  {e \in from .. x.last : entries[e].comp = x.comp /\ ~entries[e].recovered}

\* The replay x goes on from position from: the next entry, or the return.
Resume(x, from) ==
  IF ToHandle(x, from) = {} THEN [x EXCEPT !.pc = "returned"]
  ELSE [x EXCEPT !.pc = "await",
                 !.pos = CHOOSE e \in ToHandle(x, from) :
                           \A f \in ToHandle(x, from) : e <= f]

\* replay: the list is copied and scanned up to the first await.
BeginReplay(r, c) ==
  /\ rep[r].pc \in {"idle", "returned", "raised"} /\ replays[r] < MaxReplays
  /\ rep' = [rep EXCEPT ![r] =
               Resume([NoReplay EXCEPT !.comp = c, !.last = Len(entries)], 1)]
  /\ replays' = [replays EXCEPT ![r] = @ + 1]
  /\ UNCHANGED <<entries, handled>>

\* Seeded fault: the entry is not marked.
FaultDoesNotMark(r) ==
  /\ rep[r].pc = "await"
  /\ handled' = [handled EXCEPT ![r][rep[r].pos] = @ + 1]
  /\ rep' = [rep EXCEPT ![r] = Resume([rep[r] EXCEPT !.recovered = @ + 1], rep[r].pos + 1)]
  /\ UNCHANGED <<entries, replays>>

\* The handler returns True: the entry is recovered and counted.
HandlerSucceeds(r) ==
  /\ rep[r].pc = "await"
  /\ handled' = [handled EXCEPT ![r][rep[r].pos] = @ + 1]
  /\ entries' = [entries EXCEPT ![rep[r].pos].recovered = TRUE]
  /\ rep' = [rep EXCEPT ![r] = Resume([rep[r] EXCEPT !.recovered = @ + 1], rep[r].pos + 1)]
  /\ UNCHANGED replays

\* The handler returns True, recover() marks the entry and its event store
\* raises: the replay ends with the error, the entry uncounted.
StoreRaises(r) ==
  /\ rep[r].pc = "await"
  /\ handled' = [handled EXCEPT ![r][rep[r].pos] = @ + 1]
  /\ entries' = [entries EXCEPT ![rep[r].pos].recovered = TRUE]
  /\ rep' = [rep EXCEPT ![r].pc = "raised"]
  /\ UNCHANGED replays

\* The handler returns False: the entry stays.
HandlerFails(r) ==
  /\ rep[r].pc = "await"
  /\ rep' = [rep EXCEPT ![r] = Resume(rep[r], rep[r].pos + 1)]
  /\ UNCHANGED <<entries, replays, handled>>

\* The handler raises: so does replay().
ReplayRaises(r) ==
  /\ rep[r].pc = "await"
  /\ rep' = [rep EXCEPT ![r].pc = "raised"]
  /\ UNCHANGED <<entries, replays, handled>>

HandlerEnds(r) == HandlerSucceeds(r) \/ StoreRaises(r) \/ HandlerFails(r) \/ ReplayRaises(r)

DlqNext == \/ \E c \in Components : Append1(c)
           \/ \E e \in Index : Recover(e)
           \/ \E r \in Callers : HandlerEnds(r) \/ \E c \in Components : BeginReplay(r, c)

DlqSpec == DlqInit /\ [][DlqNext]_dlqVars

-----------------------------------------------------------------------------
(* Properties. *)

Letter == [comp : Components, recovered : BOOLEAN]
ReplayState == [pc : {"idle", "await", "returned", "raised"}, comp : Components,
                last : Nat, pos : Nat, recovered : Nat]

DlqTypeOK ==
  /\ entries \in Seq(Letter) /\ rep \in [Callers -> ReplayState]
  /\ replays \in [Callers -> Nat] /\ handled \in [Callers -> [Index -> Nat]]

\* replay: "Idempotent by design".  However the replays of one caller follow one
\* another, and whatever other callers replay, append and recover meanwhile, no
\* entry is handled for that caller with success twice.
HandledOnce == \A r \in Callers, e \in Index : handled[r][e] <= 1
=============================================================================
