--------------------------- MODULE MessagingProofs ---------------------------
(***************************************************************************)
(* Proofs about the event bus and the two dead-letter queues, each for     *)
(* every value of its constants.  They share no variable.                  *)
(***************************************************************************)
EXTENDS EventBus, DeadLetterQueue, ResilienceDlq, SequenceTheorems, FiniteSetTheorems,
        WellFoundedInduction, TLAPS

(* Sequences without repetition. *)

Distinct(q) == \A i, j \in DOMAIN q : q[i] = q[j] => i = j

LEMMA AppendSet ==
  ASSUME NEW S, NEW q \in Seq(S), NEW x \in S
  PROVE  /\ Append(q, x) \in Seq(S)
         /\ ToSet(Append(q, x)) = ToSet(q) \cup {x}
         /\ Distinct(q) /\ x \notin ToSet(q) => Distinct(Append(q, x))
<1>1. /\ Append(q, x) \in Seq(S) /\ Len(q) \in Nat /\ DOMAIN q = 1 .. Len(q)
      /\ DOMAIN Append(q, x) = 1 .. Len(q) + 1
      /\ \A i \in 1 .. Len(q) : Append(q, x)[i] = q[i]
      /\ Append(q, x)[Len(q) + 1] = x
  BY AppendProperties, LenProperties
<1>2. PICK r : r = Append(q, x)
  OBVIOUS
<1>3. ToSet(r) = ToSet(q) \cup {x}
  BY <1>1, <1>2 DEF ToSet
<1>4. Distinct(q) /\ x \notin ToSet(q) => Distinct(r)
  BY <1>1, <1>2 DEF ToSet, Distinct
<1> QED
  BY <1>1, <1>2, <1>3, <1>4

LEMMA TailSet ==
  ASSUME NEW S, NEW q \in Seq(S), q # <<>>, Distinct(q)
  PROVE  /\ Head(q) \in S /\ Head(q) \in ToSet(q) /\ Tail(q) \in Seq(S)
         /\ ToSet(Tail(q)) = ToSet(q) \ {Head(q)}
         /\ Distinct(Tail(q))
<1>1. /\ Head(q) \in S /\ Head(q) = q[1] /\ Tail(q) \in Seq(S) /\ Len(q) \in Nat \ {0}
      /\ DOMAIN q = 1 .. Len(q) /\ DOMAIN Tail(q) = 1 .. Len(q) - 1
      /\ \A i \in 1 .. Len(q) - 1 : Tail(q)[i] = q[i + 1]
  <2>1. Len(q) \in Nat \ {0} /\ DOMAIN q = 1 .. Len(q)
    BY LenProperties, EmptySeq
  <2>2. Tail(q) \in Seq(S) /\ Len(Tail(q)) = Len(q) - 1 /\ Head(q) \in S
    BY HeadTailProperties
  <2>3. \A i \in 1 .. Len(Tail(q)) : Tail(q)[i] = q[i + 1]
    BY HeadTailProperties
  <2>4. DOMAIN Tail(q) = 1 .. Len(Tail(q))
    BY <2>2, LenProperties
  <2> QED
    BY <2>1, <2>2, <2>3, <2>4
<1>2. PICK r : r = Tail(q)
  OBVIOUS
<1>3. ToSet(r) = ToSet(q) \ {q[1]}
  <2>1. ASSUME NEW i \in 1 .. Len(q), i # 1 PROVE q[i] \in ToSet(r)
    <3>1. i - 1 \in 1 .. Len(q) - 1 /\ (i - 1) + 1 = i
      BY <1>1, <2>1
    <3> QED
      BY <1>1, <1>2, <3>1 DEF ToSet
  <2>2. ASSUME NEW i \in 1 .. Len(q) - 1 PROVE r[i] \in ToSet(q) /\ r[i] # q[1]
    BY <1>1, <1>2 DEF ToSet, Distinct
  <2> QED
    BY <1>1, <1>2, <2>1, <2>2 DEF ToSet
<1>4. Distinct(r)
  BY <1>1, <1>2 DEF Distinct
<1>5. Head(q) \in ToSet(q)
  BY <1>1 DEF ToSet
<1> QED
  BY <1>1, <1>2, <1>3, <1>4, <1>5, Zenon

LEMMA RemoveSet ==
  ASSUME NEW S, NEW q \in Seq(S), NEW k \in DOMAIN q, Distinct(q)
  PROVE  /\ RemoveAt(q, k) \in Seq(S)
         /\ ToSet(RemoveAt(q, k)) = ToSet(q) \ {q[k]}
         /\ Distinct(RemoveAt(q, k))
<1>0. PICK n : n = Len(q)
  OBVIOUS
<1>1. n \in Nat /\ DOMAIN q = 1 .. n /\ k \in 1 .. n /\ \A i \in 1 .. n : q[i] \in S
  BY <1>0, LenProperties
<1>2. /\ SubSeq(q, 1, k - 1) \in Seq(S) /\ Len(SubSeq(q, 1, k - 1)) = k - 1
      /\ \A i \in 1 .. k - 1 : SubSeq(q, 1, k - 1)[i] = q[i]
  <2>1. \A i \in 1 .. k - 1 : q[i] \in S
    BY <1>1
  <2> QED
    BY <1>1, <2>1, SubSeqProperties
<1>3. /\ SubSeq(q, k + 1, n) \in Seq(S) /\ Len(SubSeq(q, k + 1, n)) = n - k
      /\ \A i \in 1 .. n - k : SubSeq(q, k + 1, n)[i] = q[k + i]
  <2>1. \A i \in k + 1 .. n : q[i] \in S
    BY <1>1
  <2> QED
    BY <1>1, <2>1, SubSeqProperties
<1>4. PICK r : r = RemoveAt(q, k)
  OBVIOUS
<1>5. PICK a \in Seq(S), b \in Seq(S) : a = SubSeq(q, 1, k - 1) /\ b = SubSeq(q, k + 1, n)
  BY <1>2, <1>3
<1>6. r = a \o b
  BY <1>0, <1>4, <1>5 DEF RemoveAt
<1>7. r \in Seq(S) /\ Len(r) = n - 1 /\ DOMAIN r = 1 .. n - 1
  <2>1. r \in Seq(S) /\ Len(r) = Len(a) + Len(b)
    BY <1>6, ConcatProperties
  <2>2. Len(a) = k - 1 /\ Len(b) = n - k
    BY <1>2, <1>3, <1>5
  <2>3. Len(r) = n - 1
    BY <1>1, <2>1, <2>2
  <2> QED
    BY <2>1, <2>3, LenProperties
<1>8. ASSUME NEW i \in 1 .. n - 1 PROVE r[i] = IF i < k THEN q[i] ELSE q[i + 1]
  <2>1. r[i] = IF i <= Len(a) THEN a[i] ELSE b[i - Len(a)]
    <3>1. Len(a) = k - 1 /\ Len(b) = n - k
      BY <1>2, <1>3, <1>5
    <3>2. i \in 1 .. Len(a) + Len(b)
      BY <1>1, <3>1
    <3> QED
      BY <1>6, <3>2, ConcatProperties
  <2>2. CASE i < k
    BY <1>1, <1>2, <1>5, <2>1, <2>2
  <2>3. CASE ~(i < k)
    <3>1. i - (k - 1) \in 1 .. n - k /\ k + (i - (k - 1)) = i + 1 /\ ~(i <= k - 1)
      BY <1>1, <2>3
    <3> QED
      BY <1>2, <1>3, <1>5, <2>1, <2>3, <3>1
  <2> QED
    BY <2>2, <2>3
<1>9. ToSet(r) = ToSet(q) \ {q[k]}
  <2>1. ASSUME NEW i \in 1 .. n, i # k PROVE q[i] \in ToSet(r)
    <3>1. CASE i < k
      BY <1>1, <1>7, <1>8, <3>1 DEF ToSet
    <3>2. CASE i > k
      <4>1. i - 1 \in 1 .. n - 1 /\ ~(i - 1 < k) /\ (i - 1) + 1 = i
        BY <1>1, <3>2
      <4> QED
        BY <1>7, <1>8, <4>1 DEF ToSet
    <3> QED
      BY <1>1, <2>1, <3>1, <3>2
  <2>2. ASSUME NEW i \in 1 .. n - 1 PROVE r[i] \in ToSet(q) /\ r[i] # q[k]
    <3>1. PICK j \in 1 .. n : r[i] = q[j] /\ j # k
      BY <1>1, <1>8
    <3> QED
      BY <1>1, <3>1 DEF ToSet, Distinct
  <2> QED
    BY <1>1, <1>7, <2>1, <2>2 DEF ToSet
<1>10. Distinct(r)
  BY <1>1, <1>7, <1>8 DEF Distinct
<1> QED
  BY <1>4, <1>7, <1>9, <1>10

LEMMA SeqSet ==
  ASSUME NEW S, NEW q \in Seq(S)
  PROVE  ToSet(q) \subseteq S
BY LenProperties DEF ToSet

LEMMA EmptySet ==
  ToSet(<<>>) = {} /\ Distinct(<<>>)
BY DEF ToSet, Distinct

-----------------------------------------------------------------------------
(* The event bus: its inductive invariant. *)

\* A subscription id is in the dict of its own type, and is never handed out again.
SubsInv ==
  /\ \A t \in Types : Distinct(subs[t]) /\ ToSet(subs[t]) \subseteq usedIds
  /\ \A t \in Types : \A s \in ToSet(subs[t]) : SubType[s] = t
  /\ \A e \in Events : audience[e] \subseteq usedIds
  /\ \A e \in Events : task[e] # "new" => \A s \in audience[e] : SubType[s] = type[e]

ReadyInv ==
  /\ Distinct(ready)
  /\ \A e \in Events : e \in ToSet(ready) <=> task[e] = "ready"
  /\ \A e \in Events : task[e] # "new" => e \in ToSet(pub)

Called(e, s) == e \in ToSet(invoked[s])
Stays(e, s) == s \in audience[e] /\ s \in ToSet(subs[SubType[s]])

\* A handler that stays has been called or is behind the one that is awaited.
DispatchInv ==
  /\ \A s \in Subs : Distinct(invoked[s])
  /\ \A e \in Events, s \in Subs : task[e] \in {"new", "ready"} => ~Called(e, s)
  /\ \A e \in Events : task[e] = "running" =>
       /\ rest[e] # <<>> /\ Distinct(rest[e])
       /\ \A s \in ToSet(Tail(rest[e])) : ~Called(e, s)
       /\ \A s \in Subs : Stays(e, s) => Called(e, s) \/ s \in ToSet(Tail(rest[e]))
  /\ \A e \in Events, s \in Subs : task[e] = "done" /\ Stays(e, s) => Called(e, s)

WaitInv ==
  /\ \A w \in Waiters : fut[w] = "pending" => w \in waiters
  /\ BarrierAfterHandlers /\ NoLostWakeup

BusInv == BusTypeOK /\ SubsInv /\ ReadyInv /\ DispatchInv /\ WaitInv

\* The trailing loop of _dispatch wakes everyone who waits for the event.
LEMMA ResolveStep ==
  ASSUME BusTypeOK, WaitInv, NEW e \in Events, task[e] \in {"ready", "running"},
         ResolveWaiters(e), task' = [task EXCEPT ![e] = "done"], UNCHANGED <<type, old>>
  PROVE  /\ WaitInv'
         /\ waiters' \subseteq Waiters /\ fut' \in [Waiters -> FutState]
         /\ val' \in [Waiters -> Events \cup {NoEvent}]
<1> DEFINE hit == {w \in waiters : fut[w] = "pending" /\ type[e] \in WaitTypes[w]}
<1>1. /\ \A w \in Waiters : fut'[w] = IF w \in hit THEN "result" ELSE fut[w]
      /\ \A w \in Waiters : val'[w] = IF w \in hit THEN e ELSE val[w]
      /\ waiters' = {w \in waiters : fut[w] = "pending"} \ hit
  BY DEF ResolveWaiters
<1>2. /\ waiters' \subseteq Waiters /\ fut' \in [Waiters -> FutState]
      /\ val' \in [Waiters -> Events \cup {NoEvent}]
  BY DEF ResolveWaiters, BusTypeOK, FutState
<1>3. \A f \in Events : task'[f] = IF f = e THEN "done" ELSE task[f]
  BY DEF BusTypeOK
<1>4. \A w \in Waiters : fut'[w] = "pending" => w \in waiters' /\ fut[w] = "pending" /\ w \notin hit
  BY <1>1 DEF WaitInv
<1>5. BarrierAfterHandlers'
  <2> SUFFICES ASSUME NEW w \in Waiters, fut'[w] = "result"
               PROVE  val'[w] \in Events /\ task'[val'[w]] = "done" /\ type'[val'[w]] \in WaitTypes[w]
    BY DEF BarrierAfterHandlers
  <2>1. CASE w \in hit
    BY <1>1, <1>3, <2>1
  <2>2. CASE w \notin hit
    BY <1>1, <1>3, <2>2 DEF WaitInv, BarrierAfterHandlers
  <2> QED
    BY <2>1, <2>2
<1>6. NoLostWakeup'
  BY <1>3, <1>4 DEF WaitInv, NoLostWakeup
<1> QED
  BY <1>2, <1>4, <1>5, <1>6 DEF WaitInv

\* One piece of a dispatch, from one await to the next or to the end.
LEMMA ContinueStep ==
  ASSUME BusTypeOK, SubsInv, DispatchInv, WaitInv,
         NEW e \in Events, task[e] \in {"ready", "running"},
         NEW hs \in Seq(Subs), Distinct(hs),
         \A s \in ToSet(hs) : ~Called(e, s),
         \A s \in Subs : Stays(e, s) => Called(e, s) \/ s \in ToSet(hs),
         Continue(e, hs), UNCHANGED <<subs, usedIds, type, pub, audience, old>>
  PROVE  /\ DispatchInv' /\ WaitInv'
         /\ rest' \in [Events -> Seq(Subs)] /\ task' \in [Events -> TaskState]
         /\ invoked' \in [Subs -> Seq(Events)]
         /\ waiters' \subseteq Waiters /\ fut' \in [Waiters -> FutState]
         /\ val' \in [Waiters -> Events \cup {NoEvent}]
         /\ task'[e] \in {"running", "done"}
         /\ \A f \in Events \ {e} : task'[f] = task[f]
<1>1. /\ rest' \in [Events -> Seq(Subs)] /\ rest'[e] = hs
      /\ \A f \in Events \ {e} : rest'[f] = rest[f]
  BY DEF Continue, BusTypeOK
<1>2. \A f \in Events, s \in Subs : Stays(f, s)' <=> Stays(f, s)
  BY DEF Stays
<1>3. CASE hs = <<>>
  <2>1. task' = [task EXCEPT ![e] = "done"] /\ ResolveWaiters(e) /\ invoked' = invoked
    BY <1>3 DEF Continue
  <2>2. /\ task' \in [Events -> TaskState] /\ task'[e] = "done"
        /\ \A f \in Events \ {e} : task'[f] = task[f]
    BY <2>1 DEF BusTypeOK, TaskState
  <2>3. \A f \in Events, s \in Subs : Called(f, s)' <=> Called(f, s)
    BY <2>1 DEF Called
  <2>4. \A s \in Subs : Stays(e, s) => Called(e, s)
    BY <1>3, EmptySet
  <2>5. DispatchInv'
    <3>1. \A s \in Subs : Distinct(invoked'[s])
      BY <2>1 DEF DispatchInv
    <3>2. \A f \in Events, s \in Subs : task'[f] \in {"new", "ready"} => ~Called(f, s)'
      BY <2>2, <2>3 DEF DispatchInv
    <3>3. ASSUME NEW f \in Events, task'[f] = "running"
          PROVE  /\ rest'[f] # <<>> /\ Distinct(rest'[f])
                 /\ \A s \in ToSet(Tail(rest'[f])) : ~Called(f, s)'
                 /\ \A s \in Subs : Stays(f, s)' => Called(f, s)' \/ s \in ToSet(Tail(rest'[f]))
      <4>1. f # e /\ task[f] = "running" /\ rest'[f] = rest[f]
        BY <1>1, <2>2, <3>3
      <4>2. rest[f] # <<>> /\ Distinct(rest[f])
        BY <4>1 DEF DispatchInv
      <4>3. ToSet(Tail(rest[f])) \subseteq Subs
        BY <4>2, TailSet, SeqSet DEF BusTypeOK
      <4>4. \A s \in ToSet(Tail(rest[f])) : ~Called(f, s)'
        BY <2>3, <4>1, <4>3 DEF DispatchInv
      <4>5. \A s \in Subs : Stays(f, s)' => Called(f, s)' \/ s \in ToSet(Tail(rest[f]))
        BY <1>2, <2>3, <4>1 DEF DispatchInv
      <4> QED
        BY <4>1, <4>2, <4>4, <4>5
    <3>4. \A f \in Events, s \in Subs : task'[f] = "done" /\ Stays(f, s)' => Called(f, s)'
      BY <1>2, <2>2, <2>3, <2>4 DEF DispatchInv
    <3> QED
      BY <3>1, <3>2, <3>3, <3>4 DEF DispatchInv
  <2>6. /\ WaitInv'
        /\ waiters' \subseteq Waiters /\ fut' \in [Waiters -> FutState]
        /\ val' \in [Waiters -> Events \cup {NoEvent}]
    BY <2>1, ResolveStep
  <2>7. task'[e] \in {"running", "done"} /\ invoked' \in [Subs -> Seq(Events)]
    BY <2>1, <2>2 DEF BusTypeOK
  <2> QED
    BY <1>1, <2>2, <2>5, <2>6, <2>7
<1>4. CASE hs # <<>>
  <2>1. PICK h \in Subs : h = Head(hs) /\ h \in ToSet(hs) /\ ToSet(Tail(hs)) = ToSet(hs) \ {h}
    BY <1>4, TailSet
  <2>2. /\ task' = [task EXCEPT ![e] = "running"] /\ UNCHANGED <<waiters, fut, val>>
        /\ invoked' = [invoked EXCEPT ![h] = Append(invoked[h], e)]
    BY <1>4, <2>1 DEF Continue
  <2>3. /\ task' \in [Events -> TaskState] /\ task'[e] = "running"
        /\ \A f \in Events \ {e} : task'[f] = task[f]
    BY <2>2 DEF BusTypeOK, TaskState
  <2>4. /\ Append(invoked[h], e) \in Seq(Events)
        /\ ToSet(Append(invoked[h], e)) = ToSet(invoked[h]) \cup {e}
        /\ Distinct(Append(invoked[h], e))
    <3>1. invoked[h] \in Seq(Events) /\ Distinct(invoked[h]) /\ e \notin ToSet(invoked[h])
      BY <2>1 DEF BusTypeOK, DispatchInv, Called
    <3> QED
      BY <3>1, AppendSet
  <2>5. invoked' \in [Subs -> Seq(Events)] /\ \A s \in Subs : Distinct(invoked'[s])
    BY <2>2, <2>4 DEF BusTypeOK, DispatchInv
  <2>6. \A f \in Events, s \in Subs : Called(f, s)' <=> Called(f, s) \/ (f = e /\ s = h)
    BY <2>2, <2>4 DEF Called, BusTypeOK
  <2>7. DispatchInv'
    <3>2. \A f \in Events, s \in Subs : task'[f] \in {"new", "ready"} => ~Called(f, s)'
      BY <2>3, <2>6 DEF DispatchInv
    <3>3. ASSUME NEW f \in Events, task'[f] = "running"
          PROVE  /\ rest'[f] # <<>> /\ Distinct(rest'[f])
                 /\ \A s \in ToSet(Tail(rest'[f])) : ~Called(f, s)'
                 /\ \A s \in Subs : Stays(f, s)' => Called(f, s)' \/ s \in ToSet(Tail(rest'[f]))
      <4>1. CASE f # e
        <5>1. task[f] = "running" /\ rest'[f] = rest[f]
          BY <1>1, <2>3, <3>3, <4>1
        <5>2. rest[f] # <<>> /\ Distinct(rest[f])
          BY <5>1 DEF DispatchInv
        <5>3. ToSet(Tail(rest[f])) \subseteq Subs
          BY <5>2, TailSet, SeqSet DEF BusTypeOK
        <5>4. \A s \in ToSet(Tail(rest[f])) : ~Called(f, s)'
          BY <2>6, <4>1, <5>1, <5>3 DEF DispatchInv
        <5>5. \A s \in Subs : Stays(f, s)' => Called(f, s)' \/ s \in ToSet(Tail(rest[f]))
          BY <1>2, <2>6, <5>1 DEF DispatchInv
        <5> QED
          BY <5>1, <5>2, <5>4, <5>5
      <4>2. CASE f = e
        <5>1. ToSet(hs) \subseteq Subs
          BY SeqSet
        <5>2. \A s \in ToSet(Tail(hs)) : ~Called(e, s)'
          BY <2>1, <2>6, <5>1
        <5>3. \A s \in Subs : Stays(e, s)' => Called(e, s)' \/ s \in ToSet(Tail(hs))
          BY <1>2, <2>1, <2>6
        <5> QED
          BY <1>1, <1>4, <4>2, <5>2, <5>3
      <4> QED
        BY <4>1, <4>2
    <3>4. \A f \in Events, s \in Subs : task'[f] = "done" /\ Stays(f, s)' => Called(f, s)'
      BY <1>2, <2>3, <2>6 DEF DispatchInv
    <3> QED
      BY <2>5, <3>2, <3>3, <3>4 DEF DispatchInv
  <2>8. WaitInv'
    BY <2>2, <2>3 DEF WaitInv, BarrierAfterHandlers, NoLostWakeup
  <2>9. /\ waiters' \subseteq Waiters /\ fut' \in [Waiters -> FutState]
        /\ val' \in [Waiters -> Events \cup {NoEvent}]
    BY <2>2 DEF BusTypeOK
  <2> QED
    BY <1>1, <2>3, <2>5, <2>7, <2>8, <2>9
<1> QED
  BY <1>3, <1>4

\* A step that leaves the dispatches alone, keeps or drops subscriptions and adds
\* none to the audience of an event.
LEMMA DispatchKept ==
  ASSUME DispatchInv, UNCHANGED <<task, rest, invoked>>,
         \A e \in Events, s \in Subs : Stays(e, s)' => Stays(e, s)
  PROVE  DispatchInv'
BY DEF DispatchInv, Called

LEMMA SubscribeStep ==
  ASSUME BusInv, NEW s \in Subs, Subscribe(s) \/ Unsubscribe(s)
  PROVE  BusInv'
<1> USE DEF BusInv
<1>1. SubType[s] \in Types /\ subs[SubType[s]] \in Seq(Subs) /\ Distinct(subs[SubType[s]])
  BY BusAssumption DEF BusAssumption, BusTypeOK, SubsInv
<1>2. UNCHANGED <<type, ready, task, rest, invoked, waiters, fut, val, pub, audience, old>>
  BY DEF Subscribe, Unsubscribe
<1>3. PICK q \in Seq(Subs) :
        /\ Distinct(q) /\ subs' = [subs EXCEPT ![SubType[s]] = q]
        /\ usedIds' \subseteq Subs /\ usedIds \subseteq usedIds'
        /\ \/ s \notin usedIds /\ s \in usedIds' /\ ToSet(q) = ToSet(subs[SubType[s]]) \cup {s}
           \/ ToSet(q) \subseteq ToSet(subs[SubType[s]])
  <2>1. CASE Subscribe(s)
    <3>1. s \notin ToSet(subs[SubType[s]])
      BY <1>1, <2>1 DEF Subscribe, SubsInv
    <3>2. /\ Append(subs[SubType[s]], s) \in Seq(Subs) /\ Distinct(Append(subs[SubType[s]], s))
          /\ ToSet(Append(subs[SubType[s]], s)) = ToSet(subs[SubType[s]]) \cup {s}
      BY <1>1, <3>1, AppendSet
    <3>3. /\ s \notin usedIds /\ usedIds' = usedIds \cup {s}
          /\ subs' = [subs EXCEPT ![SubType[s]] = Append(subs[SubType[s]], s)]
      BY <2>1 DEF Subscribe
    <3> QED
      BY <3>2, <3>3 DEF BusTypeOK
  <2>2. CASE Unsubscribe(s)
    <3>1. PICK i \in DOMAIN subs[SubType[s]] :
            subs' = [subs EXCEPT ![SubType[s]] = RemoveAt(subs[SubType[s]], i)]
      BY <2>2 DEF Unsubscribe
    <3>2. usedIds' = usedIds
      BY <2>2 DEF Unsubscribe
    <3>3. /\ RemoveAt(subs[SubType[s]], i) \in Seq(Subs) /\ Distinct(RemoveAt(subs[SubType[s]], i))
          /\ ToSet(RemoveAt(subs[SubType[s]], i)) \subseteq ToSet(subs[SubType[s]])
      BY <1>1, RemoveSet
    <3> QED
      BY <3>1, <3>2, <3>3 DEF BusTypeOK
  <2> QED
    BY <2>1, <2>2
<1>4. /\ subs' \in [Types -> Seq(Subs)] /\ subs'[SubType[s]] = q
      /\ \A t \in Types \ {SubType[s]} : subs'[t] = subs[t]
  BY <1>1, <1>3 DEF BusTypeOK
<1>5. BusTypeOK'
  BY <1>2, <1>3, <1>4 DEF BusTypeOK
<1>6. SubsInv'
  <2>1. ASSUME NEW t \in Types
        PROVE  /\ Distinct(subs'[t]) /\ ToSet(subs'[t]) \subseteq usedIds'
               /\ \A r \in ToSet(subs'[t]) : SubType[r] = t
    <3>1. CASE t = SubType[s]
      BY <1>1, <1>3, <1>4, <3>1 DEF SubsInv
    <3>2. CASE t # SubType[s]
      BY <1>3, <1>4, <3>2 DEF SubsInv
    <3> QED
      BY <3>1, <3>2
  <2> QED
    BY <1>2, <1>3, <2>1 DEF SubsInv
<1>7. DispatchInv'
  <2>1. ASSUME NEW e \in Events, NEW r \in Subs, Stays(e, r)' PROVE Stays(e, r)
    <3>1. r \in audience[e] /\ r \in ToSet(subs'[SubType[r]]) /\ r \in usedIds
      BY <1>2, <2>1 DEF Stays, SubsInv
    <3>2. SubType[r] \in Types
      BY BusAssumption DEF BusAssumption
    <3>3. r \in ToSet(subs[SubType[r]])
      BY <1>3, <1>4, <3>1, <3>2
    <3> QED
      BY <3>1, <3>3 DEF Stays
  <2> QED
    BY <1>2, <2>1, DispatchKept
<1>8. ReadyInv'
  BY <1>2 DEF ReadyInv
<1>9. WaitInv'
  BY <1>2 DEF WaitInv, BarrierAfterHandlers, NoLostWakeup
<1> QED
  BY <1>5, <1>6, <1>7, <1>8, <1>9

LEMMA PublishStep ==
  ASSUME BusInv, NEW e \in Events, NEW t \in Types, Publish(e, t)
  PROVE  BusInv'
<1> USE DEF BusInv
<1>1. /\ task[e] = "new" /\ type' = [type EXCEPT ![e] = t] /\ task' = [task EXCEPT ![e] = "ready"]
      /\ ready' = Append(ready, e) /\ pub' = Append(pub, e)
      /\ audience' = [audience EXCEPT ![e] = ToSet(subs[t])]
      /\ UNCHANGED <<subs, usedIds, rest, invoked, waiters, fut, val, old>>
  BY DEF Publish
<1>2. /\ task'[e] = "ready" /\ type'[e] = t /\ audience'[e] = ToSet(subs[t])
      /\ \A f \in Events \ {e} :
           task'[f] = task[f] /\ type'[f] = type[f] /\ audience'[f] = audience[f]
  BY <1>1 DEF BusTypeOK
<1>3. ready \in Seq(Events) /\ pub \in Seq(Events) /\ e \notin ToSet(ready) /\ ToSet(subs[t]) \subseteq Subs
  BY <1>1, SeqSet DEF BusTypeOK, ReadyInv
<1>4. /\ ready' \in Seq(Events) /\ ToSet(ready') = ToSet(ready) \cup {e} /\ Distinct(ready')
      /\ pub' \in Seq(Events) /\ ToSet(pub') = ToSet(pub) \cup {e}
  BY <1>1, <1>3, AppendSet DEF ReadyInv
<1>5. BusTypeOK'
  <2>1. task' \in [Events -> TaskState] /\ type' \in [Events -> Types]
    BY <1>1 DEF BusTypeOK, TaskState
  <2>2. audience' \in [Events -> SUBSET Subs]
    BY <1>1, <1>3 DEF BusTypeOK
  <2> QED
    BY <1>1, <1>4, <2>1, <2>2 DEF BusTypeOK
<1>6. SubsInv'
  BY <1>1, <1>2 DEF SubsInv
<1>7. ReadyInv'
  BY <1>2, <1>4 DEF ReadyInv
<1>8. DispatchInv'
  <2>1. \A f \in Events \ {e}, s \in Subs : Stays(f, s)' <=> Stays(f, s)
    BY <1>1, <1>2 DEF Stays
  <2>2. \A f \in Events, s \in Subs : Called(f, s)' <=> Called(f, s)
    BY <1>1 DEF Called
  <2>3. \A f \in Events : task'[f] \in {"running", "done"} => f # e /\ task'[f] = task[f]
    BY <1>2
  <2>4. \A f \in Events, s \in Subs : task'[f] \in {"new", "ready"} => ~Called(f, s)'
    BY <1>1, <1>2, <2>2 DEF DispatchInv
  <2>5. ASSUME NEW f \in Events, task'[f] = "running"
        PROVE  /\ rest'[f] # <<>> /\ Distinct(rest'[f])
               /\ \A s \in ToSet(Tail(rest'[f])) : ~Called(f, s)'
               /\ \A s \in Subs : Stays(f, s)' => Called(f, s)' \/ s \in ToSet(Tail(rest'[f]))
    <3>1. task[f] = "running" /\ rest'[f] = rest[f] /\ f # e
      BY <1>1, <2>3, <2>5
    <3>2. rest[f] # <<>> /\ Distinct(rest[f])
      BY <3>1 DEF DispatchInv
    <3>3. \A s \in ToSet(Tail(rest[f])) : ~Called(f, s)'
      BY <1>1, <3>1 DEF DispatchInv, Called
    <3>4. \A s \in Subs : Stays(f, s)' => Called(f, s)' \/ s \in ToSet(Tail(rest[f]))
      BY <2>1, <2>2, <3>1 DEF DispatchInv
    <3> QED
      BY <3>1, <3>2, <3>3, <3>4
  <2>6. \A f \in Events, s \in Subs : task'[f] = "done" /\ Stays(f, s)' => Called(f, s)'
    BY <2>1, <2>2, <2>3 DEF DispatchInv
  <2>7. \A s \in Subs : Distinct(invoked'[s])
    BY <1>1 DEF DispatchInv
  <2> QED
    BY <2>4, <2>5, <2>6, <2>7 DEF DispatchInv
<1>9. WaitInv'
  BY <1>1, <1>2 DEF WaitInv, BarrierAfterHandlers, NoLostWakeup
<1> QED
  BY <1>5, <1>6, <1>7, <1>8, <1>9

\* The event loop starts a dispatch, or an awaited handler returns or raises.
LEMMA DispatchStep ==
  ASSUME BusInv, NEW e \in Events, StartDispatch(e) \/ HandlerReturns(e) \/ HandlerRaises(e)
  PROVE  BusInv'
<1> USE DEF BusInv
<1>1. UNCHANGED <<subs, usedIds, type, pub, audience, old>>
  BY DEF StartDispatch, HandlerReturns, HandlerRaises
<1>2. PICK hs \in Seq(Subs) :
        /\ task[e] \in {"ready", "running"} /\ Distinct(hs) /\ Continue(e, hs)
        /\ \A s \in ToSet(hs) : ~Called(e, s)
        /\ \A s \in Subs : Stays(e, s) => Called(e, s) \/ s \in ToSet(hs)
        /\ ready' \in Seq(Events) /\ Distinct(ready') /\ ToSet(ready') = ToSet(ready) \ {e}
  <2>1. CASE StartDispatch(e)
    <3>1. ready # <<>> /\ e = Head(ready) /\ ready' = Tail(ready) /\ Continue(e, subs[type[e]])
      BY <2>1 DEF StartDispatch
    <3>2. ready \in Seq(Events) /\ Distinct(ready)
      BY DEF BusTypeOK, ReadyInv
    <3>3. /\ e \in ToSet(ready) /\ ready' \in Seq(Events) /\ Distinct(ready')
          /\ ToSet(ready') = ToSet(ready) \ {e}
      BY <3>1, <3>2, TailSet
    <3>4. task[e] = "ready"
      BY <3>3 DEF ReadyInv
    <3>5. type[e] \in Types /\ subs[type[e]] \in Seq(Subs) /\ Distinct(subs[type[e]])
      BY DEF BusTypeOK, SubsInv
    <3>6. \A s \in ToSet(subs[type[e]]) : ~Called(e, s)
      BY <3>4, <3>5, SeqSet DEF DispatchInv
    <3>7. \A s \in Subs : Stays(e, s) => s \in ToSet(subs[type[e]])
      BY <3>4 DEF Stays, SubsInv
    <3> QED
      BY <3>1, <3>3, <3>4, <3>5, <3>6, <3>7
  <2>2. CASE HandlerReturns(e) \/ HandlerRaises(e)
    <3>1. task[e] = "running" /\ Continue(e, Tail(rest[e])) /\ ready' = ready
      BY <2>2 DEF HandlerReturns, HandlerRaises
    <3>2. /\ rest[e] # <<>> /\ Distinct(rest[e]) /\ rest[e] \in Seq(Subs)
          /\ \A s \in ToSet(Tail(rest[e])) : ~Called(e, s)
          /\ \A s \in Subs : Stays(e, s) => Called(e, s) \/ s \in ToSet(Tail(rest[e]))
      BY <3>1 DEF DispatchInv, BusTypeOK
    <3>3. Tail(rest[e]) \in Seq(Subs) /\ Distinct(Tail(rest[e]))
      BY <3>2, TailSet
    <3>4. ready' \in Seq(Events) /\ Distinct(ready') /\ ToSet(ready') = ToSet(ready) \ {e}
      BY <3>1 DEF BusTypeOK, ReadyInv
    <3> QED
      BY <3>1, <3>2, <3>3, <3>4
  <2> QED
    BY <2>1, <2>2
<1>3. /\ DispatchInv' /\ WaitInv'
      /\ rest' \in [Events -> Seq(Subs)] /\ task' \in [Events -> TaskState]
      /\ invoked' \in [Subs -> Seq(Events)]
      /\ waiters' \subseteq Waiters /\ fut' \in [Waiters -> FutState]
      /\ val' \in [Waiters -> Events \cup {NoEvent}]
      /\ task'[e] \in {"running", "done"}
      /\ \A f \in Events \ {e} : task'[f] = task[f]
  BY <1>1, <1>2, ContinueStep
<1>4. BusTypeOK'
  BY <1>1, <1>2, <1>3 DEF BusTypeOK
<1>5. SubsInv'
  BY <1>1, <1>2, <1>3 DEF SubsInv
<1>6. ReadyInv'
  <2>1. \A f \in Events : f \in ToSet(ready') <=> task'[f] = "ready"
    BY <1>2, <1>3 DEF ReadyInv
  <2>2. \A f \in Events : task'[f] # "new" => f \in ToSet(pub')
    BY <1>1, <1>2, <1>3 DEF ReadyInv
  <2> QED
    BY <1>2, <2>1, <2>2 DEF ReadyInv
<1> QED
  BY <1>3, <1>4, <1>5, <1>6

\* A dispatch that is cancelled is neither running nor done.
LEMMA CancelledStep ==
  ASSUME BusInv, NEW e \in Events, HandlerCancelled(e)
  PROVE  BusInv'
<1> USE DEF BusInv
<1>1. /\ task[e] = "running" /\ task' = [task EXCEPT ![e] = "cancelled"]
      /\ rest' = [rest EXCEPT ![e] = <<>>]
      /\ UNCHANGED <<subs, usedIds, type, ready, invoked, waiters, fut, val, pub, audience, old>>
  BY DEF HandlerCancelled
<1>2. /\ task'[e] = "cancelled"
      /\ \A f \in Events \ {e} : task'[f] = task[f] /\ rest'[f] = rest[f]
  BY <1>1 DEF BusTypeOK
<1>3. BusTypeOK'
  <2>1. task' \in [Events -> TaskState]
    BY <1>1 DEF BusTypeOK, TaskState
  <2>2. rest' \in [Events -> Seq(Subs)]
    BY <1>1, EmptySeq DEF BusTypeOK
  <2> QED
    BY <1>1, <2>1, <2>2 DEF BusTypeOK
<1>4. SubsInv' /\ ReadyInv'
  BY <1>1, <1>2 DEF SubsInv, ReadyInv
<1>5. DispatchInv'
  BY <1>1, <1>2 DEF DispatchInv, Called, Stays
<1>6. WaitInv'
  BY <1>1, <1>2 DEF WaitInv, BarrierAfterHandlers, NoLostWakeup
<1> QED
  BY <1>3, <1>4, <1>5, <1>6

\* wait_for, its timeout, clear and close.
LEMMA BarrierStep ==
  ASSUME BusInv, Clear \/ \E w \in Waiters : WaitFor(w) \/ Timeout(w)
  PROVE  BusInv'
<1> USE DEF BusInv
<1>1. UNCHANGED <<usedIds, type, ready, task, rest, invoked, val, pub, audience>>
  BY DEF Clear, WaitFor, Timeout
<1>2. ReadyInv'
  BY <1>1 DEF ReadyInv
<1>3. CASE Clear
  <2>1. /\ subs' = [t \in Types |-> <<>>] /\ waiters' = {} /\ old' = old
        /\ fut' = [w \in Waiters |->
                     IF w \in waiters /\ fut[w] = "pending" THEN "cancelled" ELSE fut[w]]
    BY <1>3 DEF Clear
  <2>2. BusTypeOK'
    <3>1. subs' \in [Types -> Seq(Subs)]
      BY <2>1, EmptySeq
    <3>2. fut' \in [Waiters -> FutState]
      BY <2>1 DEF BusTypeOK, FutState
    <3> QED
      BY <1>1, <2>1, <3>1, <3>2 DEF BusTypeOK
  <2>3. \A t \in Types : ToSet(subs'[t]) = {} /\ Distinct(subs'[t])
    BY <2>1, EmptySet
  <2>4. SubsInv'
    BY <1>1, <2>3 DEF SubsInv
  <2>5. DispatchInv'
    <3>1. \A s \in Subs : SubType[s] \in Types
      BY BusAssumption DEF BusAssumption
    <3>2. \A e \in Events, s \in Subs : ~Stays(e, s)'
      BY <2>3, <3>1 DEF Stays
    <3> QED
      BY <1>1, <3>2, DispatchKept
  <2>6. \A w \in Waiters : fut'[w] # "pending" /\ (fut'[w] = "result" => fut[w] = "result")
    BY <2>1 DEF WaitInv
  <2>7. WaitInv'
    BY <1>1, <2>1, <2>6 DEF WaitInv, BarrierAfterHandlers, NoLostWakeup
  <2> QED
    BY <1>2, <2>2, <2>4, <2>5, <2>7
<1>4. ASSUME NEW w \in Waiters, WaitFor(w) \/ Timeout(w) PROVE BusInv'
  <2>1. subs' = subs
    BY <1>4 DEF WaitFor, Timeout
  <2>2. SubsInv' /\ DispatchInv'
    <3>1. SubsInv'
      BY <1>1, <2>1 DEF SubsInv
    <3>2. DispatchInv'
      BY <1>1, <2>1, DispatchKept DEF Stays
    <3> QED
      BY <3>1, <3>2
  <2>3. ToSet(pub) \subseteq Events
    BY SeqSet DEF BusTypeOK
  <2>4. CASE WaitFor(w)
    <3>1. /\ fut[w] = "none" /\ fut' = [fut EXCEPT ![w] = "pending"]
          /\ waiters' = waiters \cup {w} /\ old' = [old EXCEPT ![w] = ToSet(pub)]
      BY <2>4 DEF WaitFor
    <3>2. BusTypeOK'
      <4>1. fut' \in [Waiters -> FutState] /\ old' \in [Waiters -> SUBSET Events]
        BY <2>3, <3>1 DEF BusTypeOK, FutState
      <4> QED
        BY <1>1, <2>1, <3>1, <4>1 DEF BusTypeOK
    <3>3. \A v \in Waiters : /\ v # w => fut'[v] = fut[v] /\ old'[v] = old[v]
                             /\ v = w => fut'[v] = "pending" /\ old'[v] = ToSet(pub)
      BY <3>1 DEF BusTypeOK
    <3>4. NoLostWakeup'
      <4> SUFFICES ASSUME NEW v \in Waiters, NEW e \in Events, fut'[v] = "pending",
                          task'[e] = "done", type'[e] \in WaitTypes[v]
                   PROVE  e \in old'[v]
        BY DEF NoLostWakeup
      <4>1. CASE v = w
        BY <1>1, <3>3, <4>1 DEF ReadyInv
      <4>2. CASE v # w
        BY <1>1, <3>3, <4>2 DEF WaitInv, NoLostWakeup
      <4> QED
        BY <4>1, <4>2
    <3>5. BarrierAfterHandlers'
      BY <1>1, <3>3 DEF WaitInv, BarrierAfterHandlers
    <3>6. \A v \in Waiters : fut'[v] = "pending" => v \in waiters'
      BY <3>1, <3>3 DEF WaitInv
    <3> QED
      BY <1>2, <2>2, <3>2, <3>4, <3>5, <3>6 DEF WaitInv
  <2>5. CASE Timeout(w)
    <3>1. fut' = [fut EXCEPT ![w] = "timeout"] /\ waiters' = waiters /\ old' = old
      BY <2>5 DEF Timeout
    <3>2. BusTypeOK'
      BY <1>1, <2>1, <3>1 DEF BusTypeOK, FutState
    <3>3. \A v \in Waiters : fut'[v] = IF v = w THEN "timeout" ELSE fut[v]
      BY <3>1 DEF BusTypeOK
    <3>4. WaitInv'
      BY <1>1, <3>1, <3>3 DEF WaitInv, BarrierAfterHandlers, NoLostWakeup
    <3> QED
      BY <1>2, <2>2, <3>2, <3>4
  <2> QED
    BY <1>4, <2>4, <2>5
<1> QED
  BY <1>3, <1>4

\* The bus keeps its types and its inductive invariant.
THEOREM BusTypeCorrect == BusSpec => []BusInv
<1>1. BusInit => BusInv
  <2> SUFFICES ASSUME BusInit PROVE BusInv
    OBVIOUS
  <2>1. <<>> \in Seq(Subs) /\ <<>> \in Seq(Events)
    BY EmptySeq
  <2>2. (CHOOSE t \in Types : TRUE) \in Types
    BY BusAssumption DEF BusAssumption
  <2>3. BusTypeOK
    BY <2>1, <2>2 DEF BusInit, BusTypeOK, TaskState, FutState
  <2>4. SubsInv
    BY EmptySet DEF BusInit, SubsInv
  <2>5. ReadyInv /\ WaitInv
    BY EmptySet DEF BusInit, ReadyInv, WaitInv, BarrierAfterHandlers, NoLostWakeup
  <2>6. DispatchInv
    BY EmptySet DEF BusInit, DispatchInv, Called
  <2> QED
    BY <2>3, <2>4, <2>5, <2>6 DEF BusInv
<1>2. BusInv /\ [BusNext]_busVars => BusInv'
  <2> SUFFICES ASSUME BusInv, [BusNext]_busVars PROVE BusInv'
    OBVIOUS
  <2>1. CASE UNCHANGED busVars
    <3>1. BusTypeOK' /\ SubsInv' /\ ReadyInv'
      BY <2>1 DEF BusInv, busVars, BusTypeOK, SubsInv, ReadyInv
    <3>2. DispatchInv'
      BY <2>1, DispatchKept DEF BusInv, busVars, Stays
    <3>3. WaitInv'
      BY <2>1 DEF BusInv, busVars, WaitInv, BarrierAfterHandlers, NoLostWakeup
    <3> QED
      BY <3>1, <3>2, <3>3 DEF BusInv
  <2>2. CASE BusNext
    BY <2>2, SubscribeStep, PublishStep, DispatchStep, CancelledStep, BarrierStep
       DEF BusNext, DispatchTask
  <2> QED
    BY <2>1, <2>2
<1> QED
  BY <1>1, <1>2, PTL DEF BusSpec

\* When the dispatch of an event has ended, every subscriber that was there at the
\* publication and stayed has been called with it exactly once, and nobody is called
\* twice (bus.py _dispatch), for any number of events, types, subscribers and waiters.
THEOREM DeliveredExactlyOnceCorrect == BusSpec => []DeliveredExactlyOnce
<1>1. BusInv => DeliveredExactlyOnce
  <2> SUFFICES ASSUME BusInv, NEW e \in Events, NEW s \in Subs
               PROVE  /\ Occurrences(e, s) <= 1
                      /\ task[e] = "done" /\ Stays(e, s) => Occurrences(e, s) = 1
    BY DEF DeliveredExactlyOnce, Stays
  <2> DEFINE at == {i \in DOMAIN invoked[s] : invoked[s][i] = e}
  <2>1. Distinct(invoked[s])
    BY DEF BusInv, DispatchInv
  <2>2. CASE Called(e, s)
    <3>1. PICK i \in DOMAIN invoked[s] : invoked[s][i] = e
      BY <2>2 DEF Called, ToSet
    <3>2. at = {i}
      BY <2>1, <3>1 DEF Distinct
    <3>3. Cardinality(at) = 1
      BY <3>2, FS_Singleton
    <3> QED
      BY <3>3 DEF Occurrences
  <2>3. CASE ~Called(e, s)
    <3>1. at = {}
      BY <2>3 DEF Called, ToSet
    <3>2. Cardinality(at) = 0
      BY <3>1, FS_EmptySet
    <3>3. ~(task[e] = "done" /\ Stays(e, s))
      BY <2>3 DEF BusInv, DispatchInv
    <3> QED
      BY <3>2, <3>3 DEF Occurrences
  <2> QED
    BY <2>2, <2>3
<1> QED
  BY <1>1, BusTypeCorrect, PTL

\* A future carries an event it asked for, whose handlers have all finished.
THEOREM BarrierAfterHandlersCorrect == BusSpec => []BarrierAfterHandlers
<1>1. BusInv => BarrierAfterHandlers
  BY DEF BusInv, WaitInv
<1> QED
  BY <1>1, BusTypeCorrect, PTL

\* A future that is still pending has missed no event published after wait_for.
THEOREM NoLostWakeupCorrect == BusSpec => []NoLostWakeup
<1>1. BusInv => NoLostWakeup
  BY DEF BusInv, WaitInv
<1> QED
  BY <1>1, BusTypeCorrect, PTL

-----------------------------------------------------------------------------
(* The dead-letter queue of kernel/health.py. *)

\* A set of numbers that is not empty has a least one.
LEMMA LeastNumber ==
  ASSUME NEW T \in SUBSET Nat, T # {}
  PROVE  \E x \in T : \A y \in T : x <= y
<1> DEFINE R == OpToRel(<, Nat)
<1>1. \E x \in T : \A y \in T : ~ (<<y, x>> \in R)
  <2>1. IsWellFoundedOn(R, Nat)
    BY NatLessThanWellFounded
  <2> HIDE DEF R
  <2> QED
    BY <2>1, WFMin
<1>2. PICK x \in T : \A y \in T : ~ (y < x)
  BY <1>1 DEF OpToRel
<1> QED
  BY <1>2

\* An entry that a caller handled with success is marked, and the one it awaits
\* was not marked when it was taken, so the caller has not handled it before.
HandledInv ==
  /\ Len(entries) <= MaxEntries
  /\ \A r \in Callers, e \in Index :
       handled[r][e] <= 1 /\ (handled[r][e] # 0 => e \in DOMAIN entries /\ entries[e].recovered)
  /\ \A r \in Callers :
       /\ rep[r].last <= Len(entries)
       /\ rep[r].pc = "await" => rep[r].pos \in DOMAIN entries /\ handled[r][rep[r].pos] = 0

DlqInv == DlqTypeOK /\ HandledInv

\* Changes of a replay.
LEMMA ReplayEdits ==
  ASSUME NEW x \in ReplayState
  PROVE  /\ [x EXCEPT !.recovered = @ + 1] \in ReplayState
         /\ [x EXCEPT !.recovered = @ + 1].last = x.last
         /\ [x EXCEPT !.pc = "raised"] \in ReplayState
         /\ [x EXCEPT !.pc = "raised"].last = x.last
         /\ [x EXCEPT !.pc = "raised"].pc = "raised"
<1>1. PICK n \in Nat : n = x.recovered + 1
  BY DEF ReplayState
<1>2. [x EXCEPT !.recovered = n] \in ReplayState /\ [x EXCEPT !.recovered = n].last = x.last
  BY DEF ReplayState
<1>3. /\ [x EXCEPT !.pc = "raised"] \in ReplayState
      /\ [x EXCEPT !.pc = "raised"].last = x.last
      /\ [x EXCEPT !.pc = "raised"].pc = "raised"
  BY DEF ReplayState
<1> QED
  BY <1>1, <1>2, <1>3

LEMMA MarkRecord ==
  ASSUME NEW C, NEW B, NEW b \in B, NEW x \in [comp : C, recovered : B]
  PROVE  /\ [x EXCEPT !.recovered = b] \in [comp : C, recovered : B]
         /\ [x EXCEPT !.recovered = b].recovered = b
OBVIOUS

\* Replacing an element of a sequence.
LEMMA ReplaceElement ==
  ASSUME NEW S, NEW q \in Seq(S), NEW i \in DOMAIN q, NEW x \in S, NEW r,
         r = [q EXCEPT ![i] = x]
  PROVE  /\ r \in Seq(S) /\ Len(r) = Len(q) /\ DOMAIN r = DOMAIN q
         /\ \A j \in DOMAIN q : r[j] = IF j = i THEN x ELSE q[j]
<1>1. i \in 1 .. Len(q)
  BY LenProperties
<1>2. r \in Seq(S) /\ Len(r) = Len(q)
  BY <1>1, ExceptSeq
<1> QED
  BY <1>2

\* recover marks one entry.
LEMMA MarkEntry ==
  ASSUME entries \in Seq(Letter), NEW e \in DOMAIN entries,
         entries' = [entries EXCEPT ![e].recovered = TRUE]
  PROVE  /\ entries' \in Seq(Letter) /\ Len(entries') = Len(entries)
         /\ DOMAIN entries' = DOMAIN entries
         /\ \A f \in DOMAIN entries : entries[f].recovered => entries'[f].recovered
         /\ entries'[e].recovered
<1>0. PICK S : S = Letter
  OBVIOUS
<1>1. PICK q \in Seq(S) : q = entries
  BY <1>0
<1>2. q[e] \in Letter
  BY <1>0, <1>1
<1>3. PICK x \in S : x = [q[e] EXCEPT !.recovered = TRUE] /\ x.recovered = TRUE
  <2>1. PICK y : y = [q[e] EXCEPT !.recovered = TRUE]
    OBVIOUS
  <2>2. y \in Letter /\ y.recovered = TRUE
    BY <1>2, <2>1, MarkRecord DEF Letter
  <2> QED
    BY <1>0, <2>1, <2>2
<1>4. PICK r : r = entries'
  OBVIOUS
<1>5. r = [q EXCEPT ![e] = x]
  BY <1>1, <1>3, <1>4
<1>6. e \in DOMAIN q
  BY <1>1
<1>7. /\ r \in Seq(S) /\ Len(r) = Len(q) /\ DOMAIN r = DOMAIN q
      /\ \A f \in DOMAIN q : r[f] = IF f = e THEN x ELSE q[f]
  BY <1>5, <1>6, ReplaceElement
<1> QED
  BY <1>0, <1>1, <1>3, <1>4, <1>6, <1>7, Zenon

\* A replay goes on with an entry of its copy that is not marked, or returns.
LEMMA ResumeFacts ==
  ASSUME entries \in Seq(Letter), NEW x \in ReplayState, x.last <= Len(entries),
         NEW from \in Nat \ {0}
  PROVE  /\ Resume(x, from) \in ReplayState /\ Resume(x, from).last = x.last
         /\ Resume(x, from).pc = "await" =>
              /\ Resume(x, from).pos \in DOMAIN entries /\ Resume(x, from).pos >= from
              /\ ~entries[Resume(x, from).pos].recovered
<1>1. Len(entries) \in Nat /\ DOMAIN entries = 1 .. Len(entries)
  BY LenProperties
<1>2. x.last \in Nat
  BY DEF ReplayState
<1>3. PICK T : T = ToHandle(x, from)
  OBVIOUS
<1>4. /\ T \subseteq Nat /\ T \subseteq DOMAIN entries /\ \A e \in T : e >= from
      /\ \A e \in T : ~entries[e].recovered
  BY <1>1, <1>2, <1>3 DEF ToHandle
<1>5. CASE T = {}
  BY <1>3, <1>5 DEF Resume, ReplayState
<1>6. CASE T # {}
  <2>1. PICK m : m = CHOOSE e \in T : \A f \in T : e <= f
    OBVIOUS
  <2>2. m \in T
    BY <1>4, <1>6, <2>1, LeastNumber
  <2>3. Resume(x, from) = [x EXCEPT !.pc = "await", !.pos = m]
    BY <1>3, <1>6, <2>1 DEF Resume
  <2>4. m \in Nat /\ m \in DOMAIN entries /\ m >= from /\ ~entries[m].recovered
    BY <1>4, <2>2
  <2>5. /\ Resume(x, from) \in ReplayState /\ Resume(x, from).last = x.last
        /\ Resume(x, from).pos = m
    BY <2>3, <2>4 DEF ReplayState
  <2> QED
    BY <2>4, <2>5
<1> QED
  BY <1>5, <1>6

\* append and recover.
LEMMA EntryStep ==
  ASSUME DlqInv, (\E c \in Components : Append1(c)) \/ (\E e \in Index : Recover(e))
  PROVE  DlqInv'
<1> USE DEF DlqInv
<1>1. /\ UNCHANGED <<rep, replays, handled>>
      /\ entries' \in Seq(Letter) /\ DOMAIN entries \subseteq DOMAIN entries'
      /\ Len(entries) <= Len(entries') /\ Len(entries') <= MaxEntries
      /\ \A f \in DOMAIN entries : entries[f].recovered => entries'[f].recovered
  <2>0. Len(entries) \in Nat /\ DOMAIN entries = 1 .. Len(entries) /\ entries \in Seq(Letter)
    BY LenProperties DEF DlqTypeOK
  <2>1. ASSUME NEW c \in Components, Append1(c)
        PROVE  /\ entries' \in Seq(Letter) /\ DOMAIN entries \subseteq DOMAIN entries'
               /\ Len(entries) <= Len(entries') /\ Len(entries') <= MaxEntries
               /\ \A f \in DOMAIN entries : entries[f].recovered => entries'[f].recovered
    <3>1. PICK x \in Letter : x = [comp |-> c, recovered |-> FALSE]
      BY DEF Letter
    <3>2. entries' = Append(entries, x) /\ Len(entries) < MaxEntries
      BY <2>1, <3>1 DEF Append1
    <3>3. /\ entries' \in Seq(Letter) /\ Len(entries') = Len(entries) + 1
          /\ \A f \in 1 .. Len(entries) : entries'[f] = entries[f]
      BY <2>0, <3>2, AppendProperties
    <3>4. DOMAIN entries' = 1 .. Len(entries) + 1
      BY <3>3, LenProperties
    <3> QED
      BY <2>0, <3>2, <3>3, <3>4, DlqAssumption DEF DlqAssumption
  <2>2. ASSUME NEW e \in Index, Recover(e)
        PROVE  /\ entries' \in Seq(Letter) /\ DOMAIN entries \subseteq DOMAIN entries'
               /\ Len(entries) <= Len(entries') /\ Len(entries') <= MaxEntries
               /\ \A f \in DOMAIN entries : entries[f].recovered => entries'[f].recovered
    <3>1. e \in DOMAIN entries /\ entries' = [entries EXCEPT ![e].recovered = TRUE]
      BY <2>2 DEF Recover
    <3>2. /\ entries' \in Seq(Letter) /\ Len(entries') = Len(entries)
          /\ DOMAIN entries' = DOMAIN entries
          /\ \A f \in DOMAIN entries : entries[f].recovered => entries'[f].recovered
      BY <2>0, <3>1, MarkEntry
    <3> QED
      BY <2>0, <3>2 DEF HandledInv
  <2>3. UNCHANGED <<rep, replays, handled>>
    BY DEF Append1, Recover
  <2> QED
    BY <2>1, <2>2, <2>3
<1>2. DlqTypeOK'
  BY <1>1 DEF DlqTypeOK
<1>3. HandledInv'
  <2>1. Len(entries) \in Nat /\ Len(entries') \in Nat /\ \A r \in Callers : rep[r].last \in Nat
    BY <1>1, LenProperties DEF DlqTypeOK, ReplayState
  <2> QED
    BY <1>1, <2>1 DEF HandledInv
<1> QED
  BY <1>2, <1>3

\* A replay begins, or ends a handler without success.
LEMMA ReplayStep ==
  ASSUME DlqInv, NEW r \in Callers, NEW x \in ReplayState, x.last <= Len(entries),
         x.pc = "await" => x.pos \in DOMAIN entries /\ handled[r][x.pos] = 0,
         rep' = [rep EXCEPT ![r] = x], replays' \in [Callers -> Nat],
         UNCHANGED <<entries, handled>>
  PROVE  DlqInv'
<1>1. rep'[r] = x /\ rep' \in [Callers -> ReplayState] /\ \A q \in Callers \ {r} : rep'[q] = rep[q]
  BY DEF DlqInv, DlqTypeOK
<1>2. DlqTypeOK'
  BY <1>1 DEF DlqInv, DlqTypeOK
<1>3. HandledInv'
  BY <1>1 DEF DlqInv, HandledInv
<1> QED
  BY <1>2, <1>3 DEF DlqInv

\* The handler succeeds: x is what the replay becomes.
LEMMA SuccessStep ==
  ASSUME DlqInv, NEW r \in Callers, rep[r].pc = "await", NEW x \in ReplayState,
         x.last <= Len(entries),
         x.pc = "await" => /\ x.pos \in DOMAIN entries /\ handled[r][x.pos] = 0
                           /\ x.pos > rep[r].pos,
         rep' = [rep EXCEPT ![r] = x], replays' = replays,
         handled' = [handled EXCEPT ![r][rep[r].pos] = @ + 1],
         entries' = [entries EXCEPT ![rep[r].pos].recovered = TRUE]
  PROVE  DlqInv'
<1> USE DEF DlqInv
<1>1. PICK k : k = rep[r].pos
  OBVIOUS
<1>2. /\ entries \in Seq(Letter) /\ k \in DOMAIN entries /\ handled[r][k] = 0
      /\ DOMAIN entries = 1 .. Len(entries) /\ Len(entries) \in Nat
  BY <1>1, LenProperties DEF HandledInv, DlqTypeOK
<1>3. k \in Index /\ k \in Nat
  BY <1>2, DlqAssumption DEF HandledInv, Index, DlqAssumption
<1>4. /\ entries' \in Seq(Letter) /\ Len(entries') = Len(entries)
      /\ DOMAIN entries' = DOMAIN entries /\ entries'[k].recovered
      /\ \A f \in DOMAIN entries : entries[f].recovered => entries'[f].recovered
  BY <1>1, <1>2, MarkEntry
<1>5. rep'[r] = x /\ rep' \in [Callers -> ReplayState] /\ \A q \in Callers \ {r} : rep'[q] = rep[q]
  BY DEF DlqTypeOK
<1>6. PICK h \in [Index -> Nat] : h = [handled[r] EXCEPT ![k] = 1]
  BY <1>3 DEF DlqTypeOK
<1>7. handled' = [handled EXCEPT ![r] = h]
  BY <1>1, <1>2, <1>6 DEF DlqTypeOK
<1>8. /\ handled' \in [Callers -> [Index -> Nat]] /\ handled'[r] = h
      /\ \A q \in Callers \ {r} : handled'[q] = handled[q]
      /\ \A e \in Index : h[e] = IF e = k THEN 1 ELSE handled[r][e]
  BY <1>3, <1>6, <1>7 DEF DlqTypeOK
<1>9. DlqTypeOK'
  BY <1>4, <1>5, <1>8 DEF DlqTypeOK
<1>10. \A q \in Callers, e \in Index :
         handled'[q][e] <= 1 /\ (handled'[q][e] # 0 => e \in DOMAIN entries' /\ entries'[e].recovered)
  <2> SUFFICES ASSUME NEW q \in Callers, NEW e \in Index
               PROVE  /\ handled'[q][e] <= 1
                      /\ handled'[q][e] # 0 => e \in DOMAIN entries' /\ entries'[e].recovered
    OBVIOUS
  <2>1. CASE q = r /\ e = k
    BY <1>2, <1>4, <1>8, <2>1
  <2>2. CASE ~(q = r /\ e = k)
    <3>1. handled'[q][e] = handled[q][e]
      BY <1>8, <2>2
    <3> QED
      BY <1>4, <3>1 DEF HandledInv
  <2> QED
    BY <2>1, <2>2
<1>11. ASSUME NEW q \in Callers
       PROVE  /\ rep'[q].last <= Len(entries')
              /\ rep'[q].pc = "await" => rep'[q].pos \in DOMAIN entries' /\ handled'[q][rep'[q].pos] = 0
  <2>1. CASE q # r
    BY <1>4, <1>5, <1>8, <2>1 DEF HandledInv
  <2>2. CASE q = r
    <3>1. x.pc = "await" => x.pos \in Index /\ x.pos # k
      BY <1>1, <1>2, <1>3, DlqAssumption DEF HandledInv, Index, DlqAssumption
    <3> QED
      BY <1>4, <1>5, <1>8, <2>2, <3>1
  <2> QED
    BY <2>1, <2>2
<1> QED
  BY <1>4, <1>9, <1>10, <1>11 DEF HandledInv

\* The types and the inductive invariant of the queue hold.
THEOREM DlqTypeCorrect == DlqSpec => []DlqInv
<1>1. DlqInit => DlqInv
  <2> SUFFICES ASSUME DlqInit PROVE DlqInv
    OBVIOUS
  <2>1. (CHOOSE c \in Components : TRUE) \in Components
    BY DlqAssumption DEF DlqAssumption
  <2>2. NoReplay \in ReplayState /\ NoReplay.last = 0 /\ NoReplay.pc = "idle"
    BY <2>1 DEF NoReplay, ReplayState
  <2>3. entries \in Seq(Letter) /\ Len(entries) = 0
    BY EmptySeq DEF DlqInit
  <2>4. DlqTypeOK
    BY <2>2, <2>3 DEF DlqInit, DlqTypeOK
  <2>5. HandledInv
    BY <2>2, <2>3, DlqAssumption DEF DlqInit, HandledInv, DlqAssumption
  <2> QED
    BY <2>4, <2>5 DEF DlqInv
<1>2. DlqInv /\ [DlqNext]_dlqVars => DlqInv'
  <2> SUFFICES ASSUME DlqInv, [DlqNext]_dlqVars PROVE DlqInv'
    OBVIOUS
  <2>0. /\ entries \in Seq(Letter) /\ Len(entries) \in Nat /\ DOMAIN entries = 1 .. Len(entries)
        /\ Len(entries) <= MaxEntries
    BY LenProperties DEF DlqInv, DlqTypeOK, HandledInv
  <2>1. CASE UNCHANGED dlqVars
    BY <2>1 DEF DlqInv, dlqVars, DlqTypeOK, HandledInv
  <2>2. CASE (\E c \in Components : Append1(c)) \/ (\E e \in Index : Recover(e))
    BY <2>2, EntryStep
  <2>3. ASSUME NEW r \in Callers, NEW y \in ReplayState, y.last <= Len(entries), NEW from \in Nat \ {0}
        PROVE  /\ Resume(y, from) \in ReplayState /\ Resume(y, from).last <= Len(entries)
               /\ Resume(y, from).pc = "await" =>
                    /\ Resume(y, from).pos \in DOMAIN entries /\ Resume(y, from).pos >= from
                    /\ handled[r][Resume(y, from).pos] = 0
    <3>1. PICK x \in ReplayState :
            /\ x = Resume(y, from) /\ x.last = y.last
            /\ x.pc = "await" => x.pos \in DOMAIN entries /\ x.pos >= from /\ ~entries[x.pos].recovered
      BY <2>0, <2>3, ResumeFacts
    <3>2. x.pc = "await" => handled[r][x.pos] = 0
      BY <2>0, <3>1, DlqAssumption DEF DlqInv, HandledInv, Index, DlqAssumption
    <3> QED
      BY <2>3, <3>1, <3>2
  <2>4. ASSUME NEW r \in Callers, NEW c \in Components, BeginReplay(r, c) PROVE DlqInv'
    <3>1. PICK y : y = [NoReplay EXCEPT !.comp = c, !.last = Len(entries)]
      OBVIOUS
    <3>2. y \in ReplayState /\ y.last <= Len(entries)
      <4>1. y = [pc |-> "idle", comp |-> c, last |-> Len(entries), pos |-> 0, recovered |-> 0]
        BY <3>1 DEF NoReplay
      <4> QED
        BY <2>0, <4>1 DEF ReplayState
    <3>3. /\ rep' = [rep EXCEPT ![r] = Resume(y, 1)] /\ UNCHANGED <<entries, handled>>
          /\ replays' \in [Callers -> Nat]
      BY <2>4, <3>1 DEF BeginReplay, DlqInv, DlqTypeOK
    <3>4. PICK x \in ReplayState :
            /\ x = Resume(y, 1) /\ x.last <= Len(entries)
            /\ x.pc = "await" => x.pos \in DOMAIN entries /\ handled[r][x.pos] = 0
      BY <2>3, <3>2
    <3> QED
      BY <3>3, <3>4, ReplayStep
  <2>5. ASSUME NEW r \in Callers, HandlerEnds(r) PROVE DlqInv'
    <3>1. /\ rep[r].pc = "await" /\ rep[r] \in ReplayState /\ rep[r].last <= Len(entries)
          /\ rep[r].pos \in Nat /\ replays \in [Callers -> Nat]
      BY <2>5 DEF HandlerEnds, HandlerSucceeds, StoreRaises, HandlerFails, ReplayRaises,
                  DlqInv, DlqTypeOK, HandledInv, ReplayState
    <3>2. PICK y \in ReplayState : y = [rep[r] EXCEPT !.recovered = @ + 1] /\ y.last = rep[r].last
      BY <3>1, ReplayEdits
    <3>3. PICK z \in ReplayState : /\ z = [rep[r] EXCEPT !.pc = "raised"] /\ z.last = rep[r].last
                                   /\ z.pc = "raised"
      BY <3>1, ReplayEdits
    <3>4. rep[r].pos + 1 \in Nat \ {0}
      BY <3>1
    <3>5. CASE HandlerSucceeds(r)
      <4>1. PICK x \in ReplayState :
              /\ x = Resume(y, rep[r].pos + 1) /\ x.last <= Len(entries)
              /\ x.pc = "await" => /\ x.pos \in DOMAIN entries /\ handled[r][x.pos] = 0
                                   /\ x.pos >= rep[r].pos + 1
        BY <2>3, <3>1, <3>2, <3>4
      <4>2. x.pc = "await" => x.pos > rep[r].pos
        BY <2>0, <3>1, <4>1
      <4> QED
        BY <3>1, <3>2, <3>5, <4>1, <4>2, SuccessStep DEF HandlerSucceeds
    <3>6. CASE StoreRaises(r)
      <4>1. rep' = [rep EXCEPT ![r] = z]
        BY <3>3, <3>6 DEF StoreRaises
      <4> QED
        BY <3>1, <3>3, <3>6, <4>1, SuccessStep DEF StoreRaises
    <3>7. CASE HandlerFails(r)
      BY <2>3, <3>1, <3>4, <3>7, ReplayStep DEF HandlerFails
    <3>8. CASE ReplayRaises(r)
      <4>1. rep' = [rep EXCEPT ![r] = z]
        BY <3>3, <3>8 DEF ReplayRaises
      <4> QED
        BY <3>1, <3>3, <3>8, <4>1, ReplayStep DEF ReplayRaises
    <3> QED
      BY <2>5, <3>5, <3>6, <3>7, <3>8 DEF HandlerEnds
  <2> QED
    BY <2>1, <2>2, <2>4, <2>5 DEF DlqNext
<1> QED
  BY <1>1, <1>2, PTL DEF DlqSpec

\* No entry is handled for one caller with success twice (health.py replay:
\* "Idempotent by design"), for any number of callers, entries and replays.
THEOREM HandledOnceCorrect == DlqSpec => []HandledOnce
<1>1. DlqInv => HandledOnce
  BY DEF DlqInv, HandledInv, HandledOnce
<1> QED
  BY <1>1, DlqTypeCorrect, PTL

-----------------------------------------------------------------------------
(* The dead-letter queue of kernel/resilience.py. *)

\* While one object has carried the id, whatever is queued or being replayed is
\* that object, and it has the status of the row.
SettledInv ==
  /\ mem <= used /\ used <= MaxObjects /\ \A p \in Replayers : held[p] <= used
  /\ used = 0 => row = NoRow /\ ~discarded /\ ~delivered
  /\ used = 1 => /\ \A p \in Replayers : held[p] # 0 => mem = 1
                 /\ mem = 1 => heap[1].status = row.status
                 /\ discarded \/ delivered => row.status # "pending"

\* Changes of a row or an object.
LEMMA RowEdits ==
  ASSUME NEW x \in Row
  PROVE  /\ \A s \in {"pending", "replayed", "discarded"} :
              [x EXCEPT !.status = s] \in Row /\ [x EXCEPT !.status = s].status = s
         /\ [x EXCEPT !.attempts = @ + 1] \in Row
         /\ [x EXCEPT !.attempts = @ + 1].status = x.status
BY DEF Row

\* What an operation obtains is an object; while only one exists, it is that one.
LEMMA ObtainFacts ==
  ASSUME EntryTypeOK, SettledInv, NEW o \in Objects, Obtain(o)
  PROVE  /\ Content(o) \in Row /\ used' \in Nat /\ used' <= MaxObjects /\ used <= used'
         /\ o <= used' /\ used' # 0
         /\ used' = 1 => used = 1 /\ o = 1 /\ mem = 1 /\ Content(o) = heap[1]
<1>1. o \in Nat \ {0} /\ o <= MaxObjects /\ MaxObjects \in Nat
  BY BoundAssumption DEF Objects, BoundAssumption
<1>2. Content(o) \in Row
  BY DEF Content, EntryTypeOK
<1>3. CASE mem # 0 /\ o = mem /\ used' = used
  BY <1>1, <1>2, <1>3 DEF EntryTypeOK, SettledInv, Content
<1>4. CASE mem = 0 /\ row # NoRow /\ used < MaxObjects /\ o = used + 1 /\ used' = used + 1
  BY <1>1, <1>2, <1>4 DEF EntryTypeOK, SettledInv
<1> QED
  BY <1>3, <1>4 DEF Obtain

\* Every step keeps the types and SettledInv.
LEMMA SettledStep ==
  ASSUME EntryTypeOK, SettledInv, [Next]_vars
  PROVE  EntryTypeOK' /\ SettledInv'
<1>1. ASSUME NEW n \in 0 .. 1, Enqueue(n) PROVE EntryTypeOK' /\ SettledInv'
  <2>1. PICK x \in Row : x = [status |-> "pending", attempts |-> n] /\ x.status = "pending"
    <3>1. n \in Nat
      OBVIOUS
    <3>2. [status |-> "pending", attempts |-> n] \in Row
      BY <3>1 DEF Row
    <3> QED
      BY <3>2
  <2>2. /\ used < MaxObjects /\ used' = used + 1 /\ heap' = [heap EXCEPT ![used + 1] = x]
        /\ mem' = used + 1 /\ row' = x /\ ~discarded' /\ ~delivered'
        /\ discarded' \in BOOLEAN /\ delivered' \in BOOLEAN /\ UNCHANGED <<held, restarts>>
    BY <1>1, <2>1 DEF Enqueue
  <2>3. used + 1 \in Objects /\ used \in Nat
    BY <2>2, BoundAssumption DEF EntryTypeOK, Objects, BoundAssumption
  <2>4. heap' \in [Objects -> Row] /\ heap'[used + 1] = x
    BY <2>2, <2>3 DEF EntryTypeOK
  <2>5. EntryTypeOK'
    BY <2>2, <2>3, <2>4 DEF EntryTypeOK
  <2> QED
    BY <2>2, <2>3, <2>4, <2>5, BoundAssumption DEF EntryTypeOK, SettledInv, BoundAssumption
<1>2. ASSUME NEW p \in Replayers, ReplayStart(p) PROVE EntryTypeOK' /\ SettledInv'
  <2>1. PICK o \in Objects : /\ Obtain(o) /\ heap' = [heap EXCEPT ![o] = Content(o)]
                             /\ held' = [held EXCEPT ![p] = o]
    BY <1>2 DEF ReplayStart
  <2>2. UNCHANGED <<mem, row, restarts, discarded, delivered>>
    BY <1>2 DEF ReplayStart
  <2>3. /\ Content(o) \in Row /\ used' \in Nat /\ used' <= MaxObjects /\ used <= used'
        /\ o <= used' /\ used' # 0
        /\ used' = 1 => used = 1 /\ o = 1 /\ mem = 1 /\ Content(o) = heap[1]
    BY <2>1, ObtainFacts
  <2>4. o \in Nat /\ o # 0
    BY BoundAssumption DEF Objects, BoundAssumption
  <2>5. heap' \in [Objects -> Row] /\ heap'[o] = Content(o)
    BY <2>1, <2>3 DEF EntryTypeOK
  <2>6. held' \in [Replayers -> Nat] /\ \A q \in Replayers : held'[q] = IF q = p THEN o ELSE held[q]
    BY <2>1, <2>4 DEF EntryTypeOK
  <2>7. EntryTypeOK'
    BY <2>2, <2>3, <2>5, <2>6 DEF EntryTypeOK
  <2> QED
    BY <2>2, <2>3, <2>4, <2>5, <2>6, <2>7 DEF EntryTypeOK, SettledInv
<1>3. ASSUME NEW p \in Replayers, held[p] # 0
      PROVE  /\ held[p] \in Objects /\ held[p] \in Nat /\ heap[held[p]] \in Row
             /\ held[p] <= used /\ used # 0 /\ (used = 1 => held[p] = 1 /\ mem = 1)
             /\ [held EXCEPT ![p] = 0] \in [Replayers -> Nat]
             /\ \A q \in Replayers : [held EXCEPT ![p] = 0][q] = IF q = p THEN 0 ELSE held[q]
  <2>1. held[p] \in Nat /\ used \in Nat /\ held[p] <= used /\ used <= MaxObjects /\ MaxObjects \in Nat
    BY BoundAssumption DEF EntryTypeOK, SettledInv, BoundAssumption
  <2>2. held[p] \in Objects
    BY <1>3, <2>1 DEF Objects
  <2> QED
    BY <1>3, <2>1, <2>2 DEF EntryTypeOK, SettledInv
<1>4. ASSUME NEW p \in Replayers, ReplayFails(p) PROVE EntryTypeOK' /\ SettledInv'
  <2>1. held[p] # 0
    BY <1>4 DEF ReplayFails
  <2>2. PICK x \in Row : /\ x = [heap[held[p]] EXCEPT !.attempts = @ + 1]
                         /\ x.status = heap[held[p]].status
    <3>1. PICK h \in Row : h = heap[held[p]]
      BY <1>3, <2>1
    <3>2. [h EXCEPT !.attempts = @ + 1] \in Row /\ [h EXCEPT !.attempts = @ + 1].status = h.status
      BY RowEdits
    <3> QED
      BY <3>1, <3>2
  <2>3. /\ heap' = [heap EXCEPT ![held[p]] = x] /\ mem' = held[p]
        /\ row' = heap'[held[p]] /\ held' = [held EXCEPT ![p] = 0]
        /\ UNCHANGED <<used, restarts, discarded, delivered>>
    BY <1>4, <2>2 DEF ReplayFails
  <2>4. heap' \in [Objects -> Row] /\ heap'[held[p]] = x /\ row' = x
    BY <1>3, <2>1, <2>3 DEF EntryTypeOK
  <2>5. EntryTypeOK'
    BY <1>3, <2>1, <2>3, <2>4 DEF EntryTypeOK
  <2> QED
    BY <1>3, <2>1, <2>2, <2>3, <2>4, <2>5 DEF EntryTypeOK, SettledInv
<1>5. ASSUME NEW p \in Replayers, ReplaySucceeds(p) PROVE EntryTypeOK' /\ SettledInv'
  <2>1. held[p] # 0
    BY <1>5 DEF ReplaySucceeds
  <2>2. PICK x \in Row : x = [heap[held[p]] EXCEPT !.status = "replayed"] /\ x.status = "replayed"
    <3>1. PICK h \in Row : h = heap[held[p]]
      BY <1>3, <2>1
    <3>2. [h EXCEPT !.status = "replayed"] \in Row /\ [h EXCEPT !.status = "replayed"].status = "replayed"
      BY RowEdits
    <3> QED
      BY <3>1, <3>2
  <2>3. PICK y \in Row : y = [row EXCEPT !.status = "replayed"] /\ y.status = "replayed"
    BY RowEdits DEF EntryTypeOK
  <2>4. /\ heap' = [heap EXCEPT ![held[p]] = x] /\ mem' = held[p] /\ row' = y
        /\ held' = [held EXCEPT ![p] = 0] /\ UNCHANGED <<used, restarts>>
        /\ discarded' \in BOOLEAN /\ delivered' \in BOOLEAN
    BY <1>5, <2>2, <2>3 DEF ReplaySucceeds
  <2>5. heap' \in [Objects -> Row] /\ heap'[held[p]] = x
    BY <1>3, <2>1, <2>4 DEF EntryTypeOK
  <2>6. EntryTypeOK'
    BY <1>3, <2>1, <2>4, <2>5 DEF EntryTypeOK
  <2> QED
    BY <1>3, <2>1, <2>2, <2>3, <2>4, <2>5, <2>6 DEF EntryTypeOK, SettledInv
<1>6. ASSUME NEW p \in Replayers, ReplayCancelled(p) PROVE EntryTypeOK' /\ SettledInv'
  <2>1. held[p] # 0 /\ held' = [held EXCEPT ![p] = 0]
    BY <1>6 DEF ReplayCancelled
  <2>2. UNCHANGED <<heap, used, mem, row, restarts, discarded, delivered>>
    BY <1>6 DEF ReplayCancelled
  <2> QED
    BY <1>3, <2>1, <2>2 DEF EntryTypeOK, SettledInv
<1>7. ASSUME Discard PROVE EntryTypeOK' /\ SettledInv'
  <2>1. PICK o \in Objects :
          /\ Obtain(o) /\ mem' = o
          /\ heap' = [heap EXCEPT ![o] = [Content(o) EXCEPT !.status = "discarded"]]
    BY <1>7 DEF Discard
  <2>2. /\ Content(o) \in Row /\ used' \in Nat /\ used' <= MaxObjects /\ used <= used'
        /\ o <= used' /\ used' # 0
        /\ used' = 1 => used = 1 /\ o = 1 /\ mem = 1 /\ Content(o) = heap[1]
    BY <2>1, ObtainFacts
  <2>3. PICK x \in Row : x = [Content(o) EXCEPT !.status = "discarded"] /\ x.status = "discarded"
    BY <2>2, RowEdits
  <2>4. PICK y \in Row : y = [row EXCEPT !.status = "discarded"] /\ y.status = "discarded"
    BY RowEdits DEF EntryTypeOK
  <2>5. /\ row' = y /\ discarded' \in BOOLEAN /\ UNCHANGED <<held, restarts, delivered>>
    BY <1>7, <2>4 DEF Discard
  <2>6. o \in Nat /\ heap' \in [Objects -> Row] /\ heap'[o] = x
    BY <2>1, <2>3, BoundAssumption DEF EntryTypeOK, Objects, BoundAssumption
  <2>7. EntryTypeOK'
    BY <2>1, <2>2, <2>5, <2>6 DEF EntryTypeOK
  <2> QED
    BY <2>1, <2>2, <2>3, <2>4, <2>5, <2>6, <2>7 DEF EntryTypeOK, SettledInv
<1>8. ASSUME Restart PROVE EntryTypeOK' /\ SettledInv'
  <2>1. /\ restarts' \in Nat /\ mem' = 0 /\ held' = [p \in Replayers |-> 0]
        /\ UNCHANGED <<heap, used, row, discarded, delivered>>
    BY <1>8 DEF Restart, EntryTypeOK
  <2>2. EntryTypeOK'
    BY <2>1 DEF EntryTypeOK
  <2> QED
    BY <2>1, <2>2 DEF EntryTypeOK, SettledInv
<1>9. CASE UNCHANGED vars
  BY <1>9 DEF vars, EntryTypeOK, SettledInv
<1> QED
  BY <1>1, <1>2, <1>4, <1>5, <1>6, <1>7, <1>8, <1>9 DEF Next

\* A settled entry stays settled (resilience.py discard_dead_letter,
\* replay_dead_letter) while one object has carried its id, for any number of
\* replays, objects, attempts and restarts.
THEOREM SettledNotPendingCorrect == Spec => []SettledNotPending
<1>1. Init => EntryTypeOK /\ SettledInv
  <2> SUFFICES ASSUME Init PROVE EntryTypeOK /\ SettledInv
    OBVIOUS
  <2>1. Blank \in Row /\ NoRow \in Row
    BY DEF Blank, NoRow, Row
  <2>2. discarded \in BOOLEAN /\ delivered \in BOOLEAN
    BY DEF Init
  <2>3. EntryTypeOK
    BY <2>1, <2>2 DEF Init, EntryTypeOK
  <2>4. SettledInv
    BY BoundAssumption DEF Init, SettledInv, BoundAssumption
  <2> QED
    BY <2>3, <2>4
<1>2. EntryTypeOK /\ SettledInv => SettledNotPending
  BY DEF EntryTypeOK, SettledInv, SettledNotPending
<1> QED
  BY <1>1, <1>2, SettledStep, PTL DEF Spec
=============================================================================
