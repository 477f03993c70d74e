--------------------------- MODULE PlatformProofs ---------------------------
(***************************************************************************)
(* Theorems about the platform services for any users, keys, servers,      *)
(* packages and agents.  The guard: types, and by how much overlapping     *)
(* calls exceed a budget.  The vault: types, and that a marker shows its   *)
(* secret.  The gateway next to the vault: it uses the vault as the vault's*)
(* own specification allows, so what is proved of the vault holds beside   *)
(* it, and the session of a server is an open one.  The marketplace and    *)
(* the agent runtime around the guard: the same for the guard, and that an *)
(* installed package that carries a policy is known to the guard.          *)
(***************************************************************************)
EXTENDS AgentRuntime, McpGateway, FiniteSetTheorems, SequenceTheorems, TLAPS

(* The guard.  The argument follows the load of a package, the calls charged   *)
(* to it plus the calls under way: the end of a call moves one from the second *)
(* to the first and leaves the load alone, an admission adds one while the     *)
(* charged part is below the budget.                                           *)

Load(p) == usage[p].calls + Cardinality(Running(p))

\* The audit ring buffer and the stored trail stay sequences of entries.
LEMMA AuditType ==
  ASSUME GuardTypeOK, NEW p \in Packages, NEW op \in Ops, NEW r \in Results,
         AuditRecord(p, op, r)
  PROVE  audit' \in Seq(AuditEntry) /\ trail' \in Seq(AuditEntry)
<1> DEFINE e == [who |-> p, op |-> op, result |-> r]
           all == Append(audit, e)
<1>1. e \in AuditEntry
  BY DEF AuditEntry
<1>2. trail' = Append(trail, e)
      /\ audit' = IF Len(all) > AuditLimit
                  THEN SubSeq(all, Len(all) - AuditLimit + 1, Len(all)) ELSE all
  BY DEF AuditRecord, PutAudit
<1>3. audit \in Seq(AuditEntry) /\ trail \in Seq(AuditEntry)
  BY DEF GuardTypeOK
<1> HIDE DEF e
<1>4. all \in Seq(AuditEntry) /\ trail' \in Seq(AuditEntry)
  BY <1>1, <1>2, <1>3, AppendProperties
<1>5. AuditLimit \in Nat
  BY GuardAssumption DEF GuardAssumption
<1> HIDE DEF all
<1>6. ASSUME Len(all) > AuditLimit
      PROVE  SubSeq(all, Len(all) - AuditLimit + 1, Len(all)) \in Seq(AuditEntry)
  <2>1. Len(all) \in Nat /\ \A i \in 1 .. Len(all) : all[i] \in AuditEntry
    BY <1>4, ElementOfSeq, LenProperties
  <2>2. \A i \in Len(all) - AuditLimit + 1 .. Len(all) : all[i] \in AuditEntry
    BY <2>1, <1>5, <1>6
  <2> QED
    BY <2>1, <2>2, <1>5, SubSeqProperties
<1> QED
  BY <1>2, <1>4, <1>6

\* The callers inside a package are a finite set of known callers.
LEMMA RunningFinite ==
  ASSUME NEW p
  PROVE  /\ Running(p) \in SUBSET Callers
         /\ IsFiniteSet(Running(p))
         /\ Cardinality(Running(p)) \in Nat
         /\ Cardinality(Callers) \in Nat
         /\ Cardinality(Running(p)) <= Cardinality(Callers)
<1>1. Running(p) \in SUBSET Callers
  BY DEF Running
<1>2. IsFiniteSet(Callers)
  BY GuardAssumption DEF GuardAssumption
<1> QED
  BY <1>1, <1>2, FS_Subset, FS_CardinalityType

\* What a caller inside a guarded call holds.
LEMMA InsideType ==
  ASSUME GuardTypeOK, NEW c \in Callers, inside[c] # None
  PROVE  inside[c] \in [package : Packages, op : Ops]
BY DEF GuardTypeOK

\* Every step keeps the types.
LEMMA TypeStep == GuardTypeOK /\ [GuardNext]_guardVars => GuardTypeOK'
<1> SUFFICES ASSUME GuardTypeOK, [GuardNext]_guardVars PROVE GuardTypeOK'
  OBVIOUS
<1>1. ASSUME NEW p \in Packages, NEW pol \in Policies, RegisterPolicy(p, pol)
      PROVE  GuardTypeOK'
  <2>1. usage[p].calls + Cardinality(Running(p)) \in Nat
    BY RunningFinite DEF GuardTypeOK
  <2> QED
    BY <1>1, <2>1 DEF RegisterPolicy, RegisterPolicyOf, GuardTypeOK
<1>2. ASSUME NEW p \in Packages, NEW perm \in Permissions, Grant(p, perm)
      PROVE  GuardTypeOK'
  BY <1>2 DEF Grant, GuardTypeOK
<1>3. ASSUME NEW c \in Callers, NEW p \in Packages, NEW op \in Ops,
             Deny(c, p, op) \/ ExceedLimit(c, p, op)
      PROVE  GuardTypeOK'
  <2>1. \E r \in Results : AuditRecord(p, op, r)
    BY <1>3 DEF Deny, ExceedLimit, Results
  <2>2. audit' \in Seq(AuditEntry) /\ trail' \in Seq(AuditEntry)
    BY <2>1, AuditType
  <2> QED
    BY <1>3, <2>2 DEF Deny, ExceedLimit, GuardTypeOK
<1>4. ASSUME NEW c \in Callers, NEW p \in Packages, NEW op \in Ops, Admit(c, p, op)
      PROVE  GuardTypeOK'
  BY <1>4 DEF Admit, GuardTypeOK
<1>5. ASSUME NEW c \in Callers, NEW ms \in {0, 1}, NEW errored \in BOOLEAN,
             CallEnds(c, ms, errored)
      PROVE  GuardTypeOK'
  <2>1. inside[c] \in [package : Packages, op : Ops]
    BY <1>5, InsideType DEF CallEnds
  <2>2. (IF errored THEN "error" ELSE "allowed") \in Results
    BY DEF Results
  <2>3. audit' \in Seq(AuditEntry) /\ trail' \in Seq(AuditEntry)
    BY <1>5, <2>1, <2>2, AuditType DEF CallEnds
  <2>4. usage' \in [Packages -> [calls : Nat, cpu_ms : Nat]]
    BY <1>5, <2>1 DEF CallEnds, GuardTypeOK
  <2> QED
    BY <1>5, <2>3, <2>4 DEF CallEnds, GuardTypeOK
<1>6. ASSUME GuardRestart PROVE GuardTypeOK'
  BY <1>6 DEF GuardRestart, GuardTypeOK, NoUsage
<1>7. ASSUME UNCHANGED guardVars PROVE GuardTypeOK'
  BY <1>7 DEF guardVars, GuardTypeOK
<1> QED
  BY <1>1, <1>2, <1>3, <1>4, <1>5, <1>6, <1>7 DEF GuardNext, GuardUse

\* Type correctness: usage, policies and the audit trail of the guard have
\* their types after any sequence of calls, errors, registrations and restarts.
THEOREM GuardTypeCorrect == GuardSpec => []GuardTypeOK
<1>1. GuardInit => GuardTypeOK
  BY DEF GuardInit, GuardTypeOK, NoUsage
<1> QED
  BY <1>1, TypeStep, PTL DEF GuardSpec

\* The end of a call leaves the load of every package as it was.
LEMMA EndKeepsLoad ==
  ASSUME GuardTypeOK, NEW c \in Callers, NEW ms \in {0, 1}, NEW errored \in BOOLEAN,
         CallEnds(c, ms, errored), NEW p \in Packages
  PROVE  Load(p)' = Load(p)
<1> DEFINE q == inside[c].package
<1>1. inside[c] # None /\ q \in Packages
  BY InsideType DEF CallEnds
<1>2. inside' = [inside EXCEPT ![c] = None]
      /\ usage' = [usage EXCEPT ![q] = [calls |-> @.calls + 1, cpu_ms |-> @.cpu_ms + ms]]
  BY DEF CallEnds
<1>3. inside \in [Callers -> [package : Packages, op : Ops] \cup {None}]
      /\ usage \in [Packages -> [calls : Nat, cpu_ms : Nat]]
  BY DEF GuardTypeOK
<1>4. CASE p = q
  <2>1. Running(p)' = Running(p) \ {c} /\ c \in Running(p)
    BY <1>1, <1>2, <1>3, <1>4 DEF Running
  <2>2. Cardinality(Running(p)') = Cardinality(Running(p)) - 1
    BY <2>1, RunningFinite, FS_RemoveElement
  <2>3. usage'[p].calls = usage[p].calls + 1 /\ usage[p].calls \in Nat
    BY <1>1, <1>2, <1>3, <1>4
  <2> QED
    BY <2>2, <2>3, RunningFinite DEF Load
<1>5. CASE p # q
  <2>1. Running(p)' = Running(p)
    BY <1>1, <1>2, <1>3, <1>5 DEF Running
  <2>2. usage'[p] = usage[p]
    BY <1>2, <1>3, <1>5
  <2> QED
    BY <2>1, <2>2 DEF Load
<1> QED
  BY <1>4, <1>5

\* An admission passes the budget by less than the number of callers.
LEMMA AdmitBounded ==
  ASSUME GuardTypeOK, NEW c \in Callers, NEW q \in Packages, NEW op \in Ops,
         Admit(c, q, op), NEW p \in Packages, policies[p] # None
  PROVE  \/ Load(p)' = Load(p)
         \/ Load(p)' < policies[p].max_calls + Cardinality(Callers)
<1>1. inside[c] = None /\ inside' = [inside EXCEPT ![c] = [package |-> q, op |-> op]]
      /\ usage' = usage
  BY DEF Admit
<1>2. inside \in [Callers -> [package : Packages, op : Ops] \cup {None}]
  BY DEF GuardTypeOK
<1>3. CASE p = q
  <2>1. usage[p].calls < policies[p].max_calls
    BY <1>3 DEF Admit, ResourceOk
  <2>2. Running(p)' \in SUBSET Callers
    BY <1>1, <1>2 DEF Running
  <2>3. IsFiniteSet(Callers)
    BY GuardAssumption DEF GuardAssumption
  <2>4. Cardinality(Running(p)') \in Nat /\ Cardinality(Running(p)') <= Cardinality(Callers)
        /\ Cardinality(Callers) \in Nat
    BY <2>2, <2>3, FS_Subset, FS_CardinalityType
  <2>5. policies[p].max_calls \in Nat /\ usage[p].calls \in Nat
    BY GuardAssumption DEF GuardAssumption, GuardTypeOK
  <2>6. Load(p)' = usage[p].calls + Cardinality(Running(p)')
    BY <1>1 DEF Load
  <2> QED
    BY <2>1, <2>4, <2>5, <2>6
<1>4. CASE p # q
  <2>1. [package |-> q, op |-> op].package = q /\ [package |-> q, op |-> op] # None
    BY GuardAssumption DEF GuardAssumption
  <2>2. Running(p)' = Running(p)
    BY <1>1, <1>2, <1>4, <2>1 DEF Running
  <2> QED
    BY <1>1, <2>2 DEF Load
<1> QED
  BY <1>3, <1>4

\* Concurrent callers exceed the call budget of a package by less than their
\* number, for any policies and any number of callers: the budget is tested
\* before a guarded call and charged after it (_resource_ok, _accrue).
THEOREM OverrunIsBounded == GuardSpec => []OverrunBounded
<1>1. GuardInit => OverrunBounded
  BY DEF GuardInit, OverrunBounded
<1>2. ASSUME GuardTypeOK, OverrunBounded, [GuardNext]_guardVars
      PROVE  OverrunBounded'
  <2> SUFFICES ASSUME NEW p \in Packages, policies'[p] # None
               PROVE  \/ Load(p)' <= base'[p]
                      \/ Load(p)' < policies'[p].max_calls + Cardinality(Callers)
    BY DEF OverrunBounded, Load
  <2>1. policies[p] # None => \/ Load(p) <= base[p]
                              \/ Load(p) < policies[p].max_calls + Cardinality(Callers)
    BY <1>2 DEF OverrunBounded, Load
  <2>2. ASSUME NEW q \in Packages, NEW pol \in Policies, RegisterPolicy(q, pol)
        PROVE  \/ Load(p)' <= base'[p]
               \/ Load(p)' < policies'[p].max_calls + Cardinality(Callers)
    <3>1. usage' = usage /\ inside' = inside
          /\ policies' = [policies EXCEPT ![q] = pol]
          /\ base' = [base EXCEPT ![q] = Load(q)]
      BY <2>2 DEF RegisterPolicy, RegisterPolicyOf, Load
    <3>2. Load(p)' = Load(p) /\ Load(p) \in Nat
      <4>1. Running(p)' = Running(p)
        BY <3>1 DEF Running
      <4>2. usage[p].calls \in Nat
        BY <1>2 DEF GuardTypeOK
      <4> QED
        BY <3>1, <4>1, <4>2, RunningFinite DEF Load
    <3>3. p = q => base'[p] = Load(p)
      BY <1>2, <3>1 DEF GuardTypeOK
    <3>4. p # q => base'[p] = base[p] /\ policies'[p] = policies[p]
      BY <1>2, <3>1 DEF GuardTypeOK
    <3> QED
      BY <2>1, <3>2, <3>3, <3>4
  <2>3. ASSUME UNCHANGED <<usage, inside, policies, base>>
        PROVE  \/ Load(p)' <= base'[p]
               \/ Load(p)' < policies'[p].max_calls + Cardinality(Callers)
    <3>1. Load(p)' = Load(p)
      BY <2>3 DEF Load, Running
    <3> QED
      BY <2>1, <2>3, <3>1
  <2>4. ASSUME NEW c \in Callers, NEW q \in Packages, NEW op \in Ops, Admit(c, q, op)
        PROVE  \/ Load(p)' <= base'[p]
               \/ Load(p)' < policies'[p].max_calls + Cardinality(Callers)
    <3>1. policies' = policies /\ base' = base
      BY <2>4 DEF Admit
    <3> QED
      BY <1>2, <2>1, <2>4, <3>1, AdmitBounded
  <2>5. ASSUME NEW c \in Callers, NEW ms \in {0, 1}, NEW errored \in BOOLEAN,
               CallEnds(c, ms, errored)
        PROVE  \/ Load(p)' <= base'[p]
               \/ Load(p)' < policies'[p].max_calls + Cardinality(Callers)
    <3>1. policies' = policies /\ base' = base
      BY <2>5 DEF CallEnds
    <3> QED
      BY <1>2, <2>1, <2>5, <3>1, EndKeepsLoad
  <2>6. ~GuardRestart
    BY DEF GuardRestart
  <2>7. \A q \in Packages, perm \in Permissions :
          Grant(q, perm) => UNCHANGED <<usage, inside, policies, base>>
    BY DEF Grant
  <2>8. \A c \in Callers, q \in Packages, op \in Ops :
          Deny(c, q, op) \/ ExceedLimit(c, q, op) => UNCHANGED <<usage, inside, policies, base>>
    BY DEF Deny, ExceedLimit
  <2>9. UNCHANGED guardVars => UNCHANGED <<usage, inside, policies, base>>
    BY DEF guardVars
  <2> QED
    BY <1>2, <2>2, <2>3, <2>4, <2>5, <2>6, <2>7, <2>8, <2>9 DEF GuardNext, GuardUse
<1> QED
  BY <1>1, <1>2, GuardTypeCorrect, PTL DEF GuardSpec

-----------------------------------------------------------------------------
(* The vault. *)

\* The entry and the secret a call finds have their types, and so has a version.
LEMMA CurrentType ==
  ASSUME VaultTypeOK, NEW k \in Keys
  PROVE  /\ CurrentConfig(k) \in Entry \cup {Absent}
         /\ CurrentSecret(k) \in Secret \cup {Absent}
         /\ NextVersion(CurrentConfig(k)) \in Nat
         /\ NextVersion(CurrentSecret(k)) \in Nat
BY DEF VaultTypeOK, CurrentConfig, CurrentSecret, NextVersion, Entry, Secret

\* Marking an entry deleted leaves a record of the same kind.
LEMMA DeletedRecord ==
  ASSUME NEW V, NEW B, NEW t \in B,
         NEW e \in [value : V, encrypted : B, deleted : B, version : Nat]
  PROVE  [e EXCEPT !.deleted = t, !.version = e.version + 1]
           \in [value : V, encrypted : B, deleted : B, version : Nat]
<1>1. PICK n \in Nat : n = e.version + 1
  OBVIOUS
<1>2. [e EXCEPT !.deleted = t, !.version = n]
        \in [value : V, encrypted : B, deleted : B, version : Nat]
  OBVIOUS
<1> QED
  BY <1>1, <1>2, Zenon

LEMMA DeletedEntry ==
  ASSUME NEW e \in Entry
  PROVE  Deleted(e) \in Entry
<1>1. TRUE \in BOOLEAN /\ e \in [value : Values, encrypted : BOOLEAN, deleted : BOOLEAN,
                                version : Nat]
  BY DEF Entry
<1> QED
  BY <1>1, DeletedRecord, ZenonT(40) DEF Deleted, Entry

\* Every call of the vault keeps the types, whatever awaits the cipher meanwhile.
LEMMA VaultTypeStep ==
  ASSUME VaultTypeOK, [VaultNext \/ VaultStops]_vaultVars
  PROVE  VaultTypeOK'
<1> USE CurrentType DEF VaultTypeOK, past
<1>1. ASSUME NEW k \in Keys, NEW v \in Values, SetConfig(k, v) PROVE VaultTypeOK'
  <2>1. [value |-> v, encrypted |-> FALSE, deleted |-> FALSE,
         version |-> NextVersion(CurrentConfig(k))] \in Entry
    BY DEF Entry
  <2> QED
    BY <1>1, <2>1 DEF SetConfig, PutConfig
<1>2. ASSUME NEW k \in Keys, GetConfig(k) PROVE VaultTypeOK'
  BY <1>2 DEF GetConfig
<1>3. ASSUME NEW k \in Keys, DeleteConfig(k) PROVE VaultTypeOK'
  <2>1. CurrentConfig(k) \in Entry
    BY <1>3 DEF DeleteConfig
  <2> QED
    BY <1>3, <2>1, DeletedEntry DEF DeleteConfig
<1>4. ASSUME NEW u \in Users, NEW k \in Keys, NEW v \in Values, NEW kind \in Kinds,
             WriteBegins(u, kind, k, v)
      PROVE  VaultTypeOK'
  <2>1. [value |-> v, version |-> NextVersion(CurrentSecret(k))] \in Secret
    BY DEF Secret
  <2> QED
    BY <1>4, <2>1 DEF WriteBegins, Await
<1>5. ASSUME NEW u \in Users, NEW k \in Keys, ResolveBegins(u, k) PROVE VaultTypeOK'
  <2>1. CurrentSecret(k) \in Secret
    BY <1>5 DEF ResolveBegins
  <2> QED
    BY <1>5, <2>1 DEF ResolveBegins, Await, Kinds
<1>6. ASSUME NEW u \in Users, NEW k \in Keys, ResolveDenied(u, k) PROVE VaultTypeOK'
  BY <1>6 DEF ResolveDenied, Log, PutAccess
<1>7. ASSUME NEW u \in Users, WriteEnds(u) PROVE VaultTypeOK'
  <2>1. work[u].key \in Keys /\ work[u].secret \in Secret
    BY <1>7 DEF WriteEnds
  <2>2. [value |-> work[u].secret.value, encrypted |-> TRUE, deleted |-> FALSE,
         version |-> work[u].secret.version] \in Entry
    BY <2>1 DEF Entry, Secret
  <2> QED
    BY <1>7, <2>1, <2>2 DEF WriteEnds, PutSecret, PutMarker, PutConfig, Log, PutAccess
<1>8. ASSUME NEW u \in Users, ResolveEnds(u) \/ CipherFails(u) PROVE VaultTypeOK'
  BY <1>8 DEF ResolveEnds, CipherFails, Log, PutAccess
<1>9. ASSUME Reload \/ VaultRestart PROVE VaultTypeOK'
  BY <1>9 DEF Reload, LoadConfig, LoadSecrets, VaultRestart, Forget, past
<1>10. ASSUME NEW u \in Users, WriteCut(u) PROVE VaultTypeOK'
  <2>1. work[u].key \in Keys /\ work[u].secret \in Secret
    BY <1>10 DEF WriteCut
  <2> QED
    BY <1>10, <2>1 DEF WriteCut, Forget
<1>11. ASSUME UNCHANGED vaultVars PROVE VaultTypeOK'
  BY <1>11 DEF vaultVars, past
<1> QED
  BY <1>1, <1>2, <1>3, <1>4, <1>5, <1>6, <1>7, <1>8, <1>9, <1>10, <1>11
  DEF VaultNext, ConfigNext, SecretNext, VaultStops

\* Type correctness of the vault: entries, secrets and the calls that await the
\* cipher have their types after any overlap of calls and any restart.
THEOREM VaultTypeCorrect == VaultSpec => []VaultTypeOK
<1>1. VaultInit => VaultTypeOK
  BY DEF VaultInit, VaultTypeOK
<1>2. VaultTypeOK /\ [VaultNext \/ VaultStops]_vaultVars => VaultTypeOK'
  BY VaultTypeStep
<1> QED
  BY <1>1, <1>2, PTL DEF VaultSpec

\* Inductive form of MarkerShowsSecret: what is cached of a secret is its row, and
\* of a key whose writes never overlapped at most one write is under way, with the
\* version after that of the row.
CacheIsRow == \A k \in Keys : secrets[k] # Absent => secrets[k] = dbSecret[k]

WritesInTurn ==
  \A k \in Keys \ overlapped : \A u, w \in Users :
    /\ Writes(u, k) => work[u].secret.version = NextVersion(dbSecret[k])
    /\ Writes(u, k) /\ Writes(w, k) => u = w

\* The marker of key k agrees with its secret, as MarkerShowsSecret has it.
Marked(k) ==
  dbConfig[k] # Absent /\ dbConfig[k].encrypted /\ ~dbConfig[k].deleted =>
    /\ dbSecret[k] # Absent
    /\ k \notin torn => /\ dbConfig[k].version = dbSecret[k].version
                       /\ dbConfig[k].value = dbSecret[k].value
    /\ k \notin overlapped =>
         /\ dbConfig[k].version <= dbSecret[k].version
         /\ dbConfig[k].version = dbSecret[k].version => dbConfig[k].value = dbSecret[k].value

LEMMA MarkedAll == MarkerShowsSecret <=> \A k \in Keys : Marked(k)
BY DEF MarkerShowsSecret, Marked

VaultInv == CacheIsRow /\ WritesInTurn /\ MarkerShowsSecret

\* The cache holds the rows: a writer updates both, a restart empties the cache.
LEMMA CacheStep ==
  ASSUME VaultTypeOK, CacheIsRow, [VaultNext \/ VaultStops]_vaultVars
  PROVE  CacheIsRow'
<1> USE DEF CacheIsRow
<1>1. ASSUME UNCHANGED <<secrets, dbSecret>> PROVE CacheIsRow'
  BY <1>1
<1>2. ASSUME NEW u \in Users, WriteEnds(u) PROVE CacheIsRow'
  BY <1>2 DEF WriteEnds, PutSecret, VaultTypeOK
<1>3. ASSUME NEW u \in Users, NEW k \in Keys, ResolveBegins(u, k) PROVE CacheIsRow'
  BY <1>3 DEF ResolveBegins, CurrentSecret, VaultTypeOK
<1>4. ASSUME Forget PROVE CacheIsRow'
  BY <1>4 DEF Forget
<1>5. ASSUME Reload PROVE CacheIsRow'
  BY <1>5 DEF Reload, LoadSecrets
<1> QED
  BY <1>1, <1>2, <1>3, <1>4, <1>5
  DEF VaultNext, ConfigNext, SecretNext, VaultStops, SetConfig, GetConfig, DeleteConfig,
      WriteBegins, ResolveDenied, ResolveEnds, CipherFails, VaultRestart, WriteCut, vaultVars

\* A write that begins finds the version of the row; one that ends is the only one.
LEMMA TurnStep ==
  ASSUME VaultTypeOK, CacheIsRow, WritesInTurn, [VaultNext \/ VaultStops]_vaultVars
  PROVE  WritesInTurn'
<1> USE DEF WritesInTurn, Writes
<1>1. ASSUME UNCHANGED <<work, dbSecret, overlapped>> PROVE WritesInTurn'
  BY <1>1 DEF NextVersion
<1>2. ASSUME NEW u \in Users, NEW k \in Keys, NEW v \in Values, NEW kind \in Kinds,
             WriteBegins(u, kind, k, v)
      PROVE  WritesInTurn'
  <2>1. PICK s \in Secret : s = [value |-> v, version |-> NextVersion(CurrentSecret(k))]
    BY CurrentType DEF Secret
  <2>2. PICK new : new = [kind |-> kind, key |-> k, secret |-> s]
    OBVIOUS
  <2>3. /\ new.key = k /\ new.secret = s
        /\ s.version = NextVersion(dbSecret[k])
    BY <2>1, <2>2 DEF CurrentSecret, CacheIsRow
  <2>4. /\ work' = [work EXCEPT ![u] = new]
        /\ dbSecret' = dbSecret
        /\ overlapped' = overlapped \cup {j \in {k} : \E w \in Users : Writes(w, j)}
    BY <1>2, <2>1, <2>2 DEF WriteBegins, Await
  <2>5. \A w \in Users \ {u} : work'[w] = work[w]
    BY <2>4 DEF VaultTypeOK
  <2>6. work'[u] = new
    BY <2>4 DEF VaultTypeOK
  <2>7. ASSUME NEW j \in Keys \ overlapped', NEW a \in Users, NEW b \in Users,
               Writes(a, j)', Writes(b, j)'
        PROVE  work'[a].secret.version = NextVersion(dbSecret'[j]) /\ a = b
    <3>1. j \notin overlapped /\ (j = k => \A w \in Users : ~Writes(w, k))
      BY <2>4, <2>7
    <3>2. CASE j = k
      BY <2>3, <2>4, <2>5, <2>6, <2>7, <3>1, <3>2
    <3>3. CASE j # k
      BY <2>3, <2>4, <2>5, <2>6, <2>7, <3>1, <3>3
    <3> QED
      BY <3>2, <3>3
  <2> QED
    BY <2>7
<1>3. ASSUME NEW u \in Users, WriteEnds(u) PROVE WritesInTurn'
  <2>1. PICK k \in Keys : k = work[u].key
    BY <1>3 DEF WriteEnds, VaultTypeOK
  <2>2. /\ Writes(u, k) /\ overlapped' = overlapped
        /\ work' = [work EXCEPT ![u] = Absent]
        /\ dbSecret' = [dbSecret EXCEPT ![k] = work[u].secret]
    BY <1>3, <2>1 DEF WriteEnds, PutSecret
  <2>3. ASSUME NEW j \in Keys \ overlapped', NEW a \in Users, NEW b \in Users,
               Writes(a, j)', Writes(b, j)'
        PROVE  work'[a].secret.version = NextVersion(dbSecret'[j]) /\ a = b
    <3>1. a # u /\ b # u /\ Writes(a, j) /\ Writes(b, j)
      BY <2>2, <2>3 DEF VaultTypeOK
    <3>2. j # k
      BY <2>2, <2>3, <3>1
    <3> QED
      BY <2>2, <2>3, <3>1, <3>2 DEF VaultTypeOK
  <2> QED
    BY <2>3
<1>4. ASSUME NEW u \in Users, NEW k \in Keys, ResolveBegins(u, k) PROVE WritesInTurn'
  <2>1. PICK new : new = [kind |-> "resolve", key |-> k, secret |-> CurrentSecret(k)]
    OBVIOUS
  <2>2. new.kind = "resolve"
    BY <2>1
  <2>3. work' = [work EXCEPT ![u] = new] /\ dbSecret' = dbSecret /\ overlapped' = overlapped
    BY <1>4, <2>1 DEF ResolveBegins, Await, past
  <2>4. \A w \in Users, j \in Keys : Writes(w, j)' => w # u /\ work'[w] = work[w]
    BY <2>2, <2>3 DEF VaultTypeOK
  <2> QED
    BY <2>3, <2>4
<1>5. ASSUME NEW u \in Users, ResolveEnds(u) \/ CipherFails(u) PROVE WritesInTurn'
  <2>1. work' = [work EXCEPT ![u] = Absent] /\ dbSecret' = dbSecret /\ overlapped' = overlapped
    BY <1>5 DEF ResolveEnds, CipherFails, past
  <2>2. \A w \in Users, j \in Keys : Writes(w, j)' => w # u /\ work'[w] = work[w]
    BY <2>1 DEF VaultTypeOK
  <2> QED
    BY <2>1, <2>2
<1>6. ASSUME Forget PROVE WritesInTurn'
  BY <1>6 DEF Forget
<1> QED
  BY <1>1, <1>2, <1>3, <1>4, <1>5, <1>6
  DEF VaultNext, ConfigNext, SecretNext, VaultStops, SetConfig, GetConfig, DeleteConfig, Reload,
      ResolveDenied, VaultRestart, WriteCut, vaultVars, past

\* A step of the vault keeps every marker in line with its secret.
LEMMA MarkerStep ==
  ASSUME VaultTypeOK, VaultInv, [VaultNext \/ VaultStops]_vaultVars
  PROVE  MarkerShowsSecret'
<1>0. \A k \in Keys : Marked(k)
  BY MarkedAll DEF VaultInv
<1>a. SUFFICES \A k \in Keys : Marked(k)'
  BY MarkedAll DEF MarkerShowsSecret, Marked
<1>1. ASSUME NEW k \in Keys, NEW v \in Values, SetConfig(k, v) PROVE \A j \in Keys : Marked(j)'
  BY <1>0, <1>1 DEF SetConfig, PutConfig, VaultTypeOK, Marked, past
<1>2. ASSUME NEW k \in Keys, DeleteConfig(k) PROVE \A j \in Keys : Marked(j)'
  <2>1. /\ dbSecret' = dbSecret /\ torn' = torn /\ overlapped' = overlapped
        /\ \A j \in Keys \ {k} : dbConfig'[j] = dbConfig[j]
    BY <1>2 DEF DeleteConfig, VaultTypeOK, past
  <2>2. dbConfig'[k] = Absent \/ dbConfig'[k].deleted
    BY <1>2 DEF DeleteConfig, VaultTypeOK, Deleted, Entry
  <2> QED
    BY <1>0, <2>1, <2>2 DEF Marked
<1>3. ASSUME NEW u \in Users, WriteEnds(u) \/ WriteCut(u) PROVE \A j \in Keys : Marked(j)'
  <2>1. PICK k \in Keys, s \in Secret : k = work[u].key /\ s = work[u].secret
    BY <1>3 DEF WriteEnds, WriteCut, VaultTypeOK
  <2>2. /\ Writes(u, k) /\ overlapped' = overlapped
        /\ dbSecret' = [dbSecret EXCEPT ![k] = s]
        /\ s # Absent
    BY <1>3, <2>1, VaultAssumption DEF WriteEnds, WriteCut, PutSecret, Writes, VaultAssumption
  <2>3. dbSecret'[k] = s /\ \A j \in Keys \ {k} : dbSecret'[j] = dbSecret[j]
    BY <2>2 DEF VaultTypeOK
  <2>4. CASE WriteEnds(u)
    <3>1. /\ dbConfig' = [dbConfig EXCEPT ![k] =
                          [value |-> s.value, encrypted |-> TRUE, deleted |-> FALSE,
                           version |-> s.version]]
          /\ torn' = torn \ {k}
      BY <2>1, <2>4 DEF WriteEnds, PutMarker, PutConfig
    <3>2. s.version <= s.version
      BY DEF Secret
    <3>3. Marked(k)'
      BY <2>2, <2>3, <3>1, <3>2 DEF VaultTypeOK, Marked
    <3>4. ASSUME NEW j \in Keys \ {k} PROVE Marked(j)'
      BY <1>0, <2>2, <2>3, <3>1 DEF VaultTypeOK, Marked
    <3> QED
      BY <3>3, <3>4
  <2>5. CASE WriteCut(u)
    <3>1. dbConfig' = dbConfig /\ torn' = torn \cup {k}
      BY <2>1, <2>5 DEF WriteCut
    <3>2. ASSUME k \notin overlapped, dbConfig[k] # Absent, dbConfig[k].encrypted,
                 ~dbConfig[k].deleted
          PROVE  dbConfig[k].version <= s.version /\ dbConfig[k].version # s.version
      <4>1. s.version = NextVersion(dbSecret[k])
        BY <2>1, <2>2, <3>2 DEF VaultInv, WritesInTurn
      <4>2. dbSecret[k] # Absent /\ dbConfig[k].version <= dbSecret[k].version
        BY <1>0, <3>2 DEF Marked
      <4>3. dbSecret[k] \in Secret /\ dbConfig[k] \in Entry
        BY <3>2, <4>2 DEF VaultTypeOK
      <4> QED
        BY <4>1, <4>2, <4>3 DEF NextVersion, Secret, Entry
    <3>3. Marked(k)'
      BY <2>2, <2>3, <3>1, <3>2 DEF Marked
    <3>4. ASSUME NEW j \in Keys \ {k} PROVE Marked(j)'
      BY <1>0, <2>2, <2>3, <3>1 DEF Marked
    <3> QED
      BY <3>3, <3>4
  <2> QED
    BY <1>3, <2>4, <2>5
<1>4. ASSUME NEW u \in Users, NEW k \in Keys, NEW v \in Values, NEW kind \in Kinds,
             WriteBegins(u, kind, k, v)
      PROVE  \A j \in Keys : Marked(j)'
  BY <1>0, <1>4 DEF WriteBegins, Marked
<1>5. ASSUME UNCHANGED <<dbConfig, dbSecret, past>> PROVE \A j \in Keys : Marked(j)'
  BY <1>0, <1>5 DEF Marked, past
<1> QED
  BY <1>1, <1>2, <1>3, <1>4, <1>5
  DEF VaultNext, ConfigNext, SecretNext, VaultStops, GetConfig, Reload, ResolveBegins,
      ResolveDenied, ResolveEnds, CipherFails, VaultRestart, vaultVars

\* A live encrypted entry of the config table has its secret, shows its ciphertext
\* and version unless the last write of the key was cut between the two commits,
\* and is told from a newer secret by its version unless writes of the key
\* overlapped.  The invariant needs the cache to hold the rows: the version of a
\* write is computed from the cache, and stored after the await of the cipher.
THEOREM MarkerShowsSecretCorrect == VaultSpec => []MarkerShowsSecret
<1>1. VaultInit => VaultInv
  BY DEF VaultInit, VaultInv, CacheIsRow, WritesInTurn, Writes, MarkerShowsSecret
<1>2. VaultTypeOK /\ VaultInv /\ [VaultNext \/ VaultStops]_vaultVars => VaultInv'
  BY CacheStep, TurnStep, MarkerStep DEF VaultInv
<1>3. VaultInv => MarkerShowsSecret
  BY DEF VaultInv
<1> QED
  BY <1>1, <1>2, <1>3, VaultTypeCorrect, PTL DEF VaultSpec

-----------------------------------------------------------------------------
(* The gateway and the vault in one process. *)

\* Whatever the gateway does, it does to the vault what a user of it could do.
LEMMA GatewayUsesVault ==
  ASSUME [GatewaySystemNext]_<<vaultVars, gatewayVars>>
  PROVE  [VaultNext \/ VaultStops]_vaultVars
<1>1. ASSUME NEW c \in Users, Connecting(c) PROVE VaultNext \/ UNCHANGED vaultVars
  <2>1. \/ SecretNext(c) \/ UNCHANGED vaultVars
    BY <1>1, GatewayAssumption
    DEF Connecting, ConnectWith, ConnectAsksVault, ConnectFindsNoSecret, ConnectGetsToken,
        ConnectCannotDecrypt, SecretNext, GatewayAssumption
  <2> QED
    BY <2>1 DEF VaultNext
<1>2. ASSUME GatewayNext PROVE VaultNext \/ UNCHANGED vaultVars
  BY <1>1, <1>2 DEF GatewayNext, Using
<1>3. ASSUME TokensNext PROVE VaultNext
  BY <1>3 DEF TokensNext, VaultNext
<1> QED
  BY <1>2, <1>3 DEF GatewaySystemNext

\* The gateway implements the vault's specification: MarkerShowsSecret holds of
\* the tables also while connects of the gateway resolve tokens between the
\* writes (mcp_gateway.py connect calls resolve_secret).
THEOREM GatewayImplementsVault == GatewaySpec => VaultSpec
BY GatewayUsesVault, PTL DEF GatewaySpec, VaultSpec

\* A request of the gateway has its type when it starts.
LEMMA RequestType ==
  ASSUME GatewayTypeOK, NEW u \in Servers, NEW op \in {"connect", "list", "call", "read"},
         NEW at \in {"post", "backoff", "vault"}
  PROVE  /\ Request(op, u, at) \in Rpc
         /\ \A t \in Tokens \cup Values \cup {Absent} :
              [Request(op, u, at) EXCEPT !.token = t] \in Rpc
BY DEF GatewayTypeOK, Request, Rpc

\* A retry leaves the request a request.
LEMMA RpcUpdate ==
  ASSUME NEW r \in Rpc, NEW n \in Nat
  PROVE  /\ [r EXCEPT !.at = "post", !.posts = n] \in Rpc
         /\ [r EXCEPT !.posts = 1, !.outer = n] \in Rpc
<1>1. \A q \in Rpc : [q EXCEPT !.at = "post"] \in Rpc /\ [q EXCEPT !.posts = 1] \in Rpc
  BY DEF Rpc
<1>2. \A q \in Rpc : [q EXCEPT !.posts = n] \in Rpc
  BY DEF Rpc
<1>3. \A q \in Rpc : [q EXCEPT !.outer = n] \in Rpc
  BY DEF Rpc
<1>4. /\ [r EXCEPT !.at = "post", !.posts = n] = [[r EXCEPT !.at = "post"] EXCEPT !.posts = n]
      /\ [r EXCEPT !.posts = 1, !.outer = n] = [[r EXCEPT !.posts = 1] EXCEPT !.outer = n]
  OBVIOUS
<1> QED
  BY <1>1, <1>2, <1>3, <1>4

\* Marking a request as outliving its session leaves it a request.
LEMMA OutlivedRecord ==
  ASSUME NEW O, NEW S, NEW A, NEW P, NEW T, NEW B, NEW I, NEW t \in B,
         NEW q \in [op : O, server : S, at : A, posts : P, outer : P, token : T, outlived : B,
                    session : I]
  PROVE  [q EXCEPT !.outlived = t] \in
           [op : O, server : S, at : A, posts : P, outer : P, token : T, outlived : B, session : I]
OBVIOUS

LEMMA OutlivedRpc ==
  ASSUME NEW q \in Rpc
  PROVE  [q EXCEPT !.outlived = TRUE] \in Rpc
<1>1. TRUE \in BOOLEAN
  OBVIOUS
<1> QED
  BY <1>1, OutlivedRecord, ZenonT(40) DEF Rpc

\* Every step of the gateway keeps the types.
LEMMA GatewayTypeStep ==
  ASSUME VaultTypeOK, GatewayTypeOK, [GatewaySystemNext]_<<vaultVars, gatewayVars>>
  PROVE  GatewayTypeOK'
<1> USE RequestType
<1>1. ASSUME NEW c \in Users, NEW u \in Servers, NEW t \in Tokens, ConnectWith(c, u, t)
      PROVE  GatewayTypeOK'
  BY <1>1 DEF ConnectWith, PostConnect, tables, GatewayTypeOK
<1>2. ASSUME NEW c \in Users, NEW u \in Servers, ConnectAsksVault(c, u) PROVE GatewayTypeOK'
  BY <1>2 DEF ConnectAsksVault, tables, GatewayTypeOK
<1>3. ASSUME NEW c \in Users, NEW u \in Servers, NoToken(c, u) PROVE GatewayTypeOK'
  BY <1>3 DEF NoToken, PostConnect, tables, GatewayTypeOK
<1>4. ASSUME NEW c \in Users, ConnectGetsToken(c) PROVE GatewayTypeOK'
  <2>1. rpc[c].server \in Servers
    BY <1>4 DEF ConnectGetsToken, Is, GatewayTypeOK, Rpc
  <2>2. PICK v \in Values : v = work[c].secret.value
    BY <1>4 DEF ConnectGetsToken, ResolveEnds, VaultTypeOK, Secret
  <2>3. rpc' \in [Users -> Rpc \cup {Absent}]
    BY <1>4, <2>1, <2>2 DEF ConnectGetsToken, PostConnect, GatewayTypeOK
  <2> QED
    BY <1>4, <2>1, <2>2, <2>3 DEF ConnectGetsToken, tables, GatewayTypeOK
<1>5. ASSUME NEW c \in Users, PostFails(c) \/ PostAgain(c) \/ RequestFails(c)
      PROVE  GatewayTypeOK'
  <2>1. rpc[c] \in Rpc
    BY <1>5 DEF PostFails, PostAgain, RequestFails, Is, GatewayTypeOK
  <2>2. PICK r \in Rpc : r = rpc[c]
    BY <2>1
  <2>3. rpc' \in [Users -> Rpc \cup {Absent}]
    <3>0. rpc \in [Users -> Rpc \cup {Absent}]
      BY DEF GatewayTypeOK
    <3>1. CASE PostFails(c)
      <4>1. [r EXCEPT !.at = "backoff"] \in Rpc
        BY DEF Rpc
      <4>2. rpc' = [rpc EXCEPT ![c] = [r EXCEPT !.at = "backoff"]]
        BY <2>2, <3>0, <3>1 DEF PostFails
      <4> QED
        BY <3>0, <4>1, <4>2
    <3>2. CASE PostAgain(c)
      <4>1. PICK n \in Nat : n = r.posts + 1
        BY DEF Rpc
      <4>2. [r EXCEPT !.at = "post", !.posts = n] \in Rpc
        BY RpcUpdate, Zenon
      <4>3. rpc' = [rpc EXCEPT ![c] = [r EXCEPT !.at = "post", !.posts = n]]
        BY <2>2, <3>0, <3>2, <4>1 DEF PostAgain, Rpc
      <4> QED
        BY <3>0, <4>2, <4>3
    <3>3. CASE RequestFails(c)
      <4>1. PICK n \in Nat : n = r.outer + 1
        BY DEF Rpc
      <4>2. [r EXCEPT !.posts = 1, !.outer = n] \in Rpc
        BY RpcUpdate, Zenon
      <4>3. \/ rpc' = [rpc EXCEPT ![c] = [r EXCEPT !.posts = 1, !.outer = n]]
            \/ rpc' = [rpc EXCEPT ![c] = Absent]
        BY <2>2, <3>0, <3>3, <4>1 DEF RequestFails, End, Rpc
      <4> QED
        BY <3>0, <4>2, <4>3
    <3> QED
      BY <1>5, <3>1, <3>2, <3>3
  <2>4. dbCalls' \subseteq [server : Servers, session : SessionIds \cup {Absent}]
    BY <1>5, <2>1 DEF PostFails, PostAgain, RequestFails, PutCall, tables, GatewayTypeOK, Rpc
  <2> QED
    BY <1>5, <2>3, <2>4 DEF PostFails, PostAgain, RequestFails, tables, GatewayTypeOK
<1>6. ASSUME NEW c \in Users, Connected(c) PROVE GatewayTypeOK'
  <2>1. rpc[c] \in Rpc
    BY <1>6 DEF Connected, Is, GatewayTypeOK
  <2>2. [server |-> rpc[c].server, status |-> "active"] \in Session
        /\ rpc[c].server \in Servers /\ rpc[c].token \in Tokens \cup Values \cup {Absent}
    BY <2>1 DEF Rpc, Session
  <2> QED
    BY <1>6, <2>2 DEF Connected, PutSession, PutServer, End, GatewayTypeOK
<1>7. ASSUME NEW c \in Users, NEW u \in Servers, NEW op \in {"list", "call", "read"},
             Post(c, op, u)
      PROVE  rpc' \in [Users -> Rpc \cup {Absent}]
  BY <1>7 DEF Post, GatewayTypeOK
<1>8. ASSUME NEW c \in Users, NEW u \in Servers, NEW op \in {"list", "call", "read"},
             StartRequest(c, op, u)
      PROVE  GatewayTypeOK'
  BY <1>7, <1>8 DEF StartRequest, tables, GatewayTypeOK
<1>9. ASSUME NEW c \in Users, NEW t \in Tools, CallCapability(c, t) PROVE GatewayTypeOK'
  BY <1>7, <1>9 DEF CallCapability, tables, GatewayTypeOK
<1>10. ASSUME NEW c \in Users, NEW found \in SUBSET Tools, Tooled(c, found)
       PROVE  GatewayTypeOK'
  <2>1. rpc[c].server \in Servers
    BY <1>10 DEF Tooled, Is, GatewayTypeOK, Rpc
  <2> QED
    BY <1>10, <2>1 DEF Tooled, PutTools, End, GatewayTypeOK
<1>11. ASSUME NEW c \in Users, Answered(c) PROVE GatewayTypeOK'
  <2>1. rpc[c].session \in SessionIds \cup {Absent} /\ rpc[c].server \in Servers
    BY <1>11 DEF Answered, Is, GatewayTypeOK, Rpc
  <2> QED
    BY <1>11, <2>1 DEF Answered, PutCall, End, GatewayTypeOK
<1>12. ASSUME NEW s \in SessionIds, CloseSession(s) PROVE GatewayTypeOK'
  <2>1. sessions[s] \in Session
    BY <1>12 DEF CloseSession, GatewayTypeOK
  <2>2. [sessions[s] EXCEPT !.status = "closed"] \in Session /\ sessions[s].server \in Servers
    BY <2>1 DEF Session
  <2>3. rpc' \in [Users -> Rpc \cup {Absent}]
    BY <1>12, OutlivedRpc DEF CloseSession, Outlive, GatewayTypeOK
  <2> QED
    BY <1>12, <2>2, <2>3 DEF CloseSession, PutSession, GatewayTypeOK
<1>13. ASSUME GatewayRestart PROVE GatewayTypeOK'
  BY <1>13 DEF GatewayRestart, tables, GatewayTypeOK
<1>14. ASSUME UNCHANGED gatewayVars PROVE GatewayTypeOK'
  BY <1>14 DEF gatewayVars, GatewayTypeOK
<1>15. ASSUME NEW c \in Users, Is(c, "vault") PROVE rpc[c].server \in Servers
  BY <1>15 DEF Is, GatewayTypeOK, Rpc
<1>16. ASSUME NEW c \in Users, Connecting(c) \/ Using(c) PROVE GatewayTypeOK'
  BY <1>1, <1>2, <1>3, <1>4, <1>5, <1>6, <1>8, <1>9, <1>10, <1>11, <1>15, <1>16
  DEF Connecting, Using, ConnectFindsNoSecret, ConnectCannotDecrypt
<1> QED
  BY <1>12, <1>13, <1>14, <1>16 DEF GatewaySystemNext, GatewayNext

\* Type correctness of the gateway beside the vault.
THEOREM GatewayTypeCorrect == GatewaySpec => []GatewayTypeOK
<1>1. GatewayInit => GatewayTypeOK
  BY DEF GatewayInit, GatewayTypeOK
<1>2. VaultTypeOK /\ GatewayTypeOK /\ [GatewaySystemNext]_<<vaultVars, gatewayVars>>
      => GatewayTypeOK'
  BY GatewayTypeStep
<1> QED
  BY <1>1, <1>2, GatewayImplementsVault, VaultTypeCorrect, PTL DEF GatewaySpec

\* Only a connect and a close touch a session; the others leave all three tables,
\* and start, move or end requests and record the calls that end.
Started(c) == \E u \in Servers :
  /\ rpc'[c].server = u /\ rpc'[c].session \in {byServer[u], Absent}

Moved(c) == /\ rpc[c] # Absent /\ rpc'[c].server = rpc[c].server
            /\ rpc'[c].session = rpc[c].session /\ rpc'[c].outlived = rpc[c].outlived

Kept == /\ UNCHANGED <<sessions, byServer, dbSession>>
        /\ \A c \in Users : rpc'[c] = Absent \/ rpc'[c] = rpc[c] \/ Moved(c) \/ Started(c)
        /\ \A call \in dbCalls' : \/ call \in dbCalls
                                 \/ \E c \in Users : /\ rpc[c] # Absent
                                                    /\ call.server = rpc[c].server
                                                    /\ call.session = rpc[c].session

LEMMA SessionsChange ==
  ASSUME VaultTypeOK, GatewayTypeOK, [GatewaySystemNext]_<<vaultVars, gatewayVars>>
  PROVE  \/ \E c \in Users : Connected(c)
         \/ \E s \in SessionIds : CloseSession(s)
         \/ GatewayRestart
         \/ Kept
<1>1. ASSUME NEW c \in Users, NEW u \in Servers, NEW op \in {"connect", "list", "call", "read"},
             NEW at \in {"post", "backoff", "vault"}, NEW t,
             rpc' = [rpc EXCEPT ![c] = [Request(op, u, at) EXCEPT !.token = t]]
      PROVE  \A d \in Users : rpc'[d] = rpc[d] \/ Started(d)
  <2>1. PICK new : new = [Request(op, u, at) EXCEPT !.token = t]
    OBVIOUS
  <2>2. new.server = u /\ new.session \in {byServer[u], Absent}
    BY <2>1 DEF Request
  <2> QED
    BY <1>1, <2>1, <2>2 DEF GatewayTypeOK, Started
<1>2. ASSUME NEW c \in Users, NEW u \in Servers, NEW op \in {"connect", "list", "call", "read"},
             NEW at \in {"post", "backoff", "vault"},
             rpc' = [rpc EXCEPT ![c] = Request(op, u, at)]
      PROVE  \A d \in Users : rpc'[d] = rpc[d] \/ Started(d)
  <2>1. PICK new : new = Request(op, u, at)
    OBVIOUS
  <2>2. new.server = u /\ new.session \in {byServer[u], Absent}
    BY <2>1 DEF Request
  <2> QED
    BY <1>2, <2>1, <2>2 DEF GatewayTypeOK, Started
<1>3. ASSUME NEW c \in Users,
             ConnectGetsToken(c) \/ ConnectCannotDecrypt(c)
             \/ \E u \in Servers : \/ \E t \in Tokens : ConnectWith(c, u, t)
                                   \/ ConnectAsksVault(c, u) \/ ConnectFindsNoSecret(c, u)
      PROVE  Kept
  <2>1. UNCHANGED <<sessions, byServer, dbSession, dbCalls>>
    BY <1>3 DEF ConnectWith, ConnectAsksVault, ConnectFindsNoSecret, ConnectGetsToken,
                ConnectCannotDecrypt, NoToken, tables
  <2>2. Is(c, "vault") => rpc[c].server \in Servers
    BY DEF Is, GatewayTypeOK, Rpc
  <2>3. \/ \E u \in Servers : rpc' = [rpc EXCEPT ![c] = Request("connect", u, "vault")]
        \/ \E u \in Servers : \E t :
              rpc' = [rpc EXCEPT ![c] = [Request("connect", u, "post") EXCEPT !.token = t]]
    BY <1>3, <2>2 DEF ConnectWith, ConnectAsksVault, ConnectFindsNoSecret, ConnectGetsToken,
                ConnectCannotDecrypt, NoToken, PostConnect
  <2>4. \A d \in Users : rpc'[d] = rpc[d] \/ Started(d)
    BY <1>1, <1>2, <2>3
  <2> QED
    BY <2>1, <2>4 DEF Kept
<1>4. ASSUME NEW c \in Users, PostFails(c) \/ PostAgain(c) \/ RequestFails(c)
      PROVE  Kept
  <2>1. UNCHANGED <<sessions, byServer, dbSession>>
    BY <1>4 DEF PostFails, PostAgain, RequestFails, tables
  <2>2. rpc[c] # Absent /\ rpc[c] \in Rpc
    BY <1>4 DEF PostFails, PostAgain, RequestFails, Is, GatewayTypeOK
  <2>3. \A d \in Users : d # c => rpc'[d] = rpc[d]
    BY <1>4 DEF PostFails, PostAgain, RequestFails, End, GatewayTypeOK
  <2>4. rpc'[c] = Absent \/ Moved(c)
    BY <1>4, <2>2 DEF PostFails, PostAgain, RequestFails, End, Moved, GatewayTypeOK, Rpc
  <2>5. \/ dbCalls' = dbCalls
        \/ dbCalls' = dbCalls \cup {[server |-> rpc[c].server, session |-> rpc[c].session]}
    BY <1>4 DEF PostFails, PostAgain, RequestFails, PutCall, tables
  <2> QED
    BY <2>1, <2>2, <2>3, <2>4, <2>5 DEF Kept
<1>5. ASSUME NEW c \in Users, Using(c)
      PROVE  Kept
  <2>1. UNCHANGED <<sessions, byServer, dbSession>>
    BY <1>5 DEF Using, StartRequest, Tooled, CallCapability, Answered, tables
  <2>2. CASE \/ \E u \in Servers, op \in {"list", "call", "read"} : StartRequest(c, op, u)
             \/ \E t \in Tools : CallCapability(c, t)
    <3>1. \E u \in Servers, op \in {"connect", "list", "call", "read"} :
            rpc' = [rpc EXCEPT ![c] = Request(op, u, "post")]
      BY <2>2 DEF StartRequest, CallCapability, Post
    <3>2. dbCalls' = dbCalls
      BY <2>2 DEF StartRequest, CallCapability, tables
    <3> QED
      BY <1>2, <2>1, <3>1, <3>2 DEF Kept
  <2>3. CASE Answered(c) \/ \E found \in SUBSET Tools : Tooled(c, found)
    <3>1. rpc[c] # Absent
      BY <2>3 DEF Answered, Tooled, Is
    <3>2. \A d \in Users : rpc'[d] = rpc[d] \/ rpc'[d] = Absent
      BY <2>3 DEF Answered, Tooled, End, GatewayTypeOK
    <3>3. \/ dbCalls' = dbCalls
          \/ dbCalls' = dbCalls \cup {[server |-> rpc[c].server, session |-> rpc[c].session]}
      BY <2>3 DEF Answered, Tooled, PutCall
    <3> QED
      BY <2>1, <3>1, <3>2, <3>3 DEF Kept
  <2> QED
    BY <1>5, <2>2, <2>3 DEF Using
<1>6. ASSUME UNCHANGED gatewayVars PROVE Kept
  BY <1>6 DEF gatewayVars, Kept
<1>7. ASSUME NEW c \in Users, Connecting(c) PROVE Connected(c) \/ Kept
  BY <1>3, <1>4, <1>7 DEF Connecting
<1> QED
  BY <1>5, <1>6, <1>7 DEF GatewaySystemNext, GatewayNext

\* A call is recorded under a session of its server that was open when the call
\* started, its row refers to a row of the sessions table, and that table agrees
\* with the gateway, for any overlap of calls, reconnects, closes and restarts.
\* The invariant is inductive with the types: no two servers share a session,
\* because a session names its server, and a close marks the calls under way.
THEOREM ServerSessionIsOpenCorrect == GatewaySpec => []ServerSessionIsOpen
<1>1. GatewayInit => ServerSessionIsOpen
  BY DEF GatewayInit, ServerSessionIsOpen, EntryIsOpen, CallHadSession, CallHasRow, SessionsSaved
<1>2. ASSUME VaultTypeOK, GatewayTypeOK, ServerSessionIsOpen,
             [GatewaySystemNext]_<<vaultVars, gatewayVars>>
      PROVE  ServerSessionIsOpen'
  <2>0. /\ \A r \in Session : r # Absent
        /\ Absent \notin SessionIds
    BY GatewayAssumption DEF GatewayAssumption
  <2>a. EntryIsOpen /\ CallHadSession /\ CallHasRow /\ SessionsSaved
    BY <1>2 DEF ServerSessionIsOpen
  <2>1. ASSUME NEW c \in Users, Connected(c) PROVE ServerSessionIsOpen'
    <3> DEFINE u == rpc[c].server
               new == [server |-> u, status |-> "active"]
    <3>1. u \in Servers
      BY <1>2, <2>1 DEF Connected, Is, GatewayTypeOK, Rpc
    <3>2. PICK s \in SessionIds :
            /\ sessions[s] = Absent /\ dbSession[s] = Absent
            /\ sessions' = [sessions EXCEPT ![s] = new]
            /\ dbSession' = [dbSession EXCEPT ![s] = new]
            /\ byServer' = [byServer EXCEPT ![u] = s]
      BY <2>1 DEF Connected, PutSession
    <3>3. \A v \in Servers : [server |-> v, status |-> "active"] # Absent
      BY <2>0 DEF Session
    <3> HIDE DEF u, new
    <3>4. EntryIsOpen'
      <4> SUFFICES ASSUME NEW v \in Servers, byServer'[v] # Absent
                   PROVE  sessions'[byServer'[v]] = [server |-> v, status |-> "active"]
        BY DEF EntryIsOpen
      <4>1. CASE v = u
        BY <1>2, <3>1, <3>2, <4>1 DEF GatewayTypeOK, new
      <4>2. CASE v # u
        <5>1. byServer'[v] = byServer[v] /\ byServer[v] \in SessionIds
          BY <1>2, <3>2, <4>2 DEF GatewayTypeOK
        <5>2. sessions[byServer[v]] = [server |-> v, status |-> "active"]
          BY <2>a, <5>1, <2>0 DEF EntryIsOpen
        <5> QED
          BY <1>2, <3>2, <3>3, <5>1, <5>2 DEF GatewayTypeOK
      <4> QED
        BY <4>1, <4>2
    <3>5. SessionsSaved'
      BY <1>2, <2>a, <3>2 DEF SessionsSaved, GatewayTypeOK
    <3>6. /\ \A q \in SessionIds : sessions[q] = Absent \/ sessions'[q] = sessions[q]
          /\ \A q \in SessionIds : dbSession[q] = Absent \/ dbSession'[q] = dbSession[q]
      BY <1>2, <3>2 DEF GatewayTypeOK
    <3>7. dbCalls' = dbCalls /\ \A d \in Users : rpc'[d] = rpc[d] \/ rpc'[d] = Absent
      BY <1>2, <2>1 DEF Connected, End, GatewayTypeOK
    <3>8. CallHadSession'
      <4> SUFFICES ASSUME NEW d \in Users, rpc'[d] # Absent, rpc'[d].session # Absent
                   PROVE  /\ sessions'[rpc'[d].session] # Absent
                          /\ sessions'[rpc'[d].session].server = rpc'[d].server
                          /\ sessions'[rpc'[d].session].status = "closed" => rpc'[d].outlived
        BY DEF CallHadSession
      <4>1. rpc'[d] = rpc[d] /\ rpc[d].session \in SessionIds
        BY <1>2, <3>7 DEF GatewayTypeOK, Rpc
      <4>2. /\ sessions[rpc[d].session] # Absent
            /\ sessions[rpc[d].session].server = rpc[d].server
            /\ sessions[rpc[d].session].status = "closed" => rpc[d].outlived
        BY <2>a, <4>1 DEF CallHadSession
      <4>3. sessions'[rpc[d].session] = sessions[rpc[d].session]
        BY <3>6, <4>1, <4>2, Zenon
      <4> QED
        BY <4>1, <4>2, <4>3
    <3>9. CallHasRow'
      <4> SUFFICES ASSUME NEW call \in dbCalls, call.session # Absent
                   PROVE  /\ dbSession'[call.session] # Absent
                          /\ dbSession'[call.session].server = call.server
        BY <3>7 DEF CallHasRow
      <4>1. call.session \in SessionIds
        BY <1>2 DEF GatewayTypeOK
      <4>2. dbSession[call.session] # Absent /\ dbSession[call.session].server = call.server
        BY <2>a DEF CallHasRow
      <4>3. dbSession'[call.session] = dbSession[call.session]
        BY <3>6, <4>1, <4>2, Zenon
      <4> QED
        BY <4>2, <4>3
    <3> QED
      BY <3>4, <3>5, <3>8, <3>9 DEF ServerSessionIsOpen
  <2>2. ASSUME NEW s \in SessionIds, CloseSession(s) PROVE ServerSessionIsOpen'
    <3>1. PICK shut \in Session : shut = [sessions[s] EXCEPT !.status = "closed"]
      BY <1>2, <2>2 DEF CloseSession, GatewayTypeOK, Session
    <3>2. /\ sessions[s] \in Session /\ sessions[s].server \in Servers
          /\ sessions[s] # Absent /\ shut.server = sessions[s].server
          /\ sessions' = [sessions EXCEPT ![s] = shut]
          /\ byServer' = [byServer EXCEPT ![sessions[s].server] = Absent]
          /\ dbSession' = [dbSession EXCEPT ![s] = shut]
          /\ dbCalls' = dbCalls
      BY <1>2, <2>2, <3>1 DEF CloseSession, PutSession, GatewayTypeOK, Session
    <3>3. EntryIsOpen'
      <4> SUFFICES ASSUME NEW v \in Servers, byServer'[v] # Absent
                   PROVE  sessions'[byServer'[v]] = [server |-> v, status |-> "active"]
        BY DEF EntryIsOpen
      <4>1. byServer'[v] = byServer[v] /\ v # sessions[s].server /\ byServer[v] \in SessionIds
        BY <1>2, <3>2 DEF GatewayTypeOK
      <4>2. sessions[byServer[v]] = [server |-> v, status |-> "active"]
        BY <2>0, <2>a, <4>1 DEF EntryIsOpen
      <4>3. byServer[v] # s
        BY <4>1, <4>2
      <4> QED
        BY <1>2, <3>2, <4>1, <4>2, <4>3 DEF GatewayTypeOK
    <3>4. SessionsSaved'
      BY <1>2, <2>a, <3>2 DEF SessionsSaved, GatewayTypeOK
    <3>5. CallHadSession'
      <4> SUFFICES ASSUME NEW d \in Users, rpc'[d] # Absent, rpc'[d].session # Absent
                   PROVE  /\ sessions'[rpc'[d].session] # Absent
                          /\ sessions'[rpc'[d].session].server = rpc'[d].server
                          /\ sessions'[rpc'[d].session].status = "closed" => rpc'[d].outlived
        BY DEF CallHadSession
      <4>1. rpc'[d] = IF rpc[d] # Absent /\ rpc[d].session = s
                      THEN [rpc[d] EXCEPT !.outlived = TRUE] ELSE rpc[d]
        BY <2>2 DEF CloseSession, Outlive
      <4>2. rpc[d] # Absent /\ rpc[d] \in Rpc
        BY <1>2, <4>1 DEF GatewayTypeOK
      <4>3. CASE rpc[d].session = s
        <5>1. PICK r \in Rpc : r = rpc[d]
          BY <4>2
        <5>2. PICK r2 : r2 = [r EXCEPT !.outlived = TRUE]
          OBVIOUS
        <5>3. r2.session = r.session /\ r2.server = r.server /\ r2.outlived
          BY <5>2 DEF Rpc
        <5>4. rpc'[d] = r2
          BY <4>1, <4>2, <4>3, <5>1, <5>2
        <5>5. sessions'[s] = shut /\ shut # Absent
          BY <1>2, <2>0, <3>1, <3>2 DEF GatewayTypeOK
        <5>6. sessions[s].server = r.server
          BY <2>0, <2>a, <4>2, <4>3, <5>1 DEF CallHadSession
        <5> QED
          BY <3>2, <4>3, <5>1, <5>3, <5>4, <5>5, <5>6
      <4>4. CASE rpc[d].session # s
        <5>1. rpc'[d] = rpc[d] /\ rpc[d].session \in SessionIds
          BY <4>1, <4>2, <4>4 DEF Rpc
        <5>2. sessions'[rpc[d].session] = sessions[rpc[d].session]
          BY <1>2, <3>2, <4>4, <5>1 DEF GatewayTypeOK
        <5> QED
          BY <2>a, <4>2, <5>1, <5>2 DEF CallHadSession
      <4> QED
        BY <4>3, <4>4
    <3>6. CallHasRow'
      <4> SUFFICES ASSUME NEW call \in dbCalls, call.session # Absent
                   PROVE  /\ dbSession'[call.session] # Absent
                          /\ dbSession'[call.session].server = call.server
        BY <3>2 DEF CallHasRow
      <4>1. call.session \in SessionIds
        BY <1>2 DEF GatewayTypeOK
      <4>2. dbSession[call.session] # Absent /\ dbSession[call.session].server = call.server
        BY <2>a DEF CallHasRow
      <4>3. dbSession[s] = sessions[s]
        BY <2>a, <3>2 DEF SessionsSaved
      <4> QED
        BY <1>2, <2>0, <3>2, <4>1, <4>2, <4>3 DEF GatewayTypeOK
    <3> QED
      BY <3>3, <3>4, <3>5, <3>6 DEF ServerSessionIsOpen
  <2>3. ASSUME GatewayRestart PROVE ServerSessionIsOpen'
    BY <2>a, <2>3 DEF GatewayRestart, tables, ServerSessionIsOpen, EntryIsOpen, CallHadSession,
                      CallHasRow, SessionsSaved
  <2>4. ASSUME Kept PROVE ServerSessionIsOpen'
    <3>1. EntryIsOpen' /\ SessionsSaved'
      BY <2>a, <2>4 DEF Kept, EntryIsOpen, SessionsSaved
    <3>2. CallHadSession'
      <4> SUFFICES ASSUME NEW d \in Users, rpc'[d] # Absent, rpc'[d].session # Absent
                   PROVE  /\ sessions[rpc'[d].session] # Absent
                          /\ sessions[rpc'[d].session].server = rpc'[d].server
                          /\ sessions[rpc'[d].session].status = "closed" => rpc'[d].outlived
        BY <2>4 DEF CallHadSession, Kept
      <4>1. CASE rpc'[d] = rpc[d]
        BY <2>a, <4>1 DEF CallHadSession
      <4>2. CASE Moved(d)
        BY <2>a, <4>2 DEF CallHadSession, Moved
      <4>3. CASE Started(d)
        <5>1. PICK u \in Servers : rpc'[d].server = u /\ rpc'[d].session = byServer[u]
          BY <4>3 DEF Started
        <5>2. sessions[byServer[u]] = [server |-> u, status |-> "active"]
          BY <2>a, <5>1 DEF EntryIsOpen
        <5>3. [server |-> u, status |-> "active"] # Absent
          BY <2>0 DEF Session
        <5> QED
          BY <5>1, <5>2, <5>3
      <4> QED
        BY <2>4, <4>1, <4>2, <4>3 DEF Kept
    <3>3. CallHasRow'
      <4> SUFFICES ASSUME NEW call \in dbCalls', call.session # Absent
                   PROVE  /\ dbSession[call.session] # Absent
                          /\ dbSession[call.session].server = call.server
        BY <2>4 DEF CallHasRow, Kept
      <4>1. CASE call \in dbCalls
        BY <2>a, <4>1 DEF CallHasRow
      <4>2. CASE call \notin dbCalls
        <5>1. PICK c \in Users : /\ rpc[c] # Absent /\ call.server = rpc[c].server
                                 /\ call.session = rpc[c].session
          BY <2>4, <4>2 DEF Kept
        <5>2. rpc[c].session \in SessionIds
          BY <1>2, <5>1 DEF GatewayTypeOK, Rpc
        <5> QED
          BY <2>a, <5>1, <5>2 DEF CallHadSession, SessionsSaved
      <4> QED
        BY <4>1, <4>2
    <3> QED
      BY <3>1, <3>2, <3>3 DEF ServerSessionIsOpen
  <2> QED
    BY <1>2, <2>1, <2>2, <2>3, <2>4, SessionsChange
<1> QED
  BY <1>1, <1>2, GatewayImplementsVault, VaultTypeCorrect, GatewayTypeCorrect, PTL DEF GatewaySpec

-----------------------------------------------------------------------------
(* The marketplace, the agent runtime and the guard in one process. *)

\* What the store and the installers refer to exists, under the name it has.
StoreInv ==
  /\ \A p \in Packages : row[p] # None => obj[row[p]] # None /\ Pkg(row[p]) = p
  /\ \A p \in Packages : disk[p] # None => disk[p].m.package = p
  /\ \A i \in Installers : installs[i] # None => obj[installs[i].o] # None

\* The guard knows the package of object o, when that package has a policy.
Known(o) == obj[o].m.policy # None => policies[Pkg(o)] # None

\* Inductive form of ListedIsSandboxed: an install that suspends after its
\* preparation has its policy registered already, whatever becomes of the object
\* and of the rows of the store meanwhile.
SandboxInv ==
  restarts = 0 =>
    /\ \A o \in Objs : obj[o] # None /\ obj[o].status = "installed" => Known(o)
    /\ \A i \in Installers :
         installs[i] # None /\ installs[i].at = "installing" => Known(installs[i].o)

\* The parts of a package.
LEMMA PackageParts ==
  ASSUME NEW x \in Package
  PROVE  /\ x # None /\ x.m \in Manifests /\ x.m.package \in Packages
         /\ x.m.policy \in Policies \cup {None}
         /\ \A s \in {"available", "failed", "installing", "installed"} :
              /\ [x EXCEPT !.status = s] \in Package
              /\ [x EXCEPT !.status = s].m = x.m
              /\ [x EXCEPT !.status = s].status = s
BY MarketAssumption DEF MarketAssumption, Package

\* What an installer remembers of its install.
LEMMA InstallRecord ==
  ASSUME NEW o \in Objs, NEW at \in {"secrets", "installing"}, NEW byAgent \in BOOLEAN
  PROVE  /\ [o |-> o, at |-> at, byAgent |-> byAgent] \in Install
         /\ [o |-> o, at |-> at, byAgent |-> byAgent].o = o
         /\ [o |-> o, at |-> at, byAgent |-> byAgent].at = at
BY DEF Install

\* A package object that is free, and a new package.
LEMMA FreeObject ==
  ASSUME MarketTypeOK, Free # {}
  PROVE  (CHOOSE o \in Free : TRUE) \in Objs /\ obj[CHOOSE o \in Free : TRUE] = None
BY DEF Free

\* Storing a version of object o, in memory and perhaps in the table, keeps the
\* references in order.
LEMMA StorePackage ==
  ASSUME MarketTypeOK, StoreInv, NEW o \in Objs, NEW x \in Package,
         obj' = [obj EXCEPT ![o] = x],
         obj[o] # None => x.m = obj[o].m,
         \/ UNCHANGED <<row, disk>>
         \/ /\ row' = [row EXCEPT ![x.m.package] = o]
            /\ disk' = [disk EXCEPT ![x.m.package] = x],
         \A i \in Installers : installs'[i] # None =>
           installs'[i].o = o \/ installs'[i] = installs[i]
  PROVE  StoreInv'
<1>1. x # None /\ x.m.package \in Packages
  BY PackageParts
<1>2. /\ obj'[o] = x
      /\ \A q \in Objs : q # o => obj'[q] = obj[q]
  BY DEF MarketTypeOK
<1>3. \A q \in Objs : obj[q] # None => obj'[q] # None /\ Pkg(q)' = Pkg(q)
  BY <1>1, <1>2 DEF Pkg
<1>4. ASSUME NEW p \in Packages, row'[p] # None
      PROVE  obj'[row'[p]] # None /\ Pkg(row[p])' = p
  <2>1. CASE row'[p] = row[p]
    <3>1. row[p] \in Objs /\ obj[row[p]] # None /\ Pkg(row[p]) = p
      BY <1>4, <2>1 DEF MarketTypeOK, StoreInv
    <3> QED
      BY <1>3, <2>1, <3>1 DEF Pkg
  <2>2. CASE row'[p] # row[p]
    <3>1. row'[p] = o /\ x.m.package = p
      BY <2>2 DEF MarketTypeOK
    <3> QED
      BY <1>1, <1>2, <3>1 DEF Pkg
  <2> QED
    BY <2>1, <2>2
<1>5. ASSUME NEW p \in Packages, disk'[p] # None PROVE disk'[p].m.package = p
  BY <1>1, <1>5 DEF MarketTypeOK, StoreInv
<1>6. ASSUME NEW i \in Installers, installs'[i] # None PROVE obj'[installs'[i].o] # None
  <2>1. CASE installs'[i].o = o
    BY <1>1, <1>2, <2>1
  <2>2. CASE installs'[i] = installs[i]
    <3>1. obj[installs[i].o] # None /\ installs[i].o \in Objs
      BY <1>6, <2>2 DEF StoreInv, MarketTypeOK, Install
    <3> QED
      BY <1>3, <2>2, <3>1
  <2> QED
    BY <1>6, <2>1, <2>2
<1> QED
  BY <1>4, <1>5, <1>6 DEF StoreInv

\* Operations of the marketplace keep the types and the references.
LEMMA MarketStep ==
  ASSUME MarketTypeOK, StoreInv, MarketNext
  PROVE  MarketTypeOK' /\ StoreInv'
<1> DEFINE new == CHOOSE o \in Free : TRUE
<1>0. \A m \in Manifests, s \in {"available", "installed"} : [m |-> m, status |-> s] \in Package
  BY DEF Package
<1>1. ASSUME NEW m \in Listings, Discover(m) PROVE MarketTypeOK' /\ StoreInv'
  <2> DEFINE x == [m |-> m, status |-> "available"]
  <2>1. x \in Package /\ m \in Manifests /\ x.m = m
    BY <1>0 DEF Listings
  <2>2. PICK o \in Objs : o = new /\ obj[o] = None
    BY <1>1, FreeObject DEF Discover
  <2>3. m.package \in Packages
    BY <2>1, PackageParts
  <2>4. /\ obj' = [obj EXCEPT ![o] = x] /\ row' = [row EXCEPT ![x.m.package] = o]
        /\ disk' = [disk EXCEPT ![x.m.package] = x]
        /\ catalog' = catalog \cup {m.package} /\ UNCHANGED <<installed, installs>>
    BY <1>1, <2>1, <2>2 DEF Discover, PutPackage, PutCatalogEntry
  <2> HIDE DEF x
  <2>5. StoreInv'
    BY <2>1, <2>2, <2>4, StorePackage
  <2> QED
    BY <2>1, <2>3, <2>4, <2>5 DEF MarketTypeOK
<1>2. ASSUME NEW m \in Listings, RegisterLocal(m) PROVE MarketTypeOK' /\ StoreInv'
  <2> DEFINE x == [m |-> m, status |-> "installed"]
  <2>1. x \in Package /\ m \in Manifests /\ x.m = m
    BY <1>0 DEF Listings
  <2>2. PICK o \in Objs : o = new /\ obj[o] = None
    BY <1>2, FreeObject DEF RegisterLocal
  <2>3. m.package \in Packages
    BY <2>1, PackageParts
  <2>4. /\ obj' = [obj EXCEPT ![o] = x] /\ row' = [row EXCEPT ![x.m.package] = o]
        /\ disk' = [disk EXCEPT ![x.m.package] = x]
        /\ installed' = [installed EXCEPT ![m.package] = o] /\ UNCHANGED <<catalog, installs>>
    BY <1>2, <2>1, <2>2 DEF RegisterLocal, PutPackage
  <2> HIDE DEF x
  <2>5. StoreInv'
    BY <2>1, <2>2, <2>4, StorePackage
  <2> QED
    BY <2>1, <2>3, <2>4, <2>5 DEF MarketTypeOK
<1>3. ASSUME NEW m \in Manifests, CreatePackage(m) PROVE MarketTypeOK' /\ StoreInv'
  <2>1. PICK o \in Objs : o = new /\ obj[o] = None
    BY <1>3, FreeObject DEF CreatePackage
  <2>2. PICK x \in Package : x = [m |-> m, status |-> "available"]
    BY <1>0
  <2>3. obj' = [obj EXCEPT ![o] = x] /\ UNCHANGED <<row, disk, installed, catalog, installs>>
    BY <1>3, <2>1, <2>2 DEF CreatePackage
  <2>4. StoreInv'
    BY <2>1, <2>3, StorePackage
  <2> QED
    BY <2>3, <2>4 DEF MarketTypeOK
<1>4. ASSUME NEW t \in McpTools, DiscoverMcpTools(t) PROVE MarketTypeOK' /\ StoreInv'
  BY <1>4 DEF DiscoverMcpTools, PutCatalogEntry, MarketTypeOK, StoreInv, Pkg
<1>5. ASSUME NEW p \in Packages, Uninstall(p) PROVE MarketTypeOK' /\ StoreInv'
  <2>1. MarketTypeOK'
    BY <1>5 DEF Uninstall, DeletePackage, MarketTypeOK
  <2>2. UNCHANGED <<obj, installs>>
        /\ \A q \in Packages : /\ row'[q] = None \/ row'[q] = row[q]
                               /\ disk'[q] = None \/ disk'[q] = disk[q]
    BY <1>5 DEF Uninstall, DeletePackage, MarketTypeOK
  <2> QED
    BY <2>1, <2>2 DEF StoreInv, Pkg
<1>6. ASSUME NEW o \in Objs, obj[o] # None, Fail(o), UNCHANGED <<installed, catalog>>,
             \A i \in Installers : installs'[i] # None => installs'[i] = installs[i],
             installs' \in [Installers -> Install \cup {None}]
      PROVE  MarketTypeOK' /\ StoreInv'
  <2>1. obj[o] \in Package
    BY <1>6 DEF MarketTypeOK
  <2>2. PICK x \in Package : x = [obj[o] EXCEPT !.status = "failed"] /\ x.m = obj[o].m
    BY <2>1, PackageParts
  <2>3. /\ obj' = [obj EXCEPT ![o] = x] /\ row' = [row EXCEPT ![x.m.package] = o]
        /\ disk' = [disk EXCEPT ![x.m.package] = x]
    BY <1>6, <2>2 DEF Fail, PutPackage
  <2>4. StoreInv'
    BY <1>6, <2>2, <2>3, StorePackage
  <2> QED
    BY <1>6, <2>3, <2>4, PackageParts DEF MarketTypeOK
<1>7. ASSUME NEW i \in Installers, NEW o \in Objs, NEW byAgent \in BOOLEAN,
             InstallAwaitsSecrets(i, o, byAgent)
      PROVE  MarketTypeOK' /\ StoreInv'
  <2>1. PICK r \in Install : r = [o |-> o, at |-> "secrets", byAgent |-> byAgent] /\ r.o = o
    BY InstallRecord, Zenon
  <2>2. /\ installs' = [installs EXCEPT ![i] = r] /\ obj[o] # None
        /\ UNCHANGED <<obj, row, disk, installed, catalog>>
    BY <1>7, <2>1 DEF InstallAwaitsSecrets, Start
  <2> QED
    BY <2>1, <2>2 DEF MarketTypeOK, StoreInv, Pkg
<1>8. ASSUME NEW i \in Installers, InstallMissesSecrets(i) PROVE MarketTypeOK' /\ StoreInv'
  <2>1. installs[i].o \in Objs /\ obj[installs[i].o] # None
    BY <1>8 DEF InstallMissesSecrets, MarketTypeOK, StoreInv, Install
  <2> QED
    BY <1>6, <1>8, <2>1 DEF InstallMissesSecrets, MarketTypeOK
<1>9. ASSUME NEW i \in Installers, NEW o \in Objs, NEW byAgent \in BOOLEAN,
             InstallBegins(i, o, byAgent)
      PROVE  MarketTypeOK' /\ StoreInv'
  <2>1. PICK r \in Install : r = [o |-> o, at |-> "installing", byAgent |-> byAgent] /\ r.o = o
    BY InstallRecord, Zenon
  <2>2. obj[o] # None /\ obj[o] \in Package
    BY <1>9, InstallRecord, MarketAssumption
    DEF InstallBegins, MarketTypeOK, StoreInv, MarketAssumption
  <2>3. PICK x \in Package : x = [obj[o] EXCEPT !.status = "installing"] /\ x.m = obj[o].m
    BY <2>2, PackageParts
  <2>4. /\ obj' = [obj EXCEPT ![o] = x] /\ installs' = [installs EXCEPT ![i] = r]
        /\ UNCHANGED <<row, disk, installed, catalog>>
    BY <1>9, <2>1, <2>3 DEF InstallBegins, Prepare, Start, MarketTypeOK
  <2>5. StoreInv'
    BY <2>1, <2>3, <2>4, StorePackage DEF MarketTypeOK
  <2> QED
    BY <2>4, <2>5 DEF MarketTypeOK
<1>10. ASSUME NEW i \in Installers, InstallEnds(i) PROVE MarketTypeOK' /\ StoreInv'
  <2>1. PICK o \in Objs : o = installs[i].o /\ obj[o] # None /\ obj[o] \in Package
    BY <1>10 DEF InstallEnds, MarketTypeOK, StoreInv, Install
  <2>2. PICK x \in Package : x = [obj[o] EXCEPT !.status = "installed"] /\ x.m = obj[o].m
    BY <2>1, PackageParts
  <2>3. /\ obj' = [obj EXCEPT ![o] = x] /\ row' = [row EXCEPT ![x.m.package] = o]
        /\ disk' = [disk EXCEPT ![x.m.package] = x]
        /\ installed' = [installed EXCEPT ![x.m.package] = o]
        /\ installs' = [installs EXCEPT ![i] = None] /\ catalog' = catalog
    BY <1>10, <2>1, <2>2 DEF InstallEnds, PutPackage, Pkg
  <2>4. StoreInv'
    BY <2>2, <2>3, StorePackage DEF MarketTypeOK
  <2> QED
    BY <2>3, <2>4, PackageParts DEF MarketTypeOK
<1>11. ASSUME NEW i \in Installers, NEW o \in Objs, NEW byAgent \in BOOLEAN,
              InstallInvalid(i, o, byAgent)
       PROVE  MarketTypeOK' /\ StoreInv'
  BY <1>6, <1>11 DEF InstallInvalid, MarketTypeOK
<1> QED
  BY <1>1, <1>2, <1>3, <1>4, <1>5, <1>7, <1>8, <1>9, <1>10, <1>11 DEF MarketNext

\* A restart reads the table back into new objects under their names.
LEMMA MarketRestartStep ==
  ASSUME MarketTypeOK, StoreInv, MarketRestart
  PROVE  MarketTypeOK' /\ StoreInv'
<1> DEFINE stored == {p \in Packages : disk[p] # None}
<1>1. PICK f \in [stored -> Objs] :
        /\ \A p, q \in stored : f[p] = f[q] => p = q
        /\ row' = [p \in Packages |-> IF p \in stored THEN f[p] ELSE None]
        /\ obj' = [o \in Objs |-> IF \E p \in stored : f[p] = o
                                  THEN disk[CHOOSE p \in stored : f[p] = o] ELSE None]
  BY DEF MarketRestart
<1>2. \A p \in stored : p \in Packages /\ disk[p] \in Package /\ disk[p].m.package = p
  BY DEF MarketTypeOK, StoreInv
<1>3. ASSUME NEW p \in stored PROVE f[p] \in Objs /\ obj'[f[p]] = disk[p]
  <2>1. f[p] \in Objs /\ \E q \in stored : f[q] = f[p]
    OBVIOUS
  <2>2. (CHOOSE q \in stored : f[q] = f[p]) = p
    BY <1>1, <2>1
  <2> QED
    BY <1>1, <2>1, <2>2
<1>4. ASSUME NEW o \in Objs PROVE obj'[o] \in Package \cup {None}
  <2>1. CASE \E p \in stored : f[p] = o
    BY <1>2, <1>3, <2>1
  <2>2. CASE ~ \E p \in stored : f[p] = o
    BY <1>1, <2>2
  <2> QED
    BY <2>1, <2>2
<1>5. /\ installed' = [p \in Packages |-> None] /\ installs' = [i \in Installers |-> None]
      /\ UNCHANGED <<disk, catalog>>
  BY DEF MarketRestart
<1>6. MarketTypeOK'
  <2>1. obj' \in [Objs -> Package \cup {None}]
    BY <1>1, <1>4
  <2>2. row' \in [Packages -> Objs \cup {None}]
    BY <1>1, <1>3
  <2> QED
    BY <1>5, <2>1, <2>2 DEF MarketTypeOK
<1>7. ASSUME NEW p \in Packages, row'[p] # None
      PROVE  obj'[row'[p]] # None /\ Pkg(row[p])' = p
  <2>1. p \in stored /\ row'[p] = f[p]
    BY <1>1, <1>7
  <2> QED
    BY <1>2, <1>3, <2>1 DEF Pkg
<1> QED
  BY <1>5, <1>6, <1>7 DEF StoreInv

\* The runtime's steps keep its types.
LEMMA AgentTypeStep ==
  ASSUME AgentTypeOK, AgentNext \/ AgentRestart \/ UNCHANGED agentVars
  PROVE  AgentTypeOK'
<1>1. ASSUME NEW e \in Exec, NEW at \in {"interpolate", "mcp", "guarded", "agent", "backoff"}
      PROVE  [e EXCEPT !.at = at] \in Exec
  BY DEF Exec
<1>a. ASSUME NEW e \in Exec, NEW n \in Nat
      PROVE  [e EXCEPT !.at = "agent", !.attempt = n] \in Exec
  <2>1. PICK d \in Exec : d = [e EXCEPT !.at = "agent"]
    BY <1>1
  <2>2. [d EXCEPT !.attempt = n] \in Exec
    BY DEF Exec
  <2>3. [e EXCEPT !.at = "agent", !.attempt = n] = [d EXCEPT !.attempt = n]
    BY <2>1
  <2> QED
    BY <2>2, <2>3
<1>2. ASSUME NEW c \in Callers, NEW e \in Exec \cup {None}, Set(c, e) PROVE AgentTypeOK'
  BY <1>2 DEF Set, AgentTypeOK
<1>3. ASSUME NEW c \in Callers, exec[c] # None,
             NEW at \in {"interpolate", "mcp", "guarded", "agent", "backoff"}, At(c, at)
      PROVE  AgentTypeOK'
  <2>1. exec[c] \in Exec /\ [exec[c] EXCEPT !.at = at] \in Exec
    BY <1>1, <1>3 DEF AgentTypeOK
  <2> QED
    BY <1>2, <1>3, <2>1 DEF At
<1>4. ASSUME NEW c \in Callers, Done(c) PROVE AgentTypeOK'
  BY <1>2, <1>4 DEF Done
<1>5. ASSUME NEW c \in Callers, NEW a \in Agents, NEW cap \in Capabilities, Execute(c, a, cap)
      PROVE  AgentTypeOK'
  <2>1. [agent |-> a, cap |-> cap, at |-> "interpolate", attempt |-> 0] \in Exec
    BY DEF Exec
  <2> QED
    BY <1>2, <1>5, <2>1 DEF Execute
<1>6. ASSUME NEW c \in Callers, ToAgent(c) \/ RetryAttempt(c) PROVE AgentTypeOK'
  <2>1. PICK e \in Exec : e = exec[c]
    BY <1>6 DEF ToAgent, RetryAttempt, Local, Dispatching, AgentTypeOK
  <2>2. PICK n \in Nat : n = e.attempt + 1
    BY DEF Exec
  <2>3. /\ [e EXCEPT !.at = "agent", !.attempt = 1] \in Exec
        /\ [e EXCEPT !.at = "agent", !.attempt = n] \in Exec
    <3>1. 1 \in Nat
      OBVIOUS
    <3> QED
      BY <1>a, <3>1, Zenon
  <2>4. Set(c, [e EXCEPT !.at = "agent", !.attempt = 1])
        \/ Set(c, [e EXCEPT !.at = "agent", !.attempt = n])
    BY <1>6, <2>1, <2>2 DEF ToAgent, RetryAttempt, Exec
  <2> QED
    BY <1>2, <2>3, <2>4
<1>7. ASSUME NEW a \in Agents,
             \/ StartAgent(a) \/ StopAgent(a) \/ AgentStopped(a)
             \/ JoinSwarm(a) \/ LeaveSwarm(a)
      PROVE  AgentTypeOK'
  BY <1>7 DEF StartAgent, StopAgent, AgentStopped, JoinSwarm, LeaveSwarm, AgentTypeOK
<1>8. ASSUME AgentRestart \/ UNCHANGED agentVars PROVE AgentTypeOK'
  BY <1>8 DEF AgentRestart, agentVars, AgentTypeOK
<1>9. ASSUME NEW c \in Callers,
             \/ InterpolationFails(c) \/ ToGateway(c) \/ GatewayAnswers(c) \/ Delegate(c)
             \/ AgentReturns(c) \/ AgentFails(c) \/ SandboxBreach(c) \/ GuardRefuses(c)
             \/ GuardAdmits(c) \/ \E ms \in {0, 1}, errored \in BOOLEAN : GuardedCallEnds(c, ms, errored)
      PROVE  AgentTypeOK'
  BY <1>3, <1>4, <1>9
  DEF InterpolationFails, ToGateway, GatewayAnswers, Delegate, AgentReturns, AgentFails,
      SandboxBreach, GuardRefuses, GuardAdmits, GuardedCallEnds, Dispatching, Local, Attempting
<1> QED
  BY <1>5, <1>6, <1>7, <1>8, <1>9 DEF AgentNext

\* Types and references of the three components together.
PluginInv == MarketTypeOK /\ AgentTypeOK /\ StoreInv

LEMMA PluginInvStep == PluginInv /\ [PluginNext]_pluginVars => PluginInv'
<1> SUFFICES ASSUME PluginInv, [PluginNext]_pluginVars PROVE PluginInv'
  OBVIOUS
<1>1. UNCHANGED marketVars => MarketTypeOK' /\ StoreInv'
  BY DEF marketVars, MarketTypeOK, StoreInv, Pkg, PluginInv
<1>2. MarketTypeOK' /\ StoreInv'
  BY <1>1, MarketStep, MarketRestartStep DEF PluginInv, PluginNext, pluginVars
<1>3. AgentTypeOK'
  BY AgentTypeStep DEF PluginInv, PluginNext, pluginVars
<1> QED
  BY <1>2, <1>3 DEF PluginInv

\* What is stored, installed and executed keeps its types and its references
\* whatever the order of installs, syncs, uninstalls, executions and restarts.
THEOREM PluginTypeCorrect == PluginSpec => []PluginInv
<1>1. PluginInit => PluginInv
  BY DEF PluginInit, MarketInit, AgentInit, PluginInv, MarketTypeOK, AgentTypeOK, StoreInv
<1> QED
  BY <1>1, PluginInvStep, PTL DEF PluginSpec

\* The marketplace and the runtime do to the guard what its specification allows:
\* they register policies of known packages and pass guarded calls of known
\* operations.
LEMMA PluginUsesGuard ==
  ASSUME PluginInv, [PluginNext]_pluginVars
  PROVE  [GuardNext]_guardVars
<1>1. ASSUME NEW o \in Objs, obj[o] # None
      PROVE  Pkg(o) \in Packages /\ obj[o].m.policy \in Policies \cup {None}
  BY <1>1, PackageParts DEF PluginInv, MarketTypeOK, Pkg
<1>2. ASSUME NEW i \in Installers, NEW o \in Objs, NEW byAgent \in BOOLEAN,
             InstallBegins(i, o, byAgent)
      PROVE  GuardUse \/ UNCHANGED guardVars
  <2>1. obj[o] # None
    BY <1>2, InstallRecord, MarketAssumption
    DEF InstallBegins, PluginInv, MarketTypeOK, StoreInv, MarketAssumption
  <2> QED
    BY <1>1, <1>2, <2>1
    DEF InstallBegins, Prepare, KeepPolicies, GuardUse, RegisterPolicy, guardVars
<1>a. ASSUME NEW o \in Objs, NEW byAgent \in BOOLEAN, obj[o] # None, AgentRegisters(o, byAgent)
      PROVE  GuardUse \/ UNCHANGED guardVars
  BY <1>1, <1>a DEF AgentRegisters, KeepPolicies, GuardUse, RegisterPolicy, guardVars
<1>3. ASSUME NEW i \in Installers, InstallEnds(i) \/ InstallMissesSecrets(i)
      PROVE  GuardUse \/ UNCHANGED guardVars
  <2>1. PICK o \in Objs, byAgent \in BOOLEAN :
          o = installs[i].o /\ byAgent = installs[i].byAgent /\ obj[o] # None
    BY <1>3 DEF InstallEnds, InstallMissesSecrets, PluginInv, MarketTypeOK, StoreInv, Install
  <2> QED
    BY <1>a, <1>3, <2>1 DEF InstallEnds, InstallMissesSecrets
<1>4. ASSUME MarketNext PROVE GuardUse \/ UNCHANGED guardVars
  <2>1. ASSUME NEW i \in Installers, NEW o \in Objs, NEW byAgent \in BOOLEAN,
               InstallInvalid(i, o, byAgent)
        PROVE  GuardUse \/ UNCHANGED guardVars
    BY <1>a, <2>1 DEF InstallInvalid
  <2> QED
    BY <1>2, <1>3, <1>4, <2>1 DEF MarketNext, InstallAwaitsSecrets
<1>5. ASSUME NEW c \in Callers, Local(c) PROVE GuardedOp(c) \in Ops
  BY <1>5, AgentAssumption
  DEF Local, Dispatching, GuardedOp, PluginInv, AgentTypeOK, Exec, AgentAssumption
<1>6. \A cap : Providers(cap) \subseteq Packages
  BY DEF Providers, Listed
<1>7. ASSUME NEW c \in Callers, GuardRefuses(c) \/ GuardAdmits(c) PROVE GuardUse
  <2>1. PICK p \in Packages : \/ Deny(c, p, GuardedOp(c)) \/ ExceedLimit(c, p, GuardedOp(c))
                              \/ Admit(c, p, GuardedOp(c))
    BY <1>6, <1>7 DEF GuardRefuses, GuardAdmits
  <2>2. GuardedOp(c) \in Ops
    BY <1>5, <1>7 DEF GuardRefuses, GuardAdmits
  <2> QED
    BY <2>1, <2>2 DEF GuardUse
<1>8. ASSUME AgentNext PROVE GuardUse \/ UNCHANGED guardVars
  BY <1>7, <1>8 DEF AgentNext, GuardedCallEnds, GuardUse
<1> QED
  BY <1>4, <1>8 DEF PluginNext, pluginVars, GuardNext

\* Installs and executions implement the guard's own specification, so every
\* theorem about the guard alone holds of the guard in the running kernel.
THEOREM PluginImplementsGuard == PluginSpec => GuardSpec
<1>1. PluginInv /\ [PluginNext]_pluginVars => [GuardNext]_guardVars
  BY PluginUsesGuard
<1> QED
  BY <1>1, PluginTypeCorrect, PTL DEF PluginSpec, PluginInit, GuardSpec

\* The overrun of a call budget stays bounded by the number of callers also when
\* installs replace the policy while agents execute through the guard.
THEOREM PluginOverrunBounded == PluginSpec => []OverrunBounded
BY PluginImplementsGuard, OverrunIsBounded, PTL

\* The guard forgets no policy but in a restart.
LEMMA PoliciesKept ==
  ASSUME GuardTypeOK, GuardUse \/ UNCHANGED guardVars
  PROVE  restarts' = restarts /\ \A p \in Packages : policies[p] # None => policies'[p] # None
<1>1. ASSUME NEW p \in Packages, NEW pol \in Policies, RegisterPolicy(p, pol)
      PROVE  restarts' = restarts /\ \A q \in Packages : policies[q] # None => policies'[q] # None
  BY <1>1, GuardAssumption DEF RegisterPolicy, RegisterPolicyOf, GuardTypeOK, GuardAssumption
<1> QED
  BY <1>1 DEF GuardUse, Grant, Deny, ExceedLimit, Admit, CallEnds, guardVars

\* Operations of the marketplace keep what the guard must know.  An object that
\* exists keeps its manifest, so only three steps matter: a local package has no
\* policy, a preparation registers the policy, and the end of an install finds
\* the policy its preparation registered.
LEMMA SandboxStep ==
  ASSUME GuardTypeOK, PluginInv, SandboxInv, MarketNext, GuardUse \/ UNCHANGED guardVars
  PROVE  SandboxInv'
<1> SUFFICES ASSUME restarts = 0
             PROVE  /\ \A o \in Objs : obj'[o] # None /\ obj'[o].status = "installed" => Known(o)'
                    /\ \A i \in Installers :
                         installs'[i] # None /\ installs'[i].at = "installing"
                         => Known(installs[i].o)'
  BY PoliciesKept DEF SandboxInv
<1>1. \A p \in Packages : policies[p] # None => policies'[p] # None
  BY PoliciesKept
<1>2. \A o \in Objs : obj[o] # None => obj[o] \in Package
  BY DEF PluginInv, MarketTypeOK
<1>3. ASSUME NEW o \in Objs, obj[o] # None, obj'[o].m = obj[o].m, Known(o) PROVE Known(o)'
  <2>1. Pkg(o) \in Packages /\ Pkg(o)' = Pkg(o)
    BY <1>2, <1>3, PackageParts DEF Pkg
  <2>2. CASE obj[o].m.policy = None
    BY <1>3, <2>2 DEF Known
  <2>3. CASE policies[Pkg(o)] # None
    BY <1>1, <2>1, <2>3 DEF Known
  <2> QED
    BY <1>3, <2>2, <2>3 DEF Known
<1>4. \A i \in Installers : installs[i] # None => installs[i].o \in Objs /\ obj[installs[i].o] # None
  BY DEF PluginInv, MarketTypeOK, StoreInv, Install
<1>5. \A o \in Objs : obj[o] # None /\ obj[o].status = "installed" => Known(o)
  BY DEF SandboxInv
<1>6. \A i \in Installers : installs[i] # None /\ installs[i].at = "installing"
                            => Known(installs[i].o)
  BY DEF SandboxInv
\* A step that gives object o the version x, and starts at most the install of o.
<1>7. ASSUME NEW o \in Objs, NEW x \in Package, obj' = [obj EXCEPT ![o] = x],
             obj[o] # None => x.m = obj[o].m,
             x.status = "installed" => Known(o)',
             \A i \in Installers : installs'[i] # None => \/ installs'[i] = installs[i]
                                                          \/ installs'[i].o = o /\ Known(o)'
      PROVE  SandboxInv'
  <2>1. obj'[o] = x /\ \A q \in Objs : q # o => obj'[q] = obj[q]
    BY <1>7 DEF PluginInv, MarketTypeOK
  <2>2. \A q \in Objs : obj[q] # None /\ Known(q) => Known(q)'
    BY <1>3, <1>7, <2>1
  <2>3. ASSUME NEW q \in Objs, obj'[q] # None, obj'[q].status = "installed" PROVE Known(q)'
    BY <1>5, <1>7, <2>1, <2>2, <2>3
  <2>4. ASSUME NEW i \in Installers, installs'[i] # None, installs'[i].at = "installing"
        PROVE  Known(installs[i].o)'
    <3>1. CASE installs'[i] = installs[i]
      <4>1. PICK q \in Objs : q = installs[i].o /\ obj[q] # None /\ Known(q)
        BY <1>4, <1>6, <2>4, <3>1
      <4>2. Known(q)' /\ installs'[i].o = q
        BY <2>2, <3>1, <4>1
      <4> QED
        BY <4>2 DEF Known, Pkg
    <3>2. CASE installs'[i].o = o /\ Known(o)'
      BY <3>2 DEF Known, Pkg
    <3> QED
      BY <1>7, <2>4, <3>1, <3>2
  <2> QED
    BY <2>3, <2>4 DEF SandboxInv
<1>8. ASSUME UNCHANGED obj, \A i \in Installers : installs'[i] # None =>
                installs'[i] = installs[i] \/ installs'[i].at # "installing"
      PROVE  SandboxInv'
  <2>1. \A q \in Objs : obj[q] # None /\ Known(q) => Known(q)'
    BY <1>3, <1>8
  <2>2. ASSUME NEW i \in Installers, installs'[i] # None, installs'[i].at = "installing"
        PROVE  Known(installs[i].o)'
    <3>1. PICK q \in Objs : q = installs[i].o /\ obj[q] # None /\ Known(q)
      BY <1>4, <1>6, <1>8, <2>2
    <3>2. Known(q)' /\ installs'[i].o = q
      BY <1>8, <2>1, <2>2, <3>1
    <3> QED
      BY <3>2 DEF Known, Pkg
  <2> QED
    BY <1>5, <1>8, <2>1, <2>2 DEF SandboxInv
<1> DEFINE new == CHOOSE o \in Free : TRUE
<1>9. ASSUME NEW m \in Manifests,
             \/ m \in Listings /\ (Discover(m) \/ RegisterLocal(m))
             \/ CreatePackage(m)
      PROVE  SandboxInv'
  <2>1. PICK o \in Objs : o = new /\ obj[o] = None
    BY <1>9, FreeObject DEF Discover, RegisterLocal, CreatePackage, PluginInv
  <2>2. PICK x \in Package : /\ x.m = m /\ obj' = [obj EXCEPT ![o] = x]
                             /\ x.status = "installed" => m \in Listings
    <3>1. \A t \in {"available", "installed"} :
            /\ [m |-> m, status |-> t] \in Package
            /\ [m |-> m, status |-> t].m = m /\ [m |-> m, status |-> t].status = t
      BY DEF Package
    <3>2. \E t \in {"available", "installed"} :
            /\ obj' = [obj EXCEPT ![o] = [m |-> m, status |-> t]]
            /\ t = "installed" => m \in Listings
      BY <1>9, <2>1 DEF Discover, RegisterLocal, CreatePackage, PutPackage
    <3> QED
      BY <3>1, <3>2
  <2>3. obj'[o].m = m
    BY <2>2 DEF PluginInv, MarketTypeOK
  <2>4. m \in Listings => Known(o)'
    BY <2>3 DEF Listings, Known
  <2>5. installs' = installs
    BY <1>9 DEF Discover, RegisterLocal, CreatePackage
  <2> QED
    BY <1>7, <2>1, <2>2, <2>4, <2>5
<1>10. ASSUME NEW o \in Objs, obj[o] # None, Fail(o),
              \A i \in Installers : installs'[i] # None => installs'[i] = installs[i]
       PROVE  SandboxInv'
  <2>1. PICK x \in Package : x = [obj[o] EXCEPT !.status = "failed"]
    BY <1>2, <1>10, PackageParts
  <2>2. x.m = obj[o].m /\ x.status = "failed"
    BY <1>2, <1>10, <2>1, PackageParts
  <2>3. obj' = [obj EXCEPT ![o] = x]
    BY <1>10, <2>1 DEF Fail, PutPackage
  <2> QED
    BY <1>7, <1>10, <2>2, <2>3
<1>11. ASSUME NEW i \in Installers, NEW o \in Objs, NEW byAgent \in BOOLEAN,
              InstallBegins(i, o, byAgent)
       PROVE  SandboxInv'
  <2>1. obj[o] # None /\ obj[o] \in Package
    BY <1>2, <1>4, <1>11, InstallRecord, MarketAssumption
    DEF InstallBegins, MarketAssumption
  <2>2. PICK x \in Package : x = [obj[o] EXCEPT !.status = "installing"]
    BY <2>1, PackageParts
  <2>3. x.m = obj[o].m /\ x.status = "installing"
    BY <2>1, <2>2, PackageParts
  <2>4. obj' = [obj EXCEPT ![o] = x]
    BY <1>11, <2>2 DEF InstallBegins, Prepare, PluginInv, MarketTypeOK
  <2>5. obj'[o].m = obj[o].m
    BY <2>3, <2>4 DEF PluginInv, MarketTypeOK
  <2>6. Known(o)'
    <3>1. CASE obj[o].m.policy = None
      BY <2>5, <3>1 DEF Known
    <3>2. CASE obj[o].m.policy # None
      <4>1. Pkg(o) \in Packages /\ obj[o].m.policy \in Policies
        BY <2>1, <3>2, PackageParts DEF Pkg
      <4>2. policies' = [policies EXCEPT ![Pkg(o)] = obj[o].m.policy]
        BY <1>11, <3>2 DEF InstallBegins, Prepare, RegisterPolicyOf
      <4> QED
        BY <2>5, <3>2, <4>1, <4>2 DEF Known, Pkg, GuardTypeOK
    <3> QED
      BY <3>1, <3>2
  <2>7. \A j \in Installers : installs'[j] # None => installs'[j] = installs[j] \/ installs'[j].o = o
    BY <1>11, InstallRecord DEF InstallBegins, Prepare, Start, PluginInv, MarketTypeOK
  <2> QED
    BY <1>7, <2>3, <2>4, <2>6, <2>7
<1>12. ASSUME NEW i \in Installers, InstallEnds(i) PROVE SandboxInv'
  <2>1. PICK o \in Objs : o = installs[i].o /\ obj[o] # None /\ Known(o)
    BY <1>4, <1>6, <1>12 DEF InstallEnds
  <2>2. PICK x \in Package : x = [obj[o] EXCEPT !.status = "installed"]
    BY <1>2, <2>1, PackageParts
  <2>3. x.m = obj[o].m
    BY <1>2, <2>1, <2>2, PackageParts
  <2>4. obj' = [obj EXCEPT ![o] = x]
    BY <1>12, <2>1, <2>2 DEF InstallEnds, PutPackage
  <2>5. obj'[o].m = obj[o].m
    BY <2>3, <2>4 DEF PluginInv, MarketTypeOK
  <2>6. Known(o)'
    BY <1>3, <2>1, <2>5
  <2>7. \A j \in Installers : installs'[j] # None => installs'[j] = installs[j]
    BY <1>12 DEF InstallEnds, PluginInv, MarketTypeOK
  <2> QED
    BY <1>7, <2>3, <2>4, <2>6, <2>7
<1>13. ASSUME NEW i \in Installers, NEW o \in Objs, NEW byAgent \in BOOLEAN,
              InstallAwaitsSecrets(i, o, byAgent)
       PROVE  SandboxInv'
  BY <1>8, <1>13, InstallRecord DEF InstallAwaitsSecrets, Start, PluginInv, MarketTypeOK
<1>14. ASSUME NEW i \in Installers, InstallMissesSecrets(i) PROVE SandboxInv'
  BY <1>4, <1>10, <1>14 DEF InstallMissesSecrets, PluginInv, MarketTypeOK
<1>15. ASSUME NEW i \in Installers, NEW o \in Objs, NEW byAgent \in BOOLEAN,
              InstallInvalid(i, o, byAgent)
       PROVE  SandboxInv'
  BY <1>10, <1>15 DEF InstallInvalid
<1>16. ASSUME (\E t \in McpTools : DiscoverMcpTools(t)) \/ (\E p \in Packages : Uninstall(p))
       PROVE  SandboxInv'
  BY <1>8, <1>16 DEF DiscoverMcpTools, Uninstall
<1>17. SandboxInv'
  BY <1>9, <1>11, <1>12, <1>13, <1>14, <1>15, <1>16 DEF MarketNext, Listings
<1> QED
  BY <1>17, PoliciesKept DEF SandboxInv

\* A package listed as installed whose manifest carries a policy is known to the
\* guard: whatever installs, syncs, uninstalls and executions overlap, no call
\* into it runs unsandboxed before the process restarts.
THEOREM ListedIsSandboxedCorrect == PluginSpec => []ListedIsSandboxed
<1>1. PluginInit => SandboxInv
  BY DEF PluginInit, MarketInit, SandboxInv
<1>2. GuardTypeOK /\ PluginInv /\ SandboxInv /\ [PluginNext]_pluginVars => SandboxInv'
  <2> SUFFICES ASSUME GuardTypeOK, PluginInv, SandboxInv, [PluginNext]_pluginVars
               PROVE  SandboxInv'
    OBVIOUS
  <2>1. CASE GuardRestart
    BY <2>1 DEF GuardRestart, GuardTypeOK, SandboxInv
  <2>2. CASE MarketNext /\ ~GuardRestart
    <3>1. GuardUse \/ UNCHANGED guardVars
      BY <2>2, PluginUsesGuard DEF GuardNext
    <3> QED
      BY <2>2, <3>1, SandboxStep
  <2>3. CASE UNCHANGED marketVars /\ ~GuardRestart
    <3>1. restarts' = restarts /\ \A p \in Packages : policies[p] # None => policies'[p] # None
      BY <2>3, PluginUsesGuard, PoliciesKept DEF GuardNext
    <3>2. \A o \in Objs : obj[o] # None /\ Known(o) => Known(o)'
      <4> SUFFICES ASSUME NEW o \in Objs, obj[o] # None, Known(o) PROVE Known(o)'
        OBVIOUS
      <4>1. Pkg(o) \in Packages /\ obj' = obj
        BY <2>3, PackageParts DEF Pkg, marketVars, PluginInv, MarketTypeOK
      <4> QED
        BY <3>1, <4>1 DEF Known, Pkg
    <3>3. \A i \in Installers : installs[i] # None =>
            installs[i].o \in Objs /\ obj[installs[i].o] # None
      BY DEF PluginInv, MarketTypeOK, StoreInv, Install
    <3>4. ASSUME NEW i \in Installers, installs[i] # None, Known(installs[i].o)
          PROVE  Known(installs[i].o)'
      <4>1. PICK o \in Objs : o = installs[i].o /\ obj[o] # None /\ Known(o)
        BY <3>3, <3>4
      <4>2. Known(o)' /\ installs'[i].o = o
        BY <2>3, <3>2, <4>1 DEF marketVars
      <4> QED
        BY <4>2 DEF Known, Pkg
    <3> QED
      BY <2>3, <3>1, <3>2, <3>4 DEF SandboxInv, marketVars
  <2> QED
    BY <2>1, <2>2, <2>3 DEF PluginNext, pluginVars
<1>3. PluginInv /\ SandboxInv => ListedIsSandboxed
  <2> SUFFICES ASSUME PluginInv, SandboxInv, restarts = 0, NEW p \in Listed,
                      obj[row[p]].m.policy # None
               PROVE  policies[p] # None
    BY DEF ListedIsSandboxed
  <2>1. PICK o \in Objs : o = row[p]
    BY DEF Listed, PluginInv, MarketTypeOK
  <2>2. obj[o] # None /\ obj[o].status = "installed" /\ Pkg(o) = p
    BY <2>1 DEF Listed, PluginInv, StoreInv
  <2> QED
    BY <2>1, <2>2 DEF SandboxInv, Known
<1> QED
  BY <1>1, <1>2, <1>3, PluginTypeCorrect, PluginImplementsGuard, GuardTypeCorrect, PTL
  DEF PluginSpec
=============================================================================
