----------------------------- MODULE ConfigVault -----------------------------
(***************************************************************************)
(* kernel/config_vault.py over the SQLite tables of kernel/config_store.py.*)
(* The vault keeps a cache of configuration entries and secrets in front   *)
(* of the tables; a secret also has a marker entry among the configuration *)
(* entries.  Encryption and decryption are awaited, and the version of a   *)
(* new secret is computed before the encryption is.                        *)
(***************************************************************************)
EXTENDS Naturals, FiniteSets

CONSTANTS Users, Keys,   \* a key stands for a key in its scope
          Values, Absent,
          MaxVersion     \* bound: no operation starts on a higher version

Secret == [value : Values, version : Nat]
Entry == [value : Values, encrypted : BOOLEAN, deleted : BOOLEAN, version : Nat]

ASSUME VaultAssumption ==
  Absent \notin Values \cup Secret \cup Entry /\ MaxVersion \in Nat

Kinds == {"set_secret", "rotate", "resolve"}

\* A value that is marked encrypted is its ciphertext: the cipher is injective.
VARIABLES
  config,    \* _config: the cached entries [value, encrypted, version, deleted]
  secrets,   \* _secrets: the cached secrets [value, version]
  dbConfig,  \* the config table
  dbSecret,  \* the secrets table
  accesses,  \* the config_audit table: who read which key, and how that ended
  work,      \* per user: the call that awaits the cipher, Absent: none
  torn,      \* history: keys whose last write was cut between its two commits
  overlapped \* history: keys for which a write began while another was under way

past == <<torn, overlapped>>
vaultVars == <<config, secrets, dbConfig, dbSecret, accesses, work, past>>

VaultInit == /\ config = [k \in Keys |-> Absent]
             /\ secrets = [k \in Keys |-> Absent]
             /\ dbConfig = [k \in Keys |-> Absent]
             /\ dbSecret = [k \in Keys |-> Absent]
             /\ accesses = {}
             /\ work = [u \in Users |-> Absent]
             /\ torn = {} /\ overlapped = {}

\* The cache first, the table when the cache has nothing.
CurrentConfig(k) == IF config[k] # Absent THEN config[k] ELSE dbConfig[k]

\* Seeded fault: a writer asks the cache only.
FaultCurrentSecret(k) == secrets[k]

CurrentSecret(k) == IF secrets[k] # Absent THEN secrets[k] ELSE dbSecret[k]

NextVersion(entry) == IF entry = Absent THEN 1 ELSE entry.version + 1
Startable(entry) == entry # Absent => entry.version < MaxVersion

-----------------------------------------------------------------------------
(* Configuration entries. *)

PutConfig(k, entry) == /\ config' = [config EXCEPT ![k] = entry]
                       /\ dbConfig' = [dbConfig EXCEPT ![k] = entry]

SetConfig(k, v) ==
  /\ Startable(CurrentConfig(k))
  /\ PutConfig(k, [value |-> v, encrypted |-> FALSE, deleted |-> FALSE,
                   version |-> NextVersion(CurrentConfig(k))])
  /\ UNCHANGED <<secrets, dbSecret, accesses, work, past>>

\* get fills the cache, also with a deleted entry.
GetConfig(k) ==
  /\ config[k] = Absent /\ dbConfig[k] # Absent
  /\ config' = [config EXCEPT ![k] = dbConfig[k]]
  /\ UNCHANGED <<secrets, dbConfig, dbSecret, accesses, work, past>>

Deleted(entry) == [entry EXCEPT !.deleted = TRUE, !.version = entry.version + 1]

\* The cached entry and the row are each marked and bumped; the secret stays.
DeleteConfig(k) ==
  /\ CurrentConfig(k) # Absent /\ Startable(CurrentConfig(k))
  /\ config' = [config EXCEPT ![k] = Deleted(CurrentConfig(k))]
  /\ dbConfig' = [dbConfig EXCEPT ![k] = IF @ = Absent THEN Absent ELSE Deleted(@)]
  /\ UNCHANGED <<secrets, dbSecret, accesses, work, past>>

-----------------------------------------------------------------------------
(* Secrets: each call up to the await of the cipher, then the rest of it. *)

Await(u, kind, k, secret) ==
  work' = [work EXCEPT ![u] = [kind |-> kind, key |-> k, secret |-> secret]]

Writes(u, k) == work[u] # Absent /\ work[u].key = k /\ work[u].kind # "resolve"

\* set_secret and rotate_secret: the version is that of the secret found now.
WriteBegins(u, kind, k, v) ==
  /\ work[u] = Absent /\ kind \in {"set_secret", "rotate"}
  /\ Startable(CurrentSecret(k))
  /\ Await(u, kind, k, [value |-> v, version |-> NextVersion(CurrentSecret(k))])
  /\ overlapped' = overlapped \cup {j \in {k} : \E w \in Users : Writes(w, j)}
  /\ UNCHANGED <<config, secrets, dbConfig, dbSecret, accesses, torn>>

\* The row is overwritten: the store keeps no earlier version.
PutSecret(k, secret) == /\ secrets' = [secrets EXCEPT ![k] = secret]
                        /\ dbSecret' = [dbSecret EXCEPT ![k] = secret]

\* The marker entry carries the ciphertext and the version of the secret.  The
\* nonce and the tag, read from the shared cipher after the await, are stored with
\* the secret and read by nothing: decrypt takes the ciphertext alone.
PutMarker(k, secret) ==
  PutConfig(k, [value |-> secret.value, encrypted |-> TRUE, deleted |-> FALSE,
                version |-> secret.version])

PutAccess(entry) == accesses' = accesses \cup {entry}

Log(u, k, result) == PutAccess([who |-> u, key |-> k, result |-> result])

\* Both rows are stored, each by a statement that commits, with no await between.
WriteEnds(u) ==
  LET k == work[u].key IN
  /\ work[u] # Absent /\ work[u].kind # "resolve"
  /\ PutSecret(k, work[u].secret)
  /\ PutMarker(k, work[u].secret)
  /\ torn' = torn \ {k} /\ UNCHANGED overlapped
  /\ IF work[u].kind = "rotate" THEN Log(u, k, "allowed") ELSE UNCHANGED accesses
  /\ work' = [work EXCEPT ![u] = Absent]

ResolveBegins(u, k) ==
  /\ work[u] = Absent /\ CurrentSecret(k) # Absent
  /\ secrets' = [secrets EXCEPT ![k] = CurrentSecret(k)]
  /\ Await(u, "resolve", k, CurrentSecret(k))
  /\ UNCHANGED <<config, dbConfig, dbSecret, accesses, past>>

ResolveDenied(u, k) ==
  /\ work[u] = Absent /\ CurrentSecret(k) = Absent
  /\ Log(u, k, "denied")
  /\ UNCHANGED <<config, secrets, dbConfig, dbSecret, work, past>>

\* The caller gets the value it found, rotated meanwhile or not.
ResolveEnds(u) ==
  /\ work[u] # Absent /\ work[u].kind = "resolve"
  /\ Log(u, work[u].key, "allowed")
  /\ work' = [work EXCEPT ![u] = Absent]
  /\ UNCHANGED <<config, secrets, dbConfig, dbSecret, past>>

\* The cipher raises: nothing of the call is stored.
CipherFails(u) ==
  /\ work[u] # Absent
  /\ work' = [work EXCEPT ![u] = Absent]
  /\ UNCHANGED <<config, secrets, dbConfig, dbSecret, accesses, past>>

-----------------------------------------------------------------------------
\* Every row of a table, those marked deleted too, goes to the cache.
LoadConfig == config' = dbConfig
LoadSecrets == secrets' = dbSecret

Reload == /\ LoadConfig /\ LoadSecrets
          /\ UNCHANGED <<dbConfig, dbSecret, accesses, work, past>>

Forget == /\ config' = [k \in Keys |-> Absent]
          /\ secrets' = [k \in Keys |-> Absent]
          /\ work' = [u \in Users |-> Absent]

\* The process ends and another one starts: between two calls, or
VaultRestart == Forget /\ UNCHANGED <<dbConfig, dbSecret, accesses, past>>

\* inside a write, after the commit of the secret and before that of its marker.
WriteCut(u) ==
  LET k == work[u].key IN
  /\ work[u] # Absent /\ work[u].kind # "resolve"
  /\ Forget
  /\ dbSecret' = [dbSecret EXCEPT ![k] = work[u].secret]
  /\ torn' = torn \cup {k}
  /\ UNCHANGED <<dbConfig, accesses, overlapped>>

VaultStops == VaultRestart \/ \E u \in Users : WriteCut(u)

ConfigNext ==
  \/ \E k \in Keys : \/ GetConfig(k) \/ DeleteConfig(k)
                     \/ \E v \in Values : SetConfig(k, v)
  \/ Reload

SecretNext(u) ==
  \/ \E k \in Keys : \/ ResolveBegins(u, k) \/ ResolveDenied(u, k)
                     \/ \E v \in Values, kind \in Kinds : WriteBegins(u, kind, k, v)
  \/ WriteEnds(u) \/ ResolveEnds(u) \/ CipherFails(u)

VaultNext == ConfigNext \/ \E u \in Users : SecretNext(u)

VaultSpec == VaultInit /\ [][VaultNext \/ VaultStops]_vaultVars

-----------------------------------------------------------------------------
(* Properties. *)

VaultTypeOK ==
  /\ config \in [Keys -> Entry \cup {Absent}] /\ dbConfig \in [Keys -> Entry \cup {Absent}]
  /\ secrets \in [Keys -> Secret \cup {Absent}] /\ dbSecret \in [Keys -> Secret \cup {Absent}]
  /\ work \in [Users -> [kind : Kinds, key : Keys, secret : Secret] \cup {Absent}]
  /\ torn \subseteq Keys /\ overlapped \subseteq Keys
  /\ accesses \subseteq [who : Users, key : Keys, result : {"allowed", "denied"}]

\* A secret and its marker are two rows, committed one after the other under a
\* version computed before the await (set_secret, rotate_secret).  A live marker
\* never goes without its secret, and shows its ciphertext and version unless the
\* last write was cut between the commits.  Even then the versions tell: as long as
\* no two writes of the key overlapped, a marker is never ahead of the secret, and
\* one with the secret's version shows the secret's ciphertext.
MarkerShowsSecret ==
  \A k \in Keys : dbConfig[k] # Absent /\ dbConfig[k].encrypted /\ ~dbConfig[k].deleted =>
    LET same == dbConfig[k].version = dbSecret[k].version
        shown == dbConfig[k].value = dbSecret[k].value
    IN /\ dbSecret[k] # Absent
       /\ k \notin torn => same /\ shown
       /\ k \notin overlapped => /\ dbConfig[k].version <= dbSecret[k].version
                                 /\ same => shown
=============================================================================
