-------------------------- MODULE PluginMarketplace --------------------------
(***************************************************************************)
(* kernel/marketplace.py over kernel/marketplace_store.py, with the guard  *)
(* of CapabilityGuard wired in.  The store keeps references: the package   *)
(* object an installer changes is the one the store lists, and only the    *)
(* SQLite row is a copy.  install suspends while the vault resolves the    *)
(* required secrets and once more while the status is INSTALLING, so       *)
(* installs, catalog syncs and uninstalls interleave.                      *)
(***************************************************************************)
EXTENDS CapabilityGuard

CONSTANTS Installers,
          McpTools,   \* ids of the virtual packages of MCP tools
          Objs,       \* bound: package objects alive at a time
          Manifests   \* [package, policy, dependencies, sound, secrets, capabilities]

\* What a catalog can list: discover reads no policy and no required secrets.
Listings == {m \in Manifests : m.policy = None /\ ~m.secrets}

Package == [m : Manifests, status : {"available", "failed", "installing", "installed"}]
Install == [o : Objs, at : {"secrets", "installing"}, byAgent : BOOLEAN]

ASSUME MarketAssumption ==
  /\ \A m \in Manifests : /\ m.package \in Packages
                          /\ m.policy \in Policies \cup {None}
                          /\ m.dependencies \subseteq Packages \cup McpTools
                          /\ m.sound \in BOOLEAN /\ m.secrets \in BOOLEAN
  /\ None \notin Objs \cup Package \cup Install

VARIABLES
  obj,        \* the package objects: [m, status], None: not created
  row,        \* the store's _mem_packages: package id -> object
  disk,       \* the packages table: a copy of the object when it was put
  installed,  \* _installed: package id -> object
  catalog,    \* package ids of the catalog table
  installs    \* per installer: the install it runs, None: none

marketVars == <<obj, row, disk, installed, catalog, installs>>

MarketInit == /\ obj = [o \in Objs |-> None]
              /\ row = [p \in Packages |-> None]
              /\ disk = [p \in Packages |-> None]
              /\ installed = [p \in Packages |-> None]
              /\ catalog = {}
              /\ installs = [i \in Installers |-> None]

Free == {o \in Objs : obj[o] = None}
Pkg(o) == obj[o].m.package

\* put_package: the object in memory, a copy of it in the table.
PutPackage(o, package) ==
  /\ obj' = [obj EXCEPT ![o] = package]
  /\ row' = [row EXCEPT ![package.m.package] = o]
  /\ disk' = [disk EXCEPT ![package.m.package] = package]

DeletePackage(p) == /\ row' = [row EXCEPT ![p] = None]
                    /\ disk' = [disk EXCEPT ![p] = None]

PutCatalogEntry(id) == catalog' = catalog \cup {id}

\* list_installed: the stored packages whose status says so.
Listed == {p \in Packages : row[p] # None /\ obj[row[p]].status = "installed"}

\* validate_package: allow-listed actions and the checksum (sound), and every
\* dependency stored with any status, or in the catalog.
Valid(m) ==
  m.sound /\ \A d \in m.dependencies : d \in catalog \/ (d \in Packages /\ row[d] # None)

-----------------------------------------------------------------------------
(* Discovery: the answer of the catalog is applied item by item without a   *)
(* suspension; an item that raises ends it, so any part of it can be applied.*)

Discover(m) ==
  /\ Free # {}
  /\ PutPackage(CHOOSE o \in Free : TRUE, [m |-> m, status |-> "available"])
  /\ PutCatalogEntry(m.package)
  /\ UNCHANGED <<installed, installs>>

\* discover_mcp_tools: a catalog entry for each tool, the package is virtual.
DiscoverMcpTools(t) ==
  /\ PutCatalogEntry(t)
  /\ UNCHANGED <<obj, row, disk, installed, installs>>

\* A caller of install builds a package of its own, policy included.
CreatePackage(m) ==
  /\ Free # {}
  /\ obj' = [obj EXCEPT ![CHOOSE o \in Free : TRUE] = [m |-> m, status |-> "available"]]
  /\ UNCHANGED <<row, disk, installed, catalog, installs>>

RegisterLocal(m) ==
  /\ Free # {} /\ m \in Listings
  /\ LET o == CHOOSE o \in Free : TRUE IN
     /\ PutPackage(o, [m |-> m, status |-> "installed"])
     /\ installed' = [installed EXCEPT ![m.package] = o]
  /\ UNCHANGED <<catalog, installs>>

-----------------------------------------------------------------------------
(* install. *)

Start(i, o, at, byAgent) ==
  installs' = [installs EXCEPT ![i] = [o |-> o, at |-> at, byAgent |-> byAgent]]

\* A package that fails validation, or misses a secret, is stored as FAILED.
Fail(o) == PutPackage(o, [obj[o] EXCEPT !.status = "failed"])

\* AgentRuntime.install_capability registers the policy of what install returns,
\* be it installed or failed.
AgentRegisters(o, byAgent) ==
  /\ IF byAgent /\ obj[o].m.policy # None
     THEN RegisterPolicyOf(Pkg(o), obj[o].m.policy) ELSE KeepPolicies
  /\ UNCHANGED <<grants, usage, audit, trail, inside, restarts>>

InstallInvalid(i, o, byAgent) ==
  /\ installs[i] = None /\ obj[o] # None /\ ~Valid(obj[o].m)
  /\ Fail(o)
  /\ AgentRegisters(o, byAgent)
  /\ UNCHANGED <<installed, catalog, installs>>

InstallAwaitsSecrets(i, o, byAgent) ==
  /\ installs[i] = None /\ obj[o] # None /\ Valid(obj[o].m) /\ obj[o].m.secrets
  /\ Start(i, o, "secrets", byAgent)
  /\ UNCHANGED <<obj, row, disk, installed, catalog>>
  /\ UNCHANGED guardVars

InstallMissesSecrets(i) ==
  /\ installs[i] # None /\ installs[i].at = "secrets"
  /\ Fail(installs[i].o)
  /\ AgentRegisters(installs[i].o, installs[i].byAgent)
  /\ installs' = [installs EXCEPT ![i] = None]
  /\ UNCHANGED <<installed, catalog>>

\* Seeded fault: the policy is registered only by the agent that installs.
FaultPolicyLater(i, o, byAgent) ==
  /\ KeepPolicies
  /\ obj' = [obj EXCEPT ![o].status = "installing"]
  /\ Start(i, o, "installing", byAgent)

\* The policy reaches the guard before the package can be listed as installed.
Prepare(i, o, byAgent) ==
  /\ IF obj[o].m.policy = None THEN KeepPolicies
     ELSE RegisterPolicyOf(Pkg(o), obj[o].m.policy)
  /\ obj' = [obj EXCEPT ![o].status = "installing"]
  /\ Start(i, o, "installing", byAgent)

InstallBegins(i, o, byAgent) ==
  /\ \/ installs[i] = None /\ obj[o] # None /\ Valid(obj[o].m) /\ ~obj[o].m.secrets
     \/ installs[i] = [o |-> o, at |-> "secrets", byAgent |-> byAgent]
  /\ Prepare(i, o, byAgent)
  /\ UNCHANGED <<row, disk, installed, catalog>>
  /\ UNCHANGED <<grants, usage, audit, trail, inside, restarts>>

\* After the sleep.
InstallEnds(i) ==
  LET o == installs[i].o IN
  /\ installs[i] # None /\ installs[i].at = "installing"
  /\ PutPackage(o, [obj[o] EXCEPT !.status = "installed"])
  /\ installed' = [installed EXCEPT ![Pkg(o)] = o]
  /\ installs' = [installs EXCEPT ![i] = None]
  /\ AgentRegisters(o, installs[i].byAgent)
  /\ UNCHANGED catalog

\* uninstall: the guard keeps the policy and the grants of the package.
Uninstall(p) ==
  /\ installed[p] # None \/ row[p] # None
  /\ installed' = [installed EXCEPT ![p] = None]
  /\ DeletePackage(p)
  /\ UNCHANGED <<obj, catalog, installs>>

\* A new process reads the tables back into new objects.
MarketRestart ==
  /\ LET stored == {p \in Packages : disk[p] # None} IN
     \E f \in [stored -> Objs] :
       /\ \A p, q \in stored : f[p] = f[q] => p = q
       /\ row' = [p \in Packages |-> IF p \in stored THEN f[p] ELSE None]
       /\ obj' = [o \in Objs |-> IF \E p \in stored : f[p] = o
                                 THEN disk[CHOOSE p \in stored : f[p] = o] ELSE None]
  /\ installed' = [p \in Packages |-> None]
  /\ installs' = [i \in Installers |-> None]
  /\ UNCHANGED <<disk, catalog>>

MarketNext ==
  \/ /\ \/ \E m \in Listings : Discover(m) \/ RegisterLocal(m)
        \/ \E m \in Manifests : CreatePackage(m)
        \/ (\E t \in McpTools : DiscoverMcpTools(t)) \/ (\E p \in Packages : Uninstall(p))
     /\ UNCHANGED guardVars
  \/ \E i \in Installers :
       \/ \E o \in Objs :
            \/ \E byAgent \in BOOLEAN :
                 \/ InstallAwaitsSecrets(i, o, byAgent) \/ InstallBegins(i, o, byAgent)
                 \/ InstallInvalid(i, o, byAgent)
       \/ InstallMissesSecrets(i) \/ InstallEnds(i)

-----------------------------------------------------------------------------
(* Properties. *)

MarketTypeOK ==
  /\ obj \in [Objs -> Package \cup {None}]
  /\ row \in [Packages -> Objs \cup {None}] /\ installed \in [Packages -> Objs \cup {None}]
  /\ disk \in [Packages -> Package \cup {None}]
  /\ catalog \subseteq Packages \cup McpTools
  /\ installs \in [Installers -> Install \cup {None}]

\* However installs of the same package, catalog syncs and uninstalls overlap, a
\* package listed as installed whose manifest carries a policy is known to the
\* guard, so no call into it runs unsandboxed; a restart loses the guard's
\* policies and ends the promise (marketplace.py install, capability_guard.py
\* register_policy).
ListedIsSandboxed ==
  restarts = 0 => \A p \in Listed : obj[row[p]].m.policy # None => policies[p] # None
=============================================================================
