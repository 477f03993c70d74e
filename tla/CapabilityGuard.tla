--------------------------- MODULE CapabilityGuard ---------------------------
(***************************************************************************)
(* kernel/capability_guard.py with kernel/security_store.py behind it: the *)
(* permission and budget check around every call into an installed plugin  *)
(* package.  The check runs before the guarded call and the budget is      *)
(* charged after it; the call itself is the only suspension point, so any  *)
(* number of callers can be between the two.                               *)
(***************************************************************************)
EXTENDS Naturals, Sequences, FiniteSets

CONSTANTS Packages, Callers,
          Ops,          \* the requests: records [action, resource]
          Policies,     \* records [permissions, max_calls, cpu_ms]
          AnyResource,  \* the resource "*" of a permission
          None,
          AuditLimit,   \* audit_limit
          MaxAudit,     \* bound: entries written to the audit table
          MaxRestarts   \* bound: restarts of the process

Permissions == [action : {o.action : o \in Ops},
                resource : {o.resource : o \in Ops} \cup {AnyResource}]

ASSUME GuardAssumption ==
  /\ None \notin Policies \cup [package : Packages, op : Ops]
  /\ \A pol \in Policies : /\ pol.permissions \subseteq Permissions
                           /\ pol.max_calls \in Nat /\ pol.cpu_ms \in Nat
  /\ IsFiniteSet(Callers)
  /\ AuditLimit \in Nat \ {0} /\ MaxAudit \in Nat /\ MaxRestarts \in Nat

VARIABLES
  policies,  \* _policies
  grants,    \* _grants, as a set per package
  usage,     \* _usage
  audit,     \* _audit: the ring buffer
  trail,     \* the store's audit list and table, in the order written
  inside,    \* per caller: the package and operation it is in a guarded call of
  base,      \* history: calls charged and under way when the policy was set
  restarts

guardVars == <<policies, grants, usage, audit, trail, inside, base, restarts>>

NoUsage == [calls |-> 0, cpu_ms |-> 0]
Results == {"allowed", "error", "denied", "limit_exceeded"}

AuditEntry == [who : Packages, op : Ops, result : Results]

GuardInit == /\ policies = [p \in Packages |-> None]
             /\ grants = [p \in Packages |-> {}]
             /\ usage = [p \in Packages |-> NoUsage]
             /\ audit = <<>>
             /\ trail = <<>>
             /\ inside = [c \in Callers |-> None]
             /\ base = [p \in Packages |-> 0]
             /\ restarts = 0

Running(p) == {c \in Callers : inside[c] # None /\ inside[c].package = p}

-----------------------------------------------------------------------------
(* The decisions. *)

Matches(perm, op) == /\ perm.action = op.action
                     /\ perm.resource \in {op.resource, AnyResource}

\* An unregistered principal without grants is not sandboxed.
Check(p, op) ==
  \/ policies[p] # None /\ \E perm \in policies[p].permissions : Matches(perm, op)
  \/ \E perm \in grants[p] : Matches(perm, op)
  \/ policies[p] = None /\ grants[p] = {}

\* Seeded fault: the budget may be used up before a call is refused.
FaultResourceOffByOne(p) ==
  policies[p] # None => (/\ usage[p].calls <= policies[p].max_calls
                         /\ usage[p].cpu_ms < policies[p].cpu_ms)

ResourceOk(p) ==
  policies[p] # None => (/\ usage[p].calls < policies[p].max_calls
                         /\ usage[p].cpu_ms < policies[p].cpu_ms)

PutAudit(entry) == trail' = Append(trail, entry)

\* The ring buffer keeps the newest AuditLimit entries, the store every one.
AuditRecord(p, op, result) ==
  LET entry == [who |-> p, op |-> op, result |-> result]
      all   == Append(audit, entry)
  IN  /\ Len(trail) < MaxAudit
      /\ PutAudit(entry)
      /\ audit' = IF Len(all) > AuditLimit
                  THEN SubSeq(all, Len(all) - AuditLimit + 1, Len(all)) ELSE all

-----------------------------------------------------------------------------
(* The operations. *)

\* register_policy: usage is kept by setdefault, nothing is reset.
RegisterPolicyOf(p, pol) ==
  /\ policies' = [policies EXCEPT ![p] = pol]
  /\ base' = [base EXCEPT ![p] = usage[p].calls + Cardinality(Running(p))]

KeepPolicies == UNCHANGED <<policies, base>>

RegisterPolicy(p, pol) ==
  /\ RegisterPolicyOf(p, pol)
  /\ UNCHANGED <<grants, usage, audit, trail, inside, restarts>>

Grant(p, perm) ==
  /\ grants' = [grants EXCEPT ![p] = @ \cup {perm}]
  /\ UNCHANGED <<policies, usage, audit, trail, inside, base, restarts>>

\* __aenter__, one of its three outcomes: _pre raises twice or lets the call run.
Deny(c, p, op) ==
  /\ inside[c] = None /\ ~Check(p, op)
  /\ AuditRecord(p, op, "denied")
  /\ UNCHANGED <<policies, grants, usage, inside, base, restarts>>

ExceedLimit(c, p, op) ==
  /\ inside[c] = None /\ Check(p, op) /\ ~ResourceOk(p)
  /\ AuditRecord(p, op, "limit_exceeded")
  /\ UNCHANGED <<policies, grants, usage, inside, base, restarts>>

Admit(c, p, op) ==
  /\ inside[c] = None /\ Check(p, op) /\ ResourceOk(p)
  /\ inside' = [inside EXCEPT ![c] = [package |-> p, op |-> op]]
  /\ UNCHANGED <<policies, grants, usage, audit, trail, base, restarts>>

\* __aexit__, also when the call raised or was cancelled: _accrue, then _post.
CallEnds(c, ms, errored) ==
  /\ inside[c] # None
  /\ inside' = [inside EXCEPT ![c] = None]
  /\ usage' = [usage EXCEPT ![inside[c].package] =
                 [calls |-> @.calls + 1, cpu_ms |-> @.cpu_ms + ms]]
  /\ AuditRecord(inside[c].package, inside[c].op, IF errored THEN "error" ELSE "allowed")
  /\ UNCHANGED <<policies, grants, base, restarts>>

\* The process ends: the store keeps policies, grants and audit, and the guard
\* of the next process reads only the audit back (get_audit_log).
GuardRestart ==
  /\ restarts < MaxRestarts
  /\ restarts' = restarts + 1
  /\ policies' = [p \in Packages |-> None]
  /\ grants' = [p \in Packages |-> {}]
  /\ usage' = [p \in Packages |-> NoUsage]
  /\ audit' = <<>>
  /\ inside' = [c \in Callers |-> None]
  /\ base' = [p \in Packages |-> 0]
  /\ UNCHANGED trail

GuardUse ==
  \/ \E p \in Packages, pol \in Policies : RegisterPolicy(p, pol)
  \/ \E p \in Packages, perm \in Permissions : Grant(p, perm)
  \/ \E c \in Callers, p \in Packages, op \in Ops :
       Deny(c, p, op) \/ ExceedLimit(c, p, op) \/ Admit(c, p, op)
  \/ \E c \in Callers, ms \in {0, 1}, errored \in BOOLEAN : CallEnds(c, ms, errored)

GuardNext == GuardUse \/ GuardRestart

GuardSpec == GuardInit /\ [][GuardNext]_guardVars

-----------------------------------------------------------------------------
(* Properties. *)

GuardTypeOK ==
  /\ policies \in [Packages -> Policies \cup {None}]
  /\ grants \in [Packages -> SUBSET Permissions]
  /\ usage \in [Packages -> [calls : Nat, cpu_ms : Nat]]
  /\ audit \in Seq(AuditEntry) /\ trail \in Seq(AuditEntry)
  /\ inside \in [Callers -> [package : Packages, op : Ops] \cup {None}]
  /\ base \in [Packages -> Nat]
  /\ restarts \in Nat

\* The call budget is tested before a guarded call and charged after it, so
\* callers overlap past max_calls; but never by more than the callers that can
\* overlap: what is charged and under way stays below max_calls plus the number
\* of callers, unless it was above that when the policy was registered
\* (capability_guard.py _resource_ok, _accrue).
OverrunBounded ==
  \A p \in Packages : policies[p] # None =>
    \/ usage[p].calls + Cardinality(Running(p)) <= base[p]
    \/ usage[p].calls + Cardinality(Running(p)) < policies[p].max_calls + Cardinality(Callers)
=============================================================================
