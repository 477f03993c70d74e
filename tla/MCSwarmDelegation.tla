-------------------------- MODULE MCSwarmDelegation --------------------------
(* Instances of SwarmDelegation for TLC: every agent can do every task.        *)
EXTENDS SwarmDelegation

CONSTANTS t1, t2, t3

AllCapable == [t \in Tasks |-> Agents]

BatchSymmetry == Permutations(Managers) \cup Permutations(Tasks)

\* The part of DSpec in which no check loop runs and every heartbeat is fresh: the
\* tasks of a team are delegated while its members stay healthy.
QuietSpec == DInit /\ [][DNext /\ UNCHANGED <<looping, beat, sweep>>]_allVars
=============================================================================
