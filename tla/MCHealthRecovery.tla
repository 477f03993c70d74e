-------------------------- MODULE MCHealthRecovery --------------------------
(* Small instances of HealthRecovery for TLC. *)
EXTENDS HealthRecovery

CONSTANTS h1, h2, k1
TwoHandlers == {h1, h2}
OneChecker == {k1}
=============================================================================
