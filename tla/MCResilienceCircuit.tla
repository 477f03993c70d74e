------------------------- MODULE MCResilienceCircuit -------------------------
(* Small instances of ResilienceCircuit for TLC. *)
EXTENDS ResilienceCircuit

CONSTANTS c1, c2, c3
ThreeCalls == {c1, c2, c3}
OkOrFail == {"ok", "fail"}
AllOutcomes == {"ok", "fail", "cancelled"}
=============================================================================
