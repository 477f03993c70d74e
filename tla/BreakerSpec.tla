---------------------------- MODULE BreakerSpec ----------------------------
(***************************************************************************)
(* What a circuit breaker of the kernel promises its callers, whichever of *)
(* the two implementations provides it: kernel/health.py (CircuitBreaker)  *)
(* and kernel/resilience.py (ResilienceEngine).                            *)
(*                                                                         *)
(* state  - the position of the breaker                                    *)
(* cooled - TRUE when the recovery timeout has elapsed since the breaker   *)
(*          last recorded the failure that keeps it open                   *)
(*                                                                         *)
(* installed - how many breakers have been installed for the name          *)
(*                                                                         *)
(* A breaker leaves OPEN only for HALF_OPEN and only once it has cooled;   *)
(* it is CLOSED again only from HALF_OPEN, or because an operator replaced *)
(* it.  It never jumps from OPEN to CLOSED or from CLOSED to HALF_OPEN.    *)
(***************************************************************************)
EXTENDS Naturals

VARIABLES state, cooled, installed

vars == <<state, cooled, installed>>

Init == state = "CLOSED" /\ cooled = FALSE /\ installed = 0

\* Enough failures were recorded: stop admitting calls.
Trip == /\ state = "CLOSED"
        /\ state' = "OPEN"
        /\ cooled' = FALSE
        /\ UNCHANGED installed

\* The recovery timeout elapses.
Cool == /\ state = "OPEN"
        /\ cooled' = TRUE
        /\ UNCHANGED <<state, installed>>

\* A call that was admitted earlier fails while the breaker is open; the
\* recovery timeout starts again.
Restamp == /\ state = "OPEN"
           /\ cooled' = FALSE
           /\ UNCHANGED <<state, installed>>

Probe == /\ state = "OPEN"
         /\ cooled
         /\ state' = "HALF_OPEN"
         /\ UNCHANGED <<cooled, installed>>

Reopen == /\ state = "HALF_OPEN"
          /\ state' = "OPEN"
          /\ cooled' = FALSE
          /\ UNCHANGED installed

Close == /\ state = "HALF_OPEN"
         /\ state' = "CLOSED"
         /\ cooled' = FALSE
         /\ UNCHANGED installed

\* The operator resets or re-registers the breaker: the only other way to
\* CLOSED, and a fresh breaker.
Replace == /\ installed' = installed + 1
           /\ state' = "CLOSED"
           /\ cooled' = FALSE

Next == Trip \/ Cool \/ Restamp \/ Probe \/ Reopen \/ Close \/ Replace

Spec == Init /\ [][Next]_vars
=============================================================================
