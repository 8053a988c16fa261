----------------------------- MODULE BreakerFSM -----------------------------
(***************************************************************************)
(* What a circuit breaker promises (docs/advanced/ADVANCED_05, 31-45): it  *)
(* trips, cools off, probes, and the probe decides.  An open breaker gets  *)
(* its probe and a probing breaker its decision.                           *)
(***************************************************************************)
VARIABLE state

Init == state = "closed"

Trip   == state = "closed" /\ state' = "open"
Cool   == state = "open" /\ state' = "half_open"
Close  == state = "half_open" /\ state' = "closed"
Reopen == state = "half_open" /\ state' = "open"

Next == Trip \/ Cool \/ Close \/ Reopen

Spec == /\ Init /\ [][Next]_state
        /\ WF_state(Cool)
        /\ WF_state(Close \/ Reopen)
=============================================================================
