---------------------------- MODULE MCActionSaga ----------------------------
(***************************************************************************)
(* Instances of ActionSaga for TLC.  Names of decisions say what matters   *)
(* about them: pay (real money, its decisions row exists), ghost (real     *)
(* money, the row is gone), and one decision for each other kind of arm.   *)
(***************************************************************************)
EXTENDS ActionSaga, TLC

CONSTANTS pay, ghost, later, nudge, halt, c1, c2, s1, s2

OneDecision == {ghost}
OneArm == ghost :> "retry_immediate"

AllDecisions == {pay, ghost, later, nudge, halt}
AllArms == pay :> "retry_immediate" @@ OneArm @@ later :> "retry_long_delay"
             @@ nudge :> "send_nudge_english" @@ halt :> "stop"

Symmetric == Permutations({c1, c2}) \cup Permutations({s1, s2})
=============================================================================
