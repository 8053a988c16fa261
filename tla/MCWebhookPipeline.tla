------------------------- MODULE MCWebhookPipeline -------------------------
(***************************************************************************)
(* Instances of WebhookPipeline for TLC.                                   *)
(***************************************************************************)
EXTENDS WebhookPipeline, TLC

CONSTANTS a1, a2, api1, api2, poll1, poll2

Symmetric == Permutations({api1, api2}) \cup Permutations({poll1, poll2})
               \cup Permutations(Actions)
=============================================================================
