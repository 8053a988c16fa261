-------------------------- MODULE MCComplianceGate --------------------------
(***************************************************************************)
(* Instances of ComplianceGate for TLC.                                    *)
(***************************************************************************)
EXTENDS ComplianceGate

CONSTANTS e1, p1, p2, c1, s1, s2

OneEpisode == [x \in Promises \cup Checks |-> e1]
=============================================================================
