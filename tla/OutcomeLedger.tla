--------------------------- MODULE OutcomeLedger ---------------------------
(***************************************************************************)
(* What the Observe step promises whoever learns from it                   *)
(* (docs/PHASE_07_observe.md, 97 and 101): an action gets at most one      *)
(* outcome, the first one stands, and its audit row is written at most     *)
(* once and says the same.                                                 *)
(***************************************************************************)
EXTENDS Sequences

CONSTANTS Actions, Results, Unknown

VARIABLES
  results,  \* the outcome of each action, Unknown while it has none
  audit     \* the audit rows of each action's outcome, oldest first

Init ==
  /\ results = [a \in Actions |-> Unknown]
  /\ audit = [a \in Actions |-> <<>>]

Record(a) ==
  /\ results[a] = Unknown
  /\ \E r \in Results : results' = [results EXCEPT ![a] = r]
  /\ UNCHANGED audit

WriteAudit(a) ==
  /\ results[a] # Unknown /\ audit[a] = <<>>
  /\ audit' = [audit EXCEPT ![a] = <<results[a]>>]
  /\ UNCHANGED results

Next == \E a \in Actions : Record(a) \/ WriteAudit(a)

Spec == Init /\ [][Next]_<<results, audit>>
=============================================================================
