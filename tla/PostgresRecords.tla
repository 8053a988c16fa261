-------------------------- MODULE PostgresRecords --------------------------
(***************************************************************************)
(* The transactions that meet in Postgres: API requests that report        *)
(* failures (EventIntake), batch runs that create their merchant and write *)
(* audit rows in one transaction (run_batch), everyone else who writes     *)
(* audit rows, and those who page through them (AuditTrail).               *)
(***************************************************************************)
EXTENDS EventIntake, AuditTrail

CONSTANTS
  Runs,         \* batch runs, each a writer of the audit log
  MerchantFor,  \* the merchant each runs for
  Traffic       \* bound: which clients, writers and readers may be about at once

ASSUME RecordsAssumption ==
  /\ Runs \subseteq Writers /\ MerchantFor \in [Runs -> Merchants]
  /\ Traffic \subseteq SUBSET (Requests \cup Writers \cup Readers)

VARIABLES
  run,       \* "inserted": its transaction holds its merchant's row
  present    \* who is about; never changes

vars == <<intakeVars, trailVars, run, present>>

Init ==
  /\ IntakeInit /\ TrailInit
  /\ run = [b \in Runs |-> "idle"]
  /\ present \in Traffic

Go(b, at) == run' = [run EXCEPT ![b] = at]

BeginRun(b) ==
  /\ b \in present /\ run[b] = "idle"
  /\ \/ /\ MerchantFor[b] \in committed
        /\ Go(b, "open") /\ UNCHANGED intakeVars
     \/ Go(b, "inserted") /\ Reserve(MerchantFor[b])
  /\ UNCHANGED <<trailVars, present>>

(* The end of its transaction: a commit makes its merchant and its audit   *)
(* rows visible at once, a rollback neither.                               *)
End(b, row) ==
  /\ run[b] \in {"open", "inserted"}
  /\ IF run[b] = "inserted" THEN Release(MerchantFor[b], row) ELSE UNCHANGED intakeVars
  /\ Go(b, "over") /\ UNCHANGED present
CommitRun(b) == End(b, {MerchantFor[b]}) /\ Write(b)
AbortRun(b) == End(b, {}) /\ UNCHANGED trailVars

(* Requests share no row with the readers and the other writers.           *)
Handle(r) == r \in present /\ Step(r) /\ UNCHANGED <<trailVars, run, present>>
Disturb(r) == r \in present /\ Environment(r) /\ UNCHANGED <<trailVars, run, present>>
Audit(w) ==
  w \in present \ Runs /\ Write(w) /\ UNCHANGED <<intakeVars, run, present>>
Read(d) == d \in present /\ Reading(d) /\ UNCHANGED <<intakeVars, run, present>>

Next ==
  \/ \E r \in Requests : Handle(r) \/ Disturb(r)
  \/ \E b \in Runs : BeginRun(b) \/ CommitRun(b) \/ AbortRun(b)
  \/ \E w \in Writers : Audit(w)
  \/ \E d \in Readers : Read(d)

(* A request that was received, and a batch run that has begun, are        *)
(* threads the scheduler runs; an insert that waits is woken when the      *)
(* transaction it waits for is over, and later comers do not overtake it   *)
(* for ever.  Nobody has to post, run or read anything.                    *)
Fairness ==
  /\ \A r \in Requests : SF_vars(Handle(r))
  /\ \A b \in Runs : WF_vars(CommitRun(b) \/ AbortRun(b))
Spec == Init /\ [][Next]_vars /\ Fairness

(* Every variable stays in its type, and a run that has inserted its       *)
(* merchant holds the reservation of it.                                   *)
TypeOK ==
  /\ IntakeTypeOK /\ TrailTypeOK
  /\ run \in [Runs -> {"idle", "open", "inserted", "over"}] /\ present \in Traffic
  /\ \A b \in Runs : run[b] = "inserted" => MerchantFor[b] \in reserved
=============================================================================
