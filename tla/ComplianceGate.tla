--------------------------- MODULE ComplianceGate ---------------------------
(***************************************************************************)
(* services/gate and the daily check_promise_to_pay_deadlines task.  An    *)
(* evaluation reads the opt-outs, then a promise of the episode, then what *)
(* it was given, and records its verdict; meanwhile customers opt out and  *)
(* promise, days pass, and workers settle the promises that are overdue.   *)
(*                                                                         *)
(* Nothing in src/ inserts opt-outs or promises, recovers an episode or    *)
(* calls evaluate_gate; those who do are the environment.  Rows are read   *)
(* as committed, one query at a time.                                      *)
(***************************************************************************)
EXTENDS Integers

CONSTANTS
  Episodes,
  Promises,    \* rows of promises_to_pay
  Checks,      \* evaluations, each with a decision of its own
  Settlers,    \* workers that run the task; runs may overlap
  EpisodeOf,   \* the episode of each promise and each evaluation
  Horizon,     \* bound: the last day
  MaxFailures  \* bound: runs of the task that fail for reasons of their own

ASSUME GateAssumption ==
  /\ EpisodeOf \in [Promises \cup Checks -> Episodes]
  /\ Horizon \in Nat /\ MaxFailures \in Nat

VARIABLES
  today,
  optedOut,    \* episodes whose customer has opted out
  recovered,   \* episodes with status "recovered"
  promises,
  gateChecks,  \* the verdict recorded for each evaluation
  check,       \* the evaluations
  settler,     \* the runs of the task
  failures     \* how many of them have failed so far

rows == <<today, optedOut, recovered, promises>>
vars == <<rows, gateChecks, check, settler, failures>>

Days == 0..Horizon
Grace == 1
OperationalRules ==
  {"max_attempts_exceeded", "cool_off_active", "outside_communication_window",
   "escalated_low_confidence_high_stakes"}
Verdicts == OperationalRules \cup
  {"passed", "customer_opted_out", "active_promise_to_pay"}

Promise == [due : Days, status : {"absent", "active", "kept", "broken"}]

(* day: the "now" of the evaluation.  History: barred, whether the         *)
(* customer had opted out when it began, and live, the promises that were  *)
(* in force then.                                                          *)
Check == [at : {"idle", "opt_out", "promise", "episode", "record", "returned", "raised"},
          day : Days, verdict : Verdicts \cup {"none"},
          barred : BOOLEAN, live : SUBSET Promises]
Settler == [at : {"idle", "reading"}, unread : SUBSET Promises,
            kept : SUBSET Promises, broken : SUBSET Promises]
IdleSettler == [at |-> "idle", unread |-> {}, kept |-> {}, broken |-> {}]
Run(overdue) == [at |-> "reading", unread |-> overdue, kept |-> {}, broken |-> {}]

Active(e) == {p \in Promises : EpisodeOf[p] = e /\ promises[p].status = "active"}
InForce(p, day) == day <= promises[p].due + Grace

Init ==
  /\ today = 0 /\ optedOut = {} /\ recovered = {}
  /\ promises = [p \in Promises |-> [due |-> 0, status |-> "absent"]]
  /\ gateChecks = [c \in Checks |-> "none"]
  /\ check = [c \in Checks |-> [at |-> "idle", day |-> 0, verdict |-> "none",
                                barred |-> FALSE, live |-> {}]]
  /\ settler = [s \in Settlers |-> IdleSettler]
  /\ failures = 0

(***************************************************************************)
(* evaluate_gate                                                           *)
(***************************************************************************)
BeginAt(c, at) ==
  /\ check[c].at = "idle"
  /\ check' = [check EXCEPT ![c] =
       [at |-> at, day |-> today, verdict |-> "none",
        barred |-> EpisodeOf[c] \in optedOut,
        live |-> {p \in Active(EpisodeOf[c]) : InForce(p, today)}]]
  /\ UNCHANGED <<rows, gateChecks, settler, failures>>
(* Mutation: the opt-out comes later in the chain, where a promise or an   *)
(* operational rule may answer first.                                      *)
Begin_OptOutSkipped(c) == BeginAt(c, "promise")
Begin(c) == BeginAt(c, "opt_out")

Conclude(c, verdict) ==
  check' = [check EXCEPT ![c].at = "record", ![c].verdict = verdict]
GoOn(c, at) == check' = [check EXCEPT ![c].at = at]

CheckOptOut(c) ==
  /\ check[c].at = "opt_out"
  /\ IF EpisodeOf[c] \in optedOut THEN Conclude(c, "customer_opted_out")
                                  ELSE GoOn(c, "promise")
  /\ UNCHANGED <<rows, gateChecks, settler, failures>>

(* Mutations: an expired promise gets a verdict of its own; the day of     *)
(* grace is forgotten.                                                     *)
CheckPromise_Expired(c) ==
  /\ check[c].at = "promise"
  /\ \/ Active(EpisodeOf[c]) = {} /\ GoOn(c, "episode")
     \/ \E p \in Active(EpisodeOf[c]) :
          Conclude(c, IF InForce(p, check[c].day) THEN "active_promise_to_pay"
                                                  ELSE "promise_expired")
  /\ UNCHANGED <<rows, gateChecks, settler, failures>>
CheckPromise_NoGrace(c) ==
  /\ check[c].at = "promise"
  /\ \/ Active(EpisodeOf[c]) = {} /\ GoOn(c, "episode")
     \/ \E p \in Active(EpisodeOf[c]) :
          IF check[c].day <= promises[p].due
          THEN Conclude(c, "active_promise_to_pay") ELSE GoOn(c, "episode")
  /\ UNCHANGED <<rows, gateChecks, settler, failures>>
(* get_active_promise returns the first row of an unordered query.         *)
CheckPromise(c) ==
  /\ check[c].at = "promise"
  /\ \/ Active(EpisodeOf[c]) = {} /\ GoOn(c, "episode")
     \/ \E p \in Active(EpisodeOf[c]) :
          IF InForce(p, check[c].day)
          THEN Conclude(c, "active_promise_to_pay") ELSE GoOn(c, "episode")
  /\ UNCHANGED <<rows, gateChecks, settler, failures>>

(* The rules about what the evaluation was given - attempts, the last      *)
(* action, the hour and the choice - depend on nothing else that changes.  *)
(* The first that blocks gives the verdict.                                *)
CheckEpisode(c) ==
  /\ check[c].at = "episode"
  /\ \E verdict \in OperationalRules \cup {"passed"} : Conclude(c, verdict)
  /\ UNCHANGED <<rows, gateChecks, settler, failures>>

(* utcnow() has no zone, the column last_action_at does: without a "now"   *)
(* from the caller, an episode that was acted on raises a TypeError.       *)
CoolOffRaises(c) ==
  /\ check[c].at = "episode"
  /\ GoOn(c, "raised")
  /\ UNCHANGED <<rows, gateChecks, settler, failures>>

RecordGateCheck(c) ==
  /\ check[c].at = "record"
  /\ gateChecks' = [gateChecks EXCEPT ![c] = check[c].verdict]
  /\ GoOn(c, "returned")
  /\ UNCHANGED <<rows, settler, failures>>

(* A database error or the end of the process.                             *)
AbandonCheck(c) ==
  /\ check[c].at \in {"opt_out", "promise", "record"}
  /\ GoOn(c, "raised")
  /\ UNCHANGED <<rows, gateChecks, settler, failures>>

(***************************************************************************)
(* check_promise_to_pay_deadlines                                          *)
(***************************************************************************)
Overdue == {p \in Promises : /\ promises[p].status = "active"
                             /\ promises[p].due < today - Grace}

(* Mutation: the task does not wait out the grace.                         *)
StartSettling_NoGrace(s) ==
  /\ settler[s].at = "idle"
  /\ settler' = [settler EXCEPT ![s] = Run({p \in Promises :
       promises[p].status = "active" /\ promises[p].due < today})]
  /\ UNCHANGED <<rows, gateChecks, check, failures>>
StartSettling(s) ==
  /\ settler[s].at = "idle"
  /\ settler' = [settler EXCEPT ![s] = Run(Overdue)]
  /\ UNCHANGED <<rows, gateChecks, check, failures>>

ReadEpisode(s, p) ==
  /\ settler[s].at = "reading" /\ p \in settler[s].unread
  /\ settler' = [settler EXCEPT ![s].unread = @ \ {p},
       ![s].kept   = IF EpisodeOf[p] \in recovered THEN @ \cup {p} ELSE @,
       ![s].broken = IF EpisodeOf[p] \in recovered THEN @ ELSE @ \cup {p}]
  /\ UNCHANGED <<rows, gateChecks, check, failures>>

Close(s) == settler' = [settler EXCEPT ![s] = IdleSettler]

(* Mutation: the session is closed without a commit.                       *)
CommitSettling_NoCommit(s) ==
  /\ settler[s].at = "reading" /\ settler[s].unread = {} /\ settler[s].broken = {}
  /\ Close(s)
  /\ UNCHANGED <<rows, gateChecks, check, failures>>
(* One transaction for all promises.                                       *)
CommitSettling(s) ==
  /\ settler[s].at = "reading" /\ settler[s].unread = {} /\ settler[s].broken = {}
  /\ promises' = [p \in Promises |-> IF p \in settler[s].kept
                  THEN [promises[p] EXCEPT !.status = "kept"] ELSE promises[p]]
  /\ Close(s)
  /\ UNCHANGED <<today, optedOut, recovered, gateChecks, check, failures>>

(* A broken promise adds an audit row that has no event_id, which the      *)
(* table requires: the flush fails, and all is rolled back.                *)
RollBack(s) ==
  /\ settler[s].at = "reading" /\ settler[s].unread = {} /\ settler[s].broken # {}
  /\ Close(s)
  /\ UNCHANGED <<rows, gateChecks, check, failures>>

(* Any other exception, or the end of the process.                         *)
AbandonSettling(s) ==
  /\ settler[s].at = "reading"
  /\ failures < MaxFailures /\ failures' = failures + 1
  /\ Close(s)
  /\ UNCHANGED <<rows, gateChecks, check>>

(***************************************************************************)
(* The environment                                                         *)
(***************************************************************************)
NextDay ==
  /\ today < Horizon /\ today' = today + 1
  /\ UNCHANGED <<optedOut, recovered, promises, gateChecks, check, settler, failures>>
OptOut(e) ==
  /\ optedOut' = optedOut \cup {e}
  /\ UNCHANGED <<today, recovered, promises, gateChecks, check, settler, failures>>
Recover(e) ==
  /\ recovered' = recovered \cup {e}
  /\ UNCHANGED <<today, optedOut, promises, gateChecks, check, settler, failures>>
(* A customer may make a second promise before the first is settled.       *)
MakePromise(p) ==
  /\ promises[p].status = "absent"
  /\ \E due \in today..Horizon :
       promises' = [promises EXCEPT ![p] = [due |-> due, status |-> "active"]]
  /\ UNCHANGED <<today, optedOut, recovered, gateChecks, check, settler, failures>>

Settling(s) == \/ StartSettling(s) \/ CommitSettling(s) \/ RollBack(s)
               \/ \E p \in Promises : ReadEpisode(s, p)

Next ==
  \/ \E c \in Checks : \/ Begin(c) \/ CheckOptOut(c) \/ CheckPromise(c) \/ CheckEpisode(c)
                       \/ CoolOffRaises(c) \/ RecordGateCheck(c) \/ AbandonCheck(c)
  \/ \E s \in Settlers : Settling(s) \/ AbandonSettling(s)
  \/ NextDay
  \/ \E e \in Episodes : OptOut(e) \/ Recover(e)
  \/ \E p \in Promises : MakePromise(p)

(* Beat starts the task every day, and a run goes on; beyond a broken      *)
(* promise, only finitely many fail.                                       *)
Fairness == \A s \in Settlers : WF_vars(Settling(s))
Spec == Init /\ [][Next]_vars /\ Fairness

(***************************************************************************)
(* Properties                                                              *)
(***************************************************************************)
TypeOK ==
  /\ today \in Days /\ optedOut \subseteq Episodes /\ recovered \subseteq Episodes
  /\ promises \in [Promises -> Promise]
  /\ gateChecks \in [Checks -> Verdicts \cup {"none"}]
  /\ check \in [Checks -> Check]
  /\ settler \in [Settlers -> Settler] /\ failures \in 0..MaxFailures

(* test_adversarial.py, rules.py: a customer who opted out before the      *)
(* evaluation began is reported as opted out, whatever else would block.   *)
OptOutFirst ==
  \A c \in Checks : check[c].barred => gateChecks[c] \in {"none", "customer_opted_out"}

(* A promise in force when the evaluation began, and not settled since,    *)
(* suppresses the action - unless an overdue promise of the same episode   *)
(* is in its way, which the task failed to settle.                         *)
PromiseSuppresses ==
  \A c \in Checks : gateChecks[c] \in OperationalRules \cup {"passed"} =>
    \A p \in check[c].live : promises[p].status = "active" =>
      \E q \in Promises : /\ EpisodeOf[q] = EpisodeOf[c]
                          /\ promises[q].status # "absent"
                          /\ ~InForce(q, check[c].day)

(* A promise is booked as kept after its grace only, and never while the   *)
(* gate may still rely on it; its episode was recovered.                   *)
KeptWhenOver ==
  \A p \in Promises : promises[p].status = "kept" =>
    EpisodeOf[p] \in recovered /\ ~InForce(p, today)

(* Once nothing is overdue but promises that were kept, they are settled:  *)
(* overlapping and failing runs of the task do not lose them.              *)
KeptIsSettled ==
  <>[](\A p \in Overdue : EpisodeOf[p] \in recovered) => <>[](Overdue = {})
=============================================================================
