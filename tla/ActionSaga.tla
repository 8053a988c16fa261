----------------------------- MODULE ActionSaga -----------------------------
(***************************************************************************)
(* The Act step of ResiliencePay: services/act/service.py execute_action,  *)
(* the retrying Razorpay client it calls, and the Celery beat task         *)
(* reconcile_pending_actions that repairs what a dead worker left behind.  *)
(*                                                                         *)
(* A `call' is one delivery of a decision to execute_action; a decision    *)
(* may be delivered several times (Celery redelivers with acks_late) and   *)
(* deliveries overlap.  A `sweep' is one worker running the reconciliation *)
(* task, again and again.  Each action below is one commit, one Redis or   *)
(* broker call, or one answer (or missing answer) of Razorpay; calls and   *)
(* sweeps interleave between them and may die between any two.             *)
(***************************************************************************)
EXTENDS Integers, Sequences, FiniteSets

CONSTANTS
  Decisions,      \* decisions handed to execute_action
  ArmOf,          \* the chosen_arm of each decision
  Recorded,       \* decisions the sweep finds a row for; on the SQLite that
                  \* database.py falls back to, no foreign key asks for one
  Calls,          \* deliveries to execute_action
  Sweeps,         \* workers that run reconcile_pending_actions
  MaxRetries,     \* RazorpayClient.max_retries
  Window,         \* page size of payment_link.all (100 in the code)
  MaxOtherLinks,  \* bound: links of other merchants' traffic in the account
  CallsMayHang    \* may a Razorpay call outlast STUCK_THRESHOLD?

RealMoneyArms == {"retry_immediate"}
DelayedArms   == {"retry_short_delay", "retry_long_delay"}
NudgeArms     == {"send_card_update_link", "send_nudge_hinglish",
                  "send_nudge_english"}
NoOpArms      == {"escalate_human", "stop"}
Arms          == RealMoneyArms \cup DelayedArms \cup NudgeArms \cup NoOpArms

None == 0                  \* a NULL razorpay_ref_id; links are 1, 2, ...
NoDecision == "no decision"
OtherTraffic == "other traffic"
NoCall == "no call"

ASSUME SagaAssumption ==
  /\ ArmOf \in [Decisions -> Arms]
  /\ Recorded \subseteq Decisions
  /\ Calls \cap Sweeps = {}
  /\ NoCall \notin Calls
  /\ {NoDecision, OtherTraffic} \cap Decisions = {}
  /\ MaxRetries \in Nat \ {0}
  /\ Window \in Nat \ {0}
  /\ MaxOtherLinks \in Nat
  /\ CallsMayHang \in BOOLEAN

VARIABLES
  pending,      \* pending_actions: the row of each decision (unique key)
  overdue,      \* decisions whose row is older than STUCK_THRESHOLD
  actions,      \* rows of actions, told apart by the process that added them
  deadLetters,  \* rows of dead_lettered_actions
  audit,        \* rows of audit_log written by this step
  links,        \* Razorpay's payment links, oldest first
  scheduled,    \* execute_delayed_action tasks in the broker
  calls,        \* what each delivery is doing
  sweeps        \* what each sweep is doing

dbVars == <<pending, actions, deadLetters, audit>>
vars == <<pending, overdue, actions, deadLetters, audit, links, scheduled,
          calls, sweeps>>

PendingStatus == {"absent", "attempting", "confirmed", "failed",
                  "reconciled", "dead_lettered"}
ActionStatus == {"executed", "failed", "scheduled", "deferred_circuit_open"}
CallPC == {"idle", "dispatch", "deferring", "calling", "created", "giving_up",
           "failing", "inserting", "done"}
Refs == 0 .. Len(links)

(* What a call carries: its decision, the Razorpay attempts it has made,   *)
(* and the status and reference of the Action row it is about to insert.   *)
CallState == [pc : CallPC, decision : Decisions \cup {NoDecision},
              tries : 0 .. MaxRetries, ref : Nat,
              status : ActionStatus]
SweepState == [pc : {"idle", "scanning", "resolving"},
               todo : SUBSET Decisions,
               current : Decisions \cup {NoDecision}, found : Nat]

TypeOK ==
  /\ pending \in [Decisions -> [status : PendingStatus, ref : Nat,
                                by : Calls \cup {NoCall}]]
  /\ overdue \subseteq Decisions
  /\ actions \subseteq [by : Calls \cup Sweeps, decision : Decisions,
                        status : ActionStatus, ref : Nat]
  /\ deadLetters \subseteq Sweeps \X Decisions
  /\ audit \subseteq [by : Calls, decision : Decisions,
                      kind : {"note", "error"}]
  /\ links \in Seq([key : Decisions \cup {OtherTraffic},
                    by : Calls \cup {NoCall}])
  /\ scheduled \subseteq Calls \X Decisions
  /\ calls \in [Calls -> CallState]
  /\ sweeps \in [Sweeps -> SweepState]

IdleCall == [pc |-> "idle", decision |-> NoDecision, tries |-> 0,
             ref |-> None, status |-> "executed"]
IdleSweep == [pc |-> "idle", todo |-> {}, current |-> NoDecision,
              found |-> None]

Init ==
  /\ pending = [d \in Decisions |->
                  [status |-> "absent", ref |-> None, by |-> NoCall]]
  /\ overdue = {}
  /\ actions = {}
  /\ deadLetters = {}
  /\ audit = {}
  /\ links = <<>>
  /\ scheduled = {}
  /\ calls = [c \in Calls |-> IdleCall]
  /\ sweeps = [s \in Sweeps |-> IdleSweep]

-----------------------------------------------------------------------------
(* execute_action: entry and dispatch.                                     *)

Handled == {"executed", "failed", "scheduled", "blocked_at_execution"}
RowsOf(d) == {a \in actions : a.decision = d}

Goto(c, pc) == calls' = [calls EXCEPT ![c].pc = pc]

(* The call goes on to insert an Action row of this status and reference.  *)
GotoInsert(c, st, ref) ==
  calls' = [calls EXCEPT ![c].pc = "inserting", ![c].status = st,
                         ![c].ref = ref]

(* The query for an existing row has no ORDER BY: .first() is any row.     *)
ReturnExisting(c, d) ==
  /\ calls[c].pc = "idle"
  /\ \E a \in RowsOf(d) : a.status \in Handled
  /\ calls' = [calls EXCEPT ![c].pc = "done", ![c].decision = d]
  /\ UNCHANGED <<dbVars, overdue, links, scheduled, sweeps>>

Enter(c, d) ==
  /\ calls[c].pc = "idle"
  /\ RowsOf(d) = {} \/ \E a \in RowsOf(d) : a.status \notin Handled
  /\ calls' = [calls EXCEPT ![c].pc = "dispatch", ![c].decision = d]
  /\ UNCHANGED <<dbVars, overdue, links, scheduled, sweeps>>

AtDispatch(c, arms) ==
  calls[c].pc = "dispatch" /\ ArmOf[calls[c].decision] \in arms

(* The breaker refuses: the delayed task is published first ...            *)
PublishDeferral(c) ==
  /\ AtDispatch(c, RealMoneyArms)
  /\ scheduled' = scheduled \cup {<<c, calls[c].decision>>}
  /\ Goto(c, "deferring")
  /\ UNCHANGED <<dbVars, overdue, links, sweeps>>

Audit(c, kind) ==
  audit' = audit \cup
    {[by |-> c, decision |-> calls[c].decision, kind |-> kind]}

(* ... and write_note commits before the Action row is added.              *)
NoteDeferral(c) ==
  /\ calls[c].pc = "deferring"
  /\ Audit(c, "note")
  /\ GotoInsert(c, "deferred_circuit_open", None)
  /\ UNCHANGED <<pending, overdue, actions, deadLetters, links, scheduled,
                 sweeps>>

(* Mutation: the key is not unique, a second delivery overwrites the row.  *)
RecordIntent_NoUniqueKey(c) ==
  LET d == calls[c].decision IN
  /\ AtDispatch(c, RealMoneyArms)
  /\ pending' = [pending EXCEPT ![d] =
                   [status |-> "attempting", ref |-> None, by |-> c]]
  /\ Goto(c, "calling")
  /\ UNCHANGED <<overdue, actions, deadLetters, audit, links, scheduled,
                 sweeps>>

(* The breaker allows it: the intent is committed before Razorpay is asked. *)
RecordIntent(c) ==
  LET d == calls[c].decision IN
  /\ AtDispatch(c, RealMoneyArms)
  /\ pending[d].status = "absent"
  /\ pending' = [pending EXCEPT ![d] =
                   [status |-> "attempting", ref |-> None, by |-> c]]
  /\ Goto(c, "calling")
  /\ UNCHANGED <<overdue, actions, deadLetters, audit, links, scheduled,
                 sweeps>>

(* The unique idempotency_key: the IntegrityError leaves execute_action.   *)
IntentRejected(c) ==
  /\ AtDispatch(c, RealMoneyArms)
  /\ pending[calls[c].decision].status # "absent"
  /\ Goto(c, "done")
  /\ UNCHANGED <<dbVars, overdue, links, scheduled, sweeps>>

PublishDelayed(c) ==
  /\ AtDispatch(c, DelayedArms)
  /\ scheduled' = scheduled \cup {<<c, calls[c].decision>>}
  /\ GotoInsert(c, "scheduled", None)
  /\ UNCHANGED <<dbVars, overdue, links, sweeps>>

(* A nudge is simulated; write_note commits only for the template fallback. *)
GenerateNudge(c) ==
  /\ AtDispatch(c, NudgeArms)
  /\ Audit(c, "note") \/ UNCHANGED audit
  /\ GotoInsert(c, "executed", None)
  /\ UNCHANGED <<pending, overdue, actions, deadLetters, links, scheduled,
                 sweeps>>

NoOp(c) ==
  /\ AtDispatch(c, NoOpArms)
  /\ GotoInsert(c, "executed", None)
  /\ UNCHANGED <<dbVars, overdue, links, scheduled, sweeps>>

(* The last commit of every path.                                          *)
InsertAction(c) ==
  /\ calls[c].pc = "inserting"
  /\ actions' = actions \cup
       {[by |-> c, decision |-> calls[c].decision,
         status |-> calls[c].status, ref |-> calls[c].ref]}
  /\ Goto(c, "done")
  /\ UNCHANGED <<pending, overdue, deadLetters, audit, links, scheduled,
                 sweeps>>

-----------------------------------------------------------------------------
(* RazorpayClient._call_with_retry around payment_link.create.  Razorpay   *)
(* does not look at the idempotency key: every request that reaches it     *)
(* makes a link, whether or not the answer comes back.                     *)

NewLink(c) == [key |-> calls[c].decision, by |-> c]

LinkCreated(c) ==
  /\ calls[c].pc = "calling"
  /\ links' = Append(links, NewLink(c))
  /\ calls' = [calls EXCEPT ![c].pc = "created", ![c].ref = Len(links) + 1]
  /\ UNCHANGED <<dbVars, overdue, scheduled, sweeps>>

(* Mutation: range(1, max_retries + 2).                                    *)
CountTry_OneMore(c) ==
  calls' = [calls EXCEPT
              ![c].tries = @ + 1,
              ![c].pc = IF calls[c].tries = MaxRetries
                          THEN "giving_up" ELSE "calling"]

(* One more transient failure: try again, or raise when none are left.     *)
CountTry(c) ==
  calls' = [calls EXCEPT
              ![c].tries = @ + 1,
              ![c].pc = IF calls[c].tries + 1 = MaxRetries
                          THEN "giving_up" ELSE "calling"]

RequestLost(c) ==
  /\ calls[c].pc = "calling"
  /\ CountTry(c)
  /\ UNCHANGED <<dbVars, overdue, links, scheduled, sweeps>>

ResponseLost(c) ==
  /\ calls[c].pc = "calling"
  /\ links' = Append(links, NewLink(c))
  /\ CountTry(c)
  /\ UNCHANGED <<dbVars, overdue, scheduled, sweeps>>

(* BadRequestError: permanent, at once.                                    *)
Refused(c) ==
  /\ calls[c].pc = "calling"
  /\ Goto(c, "giving_up")
  /\ UNCHANGED <<dbVars, overdue, links, scheduled, sweeps>>

(* Mutation: a confirmation waits for the row to be 'attempting' again.    *)
ConfirmIntent_Waits(c) ==
  /\ calls[c].pc = "created"
  /\ pending[calls[c].decision].status = "attempting"
  /\ pending' = [pending EXCEPT ![calls[c].decision].status = "confirmed",
                                ![calls[c].decision].ref = calls[c].ref]
  /\ GotoInsert(c, "executed", calls[c].ref)
  /\ UNCHANGED <<overdue, actions, deadLetters, audit, links, scheduled,
                 sweeps>>

(* Both outcomes write the row by primary key, whatever it says by then.   *)
ConfirmIntent(c) ==
  /\ calls[c].pc = "created"
  /\ pending' = [pending EXCEPT ![calls[c].decision].status = "confirmed",
                                ![calls[c].decision].ref = calls[c].ref]
  /\ GotoInsert(c, "executed", calls[c].ref)
  /\ UNCHANGED <<overdue, actions, deadLetters, audit, links, scheduled,
                 sweeps>>

(* Mutations: the row is put back for another try; the audit row is        *)
(* skipped; the commit is forgotten.                                       *)
FailIntent_Reopen(c) ==
  /\ calls[c].pc = "giving_up"
  /\ pending' = [pending EXCEPT ![calls[c].decision].status = "attempting"]
  /\ Goto(c, "failing")
  /\ UNCHANGED <<overdue, actions, deadLetters, audit, links, scheduled,
                 sweeps>>
FailIntent_NoAudit(c) ==
  /\ calls[c].pc = "giving_up"
  /\ pending' = [pending EXCEPT ![calls[c].decision].status = "failed"]
  /\ GotoInsert(c, "failed", None)
  /\ UNCHANGED <<overdue, actions, deadLetters, audit, links, scheduled,
                 sweeps>>
FailIntent_NoCommit(c) ==
  /\ calls[c].pc = "giving_up"
  /\ Goto(c, "failing")
  /\ UNCHANGED <<dbVars, overdue, links, scheduled, sweeps>>

FailIntent(c) ==
  /\ calls[c].pc = "giving_up"
  /\ pending' = [pending EXCEPT ![calls[c].decision].status = "failed"]
  /\ Goto(c, "failing")
  /\ UNCHANGED <<overdue, actions, deadLetters, audit, links, scheduled,
                 sweeps>>

WriteError(c) ==
  /\ calls[c].pc = "failing"
  /\ Audit(c, "error")
  /\ GotoInsert(c, "failed", None)
  /\ UNCHANGED <<pending, overdue, actions, deadLetters, links, scheduled,
                 sweeps>>

(* The worker dies, or an exception execute_action does not catch leaves   *)
(* it (Redis down in record_result, no event attached to the decision).    *)
Abandon(c) ==
  /\ calls[c].pc \notin {"idle", "done"}
  /\ Goto(c, "done")
  /\ UNCHANGED <<dbVars, overdue, links, scheduled, sweeps>>

-----------------------------------------------------------------------------
(* reconcile_pending_actions.                                              *)

InFlight(d) == \E c \in Calls : /\ calls[c].decision = d
                                /\ calls[c].pc \in {"calling", "created",
                                                    "giving_up"}

(* created_at falls behind now() - STUCK_THRESHOLD.                        *)
PassThreshold(d) ==
  /\ pending[d].status = "attempting" /\ d \notin overdue
  /\ InFlight(d) => CallsMayHang
  /\ overdue' = overdue \cup {d}
  /\ UNCHANGED <<dbVars, links, scheduled, calls, sweeps>>

Stuck == {d \in overdue : pending[d].status = "attempting"}

StartSweep(s) ==
  /\ sweeps[s].pc = "idle"
  /\ sweeps' = [sweeps EXCEPT ![s].pc = "scanning", ![s].todo = Stuck]
  /\ UNCHANGED <<dbVars, overdue, links, scheduled, calls>>

(* Mutations: notes are not compared; the page is one link short.          *)
Matches_AnyKey(d) == {i \in 1 .. Len(links) : i > Len(links) - Window}
Matches_ShortPage(d) == {i \in 1 .. Len(links) :
                           /\ links[i].key = d
                           /\ i > Len(links) - Window + 1}

(* The newest Window links, newest first: the first with this key, if any. *)
Matches(d) == {i \in 1 .. Len(links) : /\ links[i].key = d
                                       /\ i > Len(links) - Window}
FoundLink(d, i) ==
  \/ i \in Matches(d) /\ \A j \in Matches(d) : j <= i
  \/ i = None /\ Matches(d) = {}

SearchAnswered(s, d) ==
  /\ sweeps[s].pc = "scanning" /\ d \in sweeps[s].todo
  /\ \E i \in Refs :
       /\ FoundLink(d, i)
       /\ sweeps' = [sweeps EXCEPT ![s].pc = "resolving",
                                   ![s].current = d, ![s].found = i]
  /\ UNCHANGED <<dbVars, overdue, links, scheduled, calls>>

(* The search raises: rollback, and on to the next row.                    *)
SearchFailed(s, d) ==
  /\ sweeps[s].pc = "scanning" /\ d \in sweeps[s].todo
  /\ sweeps' = [sweeps EXCEPT ![s].todo = @ \ {d}]
  /\ UNCHANGED <<dbVars, overdue, links, scheduled, calls>>

NextRow(s) ==
  sweeps' = [sweeps EXCEPT ![s].pc = "scanning", ![s].found = None,
                           ![s].todo = @ \ {sweeps[s].current},
                           ![s].current = NoDecision]

(* Mutation: without `if decision' the note of a missing decision raises.  *)
NoteAccepted_Unguarded(d) == d \notin Decisions

(* The note's audit row has no episode_id, because the queried Decision    *)
(* has no event attribute: a decision with a row loses its transaction.    *)
NoteAccepted(d) == d \notin Recorded

Reconcile(s) ==
  LET d == sweeps[s].current IN
  /\ sweeps[s].pc = "resolving" /\ sweeps[s].found # None /\ NoteAccepted(d)
  /\ pending' = [pending EXCEPT ![d].status = "reconciled",
                                ![d].ref = sweeps[s].found]
  /\ actions' = actions \cup
       {[by |-> s, decision |-> d, status |-> "executed",
         ref |-> sweeps[s].found]}
  /\ NextRow(s)
  /\ UNCHANGED <<overdue, deadLetters, audit, links, scheduled, calls>>

DeadLetter(s) ==
  LET d == sweeps[s].current IN
  /\ sweeps[s].pc = "resolving" /\ sweeps[s].found = None /\ NoteAccepted(d)
  /\ pending' = [pending EXCEPT ![d].status = "dead_lettered"]
  /\ deadLetters' = deadLetters \cup {<<s, d>>}
  /\ NextRow(s)
  /\ UNCHANGED <<overdue, actions, audit, links, scheduled, calls>>

NoteRejected(s) ==
  /\ sweeps[s].pc = "resolving" /\ ~NoteAccepted(sweeps[s].current)
  /\ NextRow(s)
  /\ UNCHANGED <<dbVars, overdue, links, scheduled, calls>>

FinishSweep(s) ==
  /\ sweeps[s].pc = "scanning" /\ sweeps[s].todo = {}
  /\ sweeps' = [sweeps EXCEPT ![s] = IdleSweep]
  /\ UNCHANGED <<dbVars, overdue, links, scheduled, calls>>

AbandonSweep(s) ==
  /\ sweeps[s].pc # "idle"
  /\ sweeps' = [sweeps EXCEPT ![s] = IdleSweep]
  /\ UNCHANGED <<dbVars, overdue, links, scheduled, calls>>

-----------------------------------------------------------------------------
(* execute_delayed_action: load_decision is a stub that returns None, so   *)
(* the task logs and returns; the message is gone.                         *)
DeliverDelayed(c, d) ==
  /\ <<c, d>> \in scheduled
  /\ scheduled' = scheduled \ {<<c, d>>}
  /\ UNCHANGED <<dbVars, overdue, links, calls, sweeps>>

(* Somebody else's link in the same Razorpay account.                      *)
OtherLinks == {i \in 1 .. Len(links) : links[i].key = OtherTraffic}
OtherLinkCreated ==
  /\ Cardinality(OtherLinks) < MaxOtherLinks
  /\ links' = Append(links, [key |-> OtherTraffic, by |-> NoCall])
  /\ UNCHANGED <<dbVars, overdue, scheduled, calls, sweeps>>

CallStep(c) ==
  \/ \E d \in Decisions : ReturnExisting(c, d) \/ Enter(c, d)
  \/ PublishDeferral(c) \/ NoteDeferral(c)
  \/ RecordIntent(c) \/ IntentRejected(c)
  \/ PublishDelayed(c) \/ GenerateNudge(c) \/ NoOp(c)
  \/ LinkCreated(c) \/ RequestLost(c) \/ ResponseLost(c) \/ Refused(c)
  \/ ConfirmIntent(c) \/ FailIntent(c) \/ WriteError(c) \/ InsertAction(c)

SweepStep(s) ==
  \/ StartSweep(s)
  \/ \E d \in Decisions : SearchAnswered(s, d) \/ SearchFailed(s, d)
  \/ Reconcile(s) \/ DeadLetter(s) \/ NoteRejected(s) \/ FinishSweep(s)

Next ==
  \/ \E c \in Calls : CallStep(c) \/ Abandon(c)
  \/ \E s \in Sweeps : SweepStep(s) \/ AbandonSweep(s)
  \/ \E d \in Decisions : PassThreshold(d)
  \/ \E c \in Calls, d \in Decisions : DeliverDelayed(c, d)
  \/ OtherLinkCreated

Spec == Init /\ [][Next]_vars

(* Celery beat keeps starting the task and a running task keeps going; a   *)
(* search that is tried again and again is answered again and again, and a *)
(* sweep is not killed every time at the same point.                       *)
Fairness ==
  /\ \A d \in Decisions : WF_vars(PassThreshold(d))
  /\ \A s \in Sweeps :
       /\ WF_vars(StartSweep(s)) /\ WF_vars(FinishSweep(s))
       /\ \A d \in Decisions : SF_vars(SearchAnswered(s, d))
       /\ \A d \in Decisions :
            SF_vars(/\ sweeps[s].current = d
                    /\ Reconcile(s) \/ DeadLetter(s) \/ NoteRejected(s))

(* A call that has started runs on unless its worker dies.                 *)
CallFairness == \A c \in Calls :
  /\ WF_vars(calls[c].pc # "idle" /\ CallStep(c))

FairSpec == Spec /\ Fairness /\ CallFairness

-----------------------------------------------------------------------------
(* Safety.                                                                 *)

LinkIds == 1 .. Len(links)
Owns(c, d) == pending[d].status # "absent" /\ pending[d].by = c

(* Every payment link made for a decision was made by the one call whose   *)
(* intent row is committed: a second delivery of the decision, however it  *)
(* interleaves with the first, never reaches Razorpay (service.py 40-93).  *)
SingleCreator ==
  \A i \in LinkIds :
    links[i].key \in Decisions =>
      /\ pending[links[i].key].status # "absent"
      /\ pending[links[i].key].by = links[i].by

(* A reference that a resolved intent or an executed real-money Action     *)
(* stores names a link Razorpay has, made for that very decision; whether  *)
(* the executor or the reconciliation task wrote it.                       *)
LinkFor(d, i) == i \in LinkIds /\ links[i].key = d
ReferencesAreReal ==
  /\ \A d \in Decisions :
       pending[d].status \in {"confirmed", "reconciled"} =>
         LinkFor(d, pending[d].ref)
  /\ \A a \in actions :
       (a.status = "executed" /\ ArmOf[a.decision] \in RealMoneyArms) =>
         LinkFor(a.decision, a.ref)

(* However often a decision is delivered, Razorpay holds at most           *)
(* max_retries links for it: the retries of one call, never of two.        *)
LinksOf(d) == {i \in LinkIds : links[i].key = d}
LinksBounded == \A d \in Decisions : Cardinality(LinksOf(d)) <= MaxRetries

(* An Action that failed or was deferred has its audit row, written by the *)
(* same call: a crash can lose the Action but not only the audit row.      *)
OutcomesAudited ==
  \A a \in actions :
    /\ a.status = "failed" =>
         [by |-> a.by, decision |-> a.decision, kind |-> "error"] \in audit
    /\ a.status = "deferred_circuit_open" =>
         [by |-> a.by, decision |-> a.decision, kind |-> "note"] \in audit

(* Of all deliveries of a real-money decision only one, the one that owns  *)
(* the intent, ever inserts an executed or failed Action (the key that     *)
(* makes a retried Celery task harmless); sweeps may insert others.        *)
OneDeliveryActs ==
  \A a \in actions :
    (/\ a.by \in Calls /\ ArmOf[a.decision] \in RealMoneyArms
     /\ a.status \in {"executed", "failed"}) =>
      Owns(a.by, a.decision)

(* An intent that was resolved is never open again: no delivery and no     *)
(* sweep puts a row back to 'attempting', so no link is asked for twice.   *)
IntentNeverReopened ==
  [][\A d \in Decisions :
       pending[d].status \notin {"absent", "attempting"} =>
         pending'[d].status \notin {"absent", "attempting"}]_vars

-----------------------------------------------------------------------------
(* Safety when no call outlasts STUCK_THRESHOLD (CallsMayHang = FALSE).    *)

(* The intent row and the Action rows of a real-money decision tell the    *)
(* same story, whichever of the executor and the sweeps wrote them.        *)
LedgersAgree ==
  \A a \in actions :
    ArmOf[a.decision] \in RealMoneyArms =>
      /\ a.status = "executed" =>
           /\ pending[a.decision].status \in {"confirmed", "reconciled"}
           /\ pending[a.decision].ref = a.ref
      /\ a.status = "failed" => pending[a.decision].status = "failed"

(* A dead-lettered intent really has no link, as long as the account's     *)
(* other traffic has not pushed the link off the page that is searched.    *)
DeadLetterIsTruthful ==
  \A d \in Decisions :
    pending[d].status = "dead_lettered" =>
      \A i \in LinkIds : links[i].key # d

(* A resolved intent keeps its status and its reference: the executor and  *)
(* overlapping sweeps never overwrite each other's verdict.                *)
IntentSettles ==
  [][\A d \in Decisions :
       pending[d].status \notin {"absent", "attempting"} =>
         pending'[d] = pending[d]]_vars

-----------------------------------------------------------------------------
(* Liveness.                                                               *)

(* An intent whose worker died is eventually reconciled or dead-lettered;  *)
(* for a decision that has no decisions row this is what the sweeps do.    *)
Resolved(d) == pending[d].status \notin {"absent", "attempting"}
UnrecordedGapResolved ==
  \A d \in Decisions \ Recorded :
    pending[d].status = "attempting" ~> Resolved(d)

(* Every started delivery comes to an end: execute_action never waits for  *)
(* another delivery or for a sweep, only (boundedly often) for Razorpay.   *)
CallsEnd == \A c \in Calls :
  calls[c].pc = "dispatch" ~> calls[c].pc = "done"

-----------------------------------------------------------------------------
(* What the repository says, and the code does not do.                     *)

(* ADVANCED_07 60-64: a stuck row is found, checked and resolved, or moved *)
(* to the dead letter queue.                                               *)
StuckIntentResolved ==
  \A d \in Decisions : pending[d].status = "attempting" ~> Resolved(d)

-----------------------------------------------------------------------------
(* The inductive invariant behind the theorems of ActionSagaProofs: what a *)
(* call and a sweep may rely on about the tables while they are under way. *)

CallConsistent(c) ==
  LET d == calls[c].decision IN
  /\ calls[c].pc # "idle" => d \in Decisions
  /\ calls[c].pc \in {"calling", "created", "giving_up", "failing"} =>
       Owns(c, d)
  /\ calls[c].pc \in {"idle", "dispatch"} => calls[c].tries = 0
  /\ calls[c].pc = "calling" => calls[c].tries < MaxRetries
  /\ calls[c].pc = "created" => LinkFor(d, calls[c].ref)
  /\ calls[c].pc = "inserting" =>
       /\ (calls[c].status = "executed" /\ ArmOf[d] \in RealMoneyArms) =>
            LinkFor(d, calls[c].ref) /\ Owns(c, d)
       /\ calls[c].status = "failed" =>
            /\ Owns(c, d)
            /\ [by |-> c, decision |-> d, kind |-> "error"] \in audit
       /\ calls[c].status = "deferred_circuit_open" =>
            [by |-> c, decision |-> d, kind |-> "note"] \in audit

SweepConsistent(s) ==
  sweeps[s].pc = "resolving" =>
    /\ sweeps[s].current \in Decisions
    /\ sweeps[s].found # None => LinkFor(sweeps[s].current, sweeps[s].found)

CallsConsistent == \A c \in Calls : CallConsistent(c)
SweepsConsistent == \A s \in Sweeps : SweepConsistent(s)

SagaInv ==
  /\ TypeOK
  /\ CallsConsistent
  /\ SweepsConsistent
  /\ SingleCreator
  /\ ReferencesAreReal
  /\ OutcomesAudited
  /\ OneDeliveryActs

(* A call has paid for every link of its decision with one of its tries.   *)
TriesPaid ==
  \A c \in Calls :
    calls[c].pc = "calling" =>
      Cardinality(LinksOf(calls[c].decision)) <= calls[c].tries

(* When no call outlasts STUCK_THRESHOLD, and the newest link of a decision *)
(* is on the page that is searched: nobody but the sweeps writes an overdue *)
(* row, no link is made for it any more, and so all sweeps find the same.  *)
OnPage == \A d \in Decisions : LinksOf(d) # {} => Matches(d) # {}

Newest(d, i) ==
  \/ i \in LinksOf(d) /\ \A j \in LinksOf(d) : j <= i
  \/ i = None /\ LinksOf(d) = {}

PromptRow(d) ==
  /\ d \in overdue =>
       pending[d].status \in {"attempting", "reconciled", "dead_lettered"}
  /\ pending[d].status = "reconciled" =>
       d \in overdue /\ pending[d].ref # None /\ Newest(d, pending[d].ref)
  /\ pending[d].status = "dead_lettered" =>
       d \in overdue /\ LinksOf(d) = {}

PromptCall(c) ==
  LET d == calls[c].decision IN
  /\ calls[c].pc \in {"calling", "created", "giving_up"} =>
       d \notin overdue /\ pending[d].status = "attempting"
  /\ calls[c].pc = "failing" => pending[d].status = "failed"
  /\ calls[c].pc = "inserting" /\ calls[c].status = "failed" =>
       pending[d].status = "failed"
  /\ (/\ calls[c].pc = "inserting" /\ calls[c].status = "executed"
      /\ ArmOf[d] \in RealMoneyArms) =>
       pending[d].status = "confirmed" /\ pending[d].ref = calls[c].ref

PromptSweep(s) ==
  /\ sweeps[s].todo \subseteq overdue
  /\ sweeps[s].pc = "resolving" =>
       /\ sweeps[s].current \in overdue
       /\ Newest(sweeps[s].current, sweeps[s].found)

PromptInv ==
  /\ \A d \in Decisions : PromptRow(d)
  /\ \A c \in Calls : PromptCall(c)
  /\ \A s \in Sweeps : PromptSweep(s)
  /\ LedgersAgree
=============================================================================
