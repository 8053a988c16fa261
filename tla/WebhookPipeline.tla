-------------------------- MODULE WebhookPipeline --------------------------
(***************************************************************************)
(* The Observe step: how Razorpay's verdict on a payment becomes the       *)
(* outcome of the action that asked for it.                                *)
(*                                                                         *)
(*   - routers/webhooks.py takes a per-event lock in Redis (SET NX EX) and *)
(*     appends the body to a Redis stream;                                 *)
(*   - stream_consumer.py, one process, reads the stream in a consumer     *)
(*     group and runs the handler of services/observe/webhook_handlers.py; *)
(*   - reconcile_payment_status polls Razorpay for actions older than six  *)
(*     hours and runs the same handler;                                    *)
(*   - POST /events/{id}/mark-resolved lets an operator write an outcome.  *)
(*                                                                         *)
(* All four meet at the unique action_id of the outcomes table.  Actions   *)
(* here are real ones, with a razorpay_ref_id that no other action has.    *)
(* execute_action and its sweep write the id of a payment link there; the  *)
(* handler and the polling task look for the id of a payment.              *)
(***************************************************************************)
EXTENDS Integers, Sequences, FiniteSets

CONSTANTS
  Actions,      \* actions that Razorpay will report on
  PaymentRefs,  \* those whose razorpay_ref_id is the id of the payment itself
  Servers,      \* API processes that serve POST /webhooks/razorpay
  Pollers,      \* runs of reconcile_payment_status that may overlap
  HaveEventId,  \* do the bodies carry event_id?  If not, the payment id is it
  Reported,     \* kinds of event the webhook is subscribed to
  Nested,       \* those whose body wraps the payment in "payload"
  Verdicts,     \* results an operator may give by hand
  MayDie,       \* does the consumer process die, or lose a reply of Redis?
  MaxEntries,   \* bound: entries of the stream, those on their way included
  MaxExpiries,  \* bound: how often the lock of one key expires
  MaxRepeats    \* bound: XADDs for one key that are applied but not answered

(* payment.captured, subscription.charge.failed, payment.failed            *)
Kinds == {"captured", "charge_failed", "payment_failed"}
Results == {"recovered", "failed_permanently", "not_recovered"}
Unknown == "no outcome"
Nobody == "nobody"
NoAction == "no action"
NoEvent == <<NoAction, "none">>

ASSUME PipelineAssumption ==
  /\ NoAction \notin Actions /\ PaymentRefs \subseteq Actions
  /\ HaveEventId \in BOOLEAN /\ MayDie \in BOOLEAN
  /\ Reported \subseteq Kinds /\ "captured" \in Reported
  /\ Nested \subseteq Reported /\ Verdicts \subseteq Results
  /\ MaxEntries \in Nat /\ MaxExpiries \in Nat /\ MaxRepeats \in Nat

VARIABLES
  happened,   \* what Razorpay has to report: <<action, kind>>
  rows,       \* actions whose row is committed (execute_action's last step)
  old,        \* actions whose executed_at is more than six hours ago
  locks,      \* keys webhook_lock:razorpay:<id> that exist
  expiries,   \* history: how often the lock of each key has expired
  servers,    \* the event each API process holds the lock of, if any
  unanswered, \* history: XADDs of each key that were applied, the reply lost
  abandoned,  \* history: posts of each key that took its lock and gave up
  stream,     \* webhook_stream
  group,      \* consumer group webhook_processors
  unmatched,  \* history: entries acknowledged for want of an Action row
  consumer,   \* the stream consumer, worker-1
  pollers,    \* what each run of the polling task is doing
  operator,   \* the action whose outcome mark-resolved is about to audit
  results,    \* outcomes.result per action (action_id is unique)
  audit       \* audit_log rows that carry an outcome, per action

envVars == <<happened, rows, old>>
apiVars == <<locks, expiries, servers, unanswered, abandoned>>
queueVars == <<stream, group, unmatched>>
vars == <<envVars, apiVars, queueVars, consumer, pollers, operator, results,
          audit>>

Events == Actions \X Reported
ActionOf(e) == e[1]
Key(e) == IF HaveEventId THEN e ELSE <<ActionOf(e), "payment">>
Keys == {Key(e) : e \in Events}
Captured(a) == <<a, "captured">> \in happened

NoEntry == 0
TypeOK ==
  /\ happened \subseteq Events /\ rows \subseteq Actions /\ old \subseteq rows
  /\ locks \subseteq Keys
  /\ expiries \in [Keys -> 0 .. MaxExpiries]
  /\ servers \in [Servers -> Events \cup {NoEvent}]
  /\ unanswered \in [Keys -> 0 .. MaxRepeats] /\ abandoned \in [Keys -> Nat]
  /\ stream \in Seq(Events)
  /\ group \in [exists : BOOLEAN, start : 0 .. Len(stream),
                read : 0 .. Len(stream), pel : SUBSET (1 .. Len(stream))]
  /\ unmatched \subseteq 1 .. group.read
  /\ consumer \in [pc : {"down", "ready", "handling", "updating", "acking"},
                   entry : 0 .. group.read]
  /\ pollers \in [Pollers -> [pc : {"idle", "asking", "settling", "auditing"},
                              todo : SUBSET Actions,
                              current : Actions \cup {NoAction}]]
  /\ operator \in Actions \cup {NoAction}
  /\ results \in [Actions -> Results \cup {Unknown}]
  /\ audit \in [Actions -> Seq(Results)]

IdlePoller == [pc |-> "idle", todo |-> {}, current |-> NoAction]
Init ==
  /\ happened = {} /\ rows = {} /\ old = {}
  /\ locks = {}
  /\ expiries = [k \in Keys |-> 0]
  /\ servers = [s \in Servers |-> NoEvent]
  /\ unanswered = [k \in Keys |-> 0] /\ abandoned = [k \in Keys |-> 0]
  /\ stream = <<>>
  /\ group = [exists |-> FALSE, start |-> 0, read |-> 0, pel |-> {}]
  /\ unmatched = {}
  /\ consumer = [pc |-> "down", entry |-> NoEntry]
  /\ pollers = [p \in Pollers |-> IdlePoller]
  /\ operator = NoAction
  /\ results = [a \in Actions |-> Unknown]
  /\ audit = [a \in Actions |-> <<>>]

-----------------------------------------------------------------------------
(* Razorpay and execute_action, as far as they matter here.                *)

(* A failed payment may be tried again and then be captured.               *)
PaymentFails(a) ==
  /\ ~Captured(a)
  /\ \E k \in Reported \ {"captured"} : happened' = happened \cup {<<a, k>>}
  /\ UNCHANGED <<rows, old, apiVars, queueVars, consumer, pollers, operator,
                 results, audit>>

PaymentCaptured(a) ==
  /\ happened' = happened \cup {<<a, "captured">>}
  /\ UNCHANGED <<rows, old, apiVars, queueVars, consumer, pollers, operator,
                 results, audit>>

(* The Action row appears after the link does, perhaps after the payment.  *)
ActionCommitted(a) ==
  /\ rows' = rows \cup {a}
  /\ UNCHANGED <<happened, old, apiVars, queueVars, consumer, pollers,
                 operator, results, audit>>

SixHoursPass(a) ==
  /\ a \in rows
  /\ old' = old \cup {a}
  /\ UNCHANGED <<happened, rows, apiVars, queueVars, consumer, pollers,
                 operator, results, audit>>

-----------------------------------------------------------------------------
(* razorpay_webhook.  Razorpay delivers an event at least once: any event  *)
(* that has happened may be posted, again and again, to any process.       *)

Carried == {s \in Servers : servers[s] # NoEvent}

(* Mutation: GET, then SET, instead of SET NX.                             *)
AcquireLock_NotNX(s, e) ==
  /\ servers[s] = NoEvent /\ e \in happened
  /\ Len(stream) + Cardinality(Carried) < MaxEntries
  /\ locks' = locks \cup {Key(e)}
  /\ servers' = [servers EXCEPT ![s] = e]
  /\ UNCHANGED <<envVars, expiries, unanswered, abandoned, queueVars, consumer,
                 pollers, operator, results, audit>>

AcquireLock(s, e) ==
  /\ servers[s] = NoEvent /\ e \in happened
  /\ Key(e) \notin locks
  /\ Len(stream) + Cardinality(Carried) < MaxEntries
  /\ locks' = locks \cup {Key(e)}
  /\ servers' = [servers EXCEPT ![s] = e]
  /\ UNCHANGED <<envVars, expiries, unanswered, abandoned, queueVars, consumer,
                 pollers, operator, results, audit>>

(* XADD is answered.                                                       *)
Enqueue(s) ==
  /\ servers[s] # NoEvent
  /\ stream' = Append(stream, servers[s])
  /\ servers' = [servers EXCEPT ![s] = NoEvent]
  /\ UNCHANGED <<envVars, locks, expiries, unanswered, abandoned, group,
                 unmatched, consumer, pollers, operator, results, audit>>

(* XADD is applied, the connection fails before its reply, and the client  *)
(* sends it again: this process is not done with the event.                *)
EnqueueUnanswered(s) ==
  /\ servers[s] # NoEvent /\ unanswered[Key(servers[s])] < MaxRepeats
  /\ Len(stream) + Cardinality(Carried) < MaxEntries
  /\ stream' = Append(stream, servers[s])
  /\ unanswered' = [unanswered EXCEPT ![Key(servers[s])] = @ + 1]
  /\ UNCHANGED <<envVars, locks, expiries, servers, abandoned, group,
                 unmatched, consumer, pollers, operator, results, audit>>

(* The process dies, or XADD raises at last, or it was the reply to SET NX *)
(* that was lost, and its repetition finds the lock taken: the lock stays. *)
EnqueueFails(s) ==
  /\ servers[s] # NoEvent
  /\ servers' = [servers EXCEPT ![s] = NoEvent]
  /\ abandoned' = [abandoned EXCEPT ![Key(servers[s])] = @ + 1]
  /\ UNCHANGED <<envVars, locks, expiries, unanswered, queueVars, consumer,
                 pollers, operator, results, audit>>

LockExpires(k) ==
  /\ k \in locks /\ expiries[k] < MaxExpiries
  /\ locks' = locks \ {k}
  /\ expiries' = [expiries EXCEPT ![k] = @ + 1]
  /\ UNCHANGED <<envVars, servers, unanswered, abandoned, queueVars, consumer,
                 pollers, operator, results, audit>>

-----------------------------------------------------------------------------
(* consume_webhook_events_durable.                                         *)

ConsumerGoto(pc) == consumer' = [consumer EXCEPT !.pc = pc]

(* XGROUP CREATE takes its default id "$": the group begins at the end of  *)
(* the stream.  BUSYGROUP: it goes on where it was.                        *)
StartConsumer ==
  /\ consumer.pc = "down"
  /\ group' = IF group.exists THEN group
              ELSE [group EXCEPT !.exists = TRUE, !.read = Len(stream),
                                 !.start = Len(stream)]
  /\ ConsumerGoto("ready")
  /\ UNCHANGED <<envVars, apiVars, stream, unmatched, pollers, operator,
                 results, audit>>

(* Mutation: the entry after the last is handed out, too.                  *)
ReadNew_OffByOne ==
  /\ consumer.pc = "ready" /\ group.read <= Len(stream)
  /\ group' = [group EXCEPT !.read = @ + 1, !.pel = @ \cup {group.read + 1}]
  /\ consumer' = [pc |-> "handling", entry |-> group.read + 1]
  /\ UNCHANGED <<envVars, apiVars, stream, unmatched, pollers, operator,
                 results, audit>>

(* XREADGROUP ">" hands out only what was never handed out.                *)
ReadNew ==
  /\ consumer.pc = "ready" /\ group.read < Len(stream)
  /\ group' = [group EXCEPT !.read = @ + 1, !.pel = @ \cup {group.read + 1}]
  /\ consumer' = [pc |-> "handling", entry |-> group.read + 1]
  /\ UNCHANGED <<envVars, apiVars, stream, unmatched, pollers, operator,
                 results, audit>>

(* The reply to XREADGROUP is lost: handed out, and never handled.         *)
ReadLost ==
  /\ MayDie /\ consumer.pc = "ready" /\ group.read < Len(stream)
  /\ group' = [group EXCEPT !.read = @ + 1, !.pel = @ \cup {group.read + 1}]
  /\ UNCHANGED <<envVars, apiVars, stream, unmatched, consumer, pollers,
                 operator, results, audit>>

(* The event in the consumer's hands, if payload["payment"]["id"] exists.  *)
Handling(e) ==
  /\ consumer.pc = "handling" /\ e = stream[consumer.entry]
  /\ e[2] \notin Nested

(* Action.razorpay_ref_id == payment id: a row of a link is not found.     *)
Found(e) == ActionOf(e) \in rows \cap PaymentRefs

NoSuchAction(e) ==
  /\ Handling(e) /\ ~Found(e)
  /\ unmatched' = unmatched \cup {consumer.entry}
  /\ ConsumerGoto("acking")
  /\ UNCHANGED <<envVars, apiVars, stream, group, pollers, operator, results,
                 audit>>

(* One kind of event goes to the handler of failures, every other kind to  *)
(* the handler of captured payments.                                       *)
ResultOf(e) ==
  IF e[2] = "charge_failed" THEN "failed_permanently" ELSE "recovered"

(* Mutation: on conflict, do update.                                       *)
RecordOutcome_Upsert(e) ==
  /\ Handling(e) /\ Found(e)
  /\ results' = [results EXCEPT ![ActionOf(e)] = ResultOf(e)]
  /\ ConsumerGoto("updating")
  /\ UNCHANGED <<envVars, apiVars, queueVars, pollers, operator, audit>>
(* insert ... on conflict (action_id) do nothing, and the commit.          *)
RecordOutcome(e) ==
  /\ Handling(e) /\ Found(e) /\ results[ActionOf(e)] = Unknown
  /\ results' = [results EXCEPT ![ActionOf(e)] = ResultOf(e)]
  /\ ConsumerGoto("updating")
  /\ UNCHANGED <<envVars, apiVars, queueVars, pollers, operator, audit>>

AlreadyRecorded(e) ==
  /\ Handling(e) /\ Found(e) /\ results[ActionOf(e)] # Unknown
  /\ ConsumerGoto("acking")
  /\ UNCHANGED <<envVars, apiVars, queueVars, pollers, operator, results,
                 audit>>

Ack ==
  /\ consumer.pc = "acking"
  /\ group' = [group EXCEPT !.pel = @ \ {consumer.entry}]
  /\ ConsumerGoto("ready")
  /\ UNCHANGED <<envVars, apiVars, stream, unmatched, pollers, operator,
                 results, audit>>

(* bandit.update is called without the merchant_id it needs: it always     *)
(* raises, and the audit row that comes after it is never written.         *)
UpdateRaises ==
  /\ consumer.pc = "updating"
  /\ ConsumerGoto("ready")
  /\ UNCHANGED <<envVars, apiVars, queueVars, pollers, operator, results,
                 audit>>

(* Mutation: the acknowledgement is in a finally clause.                   *)
EntryFails_Acks ==
  /\ consumer.pc \in {"handling", "acking"}
  /\ ConsumerGoto("acking")
  /\ UNCHANGED <<envVars, apiVars, queueVars, pollers, operator, results,
                 audit>>
(* The database or Redis raises, or the body is nested: rollback, no       *)
(* acknowledgement, next entry.                                            *)
EntryFails ==
  /\ consumer.pc \in {"handling", "acking"}
  /\ ConsumerGoto("ready")
  /\ UNCHANGED <<envVars, apiVars, queueVars, pollers, operator, results,
                 audit>>

ConsumerDies ==
  /\ MayDie /\ consumer.pc # "down"
  /\ ConsumerGoto("down")
  /\ UNCHANGED <<envVars, apiVars, queueVars, pollers, operator, results,
                 audit>>

-----------------------------------------------------------------------------
(* reconcile_payment_status: the same handler, with a bandit that does     *)
(* nothing.                                                                *)

restVars == <<envVars, apiVars, queueVars, consumer, operator>>

StartPoll(p) ==
  /\ pollers[p].pc = "idle"
  /\ pollers' = [pollers EXCEPT ![p].pc = "asking", ![p].todo = old]
  /\ UNCHANGED <<restVars, results, audit>>

Drop(p, a) == pollers' = [pollers EXCEPT ![p].pc = "asking",
                                         ![p].todo = @ \ {a},
                                         ![p].current = NoAction]

(* Mutation: whatever has a status is taken for captured.                  *)
SeeCaptured_AnyStatus(p, a) ==
  /\ pollers[p].pc = "asking" /\ a \in pollers[p].todo \cap PaymentRefs
  /\ pollers' = [pollers EXCEPT ![p].pc = "settling", ![p].current = a]
  /\ UNCHANGED <<restVars, results, audit>>
(* payment.fetch(razorpay_ref_id) finds a payment, and it is captured.     *)
SeeCaptured(p, a) ==
  /\ pollers[p].pc = "asking" /\ a \in pollers[p].todo \cap PaymentRefs
  /\ Captured(a)
  /\ pollers' = [pollers EXCEPT ![p].pc = "settling", ![p].current = a]
  /\ UNCHANGED <<restVars, results, audit>>

(* Not captured, or get_payment_status raises, as it does when Razorpay    *)
(* refuses the id of a link: on to the next action.                        *)
SkipAction(p, a) ==
  /\ pollers[p].pc = "asking" /\ a \in pollers[p].todo
  /\ Drop(p, a)
  /\ UNCHANGED <<restVars, results, audit>>

(* Mutation: the side effects are not gated by rowcount.                   *)
SettleOld_NoGate(p, a) ==
  /\ pollers[p].pc = "settling" /\ pollers[p].current = a
  /\ results[a] # Unknown
  /\ pollers' = [pollers EXCEPT ![p].pc = "auditing"]
  /\ UNCHANGED <<restVars, results, audit>>

SettleNew(p, a) ==
  /\ pollers[p].pc = "settling" /\ pollers[p].current = a
  /\ results[a] = Unknown
  /\ results' = [results EXCEPT ![a] = "recovered"]
  /\ pollers' = [pollers EXCEPT ![p].pc = "auditing"]
  /\ UNCHANGED <<restVars, audit>>

SettleOld(p, a) ==
  /\ pollers[p].pc = "settling" /\ pollers[p].current = a
  /\ results[a] # Unknown
  /\ Drop(p, a)
  /\ UNCHANGED <<restVars, results, audit>>

PollAudits(p, a) ==
  /\ pollers[p].pc = "auditing" /\ pollers[p].current = a
  /\ audit' = [audit EXCEPT ![a] = Append(@, results[a])]
  /\ Drop(p, a)
  /\ UNCHANGED <<restVars, results>>

FinishPoll(p) ==
  /\ pollers[p].pc = "asking" /\ pollers[p].todo = {}
  /\ pollers' = [pollers EXCEPT ![p] = IdlePoller]
  /\ UNCHANGED <<restVars, results, audit>>

(* The worker dies, or the database fails: without a rollback the session  *)
(* raises for every action that is left.                                   *)
AbandonPoll(p) ==
  /\ pollers[p].pc # "idle"
  /\ pollers' = [pollers EXCEPT ![p] = IdlePoller]
  /\ UNCHANGED <<restVars, results, audit>>

-----------------------------------------------------------------------------
(* mark_resolved: outcome (a result compute() does not know: a ValueError, *)
(* and no step), then its audit row; the request may die in between.       *)

MarkResolved(a, r) ==
  /\ operator = NoAction /\ a \in rows /\ results[a] = Unknown
  /\ results' = [results EXCEPT ![a] = r]
  /\ operator' = a
  /\ UNCHANGED <<envVars, apiVars, queueVars, consumer, pollers, audit>>

AuditResolved(a) ==
  /\ operator = a
  /\ audit' = [audit EXCEPT ![a] = Append(@, results[a])]
  /\ operator' = NoAction
  /\ UNCHANGED <<envVars, apiVars, queueVars, consumer, pollers, results>>

AbandonResolved ==
  /\ operator # NoAction
  /\ operator' = NoAction
  /\ UNCHANGED <<envVars, apiVars, queueVars, consumer, pollers, results,
                 audit>>

-----------------------------------------------------------------------------
Environment(a) == \/ PaymentFails(a) \/ PaymentCaptured(a)
                  \/ ActionCommitted(a) \/ SixHoursPass(a)
Endpoint(s) == (\E e \in Events : AcquireLock(s, e))
               \/ Enqueue(s) \/ EnqueueUnanswered(s) \/ EnqueueFails(s)
Handle(e) == NoSuchAction(e) \/ RecordOutcome(e) \/ AlreadyRecorded(e)
Consume == \/ StartConsumer \/ ReadNew \/ Ack \/ UpdateRaises \/ EntryFails
           \/ \E e \in Events : Handle(e)
Settle(p, a) == SettleNew(p, a) \/ SettleOld(p, a)
PollStep(p) ==
  \/ StartPoll(p) \/ FinishPoll(p)
  \/ \E a \in Actions : SeeCaptured(p, a) \/ SkipAction(p, a)
                        \/ Settle(p, a) \/ PollAudits(p, a)
Resolve(a) == (\E r \in Verdicts : MarkResolved(a, r)) \/ AuditResolved(a)

Next ==
  \/ \E a \in Actions : Environment(a) \/ Resolve(a)
  \/ \E s \in Servers : Endpoint(s)
  \/ \E k \in Keys : LockExpires(k)
  \/ Consume \/ ReadLost \/ ConsumerDies
  \/ \E p \in Pollers : PollStep(p) \/ AbandonPoll(p)
  \/ AbandonResolved

Spec == Init /\ [][Next]_vars

(* Beat starts the task every hour, a run that is going on goes on unless  *)
(* its worker dies, Razorpay does not fail to answer for ever, and neither *)
(* does every run die at the same point.                                   *)
PollFairness ==
  /\ \A a \in Actions : WF_vars(SixHoursPass(a))
  /\ \A p \in Pollers :
       /\ WF_vars(StartPoll(p)) /\ WF_vars(FinishPoll(p))
       /\ \A a \in Actions : /\ WF_vars(SkipAction(p, a))
                             /\ SF_vars(SeeCaptured(p, a))
                             /\ SF_vars(Settle(p, a))

(* The consumer is restarted when it dies and its loop goes on; writers    *)
(* that have an audit row to write go on to write it.                      *)
ServiceFairness ==
  /\ WF_vars(StartConsumer)
  /\ SF_vars(ReadNew) /\ SF_vars(\E e \in Events : Handle(e))
  /\ SF_vars(Ack) /\ SF_vars(UpdateRaises)
  /\ \A a \in Actions : SF_vars(AuditResolved(a))
  /\ \A p \in Pollers, a \in Actions : SF_vars(PollAudits(p, a))

FairSpec == Spec /\ PollFairness /\ ServiceFairness

-----------------------------------------------------------------------------
(* Safety.                                                                 *)

(* Whatever consumer, overlapping polls, operator and redeliveries do, an  *)
(* action gets one outcome, the first, and at most one audit row that says *)
(* the same (the is_new gate, webhook_handlers.py 54-63).                  *)
Ledger == INSTANCE OutcomeLedger
ImplementsLedger == Ledger!Spec

(* Every life of an event's lock, and every XADD that was applied without  *)
(* an answer, accounts for one entry of the stream, a post on its way or   *)
(* one that gave up: concurrent and repeated posts within a life are       *)
(* folded into one, an expiry during a post does not lead to more, and no  *)
(* post that took the lock is forgotten but by giving up.                  *)
EntriesFor(k) == {i \in 1 .. Len(stream) : Key(stream[i]) = k}
CarriersOf(k) == {s \in Carried : Key(servers[s]) = k}
PostsAreAccounted ==
  \A k \in Keys :
    Cardinality(EntriesFor(k)) + Cardinality(CarriersOf(k)) + abandoned[k] =
      expiries[k] + (IF k \in locks THEN 1 ELSE 0) + unanswered[k]

(* An entry that was acknowledged has left its mark: the action has an     *)
(* outcome, or no Action row had its reference (stream_consumer.py 56,     *)
(* "only ack on success").                                                 *)
Acked == group.start + 1 .. group.read \ group.pel
AckedIsAccounted ==
  \A i \in Acked :
    i \in unmatched \/ results[ActionOf(stream[i])] # Unknown

(* While only captured and charge-failed events are subscribed to, money   *)
(* is booked as recovered only when Razorpay captured it, or an operator   *)
(* says so; by whichever of the consumer and the polls books it.           *)
RecoveredIsReal ==
  \A a \in Actions :
    results[a] = "recovered" => Captured(a) \/ "recovered" \in Verdicts

-----------------------------------------------------------------------------
(* What the repository says, and the code does not do.                     *)

(* README.md 408: "with a periodic polling safety net for missed           *)
(* deliveries": webhooks may be lost, dismissed, skipped or fail, and yet  *)
(* a captured payment whose action is committed gets an outcome.           *)
CapturedIsSettled ==
  \A a \in Actions :
    (Captured(a) /\ a \in rows) ~> results[a] # Unknown

(* stream_consumer.py 61: an entry whose processing failed is "left        *)
(* unacked" and "will be redelivered": in the end it is acknowledged.      *)
Busy == consumer.pc \in {"handling", "updating", "acking"}
BegunIsAcked ==
  \A i \in 1 .. MaxEntries :
    (Busy /\ consumer.entry = i) ~> (i <= group.read /\ i \notin group.pel)
=============================================================================
