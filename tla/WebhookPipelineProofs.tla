----------------------- MODULE WebhookPipelineProofs -----------------------
(***************************************************************************)
(* What the Observe step guarantees for any number of actions, API         *)
(* processes and overlapping polls, any stream and any number of expiries. *)
(***************************************************************************)
EXTENDS WebhookPipeline, FiniteSetTheorems, SequenceTheorems, TLAPS

USE PipelineAssumption

(***************************************************************************)
(* The steps, grouped by what they write                                   *)
(***************************************************************************)
feedVars == <<happened, rows, old, locks, expiries, servers, unanswered, abandoned>>
readVars == <<group, unmatched, consumer>>
bookVars == <<pollers, operator, results, audit>>

(* What happens outside, and what the endpoint does short of appending.    *)
Outside ==
  \/ \E a \in Actions : Environment(a)
  \/ \E s \in Servers : EnqueueFails(s) \/ \E e \in Events : AcquireLock(s, e)
  \/ \E k \in Keys : LockExpires(k)

(* XADD is applied, with or without an answer.                             *)
Appends(s) == Enqueue(s) \/ EnqueueUnanswered(s)

(* What the consumer does but for the outcomes it records.                 *)
Reads ==
  \/ StartConsumer \/ ReadNew \/ ReadLost \/ ConsumerDies
  \/ Ack \/ UpdateRaises \/ EntryFails
  \/ \E e \in Events : NoSuchAction(e) \/ AlreadyRecorded(e)

(* What a poll does to itself.                                             *)
Polls(p) ==
  \/ StartPoll(p) \/ FinishPoll(p) \/ AbandonPoll(p)
  \/ \E a \in Actions : SeeCaptured(p, a) \/ SkipAction(p, a) \/ SettleOld(p, a)

LEMMA StepsByEffect ==
  ASSUME Next
  PROVE  \/ Outside \/ Reads \/ AbandonResolved
         \/ \E s \in Servers : Appends(s)
         \/ \E e \in Events : RecordOutcome(e)
         \/ \E p \in Pollers : Polls(p) \/ \E a \in Actions : SettleNew(p, a) \/ PollAudits(p, a)
         \/ \E a \in Actions : AuditResolved(a) \/ \E r \in Verdicts : MarkResolved(a, r)
  <1>1. ASSUME NEW a \in Actions, Environment(a) \/ Resolve(a)
        PROVE  Outside \/ AuditResolved(a) \/ \E r \in Verdicts : MarkResolved(a, r)
      BY <1>1 DEF Outside, Resolve
  <1>2. ASSUME NEW s \in Servers, Endpoint(s) PROVE Outside \/ Appends(s)
      BY <1>2 DEF Outside, Endpoint, Appends
  <1>3. ASSUME NEW k \in Keys, LockExpires(k) PROVE Outside
      BY <1>3 DEF Outside
  <1>4. ASSUME Consume \/ ReadLost \/ ConsumerDies
        PROVE  Reads \/ \E e \in Events : RecordOutcome(e)
      BY <1>4 DEF Consume, Reads, Handle
  <1>5. ASSUME NEW p \in Pollers, PollStep(p) \/ AbandonPoll(p)
        PROVE  Polls(p) \/ \E a \in Actions : SettleNew(p, a) \/ PollAudits(p, a)
      BY <1>5 DEF PollStep, Polls, Settle
  <1> QED BY <1>1, <1>2, <1>3, <1>4, <1>5 DEF Next

LEMMA OutsideOnly ==
  ASSUME Outside PROVE UNCHANGED <<stream, readVars, bookVars>>
  BY DEF Outside, Environment, PaymentFails, PaymentCaptured, ActionCommitted, SixHoursPass,
     EnqueueFails, AcquireLock, LockExpires, queueVars, envVars, apiVars, readVars, bookVars

LEMMA ReadsOnly ==
  ASSUME Reads PROVE UNCHANGED <<stream, feedVars, bookVars>>
  BY DEF Reads, StartConsumer, ReadNew, ReadLost, ConsumerDies, Ack, UpdateRaises, EntryFails,
     NoSuchAction, AlreadyRecorded, queueVars, envVars, apiVars, feedVars, bookVars

LEMMA PollsOnly ==
  ASSUME NEW p \in Pollers, Polls(p)
  PROVE  UNCHANGED <<stream, feedVars, readVars, operator, results, audit>>
  BY DEF Polls, StartPoll, FinishPoll, AbandonPoll, SeeCaptured, SkipAction, SettleOld,
     restVars, queueVars, envVars, apiVars, feedVars, readVars

(***************************************************************************)
(* The endpoint                                                            *)
(***************************************************************************)
(* Nothing is posted that has not happened.                                *)
Fed ==
  /\ happened \subseteq Events /\ rows \subseteq Actions /\ old \subseteq rows
  /\ locks \subseteq Keys /\ expiries \in [Keys -> 0 .. MaxExpiries]
  /\ servers \in [Servers -> Events \cup {NoEvent}]
  /\ unanswered \in [Keys -> 0 .. MaxRepeats] /\ abandoned \in [Keys -> Nat]
  /\ \A s \in Carried : servers[s] \in happened

LEMMA FedStarts == Init => Fed
  <1> SUFFICES ASSUME Init PROVE Fed
      OBVIOUS
  <1>1. expiries \in [Keys -> 0 .. MaxExpiries]
      BY DEF Init
  <1>2. \A s \in Servers : servers[s] = NoEvent
      BY DEF Init
  <1>3. servers \in [Servers -> Events \cup {NoEvent}]
      BY DEF Init
  <1>4. unanswered \in [Keys -> 0 .. MaxRepeats] /\ abandoned \in [Keys -> Nat]
      BY DEF Init
  <1> QED BY <1>1, <1>2, <1>3, <1>4 DEF Init, Fed, Carried

LEMMA FedSteps == Fed /\ [Next]_vars => Fed'
  <1> SUFFICES ASSUME Fed, [Next]_vars PROVE Fed'
      OBVIOUS
  <1>1. ASSUME NEW a \in Actions, Environment(a) PROVE Fed'
    <2>1. /\ happened \subseteq happened' /\ happened' \subseteq Events
          /\ rows' \subseteq Actions /\ old' \subseteq rows'
          /\ UNCHANGED <<locks, expiries, servers, unanswered, abandoned>>
      <3>1. \A k \in Reported : <<a, k>> \in Events
          BY DEF Events
      <3> QED BY <1>1, <3>1 DEF Environment, PaymentFails, PaymentCaptured, ActionCommitted,
              SixHoursPass, Fed, apiVars
    <2> QED BY <2>1 DEF Fed, Carried
  <1>2. ASSUME NEW s \in Servers, EnqueueFails(s) \/ Appends(s) PROVE Fed'
    <2>1. Key(servers[s]) \in Keys
        BY <1>2 DEF EnqueueFails, Appends, Enqueue, EnqueueUnanswered, Fed, Keys
    <2>2. CASE EnqueueFails(s)
      <3>1. abandoned' \in [Keys -> Nat]
          BY <2>1, <2>2 DEF EnqueueFails, Fed
      <3> QED BY <2>2, <3>1 DEF EnqueueFails, Fed, Carried, envVars
    <2>3. CASE Enqueue(s)
        BY <2>3 DEF Enqueue, Fed, Carried, envVars
    <2>4. CASE EnqueueUnanswered(s)
      <3>1. unanswered' \in [Keys -> 0 .. MaxRepeats]
          BY <2>1, <2>4 DEF EnqueueUnanswered, Fed
      <3> QED BY <2>4, <3>1 DEF EnqueueUnanswered, Fed, Carried, envVars
    <2> QED BY <1>2, <2>2, <2>3, <2>4 DEF Appends
  <1>3. ASSUME NEW s \in Servers, NEW e \in Events, AcquireLock(s, e) PROVE Fed'
    <2>1. Key(e) \in Keys
        BY DEF Keys
    <2> QED BY <1>3, <2>1 DEF AcquireLock, Fed, Carried, envVars
  <1>4. ASSUME NEW k \in Keys, LockExpires(k) PROVE Fed'
    <2>1. expiries' \in [Keys -> 0 .. MaxExpiries]
        BY <1>4 DEF LockExpires, Fed
    <2> QED BY <1>4, <2>1 DEF LockExpires, Fed, Carried, envVars
  <1>5. ASSUME UNCHANGED feedVars PROVE Fed'
      BY <1>5 DEF feedVars, Fed, Carried
  <1>6. ASSUME NEW e \in Events, RecordOutcome(e) PROVE UNCHANGED feedVars
      BY <1>6 DEF RecordOutcome, feedVars, envVars, apiVars
  <1>7. ASSUME NEW p \in Pollers, NEW a \in Actions, SettleNew(p, a) \/ PollAudits(p, a)
        PROVE  UNCHANGED feedVars
      BY <1>7 DEF SettleNew, PollAudits, restVars, feedVars, envVars, apiVars
  <1>8. ASSUME NEW a \in Actions,
               AuditResolved(a) \/ \E r \in Verdicts : MarkResolved(a, r)
        PROVE  UNCHANGED feedVars
      BY <1>8 DEF AuditResolved, MarkResolved, feedVars, envVars, apiVars
  <1>9. CASE AbandonResolved
      BY <1>5, <1>9 DEF AbandonResolved, feedVars, envVars, apiVars
  <1>10. CASE UNCHANGED vars
      BY <1>5, <1>10 DEF vars, feedVars, envVars, apiVars
  <1> QED BY <1>1, <1>2, <1>3, <1>4, <1>5, <1>6, <1>7, <1>8, <1>9, <1>10, StepsByEffect,
             ReadsOnly, PollsOnly DEF Outside


(***************************************************************************)
(* The stream and its consumer                                             *)
(***************************************************************************)
(* Who has an entry in hand has one of those that were handed out.         *)
Queued ==
  /\ stream \in Seq(Events)
  /\ group \in [exists : BOOLEAN, start : Nat, read : Nat, pel : SUBSET Nat]
  /\ group.start <= Len(stream) /\ group.read <= Len(stream)
  /\ group.pel \subseteq 1 .. group.read
  /\ unmatched \subseteq 1 .. group.read
  /\ consumer \in [pc : {"down", "ready", "handling", "updating", "acking"}, entry : Nat]
  /\ consumer.entry <= group.read
  /\ Busy => consumer.entry # NoEntry

LEMMA QueuedStarts == Init => Queued
  BY DEF Init, Queued, Busy, NoEntry

LEMMA EntriesStay ==
  ASSUME Fed, stream \in Seq(Events), NEW s \in Servers, Appends(s)
  PROVE  /\ stream' \in Seq(Events) /\ Len(stream') = Len(stream) + 1
         /\ \A i \in 1 .. Len(stream) : stream'[i] = stream[i]
         /\ stream'[Len(stream) + 1] = servers[s] /\ servers[s] \in happened
  <1>1. servers[s] \in Events /\ servers[s] \in happened /\ stream' = Append(stream, servers[s])
      BY DEF Fed, Appends, Enqueue, EnqueueUnanswered, Carried
  <1> QED BY <1>1, AppendProperties

LEMMA HandedOut ==
  ASSUME Queued, ReadNew \/ ReadLost
  PROVE  /\ group.read \in Nat /\ group.read + 1 <= Len(stream)
         /\ group' = [exists |-> group.exists, start |-> group.start,
                      read |-> group.read + 1, pel |-> group.pel \cup {group.read + 1}]
         /\ group' \in [exists : BOOLEAN, start : Nat, read : Nat, pel : SUBSET Nat]
         /\ group'.pel \subseteq 1 .. group'.read /\ unmatched' \subseteq 1 .. group'.read
  <1>1. group.read \in Nat /\ group.read < Len(stream) /\ Len(stream) \in Nat
      BY DEF Queued, ReadNew, ReadLost
  <1>2. group' = [exists |-> group.exists, start |-> group.start,
                  read |-> group.read + 1, pel |-> group.pel \cup {group.read + 1}]
      BY DEF Queued, ReadNew, ReadLost
  <1>3. unmatched' = unmatched
      BY DEF ReadNew, ReadLost
  <1>4. group.pel \subseteq 1 .. group.read + 1 /\ unmatched \subseteq 1 .. group.read + 1
      BY <1>1 DEF Queued
  <1>5. group.exists \in BOOLEAN /\ group.start \in Nat /\ group.pel \in SUBSET Nat
      BY DEF Queued
  <1> QED BY <1>1, <1>2, <1>3, <1>4, <1>5

LEMMA QueuedSteps == Fed /\ Queued /\ [Next]_vars => Queued'
  <1> SUFFICES ASSUME Fed, Queued, [Next]_vars PROVE Queued'
      OBVIOUS
  <1> USE DEF Queued
  <1>1. ASSUME NEW s \in Servers, Appends(s) PROVE Queued'
    <2>1. UNCHANGED readVars
        BY <1>1 DEF Appends, Enqueue, EnqueueUnanswered, readVars
    <2> QED BY <1>1, <2>1, EntriesStay DEF readVars, Busy
  <1>2. ASSUME Reads PROVE Queued'
    <2> USE DEF ConsumerGoto, Busy, NoEntry
    <2>1. CASE StartConsumer
      <3>1. group' = group \/ group' = [exists |-> TRUE, start |-> Len(stream),
                                        read |-> Len(stream), pel |-> group.pel]
          BY <2>1 DEF StartConsumer
      <3>2. Len(stream) \in Nat /\ group.read \in Nat
          OBVIOUS
      <3>3. group'.read >= group.read /\ group'.read <= Len(stream)
          BY <3>1, <3>2
      <3>4. group'.start <= Len(stream) /\ group'.pel = group.pel
          BY <3>1, <3>2
      <3>5. group' \in [exists : BOOLEAN, start : Nat, read : Nat, pel : SUBSET Nat]
        <4>1. CASE group' = group
            BY <4>1
        <4>2. group.pel \in SUBSET Nat /\ TRUE \in BOOLEAN
            OBVIOUS
        <4>3. CASE group' = [exists |-> TRUE, start |-> Len(stream),
                             read |-> Len(stream), pel |-> group.pel]
            BY <3>2, <4>2, <4>3
        <4> QED BY <3>1, <4>1, <4>3
      <3>6. group'.pel \subseteq 1 .. group'.read
          BY <3>2, <3>3, <3>4, <3>5
      <3>7. unmatched \subseteq 1 .. group'.read
          BY <3>2, <3>3, <3>5
      <3>8. consumer' = [consumer EXCEPT !.pc = "ready"] /\ UNCHANGED <<stream, unmatched>>
          BY <2>1 DEF StartConsumer
      <3>9. /\ consumer' \in [pc : {"down", "ready", "handling", "updating", "acking"}, entry : Nat]
            /\ consumer'.entry <= group'.read /\ consumer'.pc = "ready"
          BY <3>2, <3>3, <3>5, <3>8
      <3> QED BY <3>2, <3>3, <3>4, <3>5, <3>6, <3>7, <3>8, <3>9
    <2>2. ASSUME ReadNew \/ ReadLost PROVE Queued'
        BY <2>2, HandedOut DEF ReadNew, ReadLost
    <2>3. CASE Ack
        BY <2>3 DEF Ack
    <2>4. CASE UpdateRaises \/ EntryFails \/ ConsumerDies
        BY <2>4 DEF UpdateRaises, EntryFails, ConsumerDies, queueVars
    <2>5. ASSUME NEW e \in Events, NoSuchAction(e) \/ AlreadyRecorded(e) PROVE Queued'
        BY <2>5 DEF NoSuchAction, AlreadyRecorded, Handling, queueVars
    <2> QED BY <1>2, <2>1, <2>2, <2>3, <2>4, <2>5 DEF Reads
  <1>3. ASSUME NEW e \in Events, RecordOutcome(e) PROVE Queued'
      BY <1>3 DEF RecordOutcome, Handling, ConsumerGoto, queueVars, Busy
  <1>4. ASSUME UNCHANGED <<stream, readVars>> PROVE Queued'
      BY <1>4 DEF readVars, Busy
  <1>5. ASSUME NEW p \in Pollers, NEW a \in Actions, SettleNew(p, a) \/ PollAudits(p, a)
        PROVE  UNCHANGED <<stream, readVars>>
      BY <1>5 DEF SettleNew, PollAudits, restVars, readVars, queueVars
  <1>6. ASSUME NEW a \in Actions,
               AuditResolved(a) \/ \E r \in Verdicts : MarkResolved(a, r)
        PROVE  UNCHANGED <<stream, readVars>>
      BY <1>6 DEF AuditResolved, MarkResolved, readVars, queueVars
  <1>7. CASE AbandonResolved
      BY <1>4, <1>7 DEF AbandonResolved, readVars, queueVars
  <1>8. CASE UNCHANGED vars
      BY <1>4, <1>8 DEF vars, readVars, queueVars
  <1> QED BY <1>1, <1>2, <1>3, <1>4, <1>5, <1>6, <1>7, <1>8, StepsByEffect, OutsideOnly,
             PollsOnly


(***************************************************************************)
(* The outcomes and their audit rows                                       *)
(***************************************************************************)
Auditing(p, a) == pollers[p].pc = "auditing" /\ pollers[p].current = a
Owed(a) == results[a] # Unknown /\ audit[a] = <<>>

(* One poll or the operator owes an action its audit row, and then it has  *)
(* an outcome and no row.                                                  *)
Due(a) ==
  /\ results[a] = Unknown => audit[a] = <<>>
  /\ operator = a => Owed(a)
  /\ \A p \in Pollers : Auditing(p, a) =>
       Owed(a) /\ operator # a /\ \A q \in Pollers \ {p} : ~Auditing(q, a)

PollerType == [pc : {"idle", "asking", "settling", "auditing"}, todo : SUBSET Actions,
               current : Actions \cup {NoAction}]
Booked ==
  /\ pollers \in [Pollers -> PollerType]
  /\ operator \in Actions \cup {NoAction}
  /\ results \in [Actions -> Results \cup {Unknown}]
  /\ audit \in [Actions -> Seq(Results)]
  /\ \A a \in Actions : Due(a)

LEMMA NoOutcomeIsNoResult == Unknown \notin Results
  BY DEF Unknown, Results

LEMMA BookedStarts == Init => Booked
  <1> SUFFICES ASSUME Init PROVE Booked
      OBVIOUS
  <1>1. <<>> \in Seq(Results)
      OBVIOUS
  <1>2. IdlePoller \in PollerType /\ IdlePoller.pc # "auditing"
      BY DEF IdlePoller, PollerType
  <1> QED BY <1>1, <1>2 DEF Init, Booked, Due, Auditing, PollerType

(* What a poll does to itself: it owes nobody a row when it is done.       *)
LEMMA OnePoll ==
  ASSUME Booked, old \subseteq Actions, NEW p \in Pollers, Polls(p)
  PROVE  /\ pollers' \in [Pollers -> PollerType] /\ pollers'[p].pc # "auditing"
         /\ \A q \in Pollers \ {p} : pollers'[q] = pollers[q]
  <1> DEFINE n == pollers'[p]
  <1>1. pollers[p] \in PollerType /\ pollers \in [Pollers -> PollerType]
      BY DEF Booked
  <1>2. n \in PollerType /\ n.pc # "auditing" /\ pollers' = [pollers EXCEPT ![p] = n]
    <2>1. CASE StartPoll(p)
        BY <1>1, <2>1 DEF StartPoll, PollerType
    <2>2. CASE FinishPoll(p) \/ AbandonPoll(p)
        BY <1>1, <2>2 DEF FinishPoll, AbandonPoll, IdlePoller, PollerType
    <2>3. ASSUME NEW a \in Actions, SeeCaptured(p, a)
          PROVE  n \in PollerType /\ n.pc # "auditing" /\ pollers' = [pollers EXCEPT ![p] = n]
        BY <1>1, <2>3 DEF SeeCaptured, PollerType
    <2>4. ASSUME NEW a \in Actions, SkipAction(p, a) \/ SettleOld(p, a)
          PROVE  n \in PollerType /\ n.pc # "auditing" /\ pollers' = [pollers EXCEPT ![p] = n]
        BY <1>1, <2>4 DEF SkipAction, SettleOld, Drop, PollerType
    <2> QED BY <2>1, <2>2, <2>3, <2>4 DEF Polls
  <1> HIDE DEF n
  <1> QED BY <1>1, <1>2


(* An outcome is recorded, by whoever does it.                             *)
LEMMA OneOutcome ==
  ASSUME Booked, NEW x \in Actions, NEW r \in Results, results[x] = Unknown,
         results' = [results EXCEPT ![x] = r], audit' = audit
  PROVE  /\ results' \in [Actions -> Results \cup {Unknown}]
         /\ audit' \in [Actions -> Seq(Results)]
         /\ audit'[x] = <<>> /\ results'[x] # Unknown
         /\ operator # x /\ \A p \in Pollers : ~Auditing(p, x)
         /\ \A a \in Actions \ {x} : results'[a] = results[a]
  <1>1. Due(x) /\ results \in [Actions -> Results \cup {Unknown}]
        /\ audit \in [Actions -> Seq(Results)]
      BY DEF Booked
  <1>2. r # Unknown
      BY NoOutcomeIsNoResult
  <1> QED BY <1>1, <1>2 DEF Due, Owed

(* An audit row is written, by whoever owes it.                            *)
LEMMA OneAuditRow ==
  ASSUME Booked, NEW x \in Actions, Owed(x),
         audit' = [audit EXCEPT ![x] = Append(@, results[x])], results' = results
  PROVE  /\ audit' \in [Actions -> Seq(Results)] /\ audit' = [audit EXCEPT ![x] = <<results[x]>>]
         /\ \A a \in Actions \ {x} : audit'[a] = audit[a]
  <1>1. results[x] \in Results /\ audit[x] = <<>> /\ audit \in [Actions -> Seq(Results)]
      BY DEF Booked, Owed
  <1>2. Append(audit[x], results[x]) = <<results[x]>>
      BY <1>1
  <1>3. <<results[x]>> \in Seq(Results)
      BY <1>1
  <1> QED BY <1>1, <1>2, <1>3

(* Where nothing is recorded or written, nothing new is owed.              *)
LEMMA StaysDue ==
  ASSUME NEW a \in Actions, Due(a), results'[a] = results[a], audit'[a] = audit[a],
         operator' = a => operator = a,
         \A p \in Pollers : Auditing(p, a)' => Auditing(p, a)
  PROVE  Due(a)'
  <1>1. Owed(a)' <=> Owed(a)
      BY DEF Owed
  <1>2. results'[a] = Unknown => audit'[a] = <<>>
      BY DEF Due
  <1>3. operator' = a => Owed(a)'
      BY <1>1 DEF Due
  <1>4. ASSUME NEW p \in Pollers, Auditing(p, a)'
        PROVE  /\ Owed(a)' /\ operator' # a
               /\ \A q \in Pollers \ {p} : ~Auditing(q, a)'
      BY <1>1, <1>4 DEF Due
  <1> QED BY <1>2, <1>3, <1>4 DEF Due

LEMMA BookedSteps == Fed /\ Queued /\ Booked /\ [Next]_vars => Booked'
  <1> SUFFICES ASSUME Fed, Queued, Booked, [Next]_vars PROVE Booked'
      OBVIOUS
  <1>1. ASSUME UNCHANGED bookVars PROVE Booked'
      BY <1>1 DEF bookVars, Booked, Due, Owed, Auditing
  <1>2. ASSUME NEW e \in Events, RecordOutcome(e) PROVE Booked'
    <2>1. ActionOf(e) \in Actions /\ ResultOf(e) \in Results
        BY DEF Events, ActionOf, ResultOf, Results
    <2>2. /\ results[ActionOf(e)] = Unknown /\ UNCHANGED <<pollers, operator>>
          /\ results' = [results EXCEPT ![ActionOf(e)] = ResultOf(e)] /\ audit' = audit
        BY <1>2 DEF RecordOutcome
    <2> QED BY <2>1, <2>2, OneOutcome DEF Booked, Due, Owed, Auditing
  <1>3. ASSUME NEW p \in Pollers, Polls(p) PROVE Booked'
    <2>1. UNCHANGED <<operator, results, audit>> /\ old \subseteq Actions
        BY <1>3, PollsOnly DEF Fed
    <2>2. /\ pollers' \in [Pollers -> PollerType] /\ pollers'[p].pc # "auditing"
          /\ \A q \in Pollers \ {p} : pollers'[q] = pollers[q]
        BY <1>3, <2>1, OnePoll
    <2>3. ASSUME NEW x \in Actions PROVE Due(x)'
      <3>1. ASSUME NEW q \in Pollers, Auditing(q, x)' PROVE Auditing(q, x)
          BY <2>2, <3>1 DEF Auditing
      <3>2. Due(x)
          BY DEF Booked
      <3> QED BY <2>1, <3>1, <3>2, StaysDue
    <2> QED BY <2>1, <2>2, <2>3 DEF Booked
  <1>4. ASSUME NEW p \in Pollers, NEW a \in Actions, SettleNew(p, a) PROVE Booked'
    <2>1. /\ results[a] = Unknown /\ UNCHANGED operator /\ "recovered" \in Results
          /\ results' = [results EXCEPT ![a] = "recovered"] /\ audit' = audit
        BY <1>4 DEF SettleNew, restVars, Results
    <2>2. /\ pollers' \in [Pollers -> PollerType] /\ pollers'[p].current = a
          /\ \A q \in Pollers \ {p} : pollers'[q] = pollers[q]
        BY <1>4 DEF SettleNew, Booked, PollerType
    <2>3. /\ audit'[a] = <<>> /\ results'[a] # Unknown /\ operator # a
          /\ \A q \in Pollers : ~Auditing(q, a)
          /\ \A x \in Actions \ {a} : results'[x] = results[x]
        BY <2>1, OneOutcome
    <2>4. Due(a)'
        BY <2>1, <2>2, <2>3 DEF Booked, Due, Owed, Auditing
    <2>5. ASSUME NEW x \in Actions \ {a} PROVE Due(x)'
      <3>1. ASSUME NEW q \in Pollers, Auditing(q, x)' PROVE Auditing(q, x)
          BY <2>2, <3>1 DEF Auditing
      <3>2. Due(x) /\ results'[x] = results[x] /\ audit'[x] = audit[x]
          BY <2>1, <2>3 DEF Booked
      <3> QED BY <2>1, <3>1, <3>2, StaysDue
    <2> QED BY <2>1, <2>2, <2>4, <2>5, OneOutcome DEF Booked
  <1>5. ASSUME NEW p \in Pollers, NEW a \in Actions, PollAudits(p, a) PROVE Booked'
    <2>1. /\ Auditing(p, a) /\ results' = results /\ UNCHANGED operator
          /\ audit' = [audit EXCEPT ![a] = Append(@, results[a])]
        BY <1>5 DEF PollAudits, restVars, Auditing
    <2>2. /\ pollers' \in [Pollers -> PollerType] /\ pollers'[p].pc = "asking"
          /\ \A q \in Pollers \ {p} : pollers'[q] = pollers[q]
        BY <1>5 DEF PollAudits, Drop, Booked, PollerType
    <2>3. Owed(a) /\ operator # a /\ \A q \in Pollers \ {p} : ~Auditing(q, a)
        BY <2>1 DEF Booked, Due
    <2>4. \A x \in Actions \ {a} : audit'[x] = audit[x]
        BY <2>1, <2>3, OneAuditRow
    <2>5. Due(a)'
        BY <2>1, <2>2, <2>3 DEF Booked, Due, Owed, Auditing
    <2>6. ASSUME NEW x \in Actions \ {a} PROVE Due(x)'
      <3>1. ASSUME NEW q \in Pollers, Auditing(q, x)' PROVE Auditing(q, x)
          BY <2>2, <3>1 DEF Auditing
      <3>2. Due(x) /\ results'[x] = results[x] /\ audit'[x] = audit[x]
          BY <2>1, <2>4 DEF Booked
      <3> QED BY <2>1, <3>1, <3>2, StaysDue
    <2> QED BY <2>1, <2>2, <2>3, <2>5, <2>6, OneAuditRow DEF Booked
  <1>6. ASSUME NEW a \in Actions, NEW r \in Verdicts, MarkResolved(a, r) PROVE Booked'
    <2>1. /\ results[a] = Unknown /\ operator' = a /\ UNCHANGED pollers /\ r \in Results
          /\ results' = [results EXCEPT ![a] = r] /\ audit' = audit
        BY <1>6 DEF MarkResolved
    <2>2. operator = NoAction
        BY <1>6 DEF MarkResolved
    <2>3. /\ audit'[a] = <<>> /\ results'[a] # Unknown /\ operator # a
          /\ \A q \in Pollers : ~Auditing(q, a)
          /\ \A x \in Actions \ {a} : results'[x] = results[x]
        BY <2>1, OneOutcome
    <2>4. Due(a)'
        BY <2>1, <2>2, <2>3 DEF Booked, Due, Owed, Auditing
    <2>5. ASSUME NEW x \in Actions \ {a} PROVE Due(x)'
      <3>1. Due(x) /\ results'[x] = results[x] /\ audit'[x] = audit[x]
          BY <2>1, <2>3 DEF Booked
      <3> QED BY <2>1, <3>1, StaysDue DEF Auditing
    <2> QED BY <2>1, <2>2, <2>4, <2>5, OneOutcome DEF Booked
  <1>7. ASSUME NEW a \in Actions, AuditResolved(a) PROVE Booked'
    <2>1. /\ operator = a /\ operator' = NoAction /\ UNCHANGED <<pollers, results>>
          /\ audit' = [audit EXCEPT ![a] = Append(@, results[a])]
        BY <1>7 DEF AuditResolved
    <2>2. Owed(a) /\ \A p \in Pollers : ~Auditing(p, a)
        BY <2>1 DEF Booked, Due
    <2> QED BY <2>1, <2>2, OneAuditRow DEF Booked, Due, Owed, Auditing
  <1>8. CASE AbandonResolved
      BY <1>8 DEF AbandonResolved, Booked, Due, Owed, Auditing
  <1>9. CASE UNCHANGED vars
      BY <1>1, <1>9 DEF vars, bookVars
  <1>10. ASSUME Reads \/ Outside \/ \E s \in Servers : Appends(s) PROVE UNCHANGED bookVars
      BY <1>10, ReadsOnly, OutsideOnly DEF Appends, Enqueue, EnqueueUnanswered, bookVars
  <1> QED BY <1>1, <1>2, <1>3, <1>4, <1>5, <1>6, <1>7, <1>8, <1>9, <1>10, StepsByEffect


(***************************************************************************)
(* The invariant                                                           *)
(***************************************************************************)
PipelineInv == Fed /\ Queued /\ Booked

THEOREM PipelineInvariance == Spec => []PipelineInv
  <1>1. Init => PipelineInv
      BY FedStarts, QueuedStarts, BookedStarts DEF PipelineInv
  <1>2. PipelineInv /\ [Next]_vars => PipelineInv'
      BY FedSteps, QueuedSteps, BookedSteps DEF PipelineInv
  <1> QED BY <1>1, <1>2, PTL DEF Spec

(* Every variable stays in its type: nothing is read that was not          *)
(* appended, and no audit row says that there is no outcome.               *)
THEOREM TypeCorrect == Spec => []TypeOK
  <1>1. PipelineInv => TypeOK
    <2> SUFFICES ASSUME PipelineInv PROVE TypeOK
        OBVIOUS
    <2> USE DEF PipelineInv
    <2>1. /\ group \in [exists : BOOLEAN, start : 0 .. Len(stream),
                        read : 0 .. Len(stream), pel : SUBSET (1 .. Len(stream))]
          /\ unmatched \subseteq 1 .. group.read /\ stream \in Seq(Events)
      <3>1. /\ group.exists \in BOOLEAN /\ group.start \in 0 .. Len(stream)
            /\ group.read \in 0 .. Len(stream) /\ group.pel \subseteq 1 .. Len(stream)
          BY DEF Queued
      <3>2. group = [exists |-> group.exists, start |-> group.start,
                     read |-> group.read, pel |-> group.pel]
          BY DEF Queued
      <3> QED BY <3>1, <3>2 DEF Queued
    <2>2. consumer \in [pc : {"down", "ready", "handling", "updating", "acking"},
                        entry : 0 .. group.read]
        BY DEF Queued
    <2> QED BY <2>1, <2>2 DEF Fed, Booked, PollerType, TypeOK
  <1> QED BY <1>1, PipelineInvariance, PTL

(***************************************************************************)
(* The ledger                                                              *)
(***************************************************************************)
LEMMA LedgerSteps == PipelineInv /\ [Next]_vars => [Ledger!Next]_<<results, audit>>
  <1> SUFFICES ASSUME PipelineInv, [Next]_vars
               PROVE  Ledger!Next \/ UNCHANGED <<results, audit>>
      OBVIOUS
  <1>1. ASSUME NEW x \in Actions, NEW r \in Results, results[x] = Unknown,
               results' = [results EXCEPT ![x] = r], audit' = audit
        PROVE  Ledger!Next
      BY <1>1 DEF Ledger!Next, Ledger!Record
  <1>2. ASSUME NEW x \in Actions, Owed(x), results' = results,
               audit' = [audit EXCEPT ![x] = Append(@, results[x])]
        PROVE  Ledger!Next
    <2>1. audit' = [audit EXCEPT ![x] = <<results[x]>>]
        BY <1>2, OneAuditRow DEF PipelineInv
    <2> QED BY <1>2, <2>1 DEF Owed, Ledger!Next, Ledger!WriteAudit
  <1>3. ASSUME NEW e \in Events, RecordOutcome(e) PROVE Ledger!Next
    <2>1. ActionOf(e) \in Actions /\ ResultOf(e) \in Results
        BY DEF Events, ActionOf, ResultOf, Results
    <2> QED BY <1>1, <1>3, <2>1 DEF RecordOutcome
  <1>4. ASSUME NEW p \in Pollers, NEW a \in Actions, SettleNew(p, a) PROVE Ledger!Next
    <2>1. "recovered" \in Results
        BY DEF Results
    <2> QED BY <1>1, <1>4, <2>1 DEF SettleNew
  <1>5. ASSUME NEW p \in Pollers, NEW a \in Actions, PollAudits(p, a) PROVE Ledger!Next
    <2>1. Owed(a)
        BY <1>5 DEF PollAudits, PipelineInv, Booked, Due, Auditing
    <2> QED BY <1>2, <1>5, <2>1 DEF PollAudits
  <1>6. ASSUME NEW a \in Actions, NEW r \in Verdicts, MarkResolved(a, r) PROVE Ledger!Next
    <2>1. r \in Results
        OBVIOUS
    <2> QED BY <1>1, <1>6, <2>1 DEF MarkResolved
  <1>7. ASSUME NEW a \in Actions, AuditResolved(a) PROVE Ledger!Next
    <2>1. Owed(a)
        BY <1>7 DEF AuditResolved, PipelineInv, Booked, Due
    <2> QED BY <1>2, <1>7, <2>1 DEF AuditResolved
  <1>8. ASSUME Reads \/ Outside \/ AbandonResolved \/ \E s \in Servers : Appends(s)
        PROVE  UNCHANGED <<results, audit>>
      BY <1>8, ReadsOnly, OutsideOnly
         DEF AbandonResolved, Appends, Enqueue, EnqueueUnanswered, bookVars
  <1>9. CASE UNCHANGED vars
      BY <1>9 DEF vars
  <1> QED BY <1>3, <1>4, <1>5, <1>6, <1>7, <1>8, <1>9, StepsByEffect, PollsOnly

(* Consumer, polls, operator and redeliveries together keep the promise of *)
(* OutcomeLedger: an action gets one outcome, the first, and at most one   *)
(* audit row, which says the same.                                         *)
THEOREM LedgerIsKept == Spec => ImplementsLedger
  <1>1. Init => Ledger!Init
      BY DEF Init, Ledger!Init
  <1> QED BY <1>1, LedgerSteps, PipelineInvariance, PTL DEF Spec, ImplementsLedger, Ledger!Spec


(***************************************************************************)
(* What an acknowledged entry has left                                     *)
(***************************************************************************)
LEMMA OutcomesStay ==
  ASSUME PipelineInv, [Next]_vars, NEW a \in Actions, results[a] # Unknown
  PROVE  results'[a] = results[a]
  <1>1. results \in [Actions -> Results \cup {Unknown}]
      BY DEF PipelineInv, Booked
  <1> QED BY <1>1, LedgerSteps DEF Ledger!Next, Ledger!Record, Ledger!WriteAudit

(* The stream only grows, and nobody takes back that an entry was for an   *)
(* action without a row.                                                   *)
LEMMA EntriesRemain ==
  ASSUME PipelineInv, [Next]_vars
  PROVE  /\ unmatched \subseteq unmatched' /\ Len(stream) <= Len(stream')
         /\ \A i \in 1 .. Len(stream) : stream'[i] = stream[i]
  <1> USE DEF PipelineInv, Queued
  <1>1. ASSUME NEW s \in Servers, Appends(s)
        PROVE  /\ unmatched' = unmatched /\ Len(stream) <= Len(stream')
               /\ \A i \in 1 .. Len(stream) : stream'[i] = stream[i]
      BY <1>1, EntriesStay DEF Appends, Enqueue, EnqueueUnanswered
  <1>2. ASSUME Reads PROVE stream' = stream /\ unmatched \subseteq unmatched'
      BY <1>2 DEF Reads, StartConsumer, ReadNew, ReadLost, ConsumerDies, Ack, UpdateRaises,
         EntryFails, NoSuchAction, AlreadyRecorded, queueVars
  <1>3. ASSUME NEW e \in Events, RecordOutcome(e) PROVE UNCHANGED <<stream, unmatched>>
      BY <1>3 DEF RecordOutcome, queueVars
  <1>4. ASSUME NEW p \in Pollers, NEW a \in Actions, SettleNew(p, a) \/ PollAudits(p, a)
        PROVE  UNCHANGED <<stream, unmatched>>
      BY <1>4 DEF SettleNew, PollAudits, restVars, queueVars
  <1>5. ASSUME NEW a \in Actions, AuditResolved(a) \/ \E r \in Verdicts : MarkResolved(a, r)
        PROVE  UNCHANGED <<stream, unmatched>>
      BY <1>5 DEF AuditResolved, MarkResolved, queueVars
  <1>6. ASSUME AbandonResolved \/ UNCHANGED vars PROVE UNCHANGED <<stream, unmatched>>
      BY <1>6 DEF AbandonResolved, vars, queueVars
  <1>7. ASSUME UNCHANGED <<stream, unmatched>>
        PROVE  /\ unmatched \subseteq unmatched' /\ Len(stream) <= Len(stream')
               /\ \A i \in 1 .. Len(stream) : stream'[i] = stream[i]
      BY <1>7
  <1> QED BY <1>1, <1>2, <1>3, <1>4, <1>5, <1>6, <1>7, StepsByEffect, OutsideOnly, PollsOnly
          DEF readVars

Accounted(i) == i \in unmatched \/ results[ActionOf(stream[i])] # Unknown

LEMMA StaysAccounted ==
  ASSUME PipelineInv, [Next]_vars, NEW i \in 1 .. Len(stream), Accounted(i)
  PROVE  Accounted(i)'
  <1>1. stream[i] \in Events
      BY DEF PipelineInv, Queued
  <1>2. ActionOf(stream[i]) \in Actions
      BY <1>1 DEF Events, ActionOf
  <1>3. stream'[i] = stream[i] /\ unmatched \subseteq unmatched'
      BY EntriesRemain
  <1> QED BY <1>2, <1>3, OutcomesStay DEF Accounted

(* An entry that was handed out is pending or accounted for, and accounted *)
(* for from the moment the consumer goes to acknowledge it.                *)
AckInv ==
  /\ \A i \in group.start + 1 .. group.read : i \in group.pel \/ Accounted(i)
  /\ consumer.pc = "acking" => Accounted(consumer.entry)

LEMMA AckSteps == PipelineInv /\ PipelineInv' /\ AckInv /\ [Next]_vars => AckInv'
  <1> SUFFICES ASSUME PipelineInv, PipelineInv', AckInv, [Next]_vars PROVE AckInv'
      OBVIOUS
  <1>1. /\ group.start \in Nat /\ group.read \in Nat /\ group.read <= Len(stream)
        /\ Len(stream) \in Nat /\ consumer.entry \in Nat /\ consumer.entry <= group.read
        /\ Busy => consumer.entry # NoEntry
      BY DEF PipelineInv, Queued
  <1>2. ASSUME group' = group, (consumer.pc = "acking" => Accounted(consumer.entry))'
        PROVE  AckInv'
    <2>1. ASSUME NEW i \in group.start + 1 .. group.read PROVE i \in group.pel \/ Accounted(i)'
      <3>1. i \in 1 .. Len(stream)
          BY <1>1
      <3> QED BY <3>1, StaysAccounted DEF AckInv
    <2> QED BY <1>2, <2>1 DEF AckInv
  <1>3. ASSUME NEW i \in Nat, i = consumer.entry, consumer.pc = "acking" PROVE Accounted(i)'
    <2>1. i \in 1 .. Len(stream)
        BY <1>1, <1>3 DEF Busy, NoEntry
    <2> QED BY <1>3, <2>1, StaysAccounted DEF AckInv
  <1>4. ASSUME UNCHANGED <<group, consumer>> PROVE AckInv'
    <2>1. consumer.pc = "acking" => Accounted(consumer.entry)'
      <3>1. PICK i \in Nat : i = consumer.entry
          BY <1>1
      <3>2. consumer'.entry = i
          BY <1>4, <3>1
      <3> QED BY <1>3, <3>1, <3>2 DEF Accounted
    <2> QED BY <1>2, <1>4, <2>1
  <1>5. CASE StartConsumer
    <2>1. consumer'.pc # "acking" /\ (group' = group \/ group'.start = group'.read)
        BY <1>5 DEF StartConsumer, ConsumerGoto, PipelineInv, Queued
    <2>2. ASSUME group'.start = group'.read PROVE AckInv'
      <3>1. group'.read \in Nat
          BY DEF PipelineInv, Queued
      <3> QED BY <2>1, <2>2, <3>1 DEF AckInv
    <2> QED BY <1>2, <2>1, <2>2
  <1>6. ASSUME ReadNew \/ ReadLost PROVE AckInv'
    <2>1. /\ group'.start = group.start /\ group'.read = group.read + 1
          /\ group'.pel = group.pel \cup {group.read + 1}
        BY <1>6, HandedOut DEF PipelineInv
    <2>2. ASSUME NEW i \in group'.start + 1 .. group'.read PROVE i \in group'.pel \/ Accounted(i)'
      <3>1. i = group.read + 1 \/ i \in group.start + 1 .. group.read
          BY <1>1, <2>1
      <3>2. CASE i \in group.start + 1 .. group.read
        <4>1. i \in 1 .. Len(stream)
            BY <1>1, <3>2
        <4> QED BY <2>1, <3>2, <4>1, StaysAccounted DEF AckInv
      <3> QED BY <2>1, <3>1, <3>2
    <2>3. consumer'.pc # "acking"
        BY <1>6 DEF ReadNew, ReadLost
    <2> QED BY <2>2, <2>3 DEF AckInv
  <1>7. CASE Ack
    <2>1. /\ group'.start = group.start /\ group'.read = group.read
          /\ group'.pel = group.pel \ {consumer.entry} /\ consumer.pc = "acking"
          /\ consumer'.pc = "ready"
        BY <1>7 DEF Ack, ConsumerGoto, PipelineInv, Queued
    <2>2. ASSUME NEW i \in group.start + 1 .. group.read PROVE i \in group'.pel \/ Accounted(i)'
      <3>1. i \in 1 .. Len(stream)
          BY <1>1
      <3>2. CASE i = consumer.entry
        <4>1. i \in Nat
            BY <3>1
        <4> QED BY <1>3, <2>1, <3>2, <4>1
      <3>3. CASE i # consumer.entry
          BY <2>1, <3>1, <3>3, StaysAccounted DEF AckInv
      <3> QED BY <3>2, <3>3
    <2> QED BY <2>1, <2>2 DEF AckInv
  <1>8. ASSUME UpdateRaises \/ EntryFails \/ ConsumerDies PROVE AckInv'
    <2>1. group' = group /\ consumer'.pc # "acking"
        BY <1>8 DEF UpdateRaises, EntryFails, ConsumerDies, ConsumerGoto, queueVars,
           PipelineInv, Queued
    <2> QED BY <1>2, <2>1
  <1>9. ASSUME NEW e \in Events, NoSuchAction(e) \/ AlreadyRecorded(e) PROVE AckInv'
    <2>1. group' = group
        BY <1>9 DEF NoSuchAction, AlreadyRecorded, ConsumerGoto, queueVars, PipelineInv, Queued
    <2>2. /\ consumer'.entry = consumer.entry /\ stream' = stream /\ results' = results
          /\ e = stream[consumer.entry]
          /\ consumer.entry \in unmatched' \/ results[ActionOf(e)] # Unknown
        BY <1>9 DEF NoSuchAction, AlreadyRecorded, Handling, ConsumerGoto, queueVars,
           PipelineInv, Queued
    <2> QED BY <1>2, <2>1, <2>2 DEF Accounted
  <1>10. ASSUME NEW e \in Events, RecordOutcome(e) PROVE AckInv'
    <2>1. group' = group /\ consumer'.pc # "acking"
        BY <1>10 DEF RecordOutcome, ConsumerGoto, queueVars, PipelineInv, Queued
    <2> QED BY <1>2, <2>1
  <1>11. ASSUME NEW s \in Servers, Appends(s) PROVE UNCHANGED <<group, consumer>>
      BY <1>11 DEF Appends, Enqueue, EnqueueUnanswered
  <1>12. ASSUME NEW p \in Pollers, NEW a \in Actions, SettleNew(p, a) \/ PollAudits(p, a)
        PROVE  UNCHANGED <<group, consumer>>
      BY <1>12 DEF SettleNew, PollAudits, restVars, queueVars
  <1>13. ASSUME NEW a \in Actions, AuditResolved(a) \/ \E r \in Verdicts : MarkResolved(a, r)
        PROVE  UNCHANGED <<group, consumer>>
      BY <1>13 DEF AuditResolved, MarkResolved, queueVars
  <1>14. ASSUME AbandonResolved \/ UNCHANGED vars PROVE UNCHANGED <<group, consumer>>
      BY <1>14 DEF AbandonResolved, vars, queueVars
  <1>15. ASSUME NEW p \in Pollers, Outside \/ Polls(p) PROVE UNCHANGED <<group, consumer>>
      BY <1>15, OutsideOnly, PollsOnly DEF readVars
  <1>16. ASSUME Outside PROVE UNCHANGED <<group, consumer>>
      BY <1>16, OutsideOnly DEF readVars
  <1>17. ASSUME Reads PROVE AckInv'
      BY <1>5, <1>6, <1>7, <1>8, <1>9, <1>17 DEF Reads
  <1> QED BY <1>4, <1>10, <1>11, <1>12, <1>13, <1>14, <1>15, <1>16, <1>17, StepsByEffect

(* An entry that was acknowledged left an outcome, or was for an action    *)
(* whose row was not there yet.                                            *)
THEOREM AcknowledgedIsAccounted == Spec => []AckedIsAccounted
  <1>1. Init => AckInv
      BY DEF Init, AckInv
  <1>2. Spec => []AckInv
      BY <1>1, AckSteps, PipelineInvariance, PTL DEF Spec
  <1>3. AckInv => AckedIsAccounted
      BY DEF AckInv, AckedIsAccounted, Acked, Accounted
  <1> QED BY <1>2, <1>3, PTL


(***************************************************************************)
(* What is booked as recovered                                             *)
(***************************************************************************)
(* Entries and captured payments a poll has seen are things that happened. *)
RealInv ==
  /\ \A i \in 1 .. Len(stream) : stream[i] \in happened
  /\ \A p \in Pollers : pollers[p].pc = "settling" => Captured(pollers[p].current)
  /\ RecoveredIsReal

(* What happened stays so; an outcome is real that was, or that is new and *)
(* has its reason.                                                         *)
LEMMA StaysReal ==
  ASSUME RealInv, happened \subseteq happened',
         \A a \in Actions : results'[a] = "recovered" /\ results[a] # "recovered" =>
           Captured(a) \/ "recovered" \in Verdicts
  PROVE  RecoveredIsReal'
  BY DEF RealInv, RecoveredIsReal, Captured

LEMMA RealSteps ==
  ASSUME "payment_failed" \notin Reported
  PROVE  PipelineInv /\ RealInv /\ [Next]_vars => RealInv'
  <1> SUFFICES ASSUME PipelineInv, RealInv, [Next]_vars PROVE RealInv'
      OBVIOUS
  <1>1. ASSUME UNCHANGED <<stream, pollers, results>>, happened \subseteq happened' PROVE RealInv'
      BY <1>1 DEF RealInv, RecoveredIsReal, Captured
  <1>2. ASSUME NEW s \in Servers, Appends(s) PROVE RealInv'
    <2>1. /\ UNCHANGED <<happened, pollers, results>> /\ stream \in Seq(Events)
          /\ Len(stream) \in Nat
        BY <1>2 DEF Appends, Enqueue, EnqueueUnanswered, envVars, PipelineInv, Queued
    <2>2. ASSUME NEW i \in 1 .. Len(stream') PROVE stream'[i] \in happened
      <3>1. i \in 1 .. Len(stream) \/ i = Len(stream) + 1
          BY <1>2, <2>1, EntriesStay DEF PipelineInv
      <3> QED BY <1>2, <2>1, <3>1, EntriesStay DEF PipelineInv, RealInv
    <2> QED BY <2>1, <2>2 DEF RealInv, RecoveredIsReal, Captured
  <1>3. ASSUME NEW e \in Events, RecordOutcome(e) PROVE RealInv'
    <2>1. /\ UNCHANGED <<happened, stream, pollers>> /\ e = stream[consumer.entry]
          /\ consumer.pc = "handling" /\ results' = [results EXCEPT ![ActionOf(e)] = ResultOf(e)]
        BY <1>3 DEF RecordOutcome, Handling, envVars, queueVars
    <2>2. consumer.entry \in 1 .. Len(stream)
        BY <2>1 DEF PipelineInv, Queued, Busy, NoEntry
    <2>3. e \in happened
        BY <2>1, <2>2 DEF RealInv
    <2>4. ResultOf(e) = "recovered" => Captured(ActionOf(e))
      <3>1. PICK a \in Actions, k \in Reported : e = <<a, k>>
          BY DEF Events
      <3>2. k = "captured" \/ k = "charge_failed"
          BY DEF Kinds
      <3>3. ActionOf(e) = a /\ e[2] = k
          BY <3>1 DEF ActionOf
      <3> QED BY <2>3, <3>1, <3>2, <3>3 DEF ResultOf, Captured
    <2>5. RecoveredIsReal'
        BY <2>1, <2>4, StaysReal DEF PipelineInv, Booked
    <2> QED BY <2>1, <2>5 DEF RealInv, Captured
  <1>4. ASSUME NEW p \in Pollers, Polls(p) PROVE RealInv'
    <2>1. UNCHANGED <<happened, stream, results>> /\ pollers \in [Pollers -> PollerType]
        BY <1>4, PollsOnly DEF feedVars, PipelineInv, Booked
    <2>2. \A q \in Pollers \ {p} : pollers'[q] = pollers[q]
        BY <1>4, OnePoll DEF PipelineInv, Fed
    <2>3. pollers'[p].pc = "settling" => Captured(pollers'[p].current)
      <3>1. pollers[p] \in PollerType
          BY <2>1
      <3>2. ASSUME NEW a \in Actions, SeeCaptured(p, a) PROVE pollers'[p].current = a /\ Captured(a)
          BY <2>1, <3>1, <3>2 DEF SeeCaptured, PollerType
      <3>3. ASSUME NEW a \in Actions, SkipAction(p, a) \/ SettleOld(p, a)
            PROVE  pollers'[p].pc = "asking"
          BY <2>1, <3>1, <3>3 DEF SkipAction, SettleOld, Drop, PollerType
      <3>4. ASSUME StartPoll(p) \/ FinishPoll(p) \/ AbandonPoll(p) PROVE pollers'[p].pc # "settling"
          BY <2>1, <3>1, <3>4 DEF StartPoll, FinishPoll, AbandonPoll, IdlePoller, PollerType
      <3> QED BY <1>4, <3>2, <3>3, <3>4 DEF Polls
    <2> QED BY <2>1, <2>2, <2>3 DEF RealInv, RecoveredIsReal, Captured
  <1>5. ASSUME NEW p \in Pollers, NEW a \in Actions, SettleNew(p, a) PROVE RealInv'
    <2>1. /\ UNCHANGED <<happened, stream>> /\ results' = [results EXCEPT ![a] = "recovered"]
          /\ pollers[p].pc = "settling" /\ pollers[p].current = a
        BY <1>5 DEF SettleNew, restVars, envVars, queueVars
    <2>2. Captured(a)
        BY <2>1 DEF RealInv
    <2>3. RecoveredIsReal'
        BY <2>1, <2>2, StaysReal DEF PipelineInv, Booked
    <2>4. pollers'[p].pc = "auditing" /\ \A q \in Pollers \ {p} : pollers'[q] = pollers[q]
        BY <1>5 DEF SettleNew, PipelineInv, Booked, PollerType
    <2> QED BY <2>1, <2>3, <2>4 DEF RealInv, Captured
  <1>6. ASSUME NEW p \in Pollers, NEW a \in Actions, PollAudits(p, a) PROVE RealInv'
    <2>1. UNCHANGED <<happened, stream, results>>
        BY <1>6 DEF PollAudits, restVars, envVars, queueVars
    <2>2. pollers'[p].pc = "asking" /\ \A q \in Pollers \ {p} : pollers'[q] = pollers[q]
        BY <1>6 DEF PollAudits, Drop, PipelineInv, Booked, PollerType
    <2> QED BY <2>1, <2>2 DEF RealInv, RecoveredIsReal, Captured
  <1>7. ASSUME NEW a \in Actions, NEW r \in Verdicts, MarkResolved(a, r) PROVE RealInv'
    <2>1. UNCHANGED <<happened, stream, pollers>> /\ results' = [results EXCEPT ![a] = r]
        BY <1>7 DEF MarkResolved, envVars, queueVars
    <2>2. RecoveredIsReal'
        BY <2>1, StaysReal DEF PipelineInv, Booked
    <2> QED BY <2>1, <2>2 DEF RealInv, Captured
  <1>8. ASSUME NEW a \in Actions, AuditResolved(a) PROVE UNCHANGED <<happened, stream, pollers, results>>
      BY <1>8 DEF AuditResolved, envVars, queueVars
  <1>9. ASSUME AbandonResolved \/ UNCHANGED vars PROVE UNCHANGED <<happened, stream, pollers, results>>
      BY <1>9 DEF AbandonResolved, vars, envVars, queueVars
  <1>10. ASSUME Outside PROVE happened \subseteq happened'
      BY <1>10 DEF Outside, Environment, PaymentFails, PaymentCaptured, ActionCommitted,
         SixHoursPass, EnqueueFails, AcquireLock, LockExpires, envVars
  <1> QED BY <1>1, <1>2, <1>3, <1>4, <1>5, <1>6, <1>7, <1>8, <1>9, <1>10, StepsByEffect,
             OutsideOnly, ReadsOnly DEF bookVars, feedVars

(* Money is booked as recovered only if Razorpay captured it or an         *)
(* operator may say so, while payment.failed is not subscribed to.         *)
THEOREM RecordedIsReal ==
  ASSUME "payment_failed" \notin Reported
  PROVE  Spec => []RecoveredIsReal
  <1>1. ASSUME Init PROVE RealInv
    <2>1. ASSUME NEW a \in Actions PROVE results[a] # "recovered"
        BY <1>1 DEF Init, Unknown
    <2>2. ASSUME NEW p \in Pollers PROVE pollers[p].pc = "idle"
        BY <1>1 DEF Init, IdlePoller
    <2>3. Len(stream) = 0
        BY <1>1 DEF Init
    <2> QED BY <2>1, <2>2, <2>3 DEF RealInv, RecoveredIsReal
  <1>2. PipelineInv /\ RealInv /\ [Next]_vars => RealInv'
      BY RealSteps
  <1>3. RealInv => RecoveredIsReal
      BY DEF RealInv
  <1> QED BY <1>1, <1>2, <1>3, PipelineInvariance, PTL DEF Spec

(***************************************************************************)
(* Copies in the stream                                                    *)
(***************************************************************************)
(* PostsAreAccounted, for one key.                                         *)
Accounts(k) ==
  Cardinality(EntriesFor(k)) + Cardinality(CarriersOf(k)) + abandoned[k] =
    expiries[k] + (IF k \in locks THEN 1 ELSE 0) + unanswered[k]
CopiesInv == IsFiniteSet(Carried) /\ \A k \in Keys : Accounts(k)

LEMMA CopiesAreCounted ==
  ASSUME PipelineInv, IsFiniteSet(Carried), NEW k \in Keys
  PROVE  /\ IsFiniteSet(EntriesFor(k)) /\ Cardinality(EntriesFor(k)) \in Nat
         /\ IsFiniteSet(CarriersOf(k)) /\ Cardinality(CarriersOf(k)) \in Nat
         /\ expiries[k] \in Nat /\ unanswered[k] \in Nat /\ abandoned[k] \in Nat
  <1>1. IsFiniteSet(1 .. Len(stream))
    <2>1. Len(stream) \in Int
        BY DEF PipelineInv, Queued
    <2> QED BY <2>1, FS_Interval
  <1>2. IsFiniteSet(EntriesFor(k)) /\ IsFiniteSet(CarriersOf(k))
      BY <1>1, FS_Subset DEF EntriesFor, CarriersOf
  <1>3. expiries[k] \in Nat /\ unanswered[k] \in Nat /\ abandoned[k] \in Nat
      BY DEF PipelineInv, Fed
  <1> QED BY <1>2, <1>3, FS_CardinalityType

(* A key of which nothing is added, posted, lost or given up.              *)
LEMMA NoMoreCopies ==
  ASSUME NEW k \in Keys, Accounts(k), EntriesFor(k)' = EntriesFor(k),
         CarriersOf(k)' = CarriersOf(k), expiries'[k] = expiries[k],
         unanswered'[k] = unanswered[k], abandoned'[k] = abandoned[k],
         k \in locks <=> k \in locks'
  PROVE  Accounts(k)'
  BY DEF Accounts

(* An entry more in the stream is one more for its key, and for no other.  *)
LEMMA OneEntryMore ==
  ASSUME PipelineInv, IsFiniteSet(Carried), NEW s \in Servers, Appends(s), NEW k \in Keys
  PROVE  IF Key(servers[s]) = k
         THEN Cardinality(EntriesFor(k)') = Cardinality(EntriesFor(k)) + 1
         ELSE EntriesFor(k)' = EntriesFor(k)
  <1>1. /\ Len(stream') = Len(stream) + 1 /\ Len(stream) \in Nat
        /\ \A i \in 1 .. Len(stream) : stream'[i] = stream[i]
        /\ stream'[Len(stream) + 1] = servers[s]
      BY EntriesStay DEF PipelineInv, Queued
  <1>2. CASE Key(servers[s]) = k
    <2>1. EntriesFor(k)' = EntriesFor(k) \cup {Len(stream) + 1}
        BY <1>1, <1>2 DEF EntriesFor
    <2>2. Len(stream) + 1 \notin EntriesFor(k)
        BY <1>1 DEF EntriesFor
    <2> QED BY <1>2, <2>1, <2>2, CopiesAreCounted, FS_AddElement
  <1>3. CASE Key(servers[s]) # k
      BY <1>1, <1>3 DEF EntriesFor
  <1> QED BY <1>2, <1>3

(* A process that is done with its event is one less for the key of the    *)
(* event, and for no other.                                                *)
LEMMA OneCarrierLess ==
  ASSUME PipelineInv, IsFiniteSet(Carried), NEW s \in Servers, servers[s] # NoEvent,
         servers' = [servers EXCEPT ![s] = NoEvent], NEW k \in Keys
  PROVE  /\ IsFiniteSet(Carried')
         /\ IF Key(servers[s]) = k
            THEN Cardinality(CarriersOf(k)') = Cardinality(CarriersOf(k)) - 1
            ELSE CarriersOf(k)' = CarriersOf(k)
  <1>1. servers \in [Servers -> Events \cup {NoEvent}]
      BY DEF PipelineInv, Fed
  <1>2. Carried' = Carried \ {s}
      BY <1>1 DEF Carried
  <1>3. CASE Key(servers[s]) = k
    <2>1. s \in CarriersOf(k) /\ CarriersOf(k)' = CarriersOf(k) \ {s}
        BY <1>1, <1>2, <1>3 DEF CarriersOf, Carried
    <2> QED BY <1>2, <1>3, <2>1, CopiesAreCounted, FS_RemoveElement, FS_Subset
  <1>4. CASE Key(servers[s]) # k
    <2>1. CarriersOf(k)' = CarriersOf(k)
        BY <1>1, <1>2, <1>4 DEF CarriersOf, Carried
    <2> QED BY <1>2, <1>4, <2>1, FS_Subset
  <1> QED BY <1>3, <1>4

LEMMA CopiesSteps == PipelineInv /\ CopiesInv /\ [Next]_vars => CopiesInv'
  <1> SUFFICES ASSUME PipelineInv, CopiesInv, [Next]_vars PROVE CopiesInv'
      OBVIOUS
  <1> DEFINE copyVars == <<servers, stream, locks, expiries, unanswered, abandoned>>
  <1>a. IsFiniteSet(Carried)
      BY DEF CopiesInv
  <1>b. ASSUME NEW k \in Keys
        PROVE  /\ Accounts(k)
               /\ Cardinality(EntriesFor(k)) \in Nat /\ Cardinality(CarriersOf(k)) \in Nat
               /\ expiries[k] \in Nat /\ unanswered[k] \in Nat /\ abandoned[k] \in Nat
      BY <1>a, CopiesAreCounted DEF CopiesInv
  <1>c. /\ servers \in [Servers -> Events \cup {NoEvent}]
        /\ expiries \in [Keys -> 0 .. MaxExpiries]
        /\ unanswered \in [Keys -> 0 .. MaxRepeats] /\ abandoned \in [Keys -> Nat]
      BY DEF PipelineInv, Fed
  <1>1. ASSUME UNCHANGED copyVars PROVE CopiesInv'
      BY <1>1 DEF CopiesInv, Accounts, Carried, CarriersOf, EntriesFor
  <1>2. ASSUME NEW s \in Servers, NEW e \in Events, AcquireLock(s, e) PROVE CopiesInv'
    <2>1. /\ servers' = [servers EXCEPT ![s] = e] /\ locks' = locks \cup {Key(e)}
          /\ UNCHANGED <<stream, expiries, unanswered, abandoned>>
          /\ Key(e) \notin locks /\ servers[s] = NoEvent
        BY <1>2 DEF AcquireLock, queueVars
    <2>2. e # NoEvent
        BY DEF Events, NoEvent
    <2>3. Carried' = Carried \cup {s}
        BY <1>c, <2>1, <2>2 DEF Carried
    <2>4. IsFiniteSet(Carried')
        BY <1>a, <2>3, FS_AddElement
    <2>5. ASSUME NEW k \in Keys PROVE Accounts(k)'
      <3>1. EntriesFor(k)' = EntriesFor(k)
          BY <2>1 DEF EntriesFor
      <3>2. CASE Key(e) = k
        <4>1. CarriersOf(k)' = CarriersOf(k) \cup {s} /\ s \notin CarriersOf(k)
            BY <1>c, <2>1, <2>3, <3>2 DEF CarriersOf, Carried
        <4>2. Cardinality(CarriersOf(k)') = Cardinality(CarriersOf(k)) + 1
            BY <1>a, <4>1, CopiesAreCounted, FS_AddElement
        <4>3. k \notin locks /\ k \in locks'
            BY <2>1, <3>2
        <4>4. /\ expiries'[k] = expiries[k] /\ unanswered'[k] = unanswered[k]
              /\ abandoned'[k] = abandoned[k]
            BY <2>1
        <4> QED BY <1>b, <3>1, <4>2, <4>3, <4>4 DEF Accounts
      <3>3. CASE Key(e) # k
        <4>1. CarriersOf(k)' = CarriersOf(k)
            BY <1>c, <2>1, <2>3, <3>3 DEF CarriersOf, Carried
        <4> QED BY <1>b, <2>1, <3>1, <3>3, <4>1, NoMoreCopies
      <3> QED BY <3>2, <3>3
    <2> QED BY <2>4, <2>5 DEF CopiesInv
  <1>3. ASSUME NEW s \in Servers, EnqueueFails(s) PROVE CopiesInv'
    <2>1. /\ servers[s] # NoEvent /\ servers' = [servers EXCEPT ![s] = NoEvent]
          /\ abandoned' = [abandoned EXCEPT ![Key(servers[s])] = abandoned[Key(servers[s])] + 1]
          /\ UNCHANGED <<stream, locks, expiries, unanswered>>
        BY <1>3 DEF EnqueueFails, queueVars
    <2>2. servers[s] \in Events /\ Key(servers[s]) \in Keys
        BY <1>c, <2>1 DEF Keys
    <2>3. IsFiniteSet(Carried')
        BY <1>a, <2>1, <2>2, OneCarrierLess
    <2>4. ASSUME NEW k \in Keys PROVE Accounts(k)'
      <3>1. EntriesFor(k)' = EntriesFor(k)
          BY <2>1 DEF EntriesFor
      <3>2. CASE Key(servers[s]) = k
        <4>1. Cardinality(CarriersOf(k)') = Cardinality(CarriersOf(k)) - 1
            BY <1>a, <2>1, <3>2, OneCarrierLess
        <4>2. abandoned'[k] = abandoned[k] + 1
            BY <1>c, <2>1, <3>2
        <4> QED BY <1>b, <2>1, <3>1, <4>1, <4>2 DEF Accounts
      <3>3. CASE Key(servers[s]) # k
        <4>1. CarriersOf(k)' = CarriersOf(k)
            BY <1>a, <2>1, <3>3, OneCarrierLess
        <4>2. abandoned'[k] = abandoned[k]
            BY <1>c, <2>1, <3>3
        <4> QED BY <1>b, <2>1, <3>1, <4>1, <4>2, NoMoreCopies
      <3> QED BY <3>2, <3>3
    <2> QED BY <2>3, <2>4 DEF CopiesInv
  <1>4. ASSUME NEW s \in Servers, Enqueue(s) PROVE CopiesInv'
    <2>1. /\ servers[s] # NoEvent /\ servers' = [servers EXCEPT ![s] = NoEvent]
          /\ UNCHANGED <<locks, expiries, unanswered, abandoned>> /\ Appends(s)
        BY <1>4 DEF Enqueue, Appends
    <2>2. servers[s] \in Events /\ Key(servers[s]) \in Keys
        BY <1>c, <2>1 DEF Keys
    <2>3. IsFiniteSet(Carried')
        BY <1>a, <2>1, <2>2, OneCarrierLess
    <2>4. ASSUME NEW k \in Keys PROVE Accounts(k)'
      <3>1. CASE Key(servers[s]) = k
        <4>1. Cardinality(CarriersOf(k)') = Cardinality(CarriersOf(k)) - 1
            BY <1>a, <2>1, <3>1, OneCarrierLess
        <4>2. Cardinality(EntriesFor(k)') = Cardinality(EntriesFor(k)) + 1
            BY <1>a, <2>1, <3>1, OneEntryMore
        <4> QED BY <1>b, <2>1, <4>1, <4>2 DEF Accounts
      <3>2. CASE Key(servers[s]) # k
        <4>1. CarriersOf(k)' = CarriersOf(k) /\ EntriesFor(k)' = EntriesFor(k)
            BY <1>a, <2>1, <3>2, OneCarrierLess, OneEntryMore
        <4> QED BY <1>b, <2>1, <4>1, NoMoreCopies
      <3> QED BY <3>1, <3>2
    <2> QED BY <2>3, <2>4 DEF CopiesInv
  <1>5. ASSUME NEW s \in Servers, EnqueueUnanswered(s) PROVE CopiesInv'
    <2>1. /\ servers[s] # NoEvent /\ Appends(s)
          /\ unanswered' = [unanswered EXCEPT ![Key(servers[s])] = unanswered[Key(servers[s])] + 1]
          /\ UNCHANGED <<servers, locks, expiries, abandoned>>
        BY <1>5 DEF EnqueueUnanswered, Appends
    <2>2. Carried' = Carried
        BY <2>1 DEF Carried
    <2>3. ASSUME NEW k \in Keys PROVE Accounts(k)'
      <3>1. CarriersOf(k)' = CarriersOf(k)
          BY <2>1 DEF CarriersOf, Carried
      <3>2. CASE Key(servers[s]) = k
        <4>1. Cardinality(EntriesFor(k)') = Cardinality(EntriesFor(k)) + 1
            BY <1>a, <2>1, <3>2, OneEntryMore
        <4>2. unanswered'[k] = unanswered[k] + 1
            BY <1>c, <2>1, <3>2
        <4> QED BY <1>b, <2>1, <3>1, <4>1, <4>2 DEF Accounts
      <3>3. CASE Key(servers[s]) # k
        <4>1. EntriesFor(k)' = EntriesFor(k)
            BY <1>a, <2>1, <3>3, OneEntryMore
        <4>2. unanswered'[k] = unanswered[k]
            BY <1>c, <2>1, <3>3
        <4> QED BY <1>b, <2>1, <3>1, <4>1, <4>2, NoMoreCopies
      <3> QED BY <3>2, <3>3
    <2> QED BY <1>a, <2>2, <2>3 DEF CopiesInv
  <1>6. ASSUME NEW j \in Keys, LockExpires(j) PROVE CopiesInv'
    <2>1. /\ locks' = locks \ {j} /\ j \in locks
          /\ UNCHANGED <<servers, stream, unanswered, abandoned>>
          /\ expiries' = [expiries EXCEPT ![j] = expiries[j] + 1]
        BY <1>6 DEF LockExpires, queueVars
    <2>2. ASSUME NEW k \in Keys PROVE Accounts(k)'
      <3>1. EntriesFor(k)' = EntriesFor(k) /\ CarriersOf(k)' = CarriersOf(k)
          BY <2>1 DEF EntriesFor, CarriersOf, Carried
      <3>2. CASE k = j
        <4>1. k \in locks /\ k \notin locks' /\ expiries'[k] = expiries[k] + 1
            BY <1>c, <2>1, <3>2
        <4> QED BY <1>b, <2>1, <3>1, <4>1 DEF Accounts
      <3>3. CASE k # j
        <4>1. (k \in locks <=> k \in locks') /\ expiries'[k] = expiries[k]
            BY <1>c, <2>1, <3>3
        <4> QED BY <1>b, <2>1, <3>1, <4>1, NoMoreCopies
      <3> QED BY <3>2, <3>3
    <2>3. Carried' = Carried
        BY <2>1 DEF Carried
    <2> QED BY <1>a, <2>2, <2>3 DEF CopiesInv
  <1>7. ASSUME NEW a \in Actions, Environment(a) PROVE UNCHANGED copyVars
      BY <1>7 DEF Environment, PaymentFails, PaymentCaptured, ActionCommitted, SixHoursPass,
         apiVars, queueVars
  <1>8. ASSUME Reads \/ AbandonResolved \/ UNCHANGED vars PROVE UNCHANGED copyVars
      BY <1>8, ReadsOnly DEF AbandonResolved, feedVars, vars, apiVars, queueVars
  <1>9. ASSUME NEW e \in Events, RecordOutcome(e) PROVE UNCHANGED copyVars
      BY <1>9 DEF RecordOutcome, apiVars, queueVars
  <1>10. ASSUME NEW p \in Pollers, Polls(p) PROVE UNCHANGED copyVars
      BY <1>10, PollsOnly DEF feedVars
  <1>11. ASSUME NEW p \in Pollers, NEW a \in Actions, SettleNew(p, a) \/ PollAudits(p, a)
         PROVE  UNCHANGED copyVars
      BY <1>11 DEF SettleNew, PollAudits, restVars, apiVars, queueVars
  <1>12. ASSUME NEW a \in Actions, AuditResolved(a) \/ \E r \in Verdicts : MarkResolved(a, r)
         PROVE  UNCHANGED copyVars
      BY <1>12 DEF AuditResolved, MarkResolved, apiVars, queueVars
  <1>13. ASSUME Outside PROVE CopiesInv'
      BY <1>1, <1>2, <1>3, <1>6, <1>7, <1>13 DEF Outside
  <1>14. ASSUME NEW s \in Servers, Appends(s) PROVE CopiesInv'
      BY <1>4, <1>5, <1>14 DEF Appends
  <1> HIDE DEF copyVars
  <1> QED BY <1>1, <1>8, <1>9, <1>10, <1>11, <1>12, <1>13, <1>14, StepsByEffect

(* Of every event, the copies in the stream, the posts on their way and    *)
(* those that gave up are as many as the lives of its lock and the XADDs   *)
(* that were applied without an answer: no life lets two posts through,    *)
(* and a copy too many has a lost reply or an expired lock behind it.      *)
THEOREM EveryCopyHasItsCause == Spec => []PostsAreAccounted
  <1>1. ASSUME Init PROVE CopiesInv
    <2>1. Carried = {} /\ Len(stream) = 0 /\ locks = {}
        BY <1>1 DEF Init, Carried
    <2>2. ASSUME NEW k \in Keys PROVE Accounts(k)
      <3>1. EntriesFor(k) = {} /\ CarriersOf(k) = {}
          BY <2>1 DEF EntriesFor, CarriersOf
      <3>2. expiries[k] = 0 /\ unanswered[k] = 0 /\ abandoned[k] = 0
          BY <1>1 DEF Init
      <3> QED BY <2>1, <3>1, <3>2, FS_EmptySet DEF Accounts
    <2>3. IsFiniteSet(Carried)
        BY <2>1, FS_EmptySet
    <2> QED BY <2>2, <2>3 DEF CopiesInv
  <1>2. CopiesInv => PostsAreAccounted
      BY DEF CopiesInv, Accounts, PostsAreAccounted
  <1> QED BY <1>1, <1>2, CopiesSteps, PipelineInvariance, PTL DEF Spec


(***************************************************************************)
(* No second chance                                                        *)
(***************************************************************************)
(* An entry was there when the group began, or has been handed out since,  *)
(* and the consumer does not have it in hand.                              *)
Passed(i) == group.exists /\ i <= group.read /\ ~(Busy /\ consumer.entry = i)
LeftPending(i) == Passed(i) /\ i \in group.pel

LEMMA PassedStays ==
  ASSUME Queued, [Next]_vars, NEW i \in Nat, Passed(i)
  PROVE  Passed(i)' /\ (i \in group.pel => i \in group'.pel)
  <1> USE DEF Passed, Busy
  <1>0. /\ group \in [exists : BOOLEAN, start : Nat, read : Nat, pel : SUBSET Nat]
        /\ consumer \in [pc : {"down", "ready", "handling", "updating", "acking"}, entry : Nat]
      BY DEF Queued
  <1>1. ASSUME UNCHANGED readVars PROVE Passed(i)' /\ group' = group
      BY <1>1 DEF readVars
  <1>2. CASE StartConsumer
    <2>1. group' = group /\ consumer'.pc = "ready"
        BY <1>0, <1>2 DEF StartConsumer, ConsumerGoto
    <2> QED BY <2>1
  <1>3. CASE ReadNew \/ ReadLost
    <2>1. /\ group'.read = group.read + 1 /\ group'.pel = group.pel \cup {group.read + 1}
          /\ group'.exists = group.exists
        BY <1>0, <1>3 DEF ReadNew, ReadLost
    <2>2. \/ consumer'.pc = "handling" /\ consumer'.entry = group.read + 1
          \/ consumer'.pc = "ready"
        BY <1>3 DEF ReadNew, ReadLost
    <2>3. i # group.read + 1 /\ i <= group.read + 1
        BY <1>0
    <2> QED BY <2>1, <2>2, <2>3
  <1>4. CASE Ack
      BY <1>0, <1>4 DEF Ack, ConsumerGoto
  <1>5. CASE UpdateRaises \/ EntryFails \/ ConsumerDies
      BY <1>0, <1>5 DEF UpdateRaises, EntryFails, ConsumerDies, ConsumerGoto, queueVars
  <1>6. ASSUME NEW e \in Events, NoSuchAction(e) \/ AlreadyRecorded(e) \/ RecordOutcome(e)
        PROVE  Passed(i)' /\ group' = group
      BY <1>0, <1>6 DEF NoSuchAction, AlreadyRecorded, RecordOutcome, Handling, ConsumerGoto,
         queueVars
  <1>7. ASSUME NEW s \in Servers, Appends(s) PROVE UNCHANGED readVars
      BY <1>7 DEF Appends, Enqueue, EnqueueUnanswered, readVars
  <1>8. ASSUME NEW p \in Pollers, NEW a \in Actions, SettleNew(p, a) \/ PollAudits(p, a)
        PROVE  UNCHANGED readVars
      BY <1>8 DEF SettleNew, PollAudits, restVars, readVars, queueVars
  <1>9. ASSUME NEW a \in Actions,
               AuditResolved(a) \/ \E r \in Verdicts : MarkResolved(a, r)
        PROVE  UNCHANGED readVars
      BY <1>9 DEF AuditResolved, MarkResolved, readVars, queueVars
  <1>10. AbandonResolved \/ UNCHANGED vars => UNCHANGED readVars
      BY DEF AbandonResolved, vars, readVars, queueVars
  <1>11. ASSUME Reads PROVE Passed(i)' /\ (i \in group.pel => i \in group'.pel)
      BY <1>2, <1>3, <1>4, <1>5, <1>6, <1>11 DEF Reads
  <1>12. ASSUME Outside \/ \E p \in Pollers : Polls(p) PROVE UNCHANGED readVars
      BY <1>12, OutsideOnly, PollsOnly
  <1> QED BY <1>1, <1>6, <1>7, <1>8, <1>9, <1>10, <1>11, <1>12, StepsByEffect

(* The consumer has an entry in hand once at the most, and one that it     *)
(* left unacknowledged, or whose hand-out was lost, is pending for good,   *)
(* restarts included.  This is the counterexample to BegunIsAcked, for any *)
(* stream and any entry.                                                   *)
THEOREM NoSecondChance ==
  ASSUME NEW i \in Nat
  PROVE  Spec => [](Passed(i) => []Passed(i)) /\ [](LeftPending(i) => []LeftPending(i))
  <1>1. Queued /\ Passed(i) /\ [Next]_vars => Passed(i)'
      BY PassedStays
  <1>2. Queued /\ LeftPending(i) /\ [Next]_vars => LeftPending(i)'
      BY PassedStays DEF LeftPending
  <1>3. PipelineInv => Queued
      BY DEF PipelineInv
  <1> QED BY <1>1, <1>2, <1>3, PipelineInvariance, PTL DEF Spec
=============================================================================
