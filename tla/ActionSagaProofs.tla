-------------------------- MODULE ActionSagaProofs --------------------------
(***************************************************************************)
(* Theorems about ActionSaga for any decisions, deliveries, sweeps, retry  *)
(* budget, page size and amount of other traffic, with calls that may hang. *)
(* The argument is the invariant SagaInv: one step of the specification    *)
(* preserves it, one lemma per action that disturbs it.                    *)
(***************************************************************************)
EXTENDS ActionSaga, FiniteSetTheorems, TLAPS

LinkRecord == [key : Decisions \cup {OtherTraffic}, by : Calls \cup {NoCall}]

(* Appending a link leaves the earlier ones where they are.                *)
LEMMA AppendLink ==
  ASSUME links \in Seq(LinkRecord), NEW e \in LinkRecord,
         links' = Append(links, e)
  PROVE  /\ links' \in Seq(LinkRecord)
         /\ Len(links) \in Nat /\ Len(links') = Len(links) + 1
         /\ \A i \in 1 .. Len(links) : links'[i] = links[i]
         /\ links'[Len(links) + 1] = e
  OBVIOUS

(* So a reference that was good stays good.                                *)
LEMMA LinkForStable ==
  ASSUME links \in Seq(LinkRecord), NEW e \in LinkRecord,
         links' = Append(links, e), NEW d, NEW i, LinkFor(d, i)
  PROVE  LinkFor(d, i)'
  BY AppendLink DEF LinkFor, LinkIds

LEMMA InitSaga == Init => SagaInv
<1> SUFFICES ASSUME Init PROVE SagaInv
  OBVIOUS
<1> USE SagaAssumption DEF Init, IdleCall, IdleSweep
<1>1. TypeOK
  BY DEF TypeOK, CallState, SweepState, CallPC, ActionStatus, PendingStatus,
         None
<1>2. CallsConsistent /\ SweepsConsistent
  BY DEF CallsConsistent, SweepsConsistent, CallConsistent, SweepConsistent
<1>3. /\ SingleCreator /\ ReferencesAreReal /\ OutcomesAudited
      /\ OneDeliveryActs
  BY DEF SingleCreator, ReferencesAreReal, OutcomesAudited, OneDeliveryActs,
         LinkIds
<1>4. QED
  BY <1>1, <1>2, <1>3 DEF SagaInv

(* What follows from SagaInv about a call that is under way.               *)
LEMMA CallFacts ==
  ASSUME SagaInv, NEW c \in Calls, calls[c].pc # "idle"
  PROVE  /\ calls[c].decision \in Decisions
         /\ calls[c].ref \in Nat /\ calls[c].status \in ActionStatus
         /\ calls[c].tries \in 0 .. MaxRetries /\ calls[c].pc \in CallPC
  BY DEF SagaInv, TypeOK, CallState, CallsConsistent, CallConsistent

-----------------------------------------------------------------------------
(* TypeOK.                                                                 *)

(* A record-valued function updated in some fields at one point.           *)
LEMMA GotoTyped ==
  ASSUME TypeOK, NEW c \in Calls, NEW pc \in CallPC, Goto(c, pc)
  PROVE  calls' \in [Calls -> CallState]
<1>1. calls[c] \in CallState
  BY DEF TypeOK
<1>2. [calls[c] EXCEPT !.pc = pc] \in CallState
  BY <1>1 DEF CallState
<1>3. QED
  BY <1>2 DEF Goto, TypeOK

LEMMA GotoInsertTyped ==
  ASSUME TypeOK, NEW c \in Calls, NEW st \in ActionStatus, NEW ref \in Nat,
         GotoInsert(c, st, ref)
  PROVE  calls' \in [Calls -> CallState]
<1>1. calls[c] \in CallState
  BY DEF TypeOK
<1>2. [calls[c] EXCEPT !.pc = "inserting", !.status = st, !.ref = ref]
         \in CallState
  BY <1>1 DEF CallState, CallPC
<1>3. QED
  BY <1>2 DEF GotoInsert, TypeOK

LEMMA TypeStep == SagaInv /\ [Next]_vars => TypeOK'
<1> SUFFICES ASSUME SagaInv, [Next]_vars PROVE TypeOK'
  OBVIOUS
<1> USE SagaAssumption
<1>0. TypeOK
  BY DEF SagaInv
<1>1. ASSUME NEW c \in Calls, CallStep(c) PROVE TypeOK'
  <2>1. ASSUME NEW d \in Decisions, ReturnExisting(c, d) \/ Enter(c, d)
        PROVE  TypeOK'
    <3> DEFINE start(pc) == [calls[c] EXCEPT !.pc = pc, !.decision = d]
    <3>1. start("done") \in CallState /\ start("dispatch") \in CallState
      <4>1. calls[c] \in CallState
        BY <1>0 DEF TypeOK
      <4>2. QED
        BY <4>1 DEF CallState, CallPC
    <3>2. calls' \in [Calls -> CallState]
      BY <1>0, <2>1, <3>1 DEF TypeOK, ReturnExisting, Enter
    <3>3. QED
      BY <1>0, <2>1, <3>2 DEF TypeOK, ReturnExisting, Enter, dbVars
  <2>2. CASE PublishDeferral(c)
    <3>1. calls' \in [Calls -> CallState]
      BY <1>0, <2>2, GotoTyped DEF PublishDeferral, CallPC
    <3>2. QED
      BY <1>0, <2>2, <3>1, CallFacts
      DEF TypeOK, PublishDeferral, AtDispatch, dbVars
  <2>3. CASE PublishDelayed(c)
    <3>1. calls' \in [Calls -> CallState]
      BY <1>0, <2>3, GotoInsertTyped DEF PublishDelayed, ActionStatus, None
    <3>2. QED
      BY <1>0, <2>3, <3>1, CallFacts
      DEF TypeOK, PublishDelayed, AtDispatch, dbVars
  <2>4. CASE NoteDeferral(c) \/ GenerateNudge(c) \/ WriteError(c)
    <3>1. calls' \in [Calls -> CallState]
      BY <1>0, <2>4, GotoInsertTyped
      DEF NoteDeferral, GenerateNudge, WriteError, ActionStatus, None
    <3>2. audit' \subseteq [by : Calls, decision : Decisions,
                            kind : {"note", "error"}]
      BY <1>0, <2>4, CallFacts
      DEF TypeOK, NoteDeferral, GenerateNudge, WriteError, AtDispatch, Audit
    <3>3. QED
      BY <1>0, <2>4, <3>1, <3>2
      DEF TypeOK, NoteDeferral, GenerateNudge, WriteError
  <2>5. CASE RecordIntent(c)
    <3>1. calls' \in [Calls -> CallState]
      BY <1>0, <2>5, GotoTyped DEF RecordIntent, CallPC
    <3>2. pending' \in [Decisions -> [status : PendingStatus, ref : Nat,
                                       by : Calls \cup {NoCall}]]
      BY <1>0, <2>5 DEF TypeOK, RecordIntent, PendingStatus, None
    <3>3. QED
      BY <1>0, <2>5, <3>1, <3>2 DEF TypeOK, RecordIntent
  <2>6. CASE IntentRejected(c) \/ Refused(c)
    <3>1. calls' \in [Calls -> CallState]
      BY <1>0, <2>6, GotoTyped DEF IntentRejected, Refused, CallPC
    <3>2. QED
      BY <1>0, <2>6, <3>1 DEF TypeOK, IntentRejected, Refused, dbVars
  <2>7. CASE NoOp(c)
    <3>1. calls' \in [Calls -> CallState]
      BY <1>0, <2>7, GotoInsertTyped DEF NoOp, ActionStatus, None
    <3>2. QED
      BY <1>0, <2>7, <3>1 DEF TypeOK, NoOp, dbVars
  <2>8. CASE LinkCreated(c)
    <3>1. NewLink(c) \in LinkRecord
      BY <2>8, CallFacts DEF LinkCreated, NewLink, LinkRecord
    <3>2. links' \in Seq(LinkRecord) /\ Len(links) + 1 \in Nat
      BY <1>0, <2>8, <3>1, AppendLink DEF TypeOK, LinkCreated, LinkRecord
    <3>3. [calls[c] EXCEPT !.pc = "created", !.ref = Len(links) + 1]
            \in CallState
      <4>1. calls[c] \in CallState
        BY <1>0 DEF TypeOK
      <4>2. QED
        BY <3>2, <4>1 DEF CallState, CallPC
    <3>4. calls' \in [Calls -> CallState]
      BY <1>0, <2>8, <3>3 DEF TypeOK, LinkCreated
    <3>5. QED
      BY <1>0, <2>8, <3>2, <3>4 DEF TypeOK, LinkCreated, LinkRecord, dbVars
  <2>9. ASSUME calls[c].pc = "calling", CountTry(c)
        PROVE  calls' \in [Calls -> CallState]
    <3>1. calls[c].tries \in 0 .. MaxRetries /\ calls[c].tries < MaxRetries
      BY <2>9, CallFacts DEF SagaInv, CallsConsistent, CallConsistent
    <3>2. calls[c].tries + 1 \in 0 .. MaxRetries
      BY <3>1
    <3>3. \A pc \in CallPC :
            [calls[c] EXCEPT !.tries = calls[c].tries + 1, !.pc = pc]
              \in CallState
      <4>1. calls[c] \in CallState
        BY <1>0 DEF TypeOK
      <4>2. QED
        BY <3>2, <4>1 DEF CallState
    <3>4. QED
      BY <1>0, <2>9, <3>3 DEF TypeOK, CountTry, CallPC
  <2>10. CASE RequestLost(c)
    BY <1>0, <2>9, <2>10 DEF TypeOK, RequestLost, dbVars
  <2>11. CASE ResponseLost(c)
    <3>1. NewLink(c) \in LinkRecord
      BY <2>11, CallFacts DEF ResponseLost, NewLink, LinkRecord
    <3>2. links' \in Seq(LinkRecord)
      BY <1>0, <2>11, <3>1, AppendLink DEF TypeOK, ResponseLost, LinkRecord
    <3>3. QED
      BY <1>0, <2>9, <2>11, <3>2
      DEF TypeOK, ResponseLost, LinkRecord, dbVars
  <2>12. CASE ConfirmIntent(c)
    <3>1. calls' \in [Calls -> CallState]
      BY <1>0, <2>12, GotoInsertTyped, CallFacts DEF ConfirmIntent, ActionStatus
    <3>2. QED
      BY <1>0, <2>12, <3>1, CallFacts DEF TypeOK, ConfirmIntent, PendingStatus
  <2>13. CASE FailIntent(c)
    <3>1. calls' \in [Calls -> CallState]
      BY <1>0, <2>13, GotoTyped DEF FailIntent, CallPC
    <3>2. QED
      BY <1>0, <2>13, <3>1 DEF TypeOK, FailIntent, PendingStatus
  <2>14. CASE InsertAction(c)
    <3>1. calls' \in [Calls -> CallState]
      BY <1>0, <2>14, GotoTyped DEF InsertAction, CallPC
    <3>2. QED
      BY <1>0, <2>14, <3>1, CallFacts DEF TypeOK, InsertAction
  <2>15. QED
    BY <1>1, <2>1, <2>2, <2>3, <2>4, <2>5, <2>6, <2>7, <2>8, <2>10, <2>11,
       <2>12, <2>13, <2>14 DEF CallStep
<1>2. ASSUME NEW c \in Calls, Abandon(c) PROVE TypeOK'
  <2>1. calls' \in [Calls -> CallState]
    BY <1>0, <1>2, GotoTyped DEF Abandon, CallPC
  <2>2. QED
    BY <1>0, <1>2, <2>1 DEF TypeOK, Abandon, dbVars
<1>3. ASSUME NEW s \in Sweeps, SweepStep(s) \/ AbandonSweep(s) PROVE TypeOK'
  <2>1. CASE StartSweep(s)
    <3>1. [sweeps[s] EXCEPT !.pc = "scanning", !.todo = Stuck] \in SweepState
      <4>1. sweeps[s] \in SweepState /\ Stuck \subseteq Decisions
        BY <1>0 DEF TypeOK, Stuck
      <4>2. QED
        BY <4>1 DEF SweepState
    <3>2. sweeps' \in [Sweeps -> SweepState]
      BY <1>0, <2>1, <3>1 DEF TypeOK, StartSweep
    <3>3. QED
      BY <1>0, <2>1, <3>2 DEF TypeOK, StartSweep, dbVars
  <2>2. ASSUME NEW d \in Decisions, SearchAnswered(s, d)
        PROVE  TypeOK'
    <3>1. PICK i \in Refs :
            sweeps' = [sweeps EXCEPT ![s].pc = "resolving",
                                     ![s].current = d, ![s].found = i]
      BY <2>2 DEF SearchAnswered
    <3>2. i \in Nat
      BY <1>0, <3>1 DEF Refs, TypeOK
    <3>3. [sweeps[s] EXCEPT !.pc = "resolving", !.current = d, !.found = i]
            \in SweepState
      <4>1. sweeps[s] \in SweepState
        BY <1>0 DEF TypeOK
      <4>2. QED
        BY <3>2, <4>1 DEF SweepState
    <3>4. sweeps' \in [Sweeps -> SweepState]
      BY <1>0, <3>1, <3>3 DEF TypeOK
    <3>5. QED
      BY <1>0, <2>2, <3>4 DEF TypeOK, SearchAnswered, dbVars
  <2>3. ASSUME NEW d \in Decisions, SearchFailed(s, d)
        PROVE  TypeOK'
    <3>1. [sweeps[s] EXCEPT !.todo = sweeps[s].todo \ {d}] \in SweepState
      <4>1. sweeps[s] \in SweepState
        BY <1>0 DEF TypeOK
      <4>2. QED
        BY <4>1 DEF SweepState
    <3>2. sweeps' \in [Sweeps -> SweepState]
      BY <1>0, <2>3, <3>1 DEF TypeOK, SearchFailed
    <3>3. QED
      BY <1>0, <2>3, <3>2 DEF TypeOK, SearchFailed, dbVars
  <2>4. ASSUME NextRow(s) PROVE sweeps' \in [Sweeps -> SweepState]
    <3>1. [sweeps[s] EXCEPT !.pc = "scanning", !.found = None,
                            !.todo = sweeps[s].todo \ {sweeps[s].current},
                            !.current = NoDecision] \in SweepState
      <4>1. sweeps[s] \in SweepState
        BY <1>0 DEF TypeOK
      <4>2. QED
        BY <4>1 DEF SweepState, None
    <3>2. QED
      BY <1>0, <2>4, <3>1 DEF TypeOK, NextRow
  <2>5. ASSUME sweeps[s].pc = "resolving"
        PROVE  sweeps[s].current \in Decisions /\ sweeps[s].found \in Nat
    <3>1. sweeps[s] \in SweepState
      BY <1>0 DEF TypeOK
    <3>2. QED
      BY <2>5, <3>1 DEF SagaInv, SweepsConsistent, SweepConsistent, SweepState
  <2>6. CASE Reconcile(s)
    <3>1. pending' \in [Decisions -> [status : PendingStatus, ref : Nat,
                                       by : Calls \cup {NoCall}]]
      BY <1>0, <2>5, <2>6 DEF TypeOK, Reconcile, PendingStatus
    <3>2. actions' \subseteq [by : Calls \cup Sweeps, decision : Decisions,
                              status : ActionStatus, ref : Nat]
      BY <1>0, <2>5, <2>6 DEF TypeOK, Reconcile, ActionStatus
    <3>3. QED
      BY <1>0, <2>4, <2>6, <3>1, <3>2 DEF TypeOK, Reconcile
  <2>7. CASE DeadLetter(s)
    <3>1. pending' \in [Decisions -> [status : PendingStatus, ref : Nat,
                                       by : Calls \cup {NoCall}]]
      BY <1>0, <2>5, <2>7 DEF TypeOK, DeadLetter, PendingStatus
    <3>2. deadLetters' \subseteq Sweeps \X Decisions
      BY <1>0, <2>5, <2>7 DEF TypeOK, DeadLetter
    <3>3. QED
      BY <1>0, <2>4, <2>7, <3>1, <3>2 DEF TypeOK, DeadLetter
  <2>8. CASE NoteRejected(s)
    BY <1>0, <2>4, <2>8 DEF TypeOK, NoteRejected, dbVars
  <2>9. CASE FinishSweep(s) \/ AbandonSweep(s)
    <3>1. IdleSweep \in SweepState
      BY DEF IdleSweep, SweepState, None
    <3>2. QED
      BY <1>0, <2>9, <3>1 DEF TypeOK, FinishSweep, AbandonSweep, dbVars
  <2>10. QED
    BY <1>3, <2>1, <2>2, <2>3, <2>6, <2>7, <2>8, <2>9 DEF SweepStep
<1>4. ASSUME NEW d \in Decisions, PassThreshold(d) PROVE TypeOK'
  BY <1>0, <1>4 DEF TypeOK, PassThreshold, dbVars
<1>5. ASSUME NEW c \in Calls, NEW d \in Decisions, DeliverDelayed(c, d)
      PROVE  TypeOK'
  BY <1>0, <1>5 DEF TypeOK, DeliverDelayed, dbVars
<1>6. CASE OtherLinkCreated
  <2>1. [key |-> OtherTraffic, by |-> NoCall] \in LinkRecord
    BY DEF LinkRecord
  <2>2. links' \in Seq(LinkRecord)
    BY <1>0, <1>6, <2>1, AppendLink DEF TypeOK, OtherLinkCreated, LinkRecord
  <2>3. QED
    BY <1>0, <1>6, <2>2 DEF TypeOK, OtherLinkCreated, dbVars, LinkRecord
<1>7. CASE UNCHANGED vars
  BY <1>0, <1>7 DEF TypeOK, vars
<1>8. QED
  BY <1>1, <1>2, <1>3, <1>4, <1>5, <1>6, <1>7 DEF Next

-----------------------------------------------------------------------------
(* Which steps write the intent rows and the links, and what never changes. *)

(* A step that writes pending_actions or makes a link is one of these.     *)
Writes(c) == \/ RecordIntent(c) \/ LinkCreated(c) \/ ResponseLost(c)
             \/ ConfirmIntent(c) \/ FailIntent(c)
LEMMA WriterCases ==
  ASSUME [Next]_vars
  PROVE  \/ UNCHANGED <<pending, links>>
         \/ \E c \in Calls : Writes(c)
         \/ \E s \in Sweeps : Reconcile(s) \/ DeadLetter(s)
         \/ OtherLinkCreated
<1>1. ASSUME NEW c \in Calls, CallStep(c)
      PROVE  UNCHANGED <<pending, links>> \/ Writes(c)
  BY <1>1
  DEF CallStep, Writes, ReturnExisting, Enter, PublishDeferral, NoteDeferral,
      IntentRejected, PublishDelayed, GenerateNudge, NoOp, RequestLost,
      Refused, WriteError, InsertAction, dbVars
<1>2. ASSUME NEW s \in Sweeps, SweepStep(s)
      PROVE  \/ UNCHANGED <<pending, links>>
             \/ Reconcile(s) \/ DeadLetter(s)
  BY <1>2
  DEF SweepStep, StartSweep, SearchAnswered, SearchFailed, NoteRejected,
      FinishSweep, dbVars
<1>3. QED
  BY <1>1, <1>2
  DEF Next, Abandon, AbandonSweep, PassThreshold, DeliverDelayed, dbVars, vars

(* Only two kinds of step add rows to actions.                             *)
LEMMA ActionWriters ==
  ASSUME [Next]_vars
  PROVE  \/ actions' = actions
         \/ \E c \in Calls : InsertAction(c)
         \/ \E s \in Sweeps : Reconcile(s)
<1>1. ASSUME NEW c \in Calls, CallStep(c)
      PROVE  actions' = actions \/ InsertAction(c)
  BY <1>1
  DEF CallStep, ReturnExisting, Enter, PublishDeferral, NoteDeferral,
      RecordIntent, IntentRejected, PublishDelayed, GenerateNudge, NoOp,
      LinkCreated, RequestLost, ResponseLost, Refused, ConfirmIntent,
      FailIntent, WriteError, dbVars
<1>2. ASSUME NEW s \in Sweeps, SweepStep(s)
      PROVE  actions' = actions \/ Reconcile(s)
  BY <1>2
  DEF SweepStep, StartSweep, SearchAnswered, SearchFailed, DeadLetter,
      NoteRejected, FinishSweep, dbVars
<1>3. QED
  BY <1>1, <1>2
  DEF Next, Abandon, AbandonSweep, PassThreshold, DeliverDelayed,
      OtherLinkCreated, dbVars, vars

(* The rows the other steps are preserved against: an intent row keeps its *)
(* owner, a link its place, an audit row its place.                        *)
Kept ==
  /\ \A d \in Decisions :
       pending[d].status # "absent" =>
         pending'[d].status # "absent" /\ pending'[d].by = pending[d].by
  /\ \A d \in Decisions, i \in Nat : LinkFor(d, i) => LinkFor(d, i)'
  /\ audit \subseteq audit'
LEMMA StepKeeps == SagaInv /\ [Next]_vars => Kept
<1> SUFFICES ASSUME SagaInv, [Next]_vars PROVE Kept
  OBVIOUS
<1> USE SagaAssumption
<1>0. TypeOK
  BY DEF SagaInv
<1>1. audit \subseteq audit'
  <2>1. ASSUME NEW c \in Calls, CallStep(c) PROVE audit \subseteq audit'
    BY <2>1
    DEF CallStep, ReturnExisting, Enter, PublishDeferral, NoteDeferral,
        RecordIntent, IntentRejected, PublishDelayed, GenerateNudge, NoOp,
        LinkCreated, RequestLost, ResponseLost, Refused, ConfirmIntent,
        FailIntent, WriteError, InsertAction, Audit, dbVars
  <2>2. ASSUME NEW s \in Sweeps, SweepStep(s) PROVE audit \subseteq audit'
    BY <2>2
    DEF SweepStep, StartSweep, SearchAnswered, SearchFailed, Reconcile,
        DeadLetter, NoteRejected, FinishSweep, dbVars
  <2>3. QED
    BY <2>1, <2>2
    DEF Next, Abandon, AbandonSweep, PassThreshold, DeliverDelayed,
        OtherLinkCreated, dbVars, vars
<1>2. ASSUME NEW d \in Decisions, pending[d].status # "absent"
      PROVE  pending'[d].status # "absent" /\ pending'[d].by = pending[d].by
  <2>1. CASE UNCHANGED <<pending, links>>
    BY <1>2, <2>1
  <2>2. ASSUME NEW c \in Calls, Writes(c)
        PROVE  pending'[d].status # "absent" /\ pending'[d].by = pending[d].by
    <3>0. pending \in [Decisions -> [status : PendingStatus, ref : Nat,
                                     by : Calls \cup {NoCall}]]
      BY <1>0 DEF TypeOK
    <3>1. CASE RecordIntent(c)
      BY <1>2, <3>0, <3>1 DEF RecordIntent
    <3>2. CASE ConfirmIntent(c)
      BY <1>2, <3>0, <3>2 DEF ConfirmIntent
    <3>3. CASE FailIntent(c)
      BY <1>2, <3>0, <3>3 DEF FailIntent
    <3>4. CASE LinkCreated(c) \/ ResponseLost(c)
      BY <1>2, <3>4 DEF LinkCreated, ResponseLost, dbVars
    <3>5. QED
      BY <2>2, <3>1, <3>2, <3>3, <3>4 DEF Writes
  <2>3. ASSUME NEW s \in Sweeps, Reconcile(s) \/ DeadLetter(s)
        PROVE  pending'[d].status # "absent" /\ pending'[d].by = pending[d].by
    <3>0. pending \in [Decisions -> [status : PendingStatus, ref : Nat,
                                     by : Calls \cup {NoCall}]]
      BY <1>0 DEF TypeOK
    <3>1. CASE Reconcile(s)
      BY <1>2, <3>0, <3>1 DEF Reconcile
    <3>2. CASE DeadLetter(s)
      BY <1>2, <3>0, <3>2 DEF DeadLetter
    <3>3. QED
      BY <2>3, <3>1, <3>2
  <2>4. CASE OtherLinkCreated
    BY <1>2, <2>4 DEF OtherLinkCreated, dbVars
  <2>5. QED
    BY <2>1, <2>2, <2>3, <2>4, WriterCases
<1>3. ASSUME NEW d \in Decisions, NEW i \in Nat, LinkFor(d, i)
      PROVE  LinkFor(d, i)'
  <2>1. ASSUME NEW c \in Calls, Writes(c) PROVE LinkFor(d, i)'
    <3>1. CASE LinkCreated(c) \/ ResponseLost(c)
      <4>1. calls[c].decision \in Decisions
        BY <3>1, CallFacts DEF LinkCreated, ResponseLost
      <4>2. NewLink(c) \in LinkRecord /\ links' = Append(links, NewLink(c))
        BY <3>1, <4>1 DEF LinkCreated, ResponseLost, NewLink, LinkRecord
      <4>3. QED
        BY <1>0, <1>3, <4>2, LinkForStable DEF TypeOK, LinkRecord
    <3>2. CASE RecordIntent(c) \/ ConfirmIntent(c) \/ FailIntent(c)
      BY <1>3, <3>2
      DEF RecordIntent, ConfirmIntent, FailIntent, LinkFor, LinkIds
    <3>3. QED
      BY <2>1, <3>1, <3>2 DEF Writes
  <2>2. ASSUME NEW s \in Sweeps, Reconcile(s) \/ DeadLetter(s)
        PROVE  LinkFor(d, i)'
    BY <1>3, <2>2 DEF Reconcile, DeadLetter, LinkFor, LinkIds
  <2>3. CASE OtherLinkCreated
    <3>1. [key |-> OtherTraffic, by |-> NoCall] \in LinkRecord
      BY DEF LinkRecord
    <3>2. QED
      BY <1>0, <1>3, <2>3, <3>1, LinkForStable
      DEF OtherLinkCreated, TypeOK, LinkRecord
  <2>4. CASE UNCHANGED <<pending, links>>
    BY <1>3, <2>4 DEF LinkFor, LinkIds
  <2>5. QED
    BY <2>1, <2>2, <2>3, <2>4, WriterCases
<1>4. QED
  BY <1>1, <1>2, <1>3 DEF Kept

-----------------------------------------------------------------------------
(* CallsConsistent and SweepsConsistent.                                   *)

LEMMA CallStable ==
  ASSUME SagaInv, Kept, NEW c \in Calls, UNCHANGED calls[c]
  PROVE  CallConsistent(c)'
<1>1. CallConsistent(c) /\ calls[c].ref \in Nat
  BY DEF SagaInv, TypeOK, CallState, CallsConsistent
<1>2. QED
  BY <1>1 DEF CallConsistent, Owns, Kept

LEMMA SweepStable ==
  ASSUME SagaInv, Kept, NEW s \in Sweeps, UNCHANGED sweeps[s]
  PROVE  SweepConsistent(s)'
<1>1. SweepConsistent(s) /\ sweeps[s].found \in Nat
  BY DEF SagaInv, TypeOK, SweepState, SweepsConsistent
<1>2. QED
  BY <1>1 DEF SweepConsistent, Kept

(* A call leads its own step to a consistent state ...                     *)
LEMMA OwnCallStep ==
  ASSUME SagaInv, Kept, NEW c \in Calls, CallStep(c) \/ Abandon(c)
  PROVE  CallConsistent(c)'
<1> USE SagaAssumption DEF Owns
<1>0. /\ CallConsistent(c) /\ calls[c] \in CallState
      /\ calls \in [Calls -> CallState]
      /\ pending \in [Decisions -> [status : PendingStatus, ref : Nat,
                                    by : Calls \cup {NoCall}]]
  BY DEF SagaInv, TypeOK, CallsConsistent
<1>1. ASSUME NEW d \in Decisions, ReturnExisting(c, d) \/ Enter(c, d)
      PROVE  CallConsistent(c)'
  BY <1>0, <1>1 DEF ReturnExisting, Enter, CallConsistent, CallState
<1>2. CASE PublishDeferral(c) \/ IntentRejected(c) \/ InsertAction(c)
             \/ Abandon(c) \/ FailIntent(c)
  BY <1>0, <1>2
  DEF PublishDeferral, IntentRejected, InsertAction, Abandon, FailIntent,
      AtDispatch, Goto, CallConsistent, CallState
<1>3. CASE Refused(c)
  BY <1>0, <1>3
  DEF Refused, Goto, CallConsistent, CallState, dbVars
<1>4. CASE PublishDelayed(c) \/ GenerateNudge(c) \/ NoOp(c)
  BY <1>0, <1>4
  DEF PublishDelayed, GenerateNudge, NoOp, AtDispatch, GotoInsert,
      CallConsistent, CallState, RealMoneyArms, DelayedArms, NudgeArms,
      NoOpArms
<1>5. CASE NoteDeferral(c) \/ WriteError(c)
  BY <1>0, <1>5
  DEF NoteDeferral, WriteError, Audit, GotoInsert, CallConsistent, CallState
<1>6. CASE RecordIntent(c)
  <2>1. calls[c].tries < MaxRetries
    BY <1>0, <1>6 DEF RecordIntent, AtDispatch, CallConsistent
  <2>2. QED
    BY <1>0, <1>6, <2>1
    DEF RecordIntent, AtDispatch, Goto, CallConsistent, CallState
<1>7. CASE LinkCreated(c)
  <2>1. links \in Seq(LinkRecord) /\ links' = Append(links, NewLink(c))
    BY <1>7 DEF LinkCreated, SagaInv, TypeOK, LinkRecord
  <2>2. PICK d \in Decisions, n \in Nat :
          d = calls[c].decision /\ n = Len(links) + 1
    BY <1>7, <2>1, CallFacts DEF LinkCreated
  <2>3. NewLink(c) \in LinkRecord /\ NewLink(c).key = d
    BY <2>2 DEF NewLink, LinkRecord
  <2>4. n \in 1 .. Len(links') /\ links'[n] = NewLink(c)
    BY <2>1, <2>2, <2>3, AppendLink
  <2>5. LinkFor(d, n)'
    BY <2>3, <2>4 DEF LinkFor, LinkIds
  <2>6. /\ calls'[c].pc = "created" /\ calls'[c].decision = d
        /\ calls'[c].ref = n /\ UNCHANGED pending
    BY <1>0, <1>7, <2>2 DEF LinkCreated, CallState, dbVars
  <2>7. QED
    BY <1>0, <1>7, <2>2, <2>5, <2>6 DEF LinkCreated, CallConsistent
<1>8. CASE RequestLost(c) \/ ResponseLost(c)
  BY <1>0, <1>8
  DEF RequestLost, ResponseLost, CountTry, CallConsistent, CallState, dbVars
<1>9. CASE ConfirmIntent(c)
  BY <1>0, <1>9 DEF ConfirmIntent, GotoInsert, CallConsistent, LinkFor, LinkIds
<1>10. QED
  BY <1>1, <1>2, <1>3, <1>4, <1>5, <1>6, <1>7, <1>8, <1>9 DEF CallStep

(* ... and only its own step moves it.                                     *)
LEMMA OnlyItself ==
  ASSUME SagaInv, [Next]_vars, NEW x \in Calls
  PROVE  UNCHANGED calls[x] \/ CallStep(x) \/ Abandon(x)
<1>0. calls \in [Calls -> CallState]
  BY DEF SagaInv, TypeOK
<1>1. ASSUME NEW c \in Calls, CallStep(c) \/ Abandon(c), c # x
      PROVE  UNCHANGED calls[x]
  BY <1>0, <1>1
  DEF CallStep, Abandon, ReturnExisting, Enter, PublishDeferral, NoteDeferral,
      RecordIntent, IntentRejected, PublishDelayed, GenerateNudge, NoOp,
      LinkCreated, RequestLost, ResponseLost, Refused, ConfirmIntent,
      FailIntent, WriteError, InsertAction, Goto, GotoInsert, CountTry
<1>2. ASSUME NEW s \in Sweeps, SweepStep(s) \/ AbandonSweep(s)
      PROVE  UNCHANGED calls[x]
  BY <1>2
  DEF SweepStep, AbandonSweep, StartSweep, SearchAnswered, SearchFailed,
      Reconcile, DeadLetter, NoteRejected, FinishSweep
<1>3. QED
  BY <1>1, <1>2
  DEF Next, PassThreshold, DeliverDelayed, OtherLinkCreated, vars

LEMMA CallsStep == SagaInv /\ [Next]_vars => CallsConsistent'
  BY StepKeeps, OnlyItself, CallStable, OwnCallStep DEF CallsConsistent

LEMMA SweepsStep == SagaInv /\ [Next]_vars => SweepsConsistent'
<1> SUFFICES ASSUME SagaInv, [Next]_vars, NEW x \in Sweeps
             PROVE  SweepConsistent(x)'
  BY DEF SweepsConsistent
<1>0. Kept /\ sweeps \in [Sweeps -> SweepState]
  BY StepKeeps DEF SagaInv, TypeOK
<1>1. ASSUME NEW c \in Calls, CallStep(c) PROVE UNCHANGED sweeps[x]
  BY <1>1
  DEF CallStep, ReturnExisting, Enter, PublishDeferral, NoteDeferral,
      RecordIntent, IntentRejected, PublishDelayed, GenerateNudge, NoOp,
      LinkCreated, RequestLost, ResponseLost, Refused, ConfirmIntent,
      FailIntent, WriteError, InsertAction
<1>2. ASSUME NEW s \in Sweeps, SweepStep(s) \/ AbandonSweep(s)
      PROVE  SweepConsistent(x)'
  <2>1. CASE s # x
    <3>1. UNCHANGED sweeps[x]
      BY <1>0, <1>2, <2>1
      DEF SweepStep, AbandonSweep, StartSweep, SearchAnswered, SearchFailed,
          Reconcile, DeadLetter, NoteRejected, FinishSweep, NextRow
    <3>2. QED
      BY <1>0, <3>1, SweepStable
  <2>2. ASSUME s = x, NEW d \in Decisions, SearchAnswered(s, d)
        PROVE  SweepConsistent(x)'
    <3>1. PICK i \in Refs :
            /\ FoundLink(d, i)
            /\ sweeps' = [sweeps EXCEPT ![s].pc = "resolving",
                                        ![s].current = d, ![s].found = i]
      BY <2>2 DEF SearchAnswered
    <3>2. i # None => LinkFor(d, i)
      BY <3>1 DEF FoundLink, Matches, LinkFor, LinkIds
    <3>3. UNCHANGED links
      BY <2>2 DEF SearchAnswered
    <3>4. QED
      BY <1>0, <2>2, <3>1, <3>2, <3>3
      DEF SweepConsistent, SweepState, LinkFor, LinkIds
  <2>3. CASE s = x /\ ~\E d \in Decisions : SearchAnswered(s, d)
    <3>1. sweeps'[x].pc # "resolving" \/ UNCHANGED sweeps[x]
      BY <1>0, <1>2, <2>3
      DEF SweepStep, AbandonSweep, StartSweep, SearchFailed, Reconcile,
          DeadLetter, NoteRejected, FinishSweep, NextRow, IdleSweep, SweepState
    <3>2. QED
      BY <1>0, <3>1, SweepStable DEF SweepConsistent
  <2>4. QED
    BY <2>1, <2>2, <2>3
<1>3. \/ UNCHANGED sweeps[x]
      \/ \E s \in Sweeps : SweepStep(s) \/ AbandonSweep(s)
  BY <1>1
  DEF Next, Abandon, PassThreshold, DeliverDelayed, OtherLinkCreated, vars
<1>4. QED
  BY <1>0, <1>2, <1>3, SweepStable

-----------------------------------------------------------------------------
(* The three safety properties.                                            *)

(* Only a call in the saga makes a link for a decision, and it owns the    *)
(* decision's intent row.                                                  *)
LEMMA CreatorStep == SagaInv /\ [Next]_vars => SingleCreator'
<1> SUFFICES ASSUME SagaInv, [Next]_vars, NEW i \in 1 .. Len(links'),
                    links'[i].key \in Decisions
             PROVE  /\ pending'[links'[i].key].status # "absent"
                    /\ pending'[links'[i].key].by = links'[i].by
  BY DEF SingleCreator, LinkIds
<1>0. Kept /\ SingleCreator /\ links \in Seq(LinkRecord)
  BY StepKeeps DEF SagaInv, TypeOK, LinkRecord
<1>1. ASSUME i \in LinkIds, links'[i] = links[i]
      PROVE  /\ pending'[links'[i].key].status # "absent"
             /\ pending'[links'[i].key].by = links'[i].by
  BY <1>0, <1>1 DEF Kept, SingleCreator
<1>2. CASE UNCHANGED links
  BY <1>1, <1>2 DEF LinkIds
<1>3. ASSUME NEW c \in Calls, LinkCreated(c) \/ ResponseLost(c)
      PROVE  /\ pending'[links'[i].key].status # "absent"
             /\ pending'[links'[i].key].by = links'[i].by
  <2>1. /\ NewLink(c) \in LinkRecord /\ links' = Append(links, NewLink(c))
        /\ UNCHANGED pending
    BY <1>3, CallFacts
    DEF LinkCreated, ResponseLost, NewLink, LinkRecord, dbVars
  <2>2. /\ pending[calls[c].decision].status # "absent"
        /\ pending[calls[c].decision].by = c
    BY <1>3
    DEF LinkCreated, ResponseLost, SagaInv, CallsConsistent, CallConsistent,
        Owns
  <2>3. CASE i = Len(links) + 1
    BY <1>0, <2>1, <2>2, <2>3, AppendLink DEF NewLink
  <2>4. CASE i # Len(links) + 1
    BY <1>0, <1>1, <2>1, <2>4, AppendLink DEF LinkIds
  <2>5. QED
    BY <2>3, <2>4
<1>4. CASE OtherLinkCreated
  <2>1. [key |-> OtherTraffic, by |-> NoCall] \in LinkRecord
    BY DEF LinkRecord
  <2>2. \/ i \in LinkIds /\ links'[i] = links[i]
        \/ links'[i].key = OtherTraffic
    BY <1>0, <1>4, <2>1, AppendLink DEF OtherLinkCreated, LinkIds
  <2>3. QED
    BY <1>1, <2>2, SagaAssumption
<1>5. QED
  BY <1>2, <1>3, <1>4, WriterCases
  DEF Writes, RecordIntent, ConfirmIntent, FailIntent, Reconcile, DeadLetter

(* A reference is stored by the call that got it, or by the sweep that     *)
(* found it.                                                               *)
LEMMA ReferencesStep == SagaInv /\ [Next]_vars => ReferencesAreReal'
<1> SUFFICES ASSUME SagaInv, [Next]_vars PROVE ReferencesAreReal'
  OBVIOUS
<1>0. /\ Kept /\ ReferencesAreReal
      /\ pending \in [Decisions -> [status : PendingStatus, ref : Nat,
                                    by : Calls \cup {NoCall}]]
      /\ actions \subseteq [by : Calls \cup Sweeps, decision : Decisions,
                            status : ActionStatus, ref : Nat]
  BY StepKeeps DEF SagaInv, TypeOK
<1>1. ASSUME NEW d \in Decisions,
             pending'[d].status \in {"confirmed", "reconciled"}
      PROVE  LinkFor(d, pending[d].ref)'
  <2>1. ASSUME UNCHANGED pending[d] PROVE LinkFor(d, pending[d].ref)'
    <3>1. PICK r \in Nat : r = pending[d].ref
      BY <1>0
    <3>2. LinkFor(d, r)
      BY <1>0, <1>1, <2>1, <3>1 DEF ReferencesAreReal
    <3>3. LinkFor(d, r)'
      BY <1>0, <3>2 DEF Kept
    <3>4. QED
      BY <2>1, <3>1, <3>3
  <2>2. ASSUME NEW c \in Calls, Writes(c) PROVE LinkFor(d, pending[d].ref)'
    <3>1. CASE LinkCreated(c) \/ ResponseLost(c)
      BY <2>1, <3>1 DEF LinkCreated, ResponseLost, dbVars
    <3>2. CASE RecordIntent(c)
      BY <1>0, <1>1, <2>1, <3>2 DEF RecordIntent
    <3>3. CASE FailIntent(c)
      BY <1>0, <1>1, <2>1, <3>3 DEF FailIntent
    <3>4. CASE ConfirmIntent(c)
      <4>1. CASE d # calls[c].decision
        BY <1>0, <2>1, <3>4, <4>1 DEF ConfirmIntent
      <4>2. CASE d = calls[c].decision
        <5>1. LinkFor(d, calls[c].ref)
          BY <3>4, <4>2
          DEF ConfirmIntent, SagaInv, CallsConsistent, CallConsistent
        <5>2. pending'[d].ref = calls[c].ref /\ UNCHANGED links
          BY <1>0, <3>4, <4>2 DEF ConfirmIntent
        <5>3. QED
          BY <5>1, <5>2 DEF LinkFor, LinkIds
      <4>3. QED
        BY <4>1, <4>2
    <3>5. QED
      BY <2>2, <3>1, <3>2, <3>3, <3>4 DEF Writes
  <2>3. ASSUME NEW s \in Sweeps, DeadLetter(s)
        PROVE  LinkFor(d, pending[d].ref)'
    BY <1>0, <1>1, <2>1, <2>3 DEF DeadLetter
  <2>4. ASSUME NEW s \in Sweeps, Reconcile(s)
        PROVE  LinkFor(d, pending[d].ref)'
    <3>1. CASE d # sweeps[s].current
      BY <1>0, <2>1, <2>4, <3>1 DEF Reconcile
    <3>2. CASE d = sweeps[s].current
      <4>1. /\ LinkFor(d, sweeps[s].found) /\ UNCHANGED links
            /\ pending'[d].ref = sweeps[s].found
        BY <1>0, <2>4, <3>2
        DEF Reconcile, SagaInv, SweepsConsistent, SweepConsistent
      <4>2. QED
        BY <4>1 DEF LinkFor, LinkIds
    <3>3. QED
      BY <3>1, <3>2
  <2>5. QED
    BY <2>1, <2>2, <2>3, <2>4, WriterCases DEF OtherLinkCreated, dbVars
<1>2. ASSUME NEW a \in actions', a.status = "executed",
             ArmOf[a.decision] \in RealMoneyArms
      PROVE  LinkFor(a.decision, a.ref)'
  <2>1. CASE a \in actions
    BY <1>0, <1>2, <2>1 DEF ReferencesAreReal, Kept
  <2>2. ASSUME NEW c \in Calls, InsertAction(c), a \notin actions
        PROVE  LinkFor(a.decision, a.ref)'
    <3>1. /\ a.decision = calls[c].decision /\ a.status = calls[c].status
          /\ a.ref = calls[c].ref /\ calls[c].pc = "inserting"
          /\ UNCHANGED links
      BY <1>2, <2>2 DEF InsertAction
    <3>2. LinkFor(a.decision, a.ref)
      BY <1>2, <3>1 DEF SagaInv, CallsConsistent, CallConsistent
    <3>3. QED
      BY <3>1, <3>2 DEF LinkFor, LinkIds
  <2>3. ASSUME NEW s \in Sweeps, Reconcile(s), a \notin actions
        PROVE  LinkFor(a.decision, a.ref)'
    <3>1. LinkFor(a.decision, a.ref) /\ UNCHANGED links
      BY <1>2, <2>3 DEF Reconcile, SagaInv, SweepsConsistent, SweepConsistent
    <3>2. QED
      BY <3>1 DEF LinkFor, LinkIds
  <2>4. QED
    BY <1>2, <2>1, <2>2, <2>3, ActionWriters
<1>3. QED
  BY <1>1, <1>2 DEF ReferencesAreReal

(* The audit row is committed before the Action row.                       *)
LEMMA AuditStep == SagaInv /\ [Next]_vars => OutcomesAudited'
<1> SUFFICES ASSUME SagaInv, [Next]_vars, NEW a \in actions'
             PROVE  /\ a.status = "failed" =>
                         [by |-> a.by, decision |-> a.decision,
                          kind |-> "error"] \in audit'
                    /\ a.status = "deferred_circuit_open" =>
                         [by |-> a.by, decision |-> a.decision,
                          kind |-> "note"] \in audit'
  BY DEF OutcomesAudited
<1>0. Kept /\ OutcomesAudited
  BY StepKeeps DEF SagaInv
<1>1. CASE a \in actions
  BY <1>0, <1>1 DEF OutcomesAudited, Kept
<1>2. ASSUME NEW c \in Calls, InsertAction(c), a \notin actions
      PROVE  /\ a.status = "failed" =>
                  [by |-> a.by, decision |-> a.decision,
                   kind |-> "error"] \in audit'
             /\ a.status = "deferred_circuit_open" =>
                  [by |-> a.by, decision |-> a.decision,
                   kind |-> "note"] \in audit'
  <2>1. /\ a.by = c /\ a.decision = calls[c].decision
        /\ a.status = calls[c].status /\ calls[c].pc = "inserting"
        /\ UNCHANGED audit
    BY <1>2 DEF InsertAction
  <2>2. QED
    BY <2>1 DEF SagaInv, CallsConsistent, CallConsistent
<1>3. ASSUME NEW s \in Sweeps, Reconcile(s), a \notin actions
      PROVE  a.status = "executed"
  BY <1>3 DEF Reconcile
<1>4. QED
  BY <1>1, <1>2, <1>3, ActionWriters

(* The call that inserts an executed or failed real-money Action still owns *)
(* the intent, and a sweep is not a call.                                  *)
LEMMA ActorStep == SagaInv /\ [Next]_vars => OneDeliveryActs'
<1> SUFFICES ASSUME SagaInv, [Next]_vars, NEW a \in actions',
                    a.by \in Calls, ArmOf[a.decision] \in RealMoneyArms,
                    a.status \in {"executed", "failed"}
             PROVE  Owns(a.by, a.decision)'
  BY DEF OneDeliveryActs
<1>0. /\ Kept /\ OneDeliveryActs
      /\ actions \subseteq [by : Calls \cup Sweeps, decision : Decisions,
                            status : ActionStatus, ref : Nat]
  BY StepKeeps DEF SagaInv, TypeOK
<1>1. CASE a \in actions
  <2>1. Owns(a.by, a.decision) /\ a.decision \in Decisions
    BY <1>0, <1>1 DEF OneDeliveryActs
  <2>2. QED
    BY <1>0, <2>1 DEF Kept, Owns
<1>2. ASSUME NEW c \in Calls, InsertAction(c), a \notin actions
      PROVE  Owns(a.by, a.decision)'
  <2>1. /\ a.by = c /\ a.decision = calls[c].decision
        /\ a.status = calls[c].status /\ calls[c].pc = "inserting"
        /\ UNCHANGED pending
    BY <1>2 DEF InsertAction
  <2>2. Owns(c, calls[c].decision)
    BY <2>1 DEF SagaInv, CallsConsistent, CallConsistent
  <2>3. QED
    BY <2>1, <2>2 DEF Owns
<1>3. ASSUME NEW s \in Sweeps, Reconcile(s), a \notin actions
      PROVE  FALSE
  <2>1. a.by = s
    BY <1>3 DEF Reconcile
  <2>2. QED
    BY <2>1, SagaAssumption
<1>4. QED
  BY <1>1, <1>2, <1>3, ActionWriters

-----------------------------------------------------------------------------
(* The theorems.                                                           *)

THEOREM SagaInvariance == Spec => []SagaInv
<1>1. SagaInv /\ [Next]_vars => SagaInv'
  BY TypeStep, CallsStep, SweepsStep, CreatorStep, ReferencesStep, AuditStep,
     ActorStep
  DEF SagaInv
<1>2. QED
  BY InitSaga, <1>1, PTL DEF Spec

(* Every reachable state of the Act step is well typed: in particular no   *)
(* call makes more than max_retries tries.                                 *)
THEOREM TypeCorrect == Spec => []TypeOK
<1>1. SagaInv => TypeOK
  BY DEF SagaInv
<1>2. QED
  BY SagaInvariance, <1>1, PTL

(* However many deliveries of a decision interleave, and wherever their    *)
(* workers die, only one of them ever asks Razorpay for a link, and its    *)
(* intent is on record.                                                    *)
THEOREM OneCreatorPerDecision == Spec => []SingleCreator
<1>1. SagaInv => SingleCreator
  BY DEF SagaInv
<1>2. QED
  BY SagaInvariance, <1>1, PTL

(* No table ever names a link that Razorpay does not have or that was made *)
(* for another decision, even when calls hang and sweeps overlap them.     *)
THEOREM StoredReferencesAreReal == Spec => []ReferencesAreReal
<1>1. SagaInv => ReferencesAreReal
  BY DEF SagaInv
<1>2. QED
  BY SagaInvariance, <1>1, PTL

(* A failed or deferred Action has the audit row that explains it.         *)
THEOREM ActionsAreAudited == Spec => []OutcomesAudited
<1>1. SagaInv => OutcomesAudited
  BY DEF SagaInv
<1>2. QED
  BY SagaInvariance, <1>1, PTL

(* Of all deliveries of a real-money decision, only the one that owns its  *)
(* intent ever leaves an executed or failed Action behind.                 *)
THEOREM OneActorPerDecision == Spec => []OneDeliveryActs
<1>1. SagaInv => OneDeliveryActs
  BY DEF SagaInv
<1>2. QED
  BY SagaInvariance, <1>1, PTL

(* No delivery and no sweep reopens an intent that was resolved.           *)
THEOREM ResolvedStaysResolved == Spec => IntentNeverReopened
<1>1. ASSUME SagaInv, [Next]_vars, NEW d \in Decisions,
             pending[d].status \notin {"absent", "attempting"}
      PROVE  pending'[d].status \notin {"absent", "attempting"}
  <2>0. pending \in [Decisions -> [status : PendingStatus, ref : Nat,
                                   by : Calls \cup {NoCall}]]
    BY <1>1 DEF SagaInv, TypeOK
  <2>1. ASSUME NEW c \in Calls, Writes(c)
        PROVE  pending'[d].status \notin {"absent", "attempting"}
    <3>1. CASE RecordIntent(c)
      BY <1>1, <2>0, <3>1 DEF RecordIntent
    <3>2. CASE ConfirmIntent(c)
      BY <1>1, <2>0, <3>2 DEF ConfirmIntent
    <3>3. CASE FailIntent(c)
      BY <1>1, <2>0, <3>3 DEF FailIntent
    <3>4. CASE LinkCreated(c) \/ ResponseLost(c)
      BY <1>1, <3>4 DEF LinkCreated, ResponseLost, dbVars
    <3>5. QED
      BY <2>1, <3>1, <3>2, <3>3, <3>4 DEF Writes
  <2>2. ASSUME NEW s \in Sweeps, Reconcile(s)
        PROVE  pending'[d].status \notin {"absent", "attempting"}
    BY <1>1, <2>0, <2>2 DEF Reconcile
  <2>3. ASSUME NEW s \in Sweeps, DeadLetter(s)
        PROVE  pending'[d].status \notin {"absent", "attempting"}
    BY <1>1, <2>0, <2>3 DEF DeadLetter
  <2>4. QED
    BY <1>1, <2>1, <2>2, <2>3, WriterCases DEF OtherLinkCreated, dbVars
<1>2. SagaInv /\ [Next]_vars =>
        [\A d \in Decisions :
           pending[d].status \notin {"absent", "attempting"} =>
             pending'[d].status \notin {"absent", "attempting"}]_vars
  BY <1>1
<1>3. QED
  BY SagaInvariance, <1>2, PTL DEF Spec, IntentNeverReopened

-----------------------------------------------------------------------------
(* The retry budget.                                                       *)

LEMMA LinksCounted ==
  ASSUME SagaInv, NEW d \in Decisions
  PROVE  IsFiniteSet(LinksOf(d)) /\ Cardinality(LinksOf(d)) \in Nat
<1>1. Len(links) \in Int
  BY DEF SagaInv, TypeOK
<1>2. IsFiniteSet(LinksOf(d))
  <2>1. IsFiniteSet(1 .. Len(links))
    BY <1>1, FS_Interval
  <2>2. LinksOf(d) \subseteq 1 .. Len(links)
    BY DEF LinksOf, LinkIds
  <2>3. QED
    BY <2>1, <2>2, FS_Subset
<1>3. QED
  BY <1>2, FS_CardinalityType

(* A call between its intent and its outcome owns the intent.              *)
LEMMA CallingOwns ==
  ASSUME SagaInv, NEW c \in Calls,
         calls[c].pc \in {"calling", "created", "giving_up", "failing"}
  PROVE  /\ calls[c].decision \in Decisions
         /\ pending[calls[c].decision].status # "absent"
         /\ pending[calls[c].decision].by = c
         /\ calls[c].tries \in Nat
         /\ calls[c].pc = "calling" => calls[c].tries < MaxRetries
<1>1. CallConsistent(c)
  BY DEF SagaInv, CallsConsistent
<1>2. calls[c].tries \in Nat
  BY SagaAssumption DEF SagaInv, TypeOK, CallState
<1>3. QED
  BY <1>1, <1>2 DEF CallConsistent, Owns

LEMMA OneMoreLink ==
  ASSUME SagaInv, NEW e \in LinkRecord, links' = Append(links, e),
         NEW d \in Decisions
  PROVE  /\ e.key = d => LinksOf(d)' = LinksOf(d) \cup {Len(links) + 1}
         /\ e.key # d => LinksOf(d)' = LinksOf(d)
<1>1. /\ Len(links) \in Nat /\ Len(links') = Len(links) + 1
      /\ \A i \in 1 .. Len(links) : links'[i] = links[i]
      /\ links'[Len(links) + 1] = e
  BY AppendLink DEF SagaInv, TypeOK, LinkRecord
<1>2. QED
  BY <1>1 DEF LinksOf, LinkIds

Links(c) == LinkCreated(c) \/ ResponseLost(c)

LEMMA LinkOfCall ==
  ASSUME SagaInv, NEW c \in Calls, Links(c)
  PROVE  /\ calls[c].pc = "calling" /\ calls[c].decision \in Decisions
         /\ NewLink(c) \in LinkRecord /\ NewLink(c).key = calls[c].decision
         /\ links' = Append(links, NewLink(c))
  BY CallFacts DEF Links, LinkCreated, ResponseLost, NewLink, LinkRecord

(* Links are made for a decision by its own calls only.                    *)
LEMMA LinksStay ==
  ASSUME SagaInv, [Next]_vars, NEW d \in Decisions,
         \A c \in Calls : Links(c) => calls[c].decision # d
  PROVE  LinksOf(d)' = LinksOf(d)
<1>1. ASSUME UNCHANGED links PROVE LinksOf(d)' = LinksOf(d)
  BY <1>1 DEF LinksOf, LinkIds
<1>2. ASSUME NEW c \in Calls, Links(c) PROVE LinksOf(d)' = LinksOf(d)
  BY <1>2, LinkOfCall, OneMoreLink
<1>3. CASE OtherLinkCreated
  <2>1. DEFINE e == [key |-> OtherTraffic, by |-> NoCall]
  <2>2. e \in LinkRecord /\ e.key # d /\ links' = Append(links, e)
    BY <1>3, SagaAssumption DEF LinkRecord, OtherLinkCreated
  <2>3. QED
    BY <2>2, OneMoreLink
<1>4. QED
  BY <1>1, <1>2, <1>3, WriterCases
  DEF Writes, Links, RecordIntent, ConfirmIntent, FailIntent, Reconcile,
      DeadLetter

(* A call that is (still) asking has just begun to, or has used up a try,  *)
(* or has not moved.                                                       *)
LEMMA StillCalling ==
  ASSUME SagaInv, [Next]_vars, NEW x \in Calls, calls'[x].pc = "calling"
  PROVE  \/ UNCHANGED calls[x] /\ ~Links(x)
         \/ RecordIntent(x) \/ RequestLost(x) \/ ResponseLost(x)
<1>0. calls \in [Calls -> CallState]
  BY DEF SagaInv, TypeOK
<1>1. ASSUME CallStep(x) \/ Abandon(x)
      PROVE  RecordIntent(x) \/ RequestLost(x) \/ ResponseLost(x)
  BY <1>0, <1>1
  DEF CallStep, Abandon, ReturnExisting, Enter, PublishDeferral, NoteDeferral,
      IntentRejected, PublishDelayed, GenerateNudge, NoOp,
      LinkCreated, Refused, ConfirmIntent,
      FailIntent, WriteError, InsertAction, Goto, GotoInsert, CallState
<1>2. ASSUME LinkCreated(x) PROVE calls'[x].pc = "created"
  BY <1>0, <1>2 DEF LinkCreated, CallState
<1>3. QED
  BY <1>1, <1>2, OnlyItself DEF Links

BudgetInv == LinksBounded /\ TriesPaid

LEMMA BudgetStep == SagaInv /\ BudgetInv /\ [Next]_vars => BudgetInv'
<1> SUFFICES ASSUME SagaInv, BudgetInv, [Next]_vars PROVE BudgetInv'
  OBVIOUS
<1> USE SagaAssumption
<1>0. calls \in [Calls -> CallState]
  BY DEF SagaInv, TypeOK
<1>1. ASSUME NEW c \in Calls, Links(c), NEW d \in Decisions,
             calls[c].decision = d
      PROVE  /\ Cardinality(LinksOf(d)') <= calls[c].tries + 1
             /\ Cardinality(LinksOf(d)') <= MaxRetries
             /\ Cardinality(LinksOf(d)') \in Nat
  <2>1. LinksOf(d)' = LinksOf(d) \cup {Len(links) + 1}
    BY <1>1, LinkOfCall, OneMoreLink
  <2>2. /\ IsFiniteSet(LinksOf(d)) /\ Cardinality(LinksOf(d)) \in Nat
        /\ Cardinality(LinksOf(d)) <= calls[c].tries
    BY <1>1, LinksCounted, LinkOfCall DEF BudgetInv, TriesPaid
  <2>3. \/ Cardinality(LinksOf(d)') = Cardinality(LinksOf(d))
        \/ Cardinality(LinksOf(d)') = Cardinality(LinksOf(d)) + 1
    BY <2>1, <2>2, FS_AddElement
  <2>4. calls[c].tries \in Nat /\ calls[c].tries < MaxRetries
    <3>1. calls[c].pc = "calling"
      BY <1>1, LinkOfCall
    <3>2. QED
      BY <3>1, CallingOwns
  <2>5. QED
    BY <2>2, <2>3, <2>4
<1>2. LinksBounded'
  <2>1. ASSUME NEW d \in Decisions PROVE Cardinality(LinksOf(d)') <= MaxRetries
    <3>1. CASE \E c \in Calls : Links(c) /\ calls[c].decision = d
      BY <1>1, <3>1
    <3>2. CASE \A c \in Calls : Links(c) => calls[c].decision # d
      <4>1. LinksOf(d)' = LinksOf(d)
        BY <3>2, LinksStay
      <4>2. QED
        BY <4>1 DEF BudgetInv, LinksBounded
    <3>3. QED
      BY <3>1, <3>2
  <2>2. QED
    BY <2>1 DEF LinksBounded
<1>3. ASSUME NEW x \in Calls, calls'[x].pc = "calling", NEW d \in Decisions,
             calls'[x].decision = d
      PROVE  Cardinality(LinksOf(d)') <= calls'[x].tries
  <2>1. ASSUME NEW c \in Calls, Links(c), calls[c].decision = d,
               calls[x].decision = d, calls[x].pc = "calling"
        PROVE  c = x
    <3>1. calls[c].pc = "calling"
      BY <2>1, LinkOfCall
    <3>2. pending[d].by = c /\ pending[d].by = x
      BY <2>1, <3>1, CallingOwns
    <3>3. QED
      BY <3>2
  <2>2. CASE UNCHANGED calls[x] /\ ~Links(x)
    <3>1. LinksOf(d)' = LinksOf(d)
      BY <1>3, <2>1, <2>2, LinksStay
    <3>2. QED
      BY <1>3, <2>2, <3>1 DEF BudgetInv, TriesPaid
  <2>3. CASE RecordIntent(x)
    <3>1. /\ calls[x].decision = d /\ calls'[x].tries = calls[x].tries
          /\ calls[x].tries = 0 /\ pending[d].status = "absent"
          /\ UNCHANGED links
      BY <1>0, <1>3, <2>3
      DEF RecordIntent, Goto, AtDispatch, CallState, SagaInv, CallsConsistent,
          CallConsistent
    <3>2. LinksOf(d) = {}
      BY <3>1 DEF SagaInv, SingleCreator, LinksOf
    <3>3. LinksOf(d)' = {}
      BY <3>1, <3>2 DEF LinksOf, LinkIds
    <3>4. QED
      BY <3>1, <3>3, FS_EmptySet
  <2>4. CASE RequestLost(x)
    <3>1. /\ calls[x].pc = "calling" /\ calls[x].decision = d
          /\ calls'[x].tries = calls[x].tries + 1 /\ calls[x].tries \in Nat
          /\ UNCHANGED links
      BY <1>0, <1>3, <2>4 DEF RequestLost, CountTry, CallState
    <3>2. LinksOf(d)' = LinksOf(d)
      BY <3>1 DEF LinksOf, LinkIds
    <3>3. Cardinality(LinksOf(d)) <= calls[x].tries
      BY <3>1 DEF BudgetInv, TriesPaid
    <3>4. QED
      BY <3>1, <3>2, <3>3, LinksCounted
  <2>5. CASE ResponseLost(x)
    <3>1. calls[x].decision = d /\ calls'[x].tries = calls[x].tries + 1
      BY <1>0, <1>3, <2>5 DEF ResponseLost, CountTry, CallState
    <3>2. QED
      BY <1>1, <2>5, <3>1 DEF Links
  <2>6. QED
    BY <1>3, <2>2, <2>3, <2>4, <2>5, StillCalling
<1>4. ASSUME NEW x \in Calls, calls'[x].pc = "calling"
      PROVE  calls'[x].decision \in Decisions
  BY <1>4, CallsStep DEF CallsConsistent, CallConsistent
<1>5. QED
  BY <1>2, <1>3, <1>4 DEF BudgetInv, TriesPaid

(* However often and however concurrently a decision is delivered, it      *)
(* costs at most max_retries links.                                        *)
THEOREM LinksAreBounded == Spec => []LinksBounded
<1>1. ASSUME Init PROVE BudgetInv
  <2>1. \A d \in Decisions : LinksOf(d) = {}
    BY <1>1 DEF Init, LinksOf, LinkIds
  <2>2. \A c \in Calls : calls[c].pc = "idle"
    BY <1>1 DEF Init, IdleCall
  <2>3. MaxRetries \in Nat
    BY SagaAssumption
  <2>4. QED
    BY <2>1, <2>2, <2>3, FS_EmptySet DEF BudgetInv, LinksBounded, TriesPaid
<1>2. BudgetInv => LinksBounded
  BY DEF BudgetInv
<1>3. QED
  BY <1>1, <1>2, BudgetStep, SagaInvariance, PTL DEF Spec

-----------------------------------------------------------------------------
(* When no call outlasts STUCK_THRESHOLD.                                  *)

LEMMA PendingTyped ==
  ASSUME SagaInv
  PROVE  pending \in [Decisions -> [status : PendingStatus, ref : Nat,
                                    by : Calls \cup {NoCall}]]
  BY DEF SagaInv, TypeOK

LEMMA NewestIsUnique ==
  ASSUME SagaInv, NEW d, NEW i \in Nat, NEW j \in Nat, Newest(d, i), Newest(d, j)
  PROVE  i = j /\ (i = None <=> LinksOf(d) = {})
<1>1. LinksOf(d) \subseteq Nat \ {None}
  BY DEF LinksOf, LinkIds, None, SagaInv, TypeOK
<1>2. QED
  BY <1>1 DEF Newest, None

(* What a search finds on a page that has the newest link.                 *)
LEMMA FoundIsNewest ==
  ASSUME SagaInv, OnPage, NEW d \in Decisions, NEW i, FoundLink(d, i)
  PROVE  Newest(d, i)
<1>1. Matches(d) \subseteq LinksOf(d) /\ Len(links) \in Nat /\ Window \in Nat
  BY SagaAssumption DEF Matches, LinksOf, LinkIds, SagaInv, TypeOK
<1>2. CASE i = None /\ Matches(d) = {}
  BY <1>2 DEF Newest, OnPage
<1>3. CASE i \in Matches(d) /\ \A j \in Matches(d) : j <= i
  <2>1. ASSUME NEW j \in LinksOf(d) PROVE j <= i
    <3>1. i \in Nat /\ j \in Nat /\ i > Len(links) - Window
      BY <1>1, <1>3, <2>1 DEF Matches, LinksOf, LinkIds
    <3>2. j > i => j \in Matches(d)
      BY <1>1, <3>1, <2>1 DEF Matches, LinksOf, LinkIds
    <3>3. QED
      BY <1>3, <3>1, <3>2
  <2>2. QED
    BY <1>1, <1>3, <2>1 DEF Newest
<1>4. QED
  BY <1>2, <1>3 DEF FoundLink

(* The threshold passes for an intent that nobody is working on.           *)
LEMMA OverdueSteps ==
  ASSUME [Next]_vars, ~CallsMayHang
  PROVE  /\ overdue \subseteq overdue'
         /\ \A d \in overdue' \ overdue :
              /\ pending[d].status = "attempting" /\ ~InFlight(d)
              /\ UNCHANGED <<pending, calls>>
<1>1. ASSUME NEW c \in Calls, CallStep(c) PROVE overdue' = overdue
  BY <1>1
  DEF CallStep, ReturnExisting, Enter, PublishDeferral, NoteDeferral,
      RecordIntent, IntentRejected, PublishDelayed, GenerateNudge, NoOp,
      LinkCreated, RequestLost, ResponseLost, Refused, ConfirmIntent,
      FailIntent, WriteError, InsertAction
<1>2. ASSUME NEW s \in Sweeps, SweepStep(s) PROVE overdue' = overdue
  BY <1>2
  DEF SweepStep, StartSweep, SearchAnswered, SearchFailed, Reconcile,
      DeadLetter, NoteRejected, FinishSweep
<1>3. QED
  BY <1>1, <1>2
  DEF Next, Abandon, AbandonSweep, PassThreshold, DeliverDelayed,
      OtherLinkCreated, dbVars, vars

LEMMA OverdueIsFrozen ==
  ASSUME SagaInv, PromptInv, [Next]_vars, NEW d \in Decisions, d \in overdue
  PROVE  LinksOf(d)' = LinksOf(d) /\ \A i : Newest(d, i) => Newest(d, i)'
<1>1. ASSUME NEW c \in Calls, Links(c) PROVE calls[c].decision # d
  <2>1. calls[c].pc = "calling"
    BY <1>1, LinkOfCall
  <2>2. QED
    BY <2>1 DEF PromptInv, PromptCall
<1>2. LinksOf(d)' = LinksOf(d)
  BY <1>1, LinksStay
<1>3. QED
  BY <1>2 DEF Newest

(* An intent is recorded once, resolved once: by the call that owns it     *)
(* while it is young, by a sweep once it is overdue.                       *)
Opened(d) == pending[d].status = "absent" /\ pending'[d].status = "attempting"
OwnerResolves(c, d) ==
  /\ ConfirmIntent(c) \/ FailIntent(c)
  /\ calls[c].decision = d /\ d \notin overdue
  /\ pending[d].status = "attempting"
  /\ pending'[d].status \in {"confirmed", "failed"}
SweepResolves(d) ==
  /\ d \in overdue /\ pending[d].status = "attempting"
  /\ \/ /\ pending'[d].status = "reconciled"
        /\ pending'[d].ref \in Nat \ {None} /\ Newest(d, pending'[d].ref)
     \/ pending'[d].status = "dead_lettered" /\ LinksOf(d) = {}
LEMMA RowMoves ==
  ASSUME SagaInv, PromptInv, [Next]_vars, NEW d \in Decisions
  PROVE  \/ pending'[d] = pending[d]
         \/ Opened(d)
         \/ \E c \in Calls : OwnerResolves(c, d)
         \/ SweepResolves(d)
<1>0. pending \in [Decisions -> [status : PendingStatus, ref : Nat,
                                 by : Calls \cup {NoCall}]]
  BY PendingTyped
<1>1. ASSUME NEW c \in Calls, RecordIntent(c)
      PROVE  pending'[d] = pending[d] \/ Opened(d)
  BY <1>0, <1>1 DEF RecordIntent, Opened
<1>2. ASSUME NEW c \in Calls, ConfirmIntent(c) \/ FailIntent(c)
      PROVE  pending'[d] = pending[d] \/ OwnerResolves(c, d)
  <2>1. CASE calls[c].decision # d
    BY <1>0, <1>2, <2>1 DEF ConfirmIntent, FailIntent
  <2>2. CASE calls[c].decision = d
    <3>1. calls[c].pc \in {"created", "giving_up"}
      BY <1>2 DEF ConfirmIntent, FailIntent
    <3>2. d \notin overdue /\ pending[d].status = "attempting"
      BY <2>2, <3>1 DEF PromptInv, PromptCall
    <3>3. pending'[d].status \in {"confirmed", "failed"}
      BY <1>0, <1>2, <2>2 DEF ConfirmIntent, FailIntent
    <3>4. QED
      BY <1>2, <2>2, <3>2, <3>3 DEF OwnerResolves
  <2>3. QED
    BY <2>1, <2>2
<1>3. ASSUME NEW s \in Sweeps, Reconcile(s) \/ DeadLetter(s)
      PROVE  pending'[d] = pending[d] \/ SweepResolves(d)
  <2>1. CASE sweeps[s].current # d
    BY <1>0, <1>3, <2>1 DEF Reconcile, DeadLetter
  <2>2. CASE sweeps[s].current = d
    <3>1. sweeps[s].pc = "resolving" /\ sweeps[s].found \in Nat
      BY <1>3 DEF Reconcile, DeadLetter, SagaInv, TypeOK, SweepState
    <3>2. d \in overdue /\ Newest(d, sweeps[s].found)
      BY <2>2, <3>1 DEF PromptInv, PromptSweep
    <3>3. PromptRow(d)
      BY DEF PromptInv
    <3>4. CASE Reconcile(s)
      <4>1. /\ sweeps[s].found # None
            /\ pending' = [pending EXCEPT ![d].status = "reconciled",
                                          ![d].ref = sweeps[s].found]
        BY <2>2, <3>4 DEF Reconcile
      <4>2. LinksOf(d) # {}
        BY <3>1, <3>2, <4>1, NewestIsUnique
      <4>3. CASE pending[d].status = "reconciled"
        <5>1. pending[d].ref = sweeps[s].found
          BY <1>0, <3>1, <3>2, <3>3, <4>3, NewestIsUnique DEF PromptRow
        <5>2. pending[d] = [status |-> "reconciled", ref |-> sweeps[s].found,
                            by |-> pending[d].by]
          BY <1>0, <4>3, <5>1
        <5>3. pending'[d] = [status |-> "reconciled", ref |-> sweeps[s].found,
                             by |-> pending[d].by]
          BY <1>0, <4>1
        <5>4. QED
          BY <5>2, <5>3
      <4>4. CASE pending[d].status = "attempting"
        BY <1>0, <3>1, <3>2, <4>1, <4>4 DEF SweepResolves
      <4>5. QED
        BY <3>2, <3>3, <4>2, <4>3, <4>4 DEF PromptRow
    <3>5. CASE DeadLetter(s)
      <4>1. /\ sweeps[s].found = None
            /\ pending' = [pending EXCEPT ![d].status = "dead_lettered"]
        BY <2>2, <3>5 DEF DeadLetter
      <4>2. LinksOf(d) = {}
        BY <3>1, <3>2, <4>1, NewestIsUnique
      <4>3. CASE pending[d].status = "dead_lettered"
        BY <1>0, <4>1, <4>3
      <4>4. CASE pending[d].status = "attempting"
        BY <1>0, <3>2, <4>1, <4>2, <4>4 DEF SweepResolves
      <4>5. pending[d].status # "reconciled"
        BY <1>0, <3>3, <4>2, NewestIsUnique DEF PromptRow
      <4>6. QED
        BY <3>2, <3>3, <4>3, <4>4, <4>5 DEF PromptRow
    <3>6. QED
      BY <1>3, <3>4, <3>5
  <2>3. QED
    BY <2>1, <2>2
<1>4. QED
  BY <1>1, <1>2, <1>3, WriterCases
  DEF Writes, LinkCreated, ResponseLost, OtherLinkCreated, dbVars

(* So a resolved intent never changes again.                               *)
LEMMA ResolvedIsFinal ==
  ASSUME SagaInv, PromptInv, [Next]_vars, NEW d \in Decisions,
         pending[d].status \notin {"absent", "attempting"}
  PROVE  pending'[d] = pending[d]
  BY RowMoves DEF Opened, OwnerResolves, SweepResolves

LEMMA RowStep ==
  ASSUME SagaInv, PromptInv, [Next]_vars, ~CallsMayHang, NEW d \in Decisions
  PROVE  PromptRow(d)'
<1>0. PromptRow(d)
  BY DEF PromptInv
<1>1. d \in overdue' \ overdue =>
        pending[d].status = "attempting" /\ UNCHANGED pending
  BY OverdueSteps
<1>2. d \in overdue => d \in overdue'
  BY OverdueSteps
<1>3. ASSUME d \in overdue
      PROVE  LinksOf(d)' = LinksOf(d) /\ \A i : Newest(d, i) => Newest(d, i)'
  BY <1>3, OverdueIsFrozen
<1>4. CASE pending'[d] = pending[d]
  <2>1. ASSUME pending'[d].status = "reconciled"
        PROVE  Newest(d, pending[d].ref)'
    <3>1. Newest(d, pending[d].ref) /\ d \in overdue
      BY <1>0, <1>4, <2>1 DEF PromptRow
    <3>2. PICK r : r = pending[d].ref
      OBVIOUS
    <3>3. Newest(d, r)'
      BY <1>3, <3>1, <3>2
    <3>4. QED
      BY <1>4, <3>2, <3>3
  <2>2. QED
    BY <1>0, <1>1, <1>2, <1>3, <1>4, <2>1 DEF PromptRow
<1>5. CASE Opened(d)
  BY <1>5 DEF Opened, PromptRow
<1>6. ASSUME NEW c \in Calls, OwnerResolves(c, d) PROVE PromptRow(d)'
  BY <1>1, <1>6 DEF OwnerResolves, PromptRow
<1>7. CASE SweepResolves(d)
  <2>1. PICK r : r = pending'[d].ref
    OBVIOUS
  <2>2. pending'[d].status = "reconciled" => r # None /\ Newest(d, r)'
    BY <1>3, <1>7, <2>1 DEF SweepResolves
  <2>3. d \in overdue /\ pending'[d].status \in {"reconciled", "dead_lettered"}
    BY <1>7 DEF SweepResolves
  <2>4. pending'[d].status = "dead_lettered" => LinksOf(d)' = {}
    BY <1>3, <1>7, <2>3 DEF SweepResolves
  <2>5. QED
    BY <1>2, <2>1, <2>2, <2>3, <2>4 DEF PromptRow
<1>8. QED
  BY <1>4, <1>5, <1>6, <1>7, RowMoves

(* A call that stands still keeps what it relies on: nobody else resolves  *)
(* its intent, and the threshold does not pass for it.                     *)
LEMMA IdleCallStays ==
  ASSUME SagaInv, PromptInv, [Next]_vars, ~CallsMayHang, NEW x \in Calls,
         UNCHANGED calls[x]
  PROVE  PromptCall(x)'
<1> DEFINE d == calls[x].decision
<1>0. PromptCall(x) /\ calls \in [Calls -> CallState]
  BY DEF PromptInv, SagaInv, TypeOK
<1>1. CASE calls[x].pc \in {"calling", "created", "giving_up"}
  <2>1. /\ d \in Decisions /\ pending[d].by = x
        /\ d \notin overdue /\ pending[d].status = "attempting"
    BY <1>0, <1>1, CallingOwns DEF PromptCall
  <2>2. InFlight(d)
    BY <1>1 DEF InFlight
  <2>3. d \notin overdue'
    BY <2>1, <2>2, OverdueSteps
  <2>4. ASSUME NEW c \in Calls, OwnerResolves(c, d) PROVE FALSE
    <3>1. calls[c].pc \in {"created", "giving_up"} /\ calls[c].decision = d
      BY <2>4 DEF OwnerResolves, ConfirmIntent, FailIntent
    <3>2. c = x
      BY <2>1, <3>1, CallingOwns
    <3>3. calls'[c].pc \in {"inserting", "failing"}
      BY <1>0, <2>4
      DEF OwnerResolves, ConfirmIntent, FailIntent, GotoInsert, Goto, CallState
    <3>4. QED
      BY <1>1, <3>2, <3>3
  <2>5. pending'[d] = pending[d]
    BY <2>1, <2>4, RowMoves DEF Opened, SweepResolves
  <2>6. QED
    BY <1>1, <2>1, <2>3, <2>5 DEF PromptCall
<1>2. CASE calls[x].pc \in {"failing", "inserting"}
  <2>1. d \in Decisions
    BY <1>2, CallFacts
  <2>2. ASSUME pending[d].status \in {"failed", "confirmed"}
        PROVE  pending'[d] = pending[d]
    BY <2>1, <2>2, ResolvedIsFinal
  <2>3. QED
    BY <1>0, <1>2, <2>2 DEF PromptCall
<1>3. CASE calls[x].pc \notin {"calling", "created", "giving_up", "failing",
                              "inserting"}
  BY <1>3 DEF PromptCall
<1>4. QED
  BY <1>1, <1>2, <1>3

LEMMA PromptCallStep ==
  ASSUME SagaInv, PromptInv, [Next]_vars, ~CallsMayHang, NEW x \in Calls
  PROVE  PromptCall(x)'
<1>0. /\ PromptCall(x) /\ calls \in [Calls -> CallState]
      /\ pending \in [Decisions -> [status : PendingStatus, ref : Nat,
                                    by : Calls \cup {NoCall}]]
  BY DEF PromptInv, SagaInv, TypeOK
<1>1. ASSUME NEW d \in Decisions, ReturnExisting(x, d) \/ Enter(x, d)
      PROVE  PromptCall(x)'
  BY <1>0, <1>1 DEF ReturnExisting, Enter, PromptCall, CallState
<1>2. CASE PublishDeferral(x) \/ IntentRejected(x) \/ InsertAction(x)
             \/ Abandon(x)
  BY <1>0, <1>2
  DEF PublishDeferral, IntentRejected, InsertAction, Abandon, Goto, PromptCall,
      CallState
<1>3. CASE NoteDeferral(x) \/ PublishDelayed(x) \/ GenerateNudge(x) \/ NoOp(x)
  <2>1. /\ calls'[x].pc = "inserting" /\ calls'[x].status # "failed"
        /\ calls'[x].decision = calls[x].decision
        /\ calls'[x].status = "executed" =>
             ArmOf[calls[x].decision] \notin RealMoneyArms
    BY <1>0, <1>3
    DEF NoteDeferral, PublishDelayed, GenerateNudge, NoOp, GotoInsert,
        AtDispatch, CallState, RealMoneyArms, NudgeArms, NoOpArms
  <2>2. QED
    BY <2>1 DEF PromptCall
<1>4. CASE RecordIntent(x)
  <2>1. PICK d \in Decisions : d = calls[x].decision
    BY <1>4, CallFacts DEF RecordIntent, AtDispatch
  <2>2. /\ calls'[x].pc = "calling" /\ calls'[x].decision = d
        /\ pending'[d].status = "attempting" /\ pending[d].status = "absent"
        /\ overdue' = overdue
    BY <1>0, <1>4, <2>1 DEF RecordIntent, Goto, CallState
  <2>3. d \notin overdue
    BY <2>2 DEF PromptInv, PromptRow
  <2>4. QED
    BY <2>2, <2>3 DEF PromptCall
<1>5. CASE LinkCreated(x) \/ RequestLost(x) \/ ResponseLost(x) \/ Refused(x)
  <2>1. /\ calls[x].pc = "calling" /\ UNCHANGED <<pending, overdue>>
        /\ calls'[x].pc \in {"calling", "created", "giving_up"}
        /\ calls'[x].decision = calls[x].decision
    BY <1>0, <1>5
    DEF LinkCreated, RequestLost, ResponseLost, Refused, CountTry, Goto,
        CallState, dbVars
  <2>2. QED
    BY <1>0, <2>1 DEF PromptCall
<1>6. CASE ConfirmIntent(x)
  <2>1. PICK d \in Decisions : d = calls[x].decision
    BY <1>6, CallFacts DEF ConfirmIntent
  <2>2. /\ calls'[x].pc = "inserting" /\ calls'[x].status = "executed"
        /\ calls'[x].decision = d /\ calls'[x].ref = calls[x].ref
    BY <1>0, <1>6, <2>1 DEF ConfirmIntent, GotoInsert, CallState
  <2>3. pending'[d].status = "confirmed" /\ pending'[d].ref = calls[x].ref
    BY <1>0, <1>6, <2>1 DEF ConfirmIntent
  <2>4. QED
    BY <2>2, <2>3 DEF PromptCall
<1>7. CASE FailIntent(x)
  <2>1. PICK d \in Decisions : d = calls[x].decision
    BY <1>7, CallFacts DEF FailIntent
  <2>2. /\ calls'[x].pc = "failing" /\ calls'[x].decision = d
        /\ pending'[d].status = "failed"
    BY <1>0, <1>7, <2>1 DEF FailIntent, Goto, CallState
  <2>3. QED
    BY <2>2 DEF PromptCall
<1>8. CASE WriteError(x)
  <2>1. /\ calls[x].pc = "failing" /\ UNCHANGED pending
        /\ calls'[x].pc = "inserting" /\ calls'[x].status = "failed"
        /\ calls'[x].decision = calls[x].decision
    BY <1>0, <1>8 DEF WriteError, GotoInsert, CallState
  <2>2. QED
    BY <1>0, <2>1 DEF PromptCall
<1>9. QED
  BY <1>1, <1>2, <1>3, <1>4, <1>5, <1>6, <1>7, <1>8, OnlyItself, IdleCallStays
  DEF CallStep

LEMMA PromptSweepStep ==
  ASSUME SagaInv, PromptInv, OnPage, [Next]_vars, ~CallsMayHang,
         NEW x \in Sweeps
  PROVE  PromptSweep(x)'
<1>0. /\ PromptSweep(x) /\ sweeps \in [Sweeps -> SweepState]
      /\ overdue \subseteq overdue' /\ overdue \subseteq Decisions
  BY OverdueSteps DEF PromptInv, SagaInv, TypeOK
<1>1. ASSUME UNCHANGED sweeps[x] PROVE PromptSweep(x)'
  <2>1. CASE sweeps[x].pc # "resolving"
    BY <1>0, <1>1, <2>1 DEF PromptSweep
  <2>2. CASE sweeps[x].pc = "resolving"
    <3>1. PICK d \in overdue, i \in Nat :
            d = sweeps[x].current /\ i = sweeps[x].found
      BY <1>0, <2>2 DEF PromptSweep, SweepState
    <3>2. Newest(d, i)
      BY <1>0, <2>2, <3>1 DEF PromptSweep
    <3>3. Newest(d, i)'
      BY <1>0, <3>2, OverdueIsFrozen
    <3>4. QED
      BY <1>0, <1>1, <3>1, <3>3 DEF PromptSweep
  <2>3. QED
    BY <2>1, <2>2
<1>2. ASSUME NEW d \in Decisions, SearchAnswered(x, d) PROVE PromptSweep(x)'
  <2>1. PICK i \in Refs :
          /\ FoundLink(d, i)
          /\ sweeps' = [sweeps EXCEPT ![x].pc = "resolving",
                                      ![x].current = d, ![x].found = i]
    BY <1>2 DEF SearchAnswered
  <2>2. d \in overdue /\ Newest(d, i)
    BY <1>0, <1>2, <2>1, FoundIsNewest DEF SearchAnswered, PromptSweep
  <2>3. Newest(d, i)'
    BY <1>0, <2>2, OverdueIsFrozen
  <2>4. /\ sweeps'[x].todo = sweeps[x].todo /\ sweeps'[x].current = d
        /\ sweeps'[x].found = i
    BY <1>0, <2>1 DEF SweepState
  <2>5. QED
    BY <1>0, <2>2, <2>3, <2>4 DEF PromptSweep
<1>3. ASSUME \/ StartSweep(x) \/ FinishSweep(x) \/ AbandonSweep(x)
             \/ Reconcile(x) \/ DeadLetter(x) \/ NoteRejected(x)
             \/ \E d \in Decisions : SearchFailed(x, d)
      PROVE  PromptSweep(x)'
  <2>1. sweeps'[x].pc # "resolving" /\ sweeps'[x].todo \subseteq overdue
    BY <1>0, <1>3
    DEF StartSweep, FinishSweep, AbandonSweep, Reconcile, DeadLetter,
        NoteRejected, SearchFailed, NextRow, IdleSweep, Stuck, SweepState,
        PromptSweep
  <2>2. QED
    BY <1>0, <2>1 DEF PromptSweep
<1>4. ASSUME NEW s \in Sweeps, SweepStep(s) \/ AbandonSweep(s), s # x
      PROVE  UNCHANGED sweeps[x]
  BY <1>0, <1>4
  DEF SweepStep, AbandonSweep, StartSweep, SearchAnswered, SearchFailed,
      Reconcile, DeadLetter, NoteRejected, FinishSweep, NextRow
<1>5. ASSUME NEW c \in Calls, CallStep(c) PROVE UNCHANGED sweeps[x]
  BY <1>5
  DEF CallStep, ReturnExisting, Enter, PublishDeferral, NoteDeferral,
      RecordIntent, IntentRejected, PublishDelayed, GenerateNudge, NoOp,
      LinkCreated, RequestLost, ResponseLost, Refused, ConfirmIntent,
      FailIntent, WriteError, InsertAction
<1>6. CASE SweepStep(x) \/ AbandonSweep(x)
  BY <1>2, <1>3, <1>6 DEF SweepStep
<1>7. UNCHANGED sweeps[x] \/ SweepStep(x) \/ AbandonSweep(x)
  BY <1>4, <1>5
  DEF Next, Abandon, PassThreshold, DeliverDelayed, OtherLinkCreated, vars
<1>8. QED
  BY <1>1, <1>6, <1>7

LEMMA LedgersStep ==
  ASSUME SagaInv, PromptInv, [Next]_vars
  PROVE  LedgersAgree'
<1> DEFINE Agrees(a) ==
      /\ a.status = "executed" =>
           /\ pending[a.decision].status \in {"confirmed", "reconciled"}
           /\ pending[a.decision].ref = a.ref
      /\ a.status = "failed" => pending[a.decision].status = "failed"
<1>1. ASSUME NEW a \in actions, ArmOf[a.decision] \in RealMoneyArms
      PROVE  Agrees(a)'
  <2>1. a.decision \in Decisions
    BY DEF SagaInv, TypeOK
  <2>2. Agrees(a)
    BY <1>1 DEF PromptInv, LedgersAgree
  <2>3. pending[a.decision].status \notin {"absent", "attempting"} =>
          pending'[a.decision] = pending[a.decision]
    BY <2>1, ResolvedIsFinal
  <2>4. QED
    BY <2>2, <2>3
<1>2. ASSUME NEW c \in Calls, InsertAction(c), NEW a \in actions' \ actions,
             ArmOf[a.decision] \in RealMoneyArms
      PROVE  Agrees(a)'
  <2>1. /\ a.decision = calls[c].decision /\ a.status = calls[c].status
        /\ a.ref = calls[c].ref /\ calls[c].pc = "inserting"
        /\ UNCHANGED pending
    BY <1>2 DEF InsertAction
  <2>2. PromptCall(c)
    BY DEF PromptInv
  <2>3. QED
    BY <1>2, <2>1, <2>2 DEF PromptCall
<1>3. ASSUME NEW s \in Sweeps, Reconcile(s), NEW a \in actions' \ actions
      PROVE  Agrees(a)'
  <2>1. /\ a.decision = sweeps[s].current /\ a.status = "executed"
        /\ a.ref = sweeps[s].found
    BY <1>3 DEF Reconcile
  <2>2. sweeps[s].current \in Decisions
    BY <1>3 DEF Reconcile, SagaInv, SweepsConsistent, SweepConsistent
  <2>3. /\ pending'[sweeps[s].current].status = "reconciled"
        /\ pending'[sweeps[s].current].ref = sweeps[s].found
    BY <1>3, <2>2, PendingTyped DEF Reconcile
  <2>4. QED
    BY <2>1, <2>3
<1>4. ASSUME NEW a \in actions', ArmOf[a.decision] \in RealMoneyArms
      PROVE  Agrees(a)'
  BY <1>1, <1>2, <1>3, <1>4, ActionWriters
<1>5. QED
  BY <1>4 DEF LedgersAgree

LEMMA PromptStep ==
  ASSUME ~CallsMayHang
  PROVE  SagaInv /\ PromptInv /\ OnPage /\ [Next]_vars => PromptInv'
<1> SUFFICES ASSUME SagaInv, PromptInv, OnPage, [Next]_vars PROVE PromptInv'
  OBVIOUS
<1>1. \A d \in Decisions : PromptRow(d)'
  BY RowStep
<1>2. \A c \in Calls : PromptCall(c)'
  BY PromptCallStep
<1>3. \A s \in Sweeps : PromptSweep(s)'
  BY PromptSweepStep
<1>4. QED
  BY <1>1, <1>2, <1>3, LedgersStep DEF PromptInv

(* If no call outlasts STUCK_THRESHOLD and the page that is searched has   *)
(* the newest link of each decision, then what the sweeps rely on holds.   *)
THEOREM PromptInvariance ==
  ASSUME ~CallsMayHang
  PROVE  Spec /\ []OnPage => []PromptInv
<1>1. ASSUME Init PROVE PromptInv
  <2>1. \A c \in Calls : calls[c].pc = "idle"
    BY <1>1 DEF Init, IdleCall
  <2>2. \A s \in Sweeps : sweeps[s].pc = "idle" /\ sweeps[s].todo = {}
    BY <1>1 DEF Init, IdleSweep
  <2>3. \A d \in Decisions : pending[d].status = "absent"
    BY <1>1 DEF Init
  <2>4. overdue = {} /\ actions = {}
    BY <1>1 DEF Init
  <2>5. QED
    BY <2>1, <2>2, <2>3, <2>4
    DEF PromptInv, PromptRow, PromptCall, PromptSweep, LedgersAgree
<1>2. QED
  BY <1>1, PromptStep, SagaInvariance, PTL DEF Spec

(* Then the intent row and the Action rows of a decision tell one story,   *)
(* whichever of the executor and the overlapping sweeps wrote them.        *)
THEOREM LedgersTellOneStory ==
  ASSUME ~CallsMayHang
  PROVE  Spec /\ []OnPage => []LedgersAgree
<1>1. PromptInv => LedgersAgree
  BY DEF PromptInv
<1>2. QED
  BY <1>1, PromptInvariance, PTL

(* Then a dead-lettered intent has no link, and never gets one.            *)
THEOREM DeadLettersAreTruthful ==
  ASSUME ~CallsMayHang
  PROVE  Spec /\ []OnPage => []DeadLetterIsTruthful
<1>1. PromptInv => DeadLetterIsTruthful
  BY DEF PromptInv, PromptRow, DeadLetterIsTruthful, LinksOf
<1>2. QED
  BY <1>1, PromptInvariance, PTL

(* Then nobody overwrites the verdict on an intent, reference included.    *)
THEOREM VerdictsAreFinal ==
  ASSUME ~CallsMayHang
  PROVE  Spec /\ []OnPage => IntentSettles
<1>1. SagaInv /\ PromptInv /\ [Next]_vars =>
        [\A d \in Decisions :
           pending[d].status \notin {"absent", "attempting"} =>
             pending'[d] = pending[d]]_vars
  BY ResolvedIsFinal
<1>2. QED
  BY <1>1, PromptInvariance, SagaInvariance, PTL DEF Spec, IntentSettles
-----------------------------------------------------------------------------
(* Termination: no delivery and no sweep has a loop.                       *)

(* At most this many steps separate a delivery from its end.               *)
StepsLeft(q) ==
  IF q.pc = "idle" THEN MaxRetries + 8
  ELSE IF q.pc = "dispatch" THEN MaxRetries + 7
  ELSE IF q.pc = "calling" THEN MaxRetries - q.tries + 5
  ELSE IF q.pc = "giving_up" THEN 5
  ELSE IF q.pc \in {"created", "failing", "deferring"} THEN 3
  ELSE IF q.pc = "inserting" THEN 1 ELSE 0

DeliveryDescends(c) ==
  /\ StepsLeft(calls[c]) \in Nat
  /\ calls'[c] # calls[c] => StepsLeft(calls'[c]) < StepsLeft(calls[c])

LEMMA StepsLeftIsNat ==
  ASSUME SagaInv, NEW c \in Calls
  PROVE  StepsLeft(calls[c]) \in Nat
<1>1. calls[c].tries \in 0 .. MaxRetries /\ MaxRetries \in Nat
  BY SagaAssumption DEF SagaInv, TypeOK, CallState
<1>2. QED
  BY <1>1 DEF StepsLeft

LEMMA DeliverySteps ==
  ASSUME SagaInv, [Next]_vars, NEW c \in Calls, calls'[c] # calls[c]
  PROVE  StepsLeft(calls'[c]) < StepsLeft(calls[c])
<1> DEFINE q == calls[c]
           p == calls'[c]
<1>0. /\ calls \in [Calls -> CallState] /\ q \in CallState /\ MaxRetries \in Nat \ {0}
      /\ q.tries \in 0 .. MaxRetries
      /\ q.pc \in {"idle", "dispatch"} => q.tries = 0
      /\ q.pc = "calling" => q.tries < MaxRetries
  BY SagaAssumption
  DEF SagaInv, TypeOK, CallState, CallsConsistent, CallConsistent
<1>1. CallStep(c) \/ Abandon(c)
  BY OnlyItself
<1>2. ASSUME NEW d \in Decisions, ReturnExisting(c, d) \/ Enter(c, d)
      PROVE  q.pc = "idle" /\ p.pc \in {"done", "dispatch"}
  BY <1>0, <1>2 DEF ReturnExisting, Enter, CallState
<1>3. CASE \/ PublishDeferral(c) \/ RecordIntent(c) \/ IntentRejected(c)
           \/ PublishDelayed(c) \/ GenerateNudge(c) \/ NoOp(c)
  <2>1. /\ q.pc = "dispatch" /\ p.tries = 0
        /\ p.pc \in {"deferring", "calling", "done", "inserting"}
    BY <1>0, <1>3
    DEF PublishDeferral, RecordIntent, IntentRejected, PublishDelayed,
        GenerateNudge, NoOp, AtDispatch, Goto, GotoInsert, CallState
  <2>2. QED
    BY <1>0, <2>1 DEF StepsLeft
<1>4. CASE NoteDeferral(c) \/ ConfirmIntent(c) \/ WriteError(c)
  <2>1. q.pc \in {"deferring", "created", "failing"} /\ p.pc = "inserting"
    BY <1>0, <1>4
    DEF NoteDeferral, ConfirmIntent, WriteError, GotoInsert, CallState
  <2>2. QED
    BY <2>1 DEF StepsLeft
<1>5. CASE LinkCreated(c) \/ Refused(c)
  <2>1. q.pc = "calling" /\ p.pc \in {"created", "giving_up"}
    BY <1>0, <1>5 DEF LinkCreated, Refused, Goto, CallState
  <2>2. QED
    BY <1>0, <2>1 DEF StepsLeft
<1>6. CASE RequestLost(c) \/ ResponseLost(c)
  <2>1. /\ q.pc = "calling" /\ p.tries = q.tries + 1
        /\ p.pc \in {"calling", "giving_up"}
    BY <1>0, <1>6 DEF RequestLost, ResponseLost, CountTry, CallState
  <2>2. QED
    BY <1>0, <2>1 DEF StepsLeft
<1>7. CASE FailIntent(c)
  <2>1. q.pc = "giving_up" /\ p.pc = "failing"
    BY <1>0, <1>7 DEF FailIntent, Goto, CallState
  <2>2. QED
    BY <2>1 DEF StepsLeft
<1>8. CASE InsertAction(c) \/ Abandon(c)
  <2>1. q.pc \in CallPC \ {"done"} /\ p.pc = "done"
    BY <1>0, <1>8 DEF InsertAction, Abandon, Goto, CallState, CallPC
  <2>2. QED
    BY <1>0, <2>1 DEF StepsLeft, CallPC
<1>9. CASE q.pc = "idle" /\ p.pc \in {"done", "dispatch"}
  BY <1>0, <1>9 DEF StepsLeft
<1>10. QED
  BY <1>1, <1>2, <1>3, <1>4, <1>5, <1>6, <1>7, <1>8, <1>9 DEF CallStep

(* A delivery never waits for another and never starts again: whatever it  *)
(* does, and however Razorpay, other deliveries and sweeps behave, it has  *)
(* made at most MaxRetries + 8 steps when it is over.                      *)
THEOREM DeliveriesDescend == Spec => [][\A c \in Calls : DeliveryDescends(c)]_vars
<1>1. SagaInv /\ [Next]_vars => [\A c \in Calls : DeliveryDescends(c)]_vars
  BY StepsLeftIsNat, DeliverySteps DEF DeliveryDescends
<1>2. QED
  BY SagaInvariance, <1>1, PTL DEF Spec

(* A sweep resolves only a row it still has to do ...                      *)
CurrentIsToDo ==
  \A s \in Sweeps : sweeps[s].pc = "resolving" => sweeps[s].current \in sweeps[s].todo

(* ... and strikes a row off whatever becomes of it.                       *)
StrikesOff(q, p) ==
  \/ p = IdleSweep
  \/ q.pc = "scanning" /\ p.pc = "resolving" /\ p.todo = q.todo
  \/ p.pc = "scanning" /\ p.todo \subseteq q.todo /\ p.todo # q.todo
SweepAdvances(s) ==
  sweeps[s].pc # "idle" /\ sweeps'[s] # sweeps[s] => StrikesOff(sweeps[s], sweeps'[s])

LEMMA OnlyItsSweep ==
  ASSUME SagaInv, [Next]_vars, NEW x \in Sweeps
  PROVE  UNCHANGED sweeps[x] \/ SweepStep(x) \/ AbandonSweep(x)
<1>0. sweeps \in [Sweeps -> SweepState]
  BY DEF SagaInv, TypeOK
<1>1. ASSUME NEW c \in Calls, CallStep(c) \/ Abandon(c) PROVE UNCHANGED sweeps[x]
  BY <1>1
  DEF CallStep, Abandon, ReturnExisting, Enter, PublishDeferral, NoteDeferral,
      RecordIntent, IntentRejected, PublishDelayed, GenerateNudge, NoOp,
      LinkCreated, RequestLost, ResponseLost, Refused, ConfirmIntent,
      FailIntent, WriteError, InsertAction
<1>2. ASSUME NEW s \in Sweeps, SweepStep(s) \/ AbandonSweep(s), s # x
      PROVE  UNCHANGED sweeps[x]
  BY <1>0, <1>2
  DEF SweepStep, AbandonSweep, StartSweep, SearchAnswered, SearchFailed,
      Reconcile, DeadLetter, NoteRejected, FinishSweep, NextRow
<1>3. QED
  BY <1>1, <1>2
  DEF Next, PassThreshold, DeliverDelayed, OtherLinkCreated, vars

LEMMA SweepMoves ==
  ASSUME SagaInv, CurrentIsToDo, NEW s \in Sweeps, SweepStep(s) \/ AbandonSweep(s)
  PROVE  /\ SweepAdvances(s)
         /\ sweeps'[s].pc = "resolving" => sweeps'[s].current \in sweeps'[s].todo
<1>0. sweeps \in [Sweeps -> SweepState] /\ sweeps[s] \in SweepState
  BY DEF SagaInv, TypeOK
<1>1. CASE StartSweep(s)
  BY <1>0, <1>1 DEF StartSweep, SweepAdvances, SweepState
<1>2. ASSUME NEW d \in Decisions, SearchAnswered(s, d) \/ SearchFailed(s, d)
      PROVE  /\ SweepAdvances(s)
             /\ sweeps'[s].pc = "resolving" => sweeps'[s].current \in sweeps'[s].todo
  BY <1>0, <1>2
  DEF SearchAnswered, SearchFailed, SweepAdvances, StrikesOff, SweepState
<1>3. CASE Reconcile(s) \/ DeadLetter(s) \/ NoteRejected(s)
  <2>1. sweeps[s].pc = "resolving" /\ NextRow(s)
    BY <1>3 DEF Reconcile, DeadLetter, NoteRejected
  <2>2. sweeps[s].current \in sweeps[s].todo
    BY <2>1 DEF CurrentIsToDo
  <2>3. /\ sweeps'[s].pc = "scanning"
        /\ sweeps'[s].todo = sweeps[s].todo \ {sweeps[s].current}
    BY <1>0, <2>1 DEF NextRow, SweepState
  <2>4. QED
    BY <2>2, <2>3 DEF SweepAdvances, StrikesOff
<1>4. CASE FinishSweep(s) \/ AbandonSweep(s)
  BY <1>0, <1>4 DEF FinishSweep, AbandonSweep, SweepAdvances, StrikesOff, IdleSweep
<1>5. QED
  BY <1>1, <1>2, <1>3, <1>4 DEF SweepStep

(* Whatever a sweep finds, cannot find, or fails to write, it goes through *)
(* the rows it started with once: it neither skips the rest for one that   *)
(* failed nor looks at one for ever.                                       *)
THEOREM SweepsAdvance == Spec => [][\A s \in Sweeps : SweepAdvances(s)]_vars
<1>1. Init => CurrentIsToDo
  BY DEF Init, IdleSweep, CurrentIsToDo
<1>2. SagaInv /\ CurrentIsToDo /\ [Next]_vars =>
        CurrentIsToDo' /\ [\A s \in Sweeps : SweepAdvances(s)]_vars
  <2> SUFFICES ASSUME SagaInv, CurrentIsToDo, [Next]_vars, NEW s \in Sweeps
               PROVE  /\ SweepAdvances(s)
                      /\ sweeps'[s].pc = "resolving" =>
                           sweeps'[s].current \in sweeps'[s].todo
    BY DEF CurrentIsToDo
  <2>1. CASE UNCHANGED sweeps[s]
    BY <2>1 DEF SweepAdvances, CurrentIsToDo
  <2>2. QED
    BY <2>1, OnlyItsSweep, SweepMoves
<1>3. QED
  BY SagaInvariance, <1>1, <1>2, PTL DEF Spec

-----------------------------------------------------------------------------
(* What the sweeps cannot repair.                                          *)

(* The delivery that owns the intent of a recorded decision is over, and   *)
(* the intent is still open.                                               *)
LeftOpen(d) ==
  /\ d \in Recorded /\ pending[d].status = "attempting"
  /\ pending[d].by \in Calls /\ calls[pending[d].by].pc = "done"

LEMMA LeftOpenStays ==
  ASSUME SagaInv, [Next]_vars, NEW d \in Decisions, LeftOpen(d)
  PROVE  LeftOpen(d)'
<1>0. pending \in [Decisions -> [status : PendingStatus, ref : Nat,
                                 by : Calls \cup {NoCall}]]
  BY DEF SagaInv, TypeOK
<1> PICK c \in Calls : c = pending[d].by /\ calls[c].pc = "done"
  BY DEF LeftOpen
<1>1. calls'[c] = calls[c]
  <2>1. ~CallStep(c) /\ ~Abandon(c)
    BY DEF CallStep, Abandon, ReturnExisting, Enter, PublishDeferral,
       NoteDeferral, RecordIntent, IntentRejected, PublishDelayed,
       GenerateNudge, NoOp, AtDispatch, LinkCreated, RequestLost,
       ResponseLost, Refused, ConfirmIntent, FailIntent, WriteError,
       InsertAction
  <2>2. QED
    BY <2>1, OnlyItself
<1>2. pending'[d] = pending[d]
  <2>1. ASSUME NEW x \in Calls, Writes(x) PROVE pending'[d] = pending[d]
    <3>1. CASE RecordIntent(x)
      BY <1>0, <3>1 DEF RecordIntent, LeftOpen
    <3>2. CASE ConfirmIntent(x) \/ FailIntent(x)
      <4>1. Owns(x, calls[x].decision) /\ calls[x].pc # "done"
        BY <3>2
        DEF ConfirmIntent, FailIntent, SagaInv, CallsConsistent, CallConsistent
      <4>2. calls[x].decision # d
        BY <4>1 DEF Owns
      <4>3. QED
        BY <1>0, <3>2, <4>2 DEF ConfirmIntent, FailIntent
    <3>3. CASE LinkCreated(x) \/ ResponseLost(x)
      BY <3>3 DEF LinkCreated, ResponseLost, dbVars
    <3>4. QED
      BY <2>1, <3>1, <3>2, <3>3 DEF Writes
  <2>2. ASSUME NEW s \in Sweeps, Reconcile(s) \/ DeadLetter(s)
        PROVE  pending'[d] = pending[d]
    BY <1>0, <2>2 DEF Reconcile, DeadLetter, NoteAccepted, LeftOpen
  <2>3. QED
    BY <2>1, <2>2, WriterCases DEF OtherLinkCreated, dbVars
<1>3. QED
  BY <1>1, <1>2 DEF LeftOpen

(* An intent of a recorded decision whose delivery died is open for good,  *)
(* however many sweeps run: the audit row of their note is always refused, *)
(* and their verdict goes with it.  This is the counterexample to          *)
(* StuckIntentResolved, for all decisions, sweeps and links.               *)
THEOREM LeftOpenForGood ==
  ASSUME NEW d \in Decisions
  PROVE  Spec => [](LeftOpen(d) => []LeftOpen(d))
<1>1. SagaInv /\ LeftOpen(d) /\ [Next]_vars => LeftOpen(d)'
  BY LeftOpenStays
<1>2. QED
  BY SagaInvariance, <1>1, PTL DEF Spec
=============================================================================
