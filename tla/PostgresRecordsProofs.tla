----------------------- MODULE PostgresRecordsProofs -----------------------
(***************************************************************************)
(* What ingest_event guarantees for any number of clients, merchants and   *)
(* customers, whatever order a flush inserts its rows in; and that what    *)
(* EventIntake and AuditTrail promise holds where they meet: every step of *)
(* the whole is a step of each, or leaves it alone.                        *)
(***************************************************************************)
EXTENDS PostgresRecords, AuditTrailProofs

(* The requests, by themselves.                                            *)

USE IntakeAssumption DEF Keys

RowSet == Keys \cup {Episode}

Typed ==
  /\ committed \subseteq Keys /\ reserved \subseteq Merchants
  /\ request \in [Requests -> Request]
  /\ episodes \in [Requests -> Nat] /\ events \in [Requests -> Nat]
  /\ lost \in [Requests -> 0..MaxLost] /\ misled \in [Requests -> 0..MaxLost]
  /\ duplicates \in [Requests -> SUBSET Keys]

(* What a request q has of rows, given where it is: it carries its episode *)
(* from the look-ups to the commit, and every key its episode refers to is *)
(* committed, inserted, or still to be inserted.                           *)
Carries(q) ==
  /\ q.at \notin Open => q.missing = {}
  /\ q.at \notin {"flushing", "committing"} => q.held = {}
  /\ q.at = "flushing" => Episode \in q.missing \cup q.held
  /\ q.at = "committing" => Episode \in q.held /\ q.missing = {}
Accounted(r, q) ==
  /\ q.at \in {"customer", "flushing"} =>
       MerchantOf[CustomerOf[r]] \in committed \cup q.missing \cup q.held
  /\ q.at = "flushing" => CustomerOf[r] \in committed \cup q.missing \cup q.held

(* How many events a client is not told of.                                *)
Missed(r) == lost[r] + misled[r]

Stored(r) ==
  /\ episodes[r] = events[r]
  /\ events[r] = Missed(r) + (IF request[r].at \in {"answering", "told"} THEN 1 ELSE 0)

(* What a client was refused over is committed, and not tried again.       *)
Learnt(r) ==
  /\ duplicates[r] \subseteq committed
  /\ duplicates[r] \cap request[r].missing = {}

Sound(r) ==
  /\ Carries(request[r]) /\ Accounted(r, request[r]) /\ Stored(r) /\ Learnt(r)
IntakeInv == Typed /\ \A r \in Requests : Sound(r)

(***************************************************************************)
(* What a step leaves alone                                                *)
(***************************************************************************)
(* A client whose own entries did not change stays sound: tables only grow.*)
LEMMA OthersStaySound ==
  ASSUME NEW r \in Requests, Sound(r), committed \subseteq committed',
         request'[r] = request[r], episodes'[r] = episodes[r],
         events'[r] = events[r], lost'[r] = lost[r], misled'[r] = misled[r],
         duplicates'[r] = duplicates[r]
  PROVE  Sound(r)'
  BY DEF Sound, Accounted, Stored, Missed, Learnt, Carries

(* A step of one client that keeps the types and his soundness keeps the   *)
(* invariant, if it touches nobody else's entries.                         *)
LEMMA OneClientSteps ==
  ASSUME IntakeInv, NEW r \in Requests, Typed', Sound(r)', committed \subseteq committed',
         \A o \in Requests \ {r} :
           /\ request'[o] = request[o] /\ episodes'[o] = episodes[o]
           /\ events'[o] = events[o] /\ lost'[o] = lost[o] /\ misled'[o] = misled[o]
           /\ duplicates'[o] = duplicates[o]
  PROVE  IntakeInv'
  <1> SUFFICES ASSUME NEW o \in Requests PROVE Sound(o)'
      BY DEF IntakeInv
  <1>1. CASE o = r
      BY <1>1
  <1>2. CASE o # r
      BY <1>2, OthersStaySound DEF IntakeInv
  <1> QED BY <1>1, <1>2

(* A step that changes the request of one client, and no table.            *)
LEMMA RequestMoves ==
  ASSUME IntakeInv, NEW r \in Requests, request' \in [Requests -> Request],
         UNCHANGED <<committed, reserved, episodes, events>>,
         lost' \in [Requests -> 0..MaxLost], misled' \in [Requests -> 0..MaxLost],
         duplicates' \in [Requests -> SUBSET Keys],
         \A o \in Requests \ {r} :
           /\ request'[o] = request[o] /\ lost'[o] = lost[o] /\ misled'[o] = misled[o]
           /\ duplicates'[o] = duplicates[o],
         Carries(request'[r]), Accounted(r, request'[r]),
         events[r] = Missed(r)' + (IF request'[r].at \in {"answering", "told"} THEN 1 ELSE 0),
         duplicates'[r] \subseteq committed, duplicates'[r] \cap request'[r].missing = {}
  PROVE  IntakeInv'
  <1>1. Typed'
      BY DEF IntakeInv, Typed
  <1>2. Sound(r)'
    <2>1. Carries(request[r])' /\ Accounted(r, request[r])'
        BY DEF Carries, Accounted
    <2>2. Stored(r)'
        BY DEF Stored, Missed, IntakeInv, Sound
    <2>3. Learnt(r)'
        BY DEF Learnt
    <2> QED BY <2>1, <2>2, <2>3 DEF Sound
  <1> QED BY <1>1, <1>2, OneClientSteps

(***************************************************************************)
(* The steps                                                               *)
(***************************************************************************)
(* Look-ups put what they do not find among the rows to insert.            *)
LEMMA LookUpsKeep ==
  ASSUME IntakeInv, NEW r \in Requests, LookUpMerchant(r) \/ LookUpCustomer(r)
  PROVE  IntakeInv'
  <1> DEFINE q == request[r]
             mer == MerchantOf[CustomerOf[r]]
             cus == CustomerOf[r]
  <1>0. /\ request \in [Requests -> Request] /\ q \in Request /\ Sound(r)
        /\ mer \in Keys /\ cus \in Keys
        /\ duplicates \in [Requests -> SUBSET Keys] /\ lost \in [Requests -> 0..MaxLost]
        /\ misled \in [Requests -> 0..MaxLost]
        /\ Missed(r) \in Nat
      BY DEF IntakeInv, Typed, Missed
  <1> USE DEF Request
  <1>1. CASE LookUpMerchant(r)
    <2>1. /\ q.at = "merchant" /\ UNCHANGED <<tables, answers, duplicates>>
          /\ request' \in [Requests -> Request]
          /\ \A o \in Requests \ {r} : request'[o] = request[o]
        BY <1>0, <1>1 DEF LookUpMerchant, LookUp
    <2>2. /\ request'[r].at = "customer" /\ request'[r].held = q.held
          /\ request'[r].missing = q.missing \cup (IF mer \in committed THEN {} ELSE {mer})
        BY <1>0, <1>1 DEF LookUpMerchant, LookUp
    <2>3. Carries(request'[r]) /\ Accounted(r, request'[r])
        BY <1>0, <2>1, <2>2 DEF Sound, Carries, Accounted, Open
    <2>4. /\ events[r] = Missed(r) /\ duplicates[r] \subseteq committed
          /\ duplicates[r] \cap request'[r].missing = {}
        BY <1>0, <2>1, <2>2 DEF Sound, Stored, Learnt
    <2>5. Missed(r)' = Missed(r)
        BY <2>1 DEF Missed, answers
    <2> HIDE DEF Request
    <2> QED BY <1>0, <2>1, <2>2, <2>3, <2>4, <2>5, RequestMoves DEF tables, answers
  <1>2. CASE LookUpCustomer(r)
    <2>1. /\ q.at = "customer" /\ UNCHANGED <<tables, answers, duplicates>>
          /\ request' \in [Requests -> Request]
          /\ \A o \in Requests \ {r} : request'[o] = request[o]
        BY <1>0, <1>2 DEF LookUpCustomer, LookUp
    <2>2. /\ request'[r].at = "flushing" /\ request'[r].held = q.held
          /\ request'[r].missing = q.missing \cup {Episode} \cup (IF cus \in committed THEN {} ELSE {cus})
        BY <1>0, <1>2 DEF LookUpCustomer, LookUp
    <2>3. Carries(request'[r]) /\ Accounted(r, request'[r])
        BY <1>0, <2>1, <2>2 DEF Sound, Carries, Accounted, Open
    <2>4. /\ events[r] = Missed(r) /\ duplicates[r] \subseteq committed
          /\ duplicates[r] \cap request'[r].missing = {}
        BY <1>0, <2>1, <2>2 DEF Sound, Stored, Learnt
    <2>5. Missed(r)' = Missed(r)
        BY <2>1 DEF Missed, answers
    <2> HIDE DEF Request
    <2> QED BY <1>0, <2>1, <2>2, <2>3, <2>4, <2>5, RequestMoves DEF tables, answers
  <1> QED BY <1>1, <1>2

(* Where a request starts, moves on without a row, or is over.             *)
LEMMA MovesKeep ==
  ASSUME IntakeInv, NEW r \in Requests,
         Receive(r) \/ Flushed(r) \/ Answer(r) \/ ReadBackFails(r) \/ LoseAnswer(r)
  PROVE  IntakeInv'
  <1> DEFINE q == request[r]
  <1>0. /\ request \in [Requests -> Request] /\ q \in Request /\ Sound(r)
        /\ duplicates \in [Requests -> SUBSET Keys] /\ lost \in [Requests -> 0..MaxLost]
        /\ misled \in [Requests -> 0..MaxLost] /\ events \in [Requests -> Nat]
        /\ lost[r] \in Nat /\ misled[r] \in Nat
        /\ Missed(r) \in Nat
      BY DEF IntakeInv, Typed, Missed
  <1>1. /\ request' \in [Requests -> Request] /\ UNCHANGED <<tables, duplicates>>
        /\ \A o \in Requests \ {r} :
             request'[o] = request[o] /\ lost'[o] = lost[o] /\ misled'[o] = misled[o]
        /\ lost' \in [Requests -> 0..MaxLost] /\ misled' \in [Requests -> 0..MaxLost]
    <2>1. CASE Receive(r) \/ Flushed(r) \/ Answer(r)
      <3>1. UNCHANGED <<tables, lost, misled, duplicates>>
          BY <2>1 DEF Receive, Flushed, Answer, answers
      <3>2. /\ request' \in [Requests -> Request]
            /\ \A o \in Requests \ {r} : request'[o] = request[o]
          BY <1>0, <2>1 DEF Receive, Flushed, Answer, Request
      <3> QED BY <1>0, <3>1, <3>2
    <2>2. CASE ReadBackFails(r)
      <3>1. UNCHANGED <<tables, lost, duplicates>> /\ misled[r] + 1 <= MaxLost
          BY <1>0, <2>2 DEF ReadBackFails, Untold
      <3>2. /\ misled' \in [Requests -> 0..MaxLost]
            /\ \A o \in Requests \ {r} : misled'[o] = misled[o]
          BY <1>0, <2>2, <3>1 DEF ReadBackFails
      <3>3. /\ request' \in [Requests -> Request]
            /\ \A o \in Requests \ {r} : request'[o] = request[o]
          BY <1>0, <2>2 DEF ReadBackFails, Untold, Request
      <3> QED BY <1>0, <3>1, <3>2, <3>3
    <2>3. CASE LoseAnswer(r)
      <3>1. UNCHANGED <<tables, misled, duplicates>> /\ lost[r] + 1 <= MaxLost
          BY <1>0, <2>3 DEF LoseAnswer, Untold
      <3>2. /\ lost' \in [Requests -> 0..MaxLost]
            /\ \A o \in Requests \ {r} : lost'[o] = lost[o]
          BY <1>0, <2>3, <3>1 DEF LoseAnswer
      <3>3. /\ request' \in [Requests -> Request]
            /\ \A o \in Requests \ {r} : request'[o] = request[o]
          BY <1>0, <2>3 DEF LoseAnswer, Untold, Request
      <3> QED BY <1>0, <3>1, <3>2, <3>3
    <2> QED BY <2>1, <2>2, <2>3
  <1>2. request'[r].held = q.held /\ request'[r].missing = q.missing
      BY <1>0 DEF Receive, Flushed, Answer, ReadBackFails, LoseAnswer, Untold, Request
  <1>3. \/ q.at = "idle" /\ request'[r].at = "merchant" /\ Missed(r)' = Missed(r)
        \/ q.at = "flushing" /\ q.missing = {} /\ request'[r].at = "committing"
             /\ Missed(r)' = Missed(r)
        \/ q.at = "answering" /\ request'[r].at = "told" /\ Missed(r)' = Missed(r)
        \/ q.at = "answering" /\ request'[r].at = "idle" /\ Missed(r)' = Missed(r) + 1
    <2>1. CASE Receive(r)
        BY <1>0, <2>1 DEF Receive, Request, Missed, answers
    <2>2. CASE Flushed(r)
        BY <1>0, <2>2 DEF Flushed, Request, Missed, answers
    <2>3. CASE Answer(r)
        BY <1>0, <2>3 DEF Answer, Request, Missed, answers
    <2>4. CASE ReadBackFails(r)
        BY <1>0, <2>4 DEF ReadBackFails, Untold, Request, Missed
    <2>5. CASE LoseAnswer(r)
        BY <1>0, <2>5 DEF LoseAnswer, Untold, Request, Missed
    <2> QED BY <2>1, <2>2, <2>3, <2>4, <2>5
  <1>4. Carries(request'[r]) /\ Accounted(r, request'[r])
      BY <1>0, <1>2, <1>3 DEF Sound, Carries, Accounted, Open
  <1>5. events[r] = Missed(r)' + (IF request'[r].at \in {"answering", "told"} THEN 1 ELSE 0)
    <2>1. Missed(r) \in Nat /\ events[r] \in Nat
        BY <1>0 DEF Missed
    <2>2. events[r] = Missed(r) + (IF q.at \in {"answering", "told"} THEN 1 ELSE 0)
        BY <1>0 DEF Sound, Stored
    <2> HIDE DEF q
    <2>3. CASE q.at = "answering" /\ request'[r].at = "idle" /\ Missed(r)' = Missed(r) + 1
        BY <2>1, <2>2, <2>3
    <2>4. CASE q.at = "answering" /\ request'[r].at = "told" /\ Missed(r)' = Missed(r)
        BY <2>1, <2>2, <2>4
    <2>5. CASE q.at \in {"idle", "flushing"} /\ request'[r].at \in {"merchant", "committing"}
               /\ Missed(r)' = Missed(r)
        BY <2>1, <2>2, <2>5
    <2> QED BY <1>3, <2>3, <2>4, <2>5 DEF q
  <1>6. duplicates'[r] \subseteq committed /\ duplicates'[r] \cap request'[r].missing = {}
      BY <1>0, <1>1, <1>2 DEF Sound, Learnt
  <1> QED BY <1>0, <1>1, <1>4, <1>5, <1>6, RequestMoves DEF tables

LEMMA InsertKeeps ==
  ASSUME IntakeInv, NEW r \in Requests, NEW row \in RowSet, Insert(r, row)
  PROVE  IntakeInv'
  <1> DEFINE q == request[r]
  <1>0. /\ request \in [Requests -> Request] /\ q \in Request /\ Sound(r)
        /\ duplicates \in [Requests -> SUBSET Keys] /\ lost \in [Requests -> 0..MaxLost]
        /\ misled \in [Requests -> 0..MaxLost]
        /\ Missed(r) \in Nat
      BY DEF IntakeInv, Typed, Missed
  <1>1. /\ q.at = "flushing" /\ UNCHANGED <<tables, answers, duplicates>>
        /\ request' \in [Requests -> Request]
        /\ \A o \in Requests \ {r} : request'[o] = request[o]
      BY <1>0 DEF Insert, Flushes, Request, RowSet
  <1>2. /\ request'[r].at = q.at /\ request'[r].missing = q.missing \ {row}
        /\ request'[r].held = q.held \cup {row}
      BY <1>0 DEF Insert, Request
  <1>3. Carries(request'[r]) /\ Accounted(r, request'[r])
      BY <1>0, <1>1, <1>2 DEF Sound, Carries, Accounted, Open
  <1>4. /\ events[r] = Missed(r) /\ duplicates[r] \subseteq committed
        /\ duplicates[r] \cap request'[r].missing = {}
      BY <1>0, <1>1, <1>2 DEF Sound, Stored, Learnt
  <1>5. Missed(r)' = Missed(r)
      BY <1>1 DEF Missed, answers
  <1> QED BY <1>0, <1>1, <1>2, <1>3, <1>4, <1>5, RequestMoves DEF tables, answers

(* A refusal, or a failure before the commit, leaves nothing behind.       *)
LEMMA RollBacksKeep ==
  ASSUME IntakeInv, NEW r \in Requests,
         Fail(r) \/ \E row \in RowSet : Refuse(r, row)
  PROVE  IntakeInv'
  <1>0. /\ request \in [Requests -> Request] /\ request[r] \in Request /\ Sound(r)
        /\ duplicates \in [Requests -> SUBSET Keys] /\ lost \in [Requests -> 0..MaxLost]
        /\ misled \in [Requests -> 0..MaxLost]
        /\ committed \subseteq Keys
        /\ Missed(r) \in Nat
      BY DEF IntakeInv, Typed, Missed
  <1>1. /\ request[r].at \in Open /\ UNCHANGED <<tables, answers>>
        /\ request' = [request EXCEPT ![r] = Idle]
      BY DEF Fail, Refuse, RollBack, Flushes, Open
  <1>2. Idle \in Request
      BY DEF Idle, Request
  <1>3. /\ request' \in [Requests -> Request] /\ request'[r] = Idle
        /\ \A o \in Requests \ {r} : request'[o] = request[o]
      BY <1>0, <1>1, <1>2
  <1>4. /\ duplicates' \in [Requests -> SUBSET Keys] /\ duplicates'[r] \subseteq committed
        /\ \A o \in Requests \ {r} : duplicates'[o] = duplicates[o]
    <2>1. CASE Fail(r)
        BY <1>0, <2>1 DEF Fail, Sound, Learnt
    <2>2. CASE \E row \in RowSet : Refuse(r, row)
      <3> PICK row \in RowSet : Refuse(r, row)
          BY <2>2
      <3> QED BY <1>0 DEF Refuse, Sound, Learnt
    <2> QED BY <2>1, <2>2
  <1>5. Carries(request'[r]) /\ Accounted(r, request'[r]) /\ request'[r].missing = {}
      BY <1>3 DEF Carries, Accounted, Idle, Open
  <1>6. events[r] = Missed(r) + (IF request'[r].at \in {"answering", "told"} THEN 1 ELSE 0)
      BY <1>0, <1>1, <1>3 DEF Sound, Stored, Idle, Open
  <1>7. Missed(r)' = Missed(r)
      BY <1>1 DEF Missed, answers
  <1> QED BY <1>0, <1>1, <1>3, <1>4, <1>5, <1>6, <1>7, RequestMoves DEF tables, answers

(* The commit stores the episode the request has carried, and its event.   *)
LEMMA CommitKeeps ==
  ASSUME IntakeInv, NEW r \in Requests, Commit(r)
  PROVE  IntakeInv'
  <1> DEFINE q == request[r]
  <1>0. /\ request \in [Requests -> Request] /\ q \in Request /\ Sound(r)
        /\ episodes \in [Requests -> Nat] /\ events \in [Requests -> Nat]
        /\ lost \in [Requests -> 0..MaxLost] /\ misled \in [Requests -> 0..MaxLost]
        /\ committed \subseteq Keys
        /\ Missed(r) \in Nat
      BY DEF IntakeInv, Typed, Missed
  <1>1. /\ q.at = "committing" /\ Episode \in q.held /\ q.missing = {}
        /\ events[r] = Missed(r) /\ episodes[r] = events[r]
      BY <1>0 DEF Commit, Sound, Carries, Stored
  <1>2. /\ episodes' = [episodes EXCEPT ![r] = @ + 1] /\ events' = [events EXCEPT ![r] = @ + 1]
        /\ UNCHANGED <<reserved, lost, misled, duplicates>>
      BY <1>1 DEF Commit, answers
  <1>3. committed \subseteq committed' /\ committed' \subseteq Keys
      BY <1>0 DEF Commit, Request
  <1>4. /\ request' \in [Requests -> Request]
        /\ \A o \in Requests \ {r} : request'[o] = request[o]
        /\ request'[r].at = "answering" /\ request'[r].held = {}
        /\ request'[r].missing = {}
      BY <1>0, <1>1 DEF Commit, Request
  <1>5. Typed'
    <2>1. events' \in [Requests -> Nat] /\ episodes' \in [Requests -> Nat]
        BY <1>0, <1>2
    <2> QED BY <1>2, <1>3, <1>4, <2>1 DEF IntakeInv, Typed
  <1>6. \A o \in Requests \ {r} :
          /\ request'[o] = request[o] /\ episodes'[o] = episodes[o]
          /\ events'[o] = events[o] /\ lost'[o] = lost[o] /\ misled'[o] = misled[o]
          /\ duplicates'[o] = duplicates[o]
      BY <1>0, <1>2, <1>4
  <1>7. Sound(r)'
    <2>1. Carries(request[r])' /\ Accounted(r, request[r])'
        BY <1>4 DEF Carries, Accounted, Open
    <2>2. episodes'[r] = events'[r] /\ events'[r] = Missed(r)' + 1
        BY <1>0, <1>1, <1>2 DEF Missed
    <2>3. Stored(r)'
        BY <1>4, <2>2 DEF Stored
    <2>4. Learnt(r)'
        BY <1>0, <1>2, <1>3, <1>4 DEF Learnt, Sound
    <2> QED BY <2>1, <2>3, <2>4 DEF Sound
  <1> QED BY <1>3, <1>5, <1>6, <1>7, OneClientSteps

(* Batch runs only ever add a committed merchant.                          *)
LEMMA RunsKeep ==
  ASSUME IntakeInv, NEW m \in Merchants,
         Reserve(m) \/ Release(m, {m}) \/ Release(m, {})
  PROVE  IntakeInv'
  <1>1. /\ committed \subseteq committed' /\ committed' \subseteq Keys
        /\ reserved' \subseteq Merchants
        /\ UNCHANGED <<request, episodes, events, lost, misled, duplicates>>
      BY DEF IntakeInv, Typed, Reserve, Release, answers
  <1>2. Typed'
      BY <1>1 DEF IntakeInv, Typed
  <1>3. ASSUME NEW r \in Requests PROVE Sound(r)'
      BY <1>1, OthersStaySound DEF IntakeInv
  <1> QED BY <1>2, <1>3 DEF IntakeInv

(***************************************************************************)
(* The theorems                                                            *)
(***************************************************************************)
LEMMA IntakeStarts == IntakeInit => IntakeInv
  <1> SUFFICES ASSUME IntakeInit PROVE IntakeInv
      OBVIOUS
  <1>1. Typed
      BY DEF IntakeInit, Typed, Idle, Request
  <1>2. ASSUME NEW r \in Requests PROVE Sound(r)
    <2>1. request[r] = Idle /\ duplicates[r] = {} /\ episodes[r] = 0
          /\ events[r] = 0 /\ Missed(r) = 0
        BY DEF IntakeInit, Missed
    <2> QED BY <2>1 DEF Sound, Carries, Accounted, Stored, Learnt, Idle, Open
  <1> QED BY <1>1, <1>2 DEF IntakeInv

LEMMA IntakeSteps == IntakeInv /\ [IntakeNext]_intakeVars => IntakeInv'
  <1> SUFFICES ASSUME IntakeInv, [IntakeNext]_intakeVars PROVE IntakeInv'
      OBVIOUS
  <1>1. ASSUME NEW r \in Requests, Step(r) PROVE IntakeInv'
      BY <1>1, LookUpsKeep, MovesKeep, InsertKeeps, RollBacksKeep, CommitKeeps
      DEF Step, RowSet
  <1>2. ASSUME NEW r \in Requests, Environment(r) PROVE IntakeInv'
      BY <1>2, MovesKeep, RollBacksKeep DEF Environment
  <1>3. CASE UNCHANGED intakeVars
      BY <1>3 DEF intakeVars, answers, IntakeInv, Typed, Sound, Carries, Accounted, Stored,
           Missed, Learnt
  <1> QED BY <1>1, <1>2, <1>3, RunsKeep DEF IntakeNext

(* The inductive invariant holds in every reachable state.                 *)
THEOREM IntakeInvariance == IntakeSpec => []IntakeInv
  BY IntakeStarts, IntakeSteps, PTL DEF IntakeSpec

LEMMA IntakeImplies == IntakeInv => IntakeTypeOK /\ EventsAreAccounted /\ DuplicatesAreFound
  <1> SUFFICES ASSUME IntakeInv PROVE IntakeTypeOK /\ EventsAreAccounted /\ DuplicatesAreFound
      OBVIOUS
  <1>1. IntakeTypeOK
    <2>1. ASSUME NEW r \in Requests, request[r].at \notin Open
          PROVE  request[r].missing = {} /\ request[r].held = {}
        BY <2>1 DEF IntakeInv, Typed, Sound, Carries, Open
    <2> QED BY <2>1 DEF IntakeInv, Typed, IntakeTypeOK
  <1>2. EventsAreAccounted
      BY DEF IntakeInv, Sound, Stored, Missed, EventsAreAccounted
  <1>3. DuplicatesAreFound
    <2>1. ASSUME NEW r \in Requests, request[r].at = "flushing",
                 request[r].missing \subseteq {Episode}
          PROVE  RefersTo(r, Episode) \subseteq committed \cup request[r].held
      <3>1. CustomerOf[r] # Episode /\ MerchantOf[CustomerOf[r]] # Episode
          OBVIOUS
      <3> QED BY <2>1, <3>1 DEF IntakeInv, Sound, Accounted, RefersTo
    <2> QED BY <2>1 DEF IntakeInv, Sound, Learnt, DuplicatesAreFound
  <1> QED BY <1>1, <1>2, <1>3

(* ingest_event stores an episode and its event or neither, and a client   *)
(* has one for each answer 202 he got or missed and for each 500 that was  *)
(* sent after the commit, and for no other.                                *)
THEOREM AccountedEvents == IntakeSpec => []EventsAreAccounted
  BY IntakeInvariance, IntakeImplies, PTL

(* No row is in a client's way twice, and a request that found its         *)
(* merchant and customer, or has inserted them, is refused nothing.        *)
THEOREM FoundDuplicates == IntakeSpec => []DuplicatesAreFound
  BY IntakeInvariance, IntakeImplies, PTL

(***************************************************************************)
(* Who waits for whom                                                      *)
(***************************************************************************)
MerchantRow(r) == MerchantOf[CustomerOf[r]]

(* What a request tries to insert and has inserted are the three rows of   *)
(* its event.  A key it has inserted is nobody else's and not committed,   *)
(* and the foreign key let it insert its customer only over a merchant     *)
(* that is committed, or its own.                                          *)
Locks(r, q) ==
  /\ q.missing \cup q.held \subseteq {CustomerOf[r], MerchantRow(r), Episode}
  /\ q.missing \cap q.held = {} /\ q.held \cap (committed \cup reserved) = {}
  /\ CustomerOf[r] \in q.held => MerchantRow(r) \in committed \cup q.held
Apart(q, p) == q.held \cap p.held \subseteq {Episode}
Locked ==
  \A r \in Requests :
    /\ Locks(r, request[r])
    /\ \A o \in Requests \ {r} : Apart(request[r], request[o])

(* A request that gives up nothing but adds no row keeps everyone locked.  *)
LEMMA FewerLocks ==
  ASSUME IntakeInv, Locked, NEW r \in Requests, UNCHANGED <<committed, reserved>>,
         \A o \in Requests \ {r} : request'[o] = request[o],
         Locks(r, request'[r]), request'[r].held \subseteq request[r].held
  PROVE  Locked'
  <1>1. ASSUME NEW o \in Requests PROVE Locks(o, request[o])'
    <2>1. CASE o = r
        BY <2>1 DEF Locks, MerchantRow
    <2>2. CASE o # r
        BY <2>2 DEF Locked, Locks, MerchantRow
    <2> QED BY <2>1, <2>2
  <1>2. ASSUME NEW o \in Requests, NEW p \in Requests \ {o}
        PROVE  Apart(request'[o], request'[p])
    <2>1. request'[o].held \subseteq request[o].held /\ request'[p].held \subseteq request[p].held
        OBVIOUS
    <2> QED BY <2>1 DEF Locked, Apart
  <1> QED BY <1>1, <1>2 DEF Locked, Apart

LEMMA InsertLocks ==
  ASSUME IntakeInv, Locked, NEW r \in Requests, NEW row \in RowSet, Insert(r, row)
  PROVE  Locked'
  <1> DEFINE q == request[r]
             p == request'[r]
  <1>0. request \in [Requests -> Request] /\ q \in Request /\ Locks(r, q)
      BY DEF IntakeInv, Typed, Locked
  <1>1. /\ p.missing = q.missing \ {row} /\ p.held = q.held \cup {row}
        /\ \A o \in Requests \ {r} : request'[o] = request[o]
        /\ UNCHANGED <<committed, reserved>>
      BY <1>0 DEF Insert, Request, tables
  <1>2. /\ row \in q.missing /\ row \notin committed \cup reserved
        /\ row # Episode => \A o \in Requests \ {r} : row \notin request[o].held
        /\ row = CustomerOf[r] => MerchantRow(r) \in committed \cup q.held
    <2>1. row \in q.missing /\ row \notin committed \cup reserved
        BY DEF Insert, Flushes, IsNext, Waits
    <2>2. row # Episode => \A o \in Requests \ {r} : row \notin request[o].held
        BY DEF Insert, Flushes, Waits
    <2>3. ASSUME row = CustomerOf[r] PROVE MerchantRow(r) \in committed \cup q.held
      <3>1. row \in Customers /\ row # Episode
          BY <2>3
      <3>2. RefersTo(r, row) = {MerchantRow(r)}
          BY <2>3, <3>1 DEF RefersTo, MerchantRow
      <3> QED BY <3>2 DEF Insert, Dangling
    <2> QED BY <2>1, <2>2, <2>3
  <1>3. Locks(r, p)
      BY <1>0, <1>1, <1>2 DEF Locks
  <1>4. ASSUME NEW o \in Requests PROVE Locks(o, request[o])'
    <2>1. CASE o = r
        BY <1>1, <1>3, <2>1 DEF Locks, MerchantRow
    <2>2. CASE o # r
        BY <1>1, <2>2 DEF Locked, Locks, MerchantRow
    <2> QED BY <2>1, <2>2
  <1>5. ASSUME NEW o \in Requests, NEW u \in Requests \ {o}
        PROVE  Apart(request'[o], request'[u])
    <2>1. CASE o = r
        BY <1>1, <1>2, <2>1 DEF Locked, Apart
    <2>2. CASE u = r
        BY <1>1, <1>2, <2>2 DEF Locked, Apart
    <2>3. CASE o # r /\ u # r
        BY <1>1, <2>3 DEF Locked, Apart
    <2> QED BY <2>1, <2>2, <2>3
  <1> QED BY <1>4, <1>5 DEF Locked, Apart

(* A commit hands its keys over to the table: they were nobody else's.     *)
LEMMA CommitLocks ==
  ASSUME IntakeInv, Locked, NEW r \in Requests, Commit(r)
  PROVE  Locked'
  <1> DEFINE q == request[r]
  <1>0. request \in [Requests -> Request] /\ q \in Request /\ Locks(r, q)
        /\ q.missing = {} /\ Episode \notin committed
      BY DEF IntakeInv, Typed, Locked, Sound, Carries, Commit
  <1>1. /\ request'[r].missing = {} /\ request'[r].held = {}
        /\ \A o \in Requests \ {r} : request'[o] = request[o]
        /\ committed' = committed \cup (q.held \ {Episode}) /\ reserved' = reserved
      BY <1>0 DEF Commit, Request
  <1>2. ASSUME NEW o \in Requests PROVE Locks(o, request[o])'
    <2>1. CASE o = r
        BY <1>1, <2>1 DEF Locks, MerchantRow
    <2>2. CASE o # r
      <3>1. Locks(o, request[o]) /\ Apart(request[o], q)
          BY <2>2 DEF Locked
      <3> QED BY <1>1, <2>2, <3>1 DEF Locks, Apart, MerchantRow
    <2> QED BY <2>1, <2>2
  <1>3. ASSUME NEW o \in Requests, NEW u \in Requests \ {o}
        PROVE  Apart(request'[o], request'[u])
      BY <1>1, <1>3 DEF Locked, Apart
  <1> QED BY <1>2, <1>3 DEF Locked, Apart

(* A batch run takes a merchant nobody holds, and commits it or not.       *)
LEMMA RunsLock ==
  ASSUME IntakeInv, Locked, NEW m \in Merchants,
         Reserve(m) \/ Release(m, {m}) \/ Release(m, {})
  PROVE  Locked'
  <1>1. request' = request /\ committed \subseteq committed'
      BY DEF Reserve, Release
  <1>2. ASSUME NEW r \in Requests
        PROVE  request[r].held \cap (committed' \cup reserved') = {}
      BY DEF Locked, Locks, Reserve, Release
  <1> QED BY <1>1, <1>2 DEF Locked, Locks, MerchantRow

LEMMA LookUpsLock ==
  ASSUME IntakeInv, Locked, NEW r \in Requests, LookUpMerchant(r) \/ LookUpCustomer(r)
  PROVE  Locked'
  <1> DEFINE q == request[r]
  <1>0. /\ request \in [Requests -> Request] /\ q \in Request /\ Locks(r, q)
        /\ q.at \in {"merchant", "customer"} /\ q.held = {}
    <2>1. request \in [Requests -> Request] /\ q \in Request /\ Locks(r, q) /\ Carries(q)
        BY DEF IntakeInv, Typed, Locked, Sound
    <2>2. q.at \in {"merchant", "customer"}
        BY DEF LookUpMerchant, LookUpCustomer, LookUp
    <2> QED BY <2>1, <2>2 DEF Carries
  <1>1. /\ request'[r].held = {}
        /\ request'[r].missing \subseteq q.missing \cup {CustomerOf[r], MerchantRow(r), Episode}
        /\ \A o \in Requests \ {r} : request'[o] = request[o]
        /\ UNCHANGED <<committed, reserved>>
      BY <1>0 DEF LookUpMerchant, LookUpCustomer, LookUp, Request, tables, MerchantRow
  <1>2. Locks(r, request'[r])
      BY <1>0, <1>1 DEF Locks
  <1> QED BY <1>0, <1>1, <1>2, FewerLocks

(* Where a request starts, moves on, gives up or is over.                  *)
LEMMA MovesLock ==
  ASSUME IntakeInv, Locked, NEW r \in Requests,
         \/ Receive(r) \/ Flushed(r) \/ Answer(r) \/ Untold(r) \/ Fail(r)
         \/ \E row \in RowSet : Refuse(r, row)
  PROVE  Locked'
  <1> DEFINE q == request[r]
  <1>0. request \in [Requests -> Request] /\ q \in Request /\ Locks(r, q)
      BY DEF IntakeInv, Typed, Locked
  <1>1. /\ \/ request'[r].held = q.held /\ request'[r].missing = q.missing
           \/ request'[r].held = {} /\ request'[r].missing = {}
        /\ \A o \in Requests \ {r} : request'[o] = request[o]
        /\ UNCHANGED <<committed, reserved>>
    <2>1. CASE Receive(r) \/ Flushed(r) \/ Answer(r) \/ Untold(r)
        BY <1>0, <2>1 DEF Receive, Flushed, Answer, Untold, tables, Request
    <2>2. CASE Fail(r) \/ \E row \in RowSet : Refuse(r, row)
        BY <1>0, <2>2 DEF Fail, Refuse, RollBack, Idle, tables
    <2> QED BY <2>1, <2>2
  <1>2. Locks(r, request'[r])
      BY <1>0, <1>1 DEF Locks
  <1> QED BY <1>1, <1>2, FewerLocks

LEMMA StepsLock == IntakeInv /\ Locked /\ [IntakeNext]_intakeVars => Locked'
  <1> SUFFICES ASSUME IntakeInv, Locked, [IntakeNext]_intakeVars PROVE Locked'
      OBVIOUS
  <1>1. ASSUME NEW r \in Requests, Step(r) PROVE Locked'
      BY <1>1, LookUpsLock, MovesLock, InsertLocks, CommitLocks DEF Step, RowSet
  <1>2. ASSUME NEW r \in Requests, Environment(r) PROVE Locked'
      BY <1>2, MovesLock DEF Environment, ReadBackFails, LoseAnswer
  <1>3. CASE UNCHANGED intakeVars
      BY <1>3 DEF intakeVars, Locked, Locks, Apart, MerchantRow
  <1> QED BY <1>1, <1>2, <1>3, RunsLock DEF IntakeNext

(* A request stands when a flush has rows left and cannot try any; it      *)
(* stands for a run when one of them is the merchant of an open batch run. *)
Stands(r) ==
  /\ request[r].at = "flushing" /\ request[r].missing # {}
  /\ \A row \in RowSet : ~Flushes(r, row)
StandsForRun(r) == Stands(r) /\ request[r].missing \cap reserved # {}

(* Some row comes next, whatever ranks the rows of an event have.          *)
LEMMA SomeRowIsNext ==
  ASSUME IntakeInv, Locked, NEW r \in Requests, Stands(r)
  PROVE  \E row \in request[r].missing : IsNext(r, row) /\ Waits(r, row)
  <1> DEFINE left == request[r].missing
             c == CustomerOf[r]
             m == MerchantRow(r)
  <1>1. left # {} /\ left \subseteq {c, m, Episode}
      BY DEF Stands, Locked, Locks
  <1>2. /\ c \in RowSet /\ m \in RowSet /\ Episode \in RowSet
        /\ FlushRank[c] \in Nat /\ FlushRank[m] \in Nat /\ FlushRank[Episode] \in Nat
      BY DEF RowSet, MerchantRow
  <1>3. \E row \in left : \A other \in left : FlushRank[row] <= FlushRank[other]
    <2>1. \A x, y, z \in Nat :
            (x <= y /\ x <= z) \/ (y <= x /\ y <= z) \/ (z <= x /\ z <= y)
        OBVIOUS
    <2>2. \A x, y \in Nat : x <= y \/ y <= x
        OBVIOUS
    <2>3. \A x \in Nat : x <= x
        OBVIOUS
    <2> HIDE DEF left, c, m
    <2> DEFINE f(x) == FlushRank[x]
    <2>4. f(c) \in Nat /\ f(m) \in Nat /\ f(Episode) \in Nat
        BY <1>2
    <2>5. \E row \in left : \A other \in left : f(row) <= f(other)
      <3> HIDE DEF f
      <3>1. CASE c \in left /\ m \in left /\ Episode \in left
          BY <1>1, <2>1, <2>3, <2>4, <3>1
      <3>2. CASE c \notin left
          BY <1>1, <2>2, <2>3, <2>4, <3>2
      <3>3. CASE m \notin left
          BY <1>1, <2>2, <2>3, <2>4, <3>3
      <3>4. CASE Episode \notin left
          BY <1>1, <2>2, <2>3, <2>4, <3>4
      <3> QED BY <3>1, <3>2, <3>3, <3>4
    <2> QED BY <2>5
  <1>4. PICK row \in left : IsNext(r, row)
      BY <1>3 DEF IsNext
  <1>5. row \in RowSet
      BY <1>1, <1>2
  <1>6. Waits(r, row)
      BY <1>4, <1>5 DEF Stands, Flushes
  <1> QED BY <1>4, <1>6

(* A request that stands waits for a batch run, or for a request that is   *)
(* not itself waiting for one: who holds a merchant's row has found no     *)
(* customer over it inserted by others, and who holds a customer's row has *)
(* its merchant.  Nobody stands in a circle, in whatever order the rows    *)
(* are inserted, and Postgres has no victim to choose.                     *)
NoCircle ==
  \A r \in Requests :
    Stands(r) =>
      \/ StandsForRun(r)
      \/ \E h \in Requests \ {r} :
           /\ request[h].at \in {"flushing", "committing"}
           /\ request[h].held \cap request[r].missing \cap Keys # {}
           /\ Stands(h) => StandsForRun(h)

LEMMA LocksMakeNoCircle == IntakeInv /\ Locked => NoCircle
  <1> SUFFICES ASSUME IntakeInv, Locked, NEW r \in Requests, Stands(r), ~StandsForRun(r)
               PROVE  \E h \in Requests \ {r} :
                        /\ request[h].at \in {"flushing", "committing"}
                        /\ request[h].held \cap request[r].missing \cap Keys # {}
                        /\ Stands(h) => StandsForRun(h)
      BY DEF NoCircle
  <1>1. PICK row \in request[r].missing : Waits(r, row)
      BY SomeRowIsNext
  <1>2. PICK h \in Requests \ {r} : row # Episode /\ row \in request[h].held
      BY <1>1 DEF Waits, StandsForRun
  <1>3. /\ row \in {CustomerOf[r], MerchantRow(r)} /\ row \in Keys
        /\ row \in {CustomerOf[h], MerchantRow(h)}
      BY <1>2 DEF Locked, Locks, MerchantRow
  <1>4. request[h].at \in {"flushing", "committing"}
      BY <1>2 DEF IntakeInv, Sound, Carries
  <1>5. ASSUME Stands(h), ~StandsForRun(h) PROVE FALSE
    <2>1. PICK other \in request[h].missing : Waits(h, other)
        BY <1>5, SomeRowIsNext
    <2>2. PICK g \in Requests \ {h} : other # Episode /\ other \in request[g].held
        BY <1>5, <2>1 DEF Waits, StandsForRun
    <2>3. /\ other \in {CustomerOf[h], MerchantRow(h)} /\ other # row
          /\ other \in {CustomerOf[g], MerchantRow(g)}
        BY <1>2, <2>2 DEF Locked, Locks
    <2>4. CASE row = CustomerOf[h]
      <3>1. other = MerchantRow(h) /\ other \notin request[h].held /\ other \notin committed
          BY <2>2, <2>3, <2>4 DEF Locked, Locks
      <3> QED BY <1>2, <2>4, <3>1 DEF Locked, Locks
    <2>5. CASE row = MerchantRow(h) /\ other = CustomerOf[h]
      <3>1. other = CustomerOf[g] /\ MerchantRow(g) = row
          BY <2>3, <2>5 DEF MerchantRow
      <3>2. row \notin committed /\ row \notin request[g].held
          BY <1>2, <1>3, <2>2 DEF Locked, Locks, Apart
      <3> QED BY <2>2, <3>1, <3>2 DEF Locked, Locks
    <2> QED BY <1>3, <2>3, <2>4, <2>5
  <1> QED BY <1>2, <1>3, <1>4, <1>5

LEMMA LockedAlways == IntakeSpec => []Locked
  <1>1. IntakeInit => Locked
    <2> SUFFICES ASSUME IntakeInit, NEW r \in Requests
                 PROVE  request[r].missing = {} /\ request[r].held = {}
        BY DEF Locked, Locks, Apart
    <2>1. request[r] = Idle
        BY DEF IntakeInit
    <2> QED BY <2>1 DEF Idle
  <1> QED BY <1>1, StepsLock, IntakeInvariance, PTL DEF IntakeSpec

(* The foreign keys leave no circle of requests that wait for each other.  *)
THEOREM IntakeHasNoCircle == IntakeSpec => []NoCircle
  BY LockedAlways, LocksMakeNoCircle, IntakeInvariance, PTL

(***************************************************************************)
(* How far an attempt still is from its end                                *)
(***************************************************************************)
Has(r, q, row) == IF row \in q.missing THEN 1 ELSE 0
LeftOf(r, q) ==
  IF q.at = "merchant" THEN 7
  ELSE IF q.at = "customer" THEN 6
  ELSE IF q.at = "flushing"
       THEN 2 + Has(r, q, CustomerOf[r]) + Has(r, q, MerchantRow(r)) + Has(r, q, Episode)
  ELSE IF q.at = "committing" THEN 1 ELSE 0

(* Whatever moves a request that is under way brings it nearer its end: it *)
(* has no loop, and only the client starts it again.                       *)
Nearer(r) ==
  request[r].at \in Open /\ request'[r] # request[r] =>
    /\ LeftOf(r, request[r]) \in Nat \ {0}
    /\ LeftOf(r, request'[r]) \in Nat
    /\ LeftOf(r, request'[r]) < LeftOf(r, request[r])
AttemptsDescend == \A r \in Requests : Nearer(r)

LEMMA InsertNearer ==
  ASSUME IntakeInv, Locked, NEW r \in Requests, NEW row \in RowSet, Insert(r, row)
  PROVE  LeftOf(r, request'[r]) < LeftOf(r, request[r])
  <1> DEFINE q == request[r]
             p == request'[r]
  <1>1. /\ q.at = "flushing" /\ p.at = "flushing" /\ p.missing = q.missing \ {row}
        /\ row \in q.missing /\ row \in {CustomerOf[r], MerchantRow(r), Episode}
    <2>1. request \in [Requests -> Request] /\ q \in Request /\ Locks(r, q)
        BY DEF IntakeInv, Typed, Locked
    <2> QED BY <2>1 DEF Insert, Flushes, IsNext, Request, Locks
  <1>2. CustomerOf[r] # MerchantRow(r) /\ CustomerOf[r] # Episode /\ MerchantRow(r) # Episode
      BY DEF MerchantRow
  <1> HIDE DEF q, p
  <1>3. CASE row = CustomerOf[r]
      BY <1>1, <1>2, <1>3 DEF LeftOf, Has, q, p
  <1>4. CASE row = MerchantRow(r)
      BY <1>1, <1>2, <1>4 DEF LeftOf, Has, q, p
  <1>5. CASE row = Episode
      BY <1>1, <1>2, <1>5 DEF LeftOf, Has, q, p
  <1> QED BY <1>1, <1>3, <1>4, <1>5

LEMMA LeftIsNat ==
  ASSUME NEW r \in Requests, NEW q
  PROVE  /\ LeftOf(r, q) \in 0..7
         /\ q.at = "flushing" => LeftOf(r, q) \in 2..5
         /\ q.at \in Open <=> LeftOf(r, q) # 0
  BY DEF LeftOf, Has, Open

LEMMA StepsNearer == IntakeInv /\ Locked /\ [IntakeNext]_intakeVars => AttemptsDescend
  <1> SUFFICES ASSUME IntakeInv, Locked, [IntakeNext]_intakeVars, NEW r \in Requests,
                      request[r].at \in Open, request'[r] # request[r]
               PROVE  LeftOf(r, request'[r]) < LeftOf(r, request[r])
      BY LeftIsNat DEF AttemptsDescend, Nearer
  <1>0. request \in [Requests -> Request]
      BY DEF IntakeInv, Typed
  <1>1. Step(r) \/ Environment(r)
    <2>1. ASSUME NEW o \in Requests, Step(o) \/ Environment(o) PROVE o = r
        BY <1>0, <2>1 DEF Step, Environment, LookUpMerchant, LookUpCustomer, LookUp, Insert,
           Refuse, RollBack, Flushed, Commit, Answer, Receive, Fail, ReadBackFails, LoseAnswer,
           Untold
    <2>2. ~UNCHANGED intakeVars
        BY DEF intakeVars
    <2>3. ASSUME NEW m \in Merchants, Reserve(m) \/ Release(m, {m}) \/ Release(m, {})
          PROVE FALSE
        BY <2>3 DEF Reserve, Release
    <2> QED BY <2>1, <2>2, <2>3 DEF IntakeNext
  <1>2. CASE LookUpMerchant(r)
    <2>1. request[r].at = "merchant" /\ request'[r].at = "customer"
        BY <1>0, <1>2 DEF LookUpMerchant, LookUp, Request
    <2> QED BY <2>1 DEF LeftOf
  <1>3. CASE LookUpCustomer(r)
    <2>1. request[r].at = "customer" /\ request'[r].at = "flushing"
        BY <1>0, <1>3 DEF LookUpCustomer, LookUp, Request
    <2> QED BY <2>1, LeftIsNat DEF LeftOf
  <1>4. CASE Flushed(r)
    <2>1. request[r].at = "flushing" /\ request'[r].at = "committing"
        BY <1>0, <1>4 DEF Flushed, Request
    <2> QED BY <2>1, LeftIsNat DEF LeftOf
  <1>5. CASE Commit(r)
    <2>1. request[r].at = "committing" /\ request'[r].at = "answering"
        BY <1>0, <1>5 DEF Commit, Request
    <2> QED BY <2>1 DEF LeftOf
  <1>6. CASE Fail(r) \/ \E row \in RowSet : Refuse(r, row)
    <2>1. request'[r].at = "idle"
        BY <1>0, <1>6 DEF Fail, Refuse, RollBack, Idle
    <2>2. LeftOf(r, request'[r]) = 0 /\ LeftOf(r, request[r]) \in 1..7
        BY <2>1, LeftIsNat DEF Open
    <2> QED BY <2>2
  <1>7. ~(Answer(r) \/ Receive(r) \/ ReadBackFails(r) \/ LoseAnswer(r))
      BY DEF Answer, Receive, ReadBackFails, LoseAnswer, Untold, Open
  <1> QED BY <1>1, <1>2, <1>3, <1>4, <1>5, <1>6, <1>7, InsertNearer DEF Step, Environment, RowSet

(* Every attempt ends after seven steps at the most: it descends with each *)
(* of them, and nobody waits in a circle.                                  *)
THEOREM IntakeDescends == IntakeSpec => [][AttemptsDescend]_intakeVars
  BY LockedAlways, StepsNearer, IntakeInvariance, PTL DEF IntakeSpec

-----------------------------------------------------------------------------
(* The composition.                                                        *)

(* Requests, batch runs and everyone else take steps of EventIntake only,  *)
(* and see a batch run as one that reserves and releases its merchant.     *)
LEMMA StepsOfIntake == Next => [IntakeNext]_intakeVars
  <1> SUFFICES ASSUME Next PROVE IntakeNext \/ UNCHANGED intakeVars
      OBVIOUS
  <1>1. ASSUME NEW r \in Requests, Handle(r) \/ Disturb(r) PROVE IntakeNext
      BY <1>1 DEF Handle, Disturb, IntakeNext
  <1>2. ASSUME NEW b \in Runs, BeginRun(b) \/ CommitRun(b) \/ AbortRun(b)
        PROVE  IntakeNext \/ UNCHANGED intakeVars
    <2>1. MerchantFor[b] \in Merchants
        BY RecordsAssumption
    <2> QED BY <1>2, <2>1 DEF BeginRun, CommitRun, AbortRun, End, IntakeNext
  <1>3. ASSUME NEW x, Audit(x) \/ Read(x) PROVE UNCHANGED intakeVars
      BY <1>3 DEF Audit, Read
  <1> QED BY <1>1, <1>2, <1>3 DEF Next

LEMMA StepsOfTrail == Next => [TrailNext]_trailVars
  <1> SUFFICES ASSUME Next PROVE TrailNext \/ UNCHANGED trailVars
      OBVIOUS
  <1>1. ASSUME NEW r \in Requests, Handle(r) \/ Disturb(r) PROVE UNCHANGED trailVars
      BY <1>1 DEF Handle, Disturb, trailVars
  <1>2. ASSUME NEW b \in Runs, BeginRun(b) \/ CommitRun(b) \/ AbortRun(b)
        PROVE  TrailNext \/ UNCHANGED trailVars
    <2>1. b \in Writers
        BY RecordsAssumption
    <2> QED BY <1>2, <2>1 DEF BeginRun, CommitRun, AbortRun, TrailNext, trailVars
  <1>3. ASSUME NEW w \in Writers, Audit(w) PROVE TrailNext
      BY <1>3 DEF Audit, TrailNext
  <1>4. ASSUME NEW d \in Readers, Read(d) PROVE TrailNext
      BY <1>4 DEF Read, TrailNext
  <1> QED BY <1>1, <1>2, <1>3, <1>4 DEF Next

(* The whole implements both of its parts.                                 *)
THEOREM ImplementsParts == Spec => IntakeSpec /\ TrailSpec
  <1>1. Init => IntakeInit /\ TrailInit
      BY DEF Init
  <1>2. [Next]_vars => [IntakeNext]_intakeVars /\ [TrailNext]_trailVars
      BY StepsOfIntake, StepsOfTrail DEF vars, intakeVars, trailVars
  <1> QED BY <1>1, <1>2, PTL DEF Spec, IntakeSpec, TrailSpec

(* No two runs hold one merchant's row at a time.                          *)
Holds ==
  /\ run \in [Runs -> {"idle", "open", "inserted", "over"}] /\ present \in Traffic
  /\ \A b \in Runs : run[b] = "inserted" =>
       /\ MerchantFor[b] \in reserved
       /\ \A c \in Runs \ {b} : run[c] = "inserted" => MerchantFor[c] # MerchantFor[b]

LEMMA HoldsSteps == Holds /\ [Next]_vars => Holds'
  <1> SUFFICES ASSUME Holds, [Next]_vars PROVE Holds'
      OBVIOUS
  <1>1. ASSUME NEW r \in Requests, Handle(r) \/ Disturb(r) PROVE Holds'
    <2>1. UNCHANGED <<reserved, run, present>>
        BY <1>1 DEF Handle, Disturb, Step, Environment, LookUpMerchant, LookUpCustomer,
           LookUp, Insert, Refuse, Flushed, Commit, Answer, Receive, Fail, ReadBackFails,
           LoseAnswer, Untold, tables
    <2> QED BY <2>1 DEF Holds
  <1>2. ASSUME NEW b \in Runs, BeginRun(b) PROVE Holds'
      BY <1>2 DEF BeginRun, Go, Reserve, Holds, intakeVars
  <1>3. ASSUME NEW b \in Runs, CommitRun(b) \/ AbortRun(b) PROVE Holds'
    <2>1. /\ run' = [run EXCEPT ![b] = "over"] /\ present' = present
          /\ \/ run[b] = "inserted" /\ reserved' = reserved \ {MerchantFor[b]}
             \/ run[b] = "open" /\ reserved' = reserved
        BY <1>3 DEF CommitRun, AbortRun, End, Go, Release, intakeVars
    <2> QED BY <2>1 DEF Holds
  <1>4. ASSUME NEW x, Audit(x) \/ Read(x) PROVE Holds'
      BY <1>4 DEF Audit, Read, Holds, intakeVars
  <1>5. CASE UNCHANGED vars
      BY <1>5 DEF vars, Holds, intakeVars
  <1> QED BY <1>1, <1>2, <1>3, <1>4, <1>5 DEF Next

(* Every variable stays in its type, and a run that has inserted its       *)
(* merchant holds the reservation of it.                                   *)
THEOREM TypeCorrect == Spec => []TypeOK
  <1>1. Init => Holds
      BY DEF Init, Holds
  <1>2. Spec => []Holds
      BY <1>1, HoldsSteps, PTL DEF Spec
  <1>3. IntakeInv /\ TrailInv /\ Holds => TypeOK
      BY IntakeImplies DEF TrailInv, Holds, TypeOK
  <1> QED BY <1>2, <1>3, ImplementsParts, IntakeInvariance, TrailInvariance, PTL

(* A merchant's row is kept from others only by a batch run under way.     *)
ReservedByRuns ==
  \A m \in reserved : \E b \in Runs : run[b] = "inserted" /\ MerchantFor[b] = m

LEMMA ReservedSteps == Holds /\ ReservedByRuns /\ [Next]_vars => ReservedByRuns'
  <1> SUFFICES ASSUME Holds, ReservedByRuns, [Next]_vars PROVE ReservedByRuns'
      OBVIOUS
  <1>1. ASSUME NEW r \in Requests, Handle(r) \/ Disturb(r) PROVE ReservedByRuns'
    <2>1. UNCHANGED <<reserved, run>>
        BY <1>1 DEF Handle, Disturb, Step, Environment, LookUpMerchant, LookUpCustomer,
           LookUp, Insert, Refuse, Flushed, Commit, Answer, Receive, Fail, ReadBackFails,
           LoseAnswer, Untold, tables
    <2> QED BY <2>1 DEF ReservedByRuns
  <1>2. ASSUME NEW b \in Runs, BeginRun(b) PROVE ReservedByRuns'
      BY <1>2 DEF BeginRun, Go, Reserve, Holds, ReservedByRuns, intakeVars
  <1>3. ASSUME NEW b \in Runs, CommitRun(b) \/ AbortRun(b) PROVE ReservedByRuns'
    <2>1. /\ run' = [run EXCEPT ![b] = "over"]
          /\ \/ run[b] = "inserted" /\ reserved' = reserved \ {MerchantFor[b]}
             \/ run[b] = "open" /\ reserved' = reserved
        BY <1>3 DEF CommitRun, AbortRun, End, Go, Release, intakeVars
    <2> QED BY <2>1 DEF Holds, ReservedByRuns
  <1>4. ASSUME NEW x, Audit(x) \/ Read(x) PROVE ReservedByRuns'
      BY <1>4 DEF Audit, Read, ReservedByRuns, intakeVars
  <1>5. CASE UNCHANGED vars
      BY <1>5 DEF vars, ReservedByRuns, intakeVars
  <1> QED BY <1>1, <1>2, <1>3, <1>4, <1>5 DEF Next

(* A flush that stands waits for a batch run that has inserted its         *)
(* merchant and may end at any time, or for a request that goes on or      *)
(* waits for such a run; and every request under way has fewer steps left  *)
(* after each one.                                                         *)
THEOREM NobodyStandsForGood ==
  Spec => [](NoCircle /\ ReservedByRuns) /\ [][AttemptsDescend]_vars
  <1>1. Init => Holds /\ ReservedByRuns
      BY DEF Init, IntakeInit, Holds, ReservedByRuns
  <1>2. Spec => []ReservedByRuns
      BY <1>1, HoldsSteps, ReservedSteps, PTL DEF Spec
  <1>3. [AttemptsDescend]_intakeVars => [AttemptsDescend]_vars
      BY DEF AttemptsDescend, Nearer, intakeVars
  <1> QED BY <1>2, <1>3, ImplementsParts, IntakeHasNoCircle, IntakeDescends, PTL

(* An episode and its event are stored together or not at all: once for    *)
(* the answer 202 the client got, for each that he missed and for each 500 *)
(* sent after the commit, and never for a request refused or failed before.*)
THEOREM AccountedTogether == Spec => []EventsAreAccounted
  BY ImplementsParts, AccountedEvents, PTL

(* A client is never refused over the same row twice.                      *)
THEOREM FoundTogether == Spec => []DuplicatesAreFound
  BY ImplementsParts, FoundDuplicates, PTL

(* The audit trail read to the end is complete but for equal stamps, and   *)
(* real, while batch runs add many rows at once.                           *)
THEOREM FaithfulTogether == Spec => []TrailIsFaithful
  BY ImplementsParts, FaithfulTrail, PTL
=============================================================================
