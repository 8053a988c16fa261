---------------------------- MODULE EventIntake ----------------------------
(***************************************************************************)
(* POST /v1/events/ingest on Postgres.  A request looks its merchant up,   *)
(* then its customer, and inserts in one transaction those it did not      *)
(* find, an episode and an event.  Every query sees what is committed by   *)
(* then; requests and batch runs insert the same merchants and customers.  *)
(*                                                                         *)
(* A client has one failure to report, and posts it until it is told 202.  *)
(***************************************************************************)
EXTENDS Integers

CONSTANTS
  Requests,    \* clients, with one request at a time
  Merchants, Customers,
  CustomerOf,  \* the customer of each client's event
  MerchantOf,  \* the merchant of each customer
  FlushRank,   \* the order in which a flush inserts rows
  MaxLost      \* bound: events a client is not told of

Keys == Merchants \cup Customers
Episode == "episode"

ASSUME IntakeAssumption ==
  /\ CustomerOf \in [Requests -> Customers]
  /\ MerchantOf \in [Customers -> Merchants]
  /\ Merchants \cap Customers = {} /\ Episode \notin Keys
  /\ FlushRank \in [Keys \cup {Episode} -> Nat] /\ MaxLost \in Nat

VARIABLES
  committed,   \* rows of merchants and customers
  reserved,    \* merchants an open transaction of a batch run has inserted
  request,
  episodes, events,  \* how many are committed for each client
  lost,        \* answers 202 each client has missed
  misled,      \* answers 500 each client got for an event that is stored
  duplicates   \* history: the keys over which each client has been refused

answers == <<lost, misled>>
intakeVars == <<committed, reserved, request, episodes, events, answers, duplicates>>
tables == <<committed, reserved, episodes, events>>

(* missing: rows still to insert; held: rows inserted and not committed.   *)
Request == [at : {"idle", "merchant", "customer", "flushing", "committing",
                  "answering", "told"},
            missing : SUBSET (Keys \cup {Episode}), held : SUBSET (Keys \cup {Episode})]
Idle == [at |-> "idle", missing |-> {}, held |-> {}]

IntakeInit ==
  /\ committed \in SUBSET Merchants /\ reserved = {}
  /\ request = [r \in Requests |-> Idle]
  /\ episodes = [r \in Requests |-> 0] /\ events = [r \in Requests |-> 0]
  /\ lost = [r \in Requests |-> 0] /\ misled = [r \in Requests |-> 0]
  /\ duplicates = [r \in Requests |-> {}]

Receive(r) ==
  /\ request[r].at = "idle"
  /\ request' = [request EXCEPT ![r].at = "merchant"]
  /\ UNCHANGED <<tables, answers, duplicates>>

(***************************************************************************)
(* The look-ups: lines 58-80.  Autoflush is off, nothing is inserted yet.  *)
(***************************************************************************)
LookUp(r, at, key, next, more) ==
  /\ request[r].at = at
  /\ request' = [request EXCEPT ![r].at = next,
       ![r].missing = @ \cup more \cup (IF key \in committed THEN {} ELSE {key})]
  /\ UNCHANGED <<tables, answers, duplicates>>
LookUpMerchant(r) == LookUp(r, "merchant", MerchantOf[CustomerOf[r]], "customer", {})
(* Mutation: no look-up, the insert is tried anyway.                       *)
LookUpCustomer_Blind(r) ==
  LookUp(r, "customer", Episode, "flushing", {CustomerOf[r]})
LookUpCustomer(r) == LookUp(r, "customer", CustomerOf[r], "flushing", {Episode})

(***************************************************************************)
(* The flush: line 90                                                      *)
(***************************************************************************)
RefersTo(r, row) == IF row = Episode THEN {CustomerOf[r], MerchantOf[CustomerOf[r]]}
                    ELSE IF row \in Customers THEN {MerchantOf[row]} ELSE {}

(* A foreign key does not see what another transaction has not committed.  *)
Dangling(r, row) == ~(RefersTo(r, row) \subseteq committed \cup request[r].held)

(* Postgres makes the insert of a key wait for the transaction that has    *)
(* inserted it before, until that one is over.                             *)
Waits(r, row) ==
  \/ row \in reserved
  \/ row # Episode /\ \E other \in Requests \ {r} : row \in request[other].held

(* No relationship() ties the mappers, so the unit of work orders them by  *)
(* their names, whatever refers to what: customer, episode, merchant.      *)
IsNext(r, row) ==
  /\ row \in request[r].missing
  /\ \A other \in request[r].missing : FlushRank[row] <= FlushRank[other]

Flushes(r, row) == request[r].at = "flushing" /\ IsNext(r, row) /\ ~Waits(r, row)

Insert(r, row) ==
  /\ Flushes(r, row) /\ row \notin committed /\ ~Dangling(r, row)
  /\ request' = [request EXCEPT ![r].missing = @ \ {row}, ![r].held = @ \cup {row}]
  /\ UNCHANGED <<tables, answers, duplicates>>

(* Mutation: the session stays open, its locks with it.                    *)
RollBack_Open(r) == request' = [request EXCEPT ![r].at = "idle"]
(* Answered with a 500; get_db closes the session.                         *)
RollBack(r) == request' = [request EXCEPT ![r] = Idle]

(* IntegrityError: a key that exists, or a reference that does not.        *)
Refuse(r, row) ==
  /\ Flushes(r, row) /\ (row \in committed \/ Dangling(r, row))
  /\ duplicates' = [duplicates EXCEPT
       ![r] = IF row \in committed THEN @ \cup {row} ELSE @]
  /\ RollBack(r)
  /\ UNCHANGED <<tables, answers>>

(* Mutation: a commit in the place of the flush, before the event is added.*)
Flushed_Commit(r) ==
  /\ request[r].at = "flushing" /\ request[r].missing = {}
  /\ request' = [request EXCEPT ![r].at = "committing", ![r].held = {}]
  /\ committed' = committed \cup (request[r].held \ {Episode})
  /\ episodes' = [episodes EXCEPT ![r] = @ + 1]
  /\ UNCHANGED <<reserved, events, answers, duplicates>>
Flushed(r) ==
  /\ request[r].at = "flushing" /\ request[r].missing = {}
  /\ request' = [request EXCEPT ![r].at = "committing"]
  /\ UNCHANGED <<tables, answers, duplicates>>

(***************************************************************************)
(* The commit, line 101, and the answer                                    *)
(***************************************************************************)
Commit(r) ==
  /\ request[r].at = "committing"
  /\ committed' = committed \cup (request[r].held \ {Episode})
  /\ episodes' = [episodes EXCEPT ![r] = @ + (IF Episode \in request[r].held THEN 1 ELSE 0)]
  /\ events' = [events EXCEPT ![r] = @ + 1]
  /\ request' = [request EXCEPT ![r].at = "answering", ![r].held = {}]
  /\ UNCHANGED <<reserved, answers, duplicates>>

Answer(r) ==
  /\ request[r].at = "answering"
  /\ request' = [request EXCEPT ![r].at = "told"]
  /\ UNCHANGED <<tables, answers, duplicates>>

(* An event is stored that the client is not told of; he posts it again.   *)
Untold(r) ==
  /\ request[r].at = "answering" /\ lost[r] + misled[r] < MaxLost
  /\ request' = [request EXCEPT ![r].at = "idle"]
  /\ UNCHANGED <<tables, duplicates>>

(* The commit expires the event, and the answer reads its id back: if that *)
(* fails, or the acknowledgement of the commit is lost, he is told 500.    *)
ReadBackFails(r) ==
  /\ Untold(r)
  /\ misled' = [misled EXCEPT ![r] = @ + 1] /\ UNCHANGED lost

(* The answer is lost on the way to the client.                            *)
LoseAnswer(r) ==
  /\ Untold(r)
  /\ lost' = [lost EXCEPT ![r] = @ + 1] /\ UNCHANGED misled

Open == {"merchant", "customer", "flushing", "committing"}
(* The database fails, or the process dies.                                *)
Fail(r) ==
  /\ request[r].at \in Open
  /\ RollBack(r)
  /\ UNCHANGED <<tables, answers, duplicates>>

(***************************************************************************)
(* The merchant row of a batch run (BatchLearning has its details)         *)
(***************************************************************************)
Reserve(m) ==
  /\ m \notin committed \cup reserved
  /\ \A r \in Requests : m \notin request[r].held
  /\ reserved' = reserved \cup {m}
  /\ UNCHANGED <<committed, request, episodes, events, answers, duplicates>>
Release(m, row) ==
  /\ m \in reserved
  /\ reserved' = reserved \ {m} /\ committed' = committed \cup row
  /\ UNCHANGED <<request, episodes, events, answers, duplicates>>

Step(r) ==
  \/ LookUpMerchant(r) \/ LookUpCustomer(r)
  \/ \E row \in Keys \cup {Episode} : Insert(r, row) \/ Refuse(r, row)
  \/ Flushed(r) \/ Commit(r) \/ Answer(r)

Environment(r) == Receive(r) \/ Fail(r) \/ ReadBackFails(r) \/ LoseAnswer(r)
IntakeNext ==
  \/ \E r \in Requests : Step(r) \/ Environment(r)
  \/ \E m \in Merchants : Reserve(m) \/ Release(m, {m}) \/ Release(m, {})

IntakeSpec == IntakeInit /\ [][IntakeNext]_intakeVars

(***************************************************************************)
(* Properties                                                              *)
(***************************************************************************)
(* Every variable stays in its type, and only a request that is under way  *)
(* has rows to insert or to commit.                                        *)
IntakeTypeOK ==
  /\ committed \subseteq Keys /\ reserved \subseteq Merchants
  /\ request \in [Requests -> Request]
  /\ \A r \in Requests : request[r].at \notin Open =>
       request[r].missing = {} /\ request[r].held = {}
  /\ episodes \in [Requests -> Nat] /\ events \in [Requests -> Nat]
  /\ lost \in [Requests -> 0..MaxLost] /\ misled \in [Requests -> 0..MaxLost]
  /\ duplicates \in [Requests -> SUBSET Keys]

(* ingest_event stores an episode and its event or neither, and nothing    *)
(* for a request that is refused or fails before the commit: the events of *)
(* a client are the one he is told of, those whose 202 he missed and those *)
(* he was told 500 for after the commit, one for each.                     *)
EventsAreAccounted ==
  \A r \in Requests :
    /\ episodes[r] = events[r]
    /\ events[r] = lost[r] + misled[r]
         + (IF request[r].at \in {"answering", "told"} THEN 1 ELSE 0)

(* A client who loses the race for a merchant or customer row finds it     *)
(* when he tries again: no row is ever in his way twice, and a request     *)
(* that found both rows is refused nothing.                                *)
DuplicatesAreFound ==
  \A r \in Requests :
    /\ duplicates[r] \cap request[r].missing = {}
    /\ request[r].at = "flushing" /\ request[r].missing \subseteq {Episode} =>
         RefersTo(r, Episode) \subseteq committed \cup request[r].held

(* Every request that was received comes to an end: no insert waits for    *)
(* ever.                                                                   *)
RequestsEnd == \A r \in Requests : request[r].at \in Open ~> request[r].at \notin Open
=============================================================================
