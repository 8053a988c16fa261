---------------------------- MODULE BanditStore ----------------------------
(***************************************************************************)
(* The learned statistics of the bandit, services/decide/redis_store.py:   *)
(* one Redis hash per merchant and arm, and one per arm that pools all     *)
(* merchants, each with the fields alpha and beta.  An update is six Redis *)
(* commands, and learners in several processes run theirs concurrently.    *)
(*                                                                         *)
(* The hashes are those of one context bucket; buckets share nothing.  A   *)
(* field is modelled by whether it was given its prior and by the mass it  *)
(* has learned since, in tenths (rewards are 1.0, 0.0 and -0.1).           *)
(***************************************************************************)
EXTENDS Integers, FiniteSets

CONSTANTS
  Learners,     \* threads that update the statistics, one update at a time
  Merchants,
  Arms,
  GLOBAL,       \* stands where the merchant would, in the pooled keys
  MaxRepeats    \* bound: increments that are applied twice

ASSUME StoreAssumption == GLOBAL \notin Merchants /\ MaxRepeats \in Nat

Fields == {"alpha", "beta"}
Scopes == Merchants \cup {GLOBAL}
Keys == Scopes \X Arms

VARIABLES
  seeded,     \* <<key, field>> that HSETNX gave their prior
  learned,    \* mass the increments have added, per <<key, field>>
  repeated,   \* history: the part of it that a repeated command added
  repeats,    \* history: how many commands were repeated
  update      \* per learner: its update and the command it is at

storeVars == <<seeded, learned, repeated, repeats, update>>

(* An update at its next command: 1 and 2 set up the merchant's key, 3 and *)
(* 4 the pooled one, 5 and 6 increment them.                               *)
Update == [merchant : Merchants, arm : Arms, field : Fields,
           amount : 1..10, step : 1..6]
NoUpdate == [step |-> 0]
At(u, n) == [merchant |-> u.merchant, arm |-> u.arm, field |-> u.field,
             amount |-> u.amount, step |-> n]
MerchantKey(u) == <<u.merchant, u.arm>>
GlobalKey(u) == <<GLOBAL, u.arm>>
KeyAt(u) == IF u.step \in {1, 2, 5} THEN MerchantKey(u) ELSE GlobalKey(u)
FieldAt(u) == IF u.step \in {1, 3} THEN "alpha"
              ELSE IF u.step \in {2, 4} THEN "beta" ELSE u.field
Cell(u) == <<KeyAt(u), FieldAt(u)>>

Exists(k, f) == <<k, f>> \in seeded \/ learned[<<k, f>>] > 0

(* A hash a reader trips over: get_stats takes both fields from any hash   *)
(* that is not empty, and a missing one is a KeyError.                     *)
Broken(k) == Exists(k, "alpha") # Exists(k, "beta")

StoreInit ==
  /\ seeded = {}
  /\ learned = [c \in Keys \X Fields |-> 0]
  /\ repeated = [c \in Keys \X Fields |-> 0]
  /\ repeats = 0
  /\ update = [l \in Learners |-> NoUpdate]

(***************************************************************************)
(* ThompsonSamplingBandit.update: what a reward adds to which field.  The  *)
(* rewards RewardService gives (1.0, 0.0, -0.1) leave one increment each:  *)
(* an increment by nothing returns at once.                                *)
(***************************************************************************)
Success(reward) == IF reward > 0 THEN reward ELSE 0
(* Mutations: a reward of -0.1 taken like any other; a blocked attempt     *)
(* counted as a failed one.                                                *)
Failure_Unguarded(reward) == 10 - reward
Failure_BlockedFails(reward) == 10 - Success(reward)
Failure(reward) == IF reward < 0 THEN 1 ELSE 10 - Success(reward)
Increments(reward) ==
  {i \in {[field |-> "alpha", amount |-> Success(reward)],
          [field |-> "beta", amount |-> Failure(reward)]} : i.amount # 0}

BeginUpdate(l, m, a, reward) ==
  \E i \in Increments(reward) :
    update' = [update EXCEPT ![l] = [merchant |-> m, arm |-> a,
                 field |-> i.field, amount |-> i.amount, step |-> 1]]

NextStep(l) ==
  update' = [update EXCEPT ![l] = IF update[l].step = 6 THEN NoUpdate
                                  ELSE At(update[l], update[l].step + 1)]

(* Mutations: a hash that exists is left alone; HSET for HSETNX.           *)
Materialize_UnlessHash(l) ==
  LET u == update[l] IN
  /\ u.step \in 1..4
  /\ IF u.step \in {1, 3} /\ \E f \in Fields : Exists(KeyAt(u), f)
     THEN seeded' = seeded /\ update' = [update EXCEPT ![l] = At(u, u.step + 2)]
     ELSE seeded' = seeded \cup {Cell(u)} /\ NextStep(l)
  /\ UNCHANGED <<learned, repeated, repeats>>
Materialize_Overwrites(l) ==
  LET u == update[l] IN
  /\ u.step \in 1..4
  /\ seeded' = seeded \cup {Cell(u)}
  /\ learned' = [learned EXCEPT ![Cell(u)] = 0]
  /\ NextStep(l)
  /\ UNCHANGED <<repeated, repeats>>
(* _ensure_materialized: HSETNX leaves a field that exists as it is.       *)
Materialize(l) ==
  LET u == update[l] IN
  /\ u.step \in 1..4
  /\ seeded' = IF Exists(KeyAt(u), FieldAt(u)) THEN seeded
               ELSE seeded \cup {Cell(u)}
  /\ NextStep(l)
  /\ UNCHANGED <<learned, repeated, repeats>>

(* HINCRBYFLOAT on the merchant's key, then on the pooled one.             *)
Increment(l) ==
  LET u == update[l] IN
  /\ u.step \in 5..6
  /\ learned' = [learned EXCEPT ![Cell(u)] = @ + u.amount]
  /\ NextStep(l)
  /\ UNCHANGED <<seeded, repeated, repeats>>

(* The reply is lost, and the Redis client, whose retries are on unless    *)
(* turned off, sends the increment again.  A repeated HSETNX does nothing. *)
RepeatIncrement(l) ==
  LET u == update[l] IN
  /\ u.step \in 5..6
  /\ repeats < MaxRepeats
  /\ learned' = [learned EXCEPT ![Cell(u)] = @ + u.amount]
  /\ repeated' = [repeated EXCEPT ![Cell(u)] = @ + u.amount]
  /\ repeats' = repeats + 1
  /\ UNCHANGED <<seeded, update>>

Command(l) == Materialize(l) \/ Increment(l) \/ RepeatIncrement(l)
Updated(l) == update[l] = NoUpdate

(***************************************************************************)
(* Properties                                                              *)
(***************************************************************************)
StoreTypeOK ==
  /\ seeded \subseteq Keys \X Fields
  /\ learned \in [Keys \X Fields -> Nat]
  /\ repeated \in [Keys \X Fields -> Nat]
  /\ repeats \in 0..MaxRepeats
  /\ update \in [Learners -> Update \cup {NoUpdate}]

(* Concurrent HSETNX and HINCRBYFLOAT never undo one another: whatever a   *)
(* field has learned, it learned on top of its prior; and a hash has one   *)
(* field only while some learner stands between its two HSETNX, or died    *)
(* there.                                                                  *)
PriorsIntact ==
  /\ \A c \in Keys \X Fields : learned[c] > 0 => c \in seeded
  /\ \A k \in Keys : Broken(k) =>
       /\ <<k, "alpha">> \in seeded
       /\ \E l \in Learners : update[l].step \in {2, 4} /\ KeyAt(update[l]) = k
=============================================================================
