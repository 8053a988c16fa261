------------------------ MODULE BatchLearningProofs ------------------------
(***************************************************************************)
(* What holds of BatchLearning for any number of runs, merchants, arms,    *)
(* drafts and repeated commands: type correctness, the integrity of the    *)
(* priors, the references of committed runs, the two balances: of the      *)
(* pooled statistics, and of what committed runs count; termination, and   *)
(* that runs do not wait for ever.                                         *)
(***************************************************************************)
EXTENDS BatchLearning, FiniteSums

(* A run that samples still has a draft to do, and one that sets up has    *)
(* done none.                                                              *)
Counting ==
  \A r \in Learners :
    /\ batch[r].stage \in {"idle", "preparing"} => batch[r].metrics = NoMetrics
    /\ batch[r].stage = "sampling" => Seen(batch[r].metrics) < Drafts[r]

(* Only a run that is updating, or that died of it, has an update.         *)
UpdateOwned ==
  \A r \in Learners : update[r] # NoUpdate => batch[r].stage \in {"updating", "failed"}

(* What the commands an update has behind it have set up.                  *)
PriorsLaid ==
  \A l \in Learners : update[l] # NoUpdate =>
    LET u == update[l] IN
    /\ u.step > 1 => <<MerchantKey(u), "alpha">> \in seeded
    /\ u.step > 2 => <<MerchantKey(u), "beta">> \in seeded
    /\ u.step > 3 => <<GlobalKey(u), "alpha">> \in seeded
    /\ u.step > 4 => <<GlobalKey(u), "beta">> \in seeded

(* The rows a transaction holds are its own; the rows a run needs are      *)
(* committed, held by it, or still to be looked up or inserted.            *)
RowsHeld ==
  \A r \in Learners :
    /\ \A row \in batch[r].held : catalog[row] = "inserted"
    /\ \A s \in Learners : s # r => batch[r].held \cap batch[s].held = {}

Needed(b) == {b.merchant} \cup ArmsOf(b.policy)
RowsAccounted ==
  \A r \in Learners :
    /\ batch[r].stage \notin {"preparing"} =>
         batch[r].unlooked = {} /\ batch[r].missing = {}
    /\ batch[r].stage \in Active \cup {"done"} =>
         \A row \in Needed(batch[r]) :
           \/ row \in batch[r].unlooked \cup batch[r].missing \cup batch[r].held
           \/ catalog[row] = "committed"
    /\ batch[r].stage \notin Active => batch[r].held = {}

Typed == TypeOK /\ Counting
StoreInv == PriorsIntact /\ PriorsLaid /\ UpdateOwned
CatalogInv == RowsHeld /\ RowsAccounted

-----------------------------------------------------------------------------
(* A step of the system is a step of one run; each of its actions is named *)
(* once here, so that the proofs below need not unfold Next.               *)
LEMMA RunSteps ==
  ASSUME Next
  PROVE  \E r \in Learners :
           \/ \E m \in Merchants, p \in Policies : StartRun(r, m, p)
           \/ \E row \in Rows : Look(r, row)
           \/ \E row \in Rows : InsertRow(r, row)
           \/ SetUp(r)
           \/ \E k \in Keys : ReadStats(r, k)
           \/ \E a \in Arms, outcome \in Outcomes : Decide(r, a, outcome)
           \/ Learn(r)
           \/ Record(r)
           \/ Commit(r)
           \/ batch[r].stage \in Active /\ Abandon(r)
<1>1. PICK r \in Learners :
        (\E m \in Merchants, p \in Policies : StartRun(r, m, p)) \/ Step(r) \/ Fail(r)
  BY DEF Next
<1>2. CASE Fail(r)
  BY <1>2 DEF Fail
<1>3. CASE Duplicate(r) \/ DeadlockVictim(r) \/ ReadBroken(r)
  <2>1. Abandon(r)
    BY <1>3 DEF Duplicate, DeadlockVictim, ReadBroken
  <2>2. batch[r].stage \in Active
    BY <1>3 DEF Duplicate, DeadlockVictim, ReadBroken, Active
  <2> QED
    BY <2>1, <2>2
<1>4. CASE (\E m \in Merchants, p \in Policies : StartRun(r, m, p))
  BY <1>4
<1>5. CASE \/ \E row \in Rows : Look(r, row) \/ InsertRow(r, row)
           \/ SetUp(r) \/ \E k \in Keys : ReadStats(r, k)
           \/ \E a \in Arms, outcome \in Outcomes : Decide(r, a, outcome)
           \/ Learn(r) \/ Record(r) \/ Commit(r)
  BY <1>5
<1> QED
  BY <1>1, <1>2, <1>3, <1>4, <1>5 DEF Step

-----------------------------------------------------------------------------
(* Type correctness                                                        *)

(* What a decision counts and asks the bandit to learn.                    *)
LEMMA CountedType ==
  ASSUME NEW metrics \in Metrics, NEW outcome \in Outcomes
  PROVE  LET counted == [metrics EXCEPT ![outcome] = @ + 1]
         IN  counted \in Metrics /\ Seen(counted) = Seen(metrics) + 1
  BY DEF Metrics, Seen, Outcomes

LEMMA IncrementType ==
  ASSUME NEW outcome \in Outcomes, NEW i \in Increments(Reward(outcome))
  PROVE  i.field \in Fields /\ i.amount \in 1..10
  BY DEF Increments, Reward, Success, Failure, Fields, Outcomes

LEMMA InitTyped == Init => Typed
<1> SUFFICES ASSUME Init PROVE Typed
  OBVIOUS
<1>1. StoreTypeOK
  BY StoreAssumption DEF Init, StoreInit, StoreTypeOK
<1>2. catalog \in [Rows -> {"absent", "inserted", "committed"}]
  BY DEF Init
<1>3. NoMetrics \in Metrics /\ Seen(NoMetrics) = 0
  BY DEF NoMetrics, Metrics, Seen, Outcomes
<1>4. batch \in [Learners -> BatchRun]
  BY <1>3 DEF Init, BatchRun, Stages, Policies
<1>5. \A r \in Learners : Seen(batch[r].metrics) <= Drafts[r]
  BY <1>3, BatchAssumption DEF Init
<1>6. Counting
  BY DEF Init, Counting
<1> QED
  BY <1>1, <1>2, <1>4, <1>5, <1>6 DEF Typed, TypeOK

LEMMA StoreTyped ==
  ASSUME StoreTypeOK, NEW l \in Learners, Command(l)
  PROVE  StoreTypeOK'
<1> DEFINE u == update[l]
<1>1. u.step \in 1..6 /\ u \in Update
  BY DEF StoreTypeOK, Command, Materialize, Increment, RepeatIncrement, NoUpdate, Update
<1>2. KeyAt(u) \in Keys /\ FieldAt(u) \in Fields /\ u.amount \in Nat
  BY <1>1 DEF KeyAt, FieldAt, MerchantKey, GlobalKey, Keys, Scopes, Fields, Update
<1>3. Cell(u) \in Keys \X Fields
  BY <1>2 DEF Cell
<1>4. ASSUME NextStep(l) PROVE update' \in [Learners -> Update \cup {NoUpdate}]
  <2>1. CASE u.step = 6
    BY <2>1, <1>4 DEF NextStep, StoreTypeOK
  <2>2. CASE u.step # 6
    <3>1. At(u, u.step + 1) \in Update
      BY <1>1, <2>2 DEF At, Update
    <3> QED
      BY <2>2, <3>1, <1>4 DEF NextStep, StoreTypeOK
  <2> QED
    BY <2>1, <2>2
<1>5. CASE Materialize(l)
  BY <1>3, <1>4, <1>5 DEF Materialize, StoreTypeOK
<1>6. CASE Increment(l)
  BY <1>2, <1>3, <1>4, <1>6 DEF Increment, StoreTypeOK
<1>7. CASE RepeatIncrement(l)
  <2>1. learned' \in [Keys \X Fields -> Nat] /\ repeated' \in [Keys \X Fields -> Nat]
    BY <1>2, <1>3, <1>7 DEF RepeatIncrement, StoreTypeOK
  <2>2. repeats' \in 0..MaxRepeats
    BY <1>7, StoreAssumption DEF RepeatIncrement, StoreTypeOK
  <2> QED
    BY <1>7, <2>1, <2>2 DEF RepeatIncrement, StoreTypeOK
<1> QED
  BY <1>5, <1>6, <1>7 DEF Command

LEMMA StepTyped == Typed /\ [Next]_vars => Typed'
<1> SUFFICES ASSUME Typed, [Next]_vars PROVE Typed'
  OBVIOUS
<1>1. CASE UNCHANGED vars
  BY <1>1 DEF vars, storeVars, Typed, TypeOK, StoreTypeOK, Counting
<1>2. CASE Next
  <2>1. PICK r \in Learners :
           \/ \E m \in Merchants, p \in Policies : StartRun(r, m, p)
           \/ \E row \in Rows : Look(r, row)
           \/ \E row \in Rows : InsertRow(r, row)
           \/ SetUp(r)
           \/ \E k \in Keys : ReadStats(r, k)
           \/ \E a \in Arms, outcome \in Outcomes : Decide(r, a, outcome)
           \/ Learn(r)
           \/ Record(r)
           \/ Commit(r)
           \/ batch[r].stage \in Active /\ Abandon(r)
    BY <1>2, RunSteps
  <2> USE DEF BatchRun, Stages
  <2>2. batch[r] \in BatchRun
    BY DEF Typed, TypeOK
  <2>3. ASSUME UNCHANGED storeVars PROVE StoreTypeOK'
    BY <2>3 DEF storeVars, Typed, TypeOK, StoreTypeOK
  <2>4. KeysToRead(r) \subseteq Keys
    BY <2>2 DEF KeysToRead, Keys, Scopes
  <2>5. ASSUME NEW state \in {"absent", "committed"}, Release(r, state)
        PROVE  catalog' \in [Rows -> {"absent", "inserted", "committed"}]
    BY <2>5 DEF Release, Typed, TypeOK
  <2>6. CASE \E m \in Merchants, p \in Policies : StartRun(r, m, p)
    <3>1. PICK m \in Merchants, p \in Policies : StartRun(r, m, p)
      BY <2>6
    <3>2. {m} \cup ArmsOf(p) \subseteq Rows
      BY BatchAssumption DEF ArmsOf, Rows
    <3>3. batch' \in [Learners -> BatchRun]
      BY <2>2, <3>1, <3>2 DEF StartRun, Typed, TypeOK
    <3>4. \A l \in Learners : batch'[l].metrics = batch[l].metrics
      BY <2>2, <3>1 DEF StartRun, Typed, TypeOK
    <3>5. Counting'
      BY <3>1, <3>4 DEF StartRun, Typed, TypeOK, Counting, Seen
    <3> QED
      BY <3>1, <3>3, <3>4, <3>5, <2>3 DEF StartRun, Typed, TypeOK, Seen
  <2>7. CASE \E row \in Rows : Look(r, row)
    <3>1. PICK row \in Rows : Look(r, row)
      BY <2>7
    <3>2. batch' \in [Learners -> BatchRun]
      BY <2>2, <3>1 DEF Look, Typed, TypeOK
    <3>3. \A l \in Learners : batch'[l].metrics = batch[l].metrics
                              /\ batch'[l].stage = batch[l].stage
      BY <2>2, <3>1 DEF Look, Typed, TypeOK
    <3> QED
      BY <3>1, <3>2, <3>3, <2>3 DEF Look, Typed, TypeOK, Counting, Seen
  <2>8. CASE \E row \in Rows : InsertRow(r, row)
    <3>1. PICK row \in Rows : InsertRow(r, row)
      BY <2>8
    <3>2. batch' \in [Learners -> BatchRun]
      BY <2>2, <3>1 DEF InsertRow, Typed, TypeOK
    <3>3. \A l \in Learners : batch'[l].metrics = batch[l].metrics
                              /\ batch'[l].stage = batch[l].stage
      BY <2>2, <3>1 DEF InsertRow, Typed, TypeOK
    <3>4. catalog' \in [Rows -> {"absent", "inserted", "committed"}]
      BY <3>1 DEF InsertRow, Typed, TypeOK
    <3> QED
      BY <3>1, <3>2, <3>3, <3>4, <2>3 DEF InsertRow, Typed, TypeOK, Counting, Seen
  <2>9. CASE SetUp(r)
    <3>1. batch' \in [Learners -> BatchRun]
      BY <2>2, <2>4, <2>9 DEF SetUp, BeginDraft, Typed, TypeOK
    <3>2. \A l \in Learners : batch'[l].metrics = batch[l].metrics
      BY <2>2, <2>9 DEF SetUp, BeginDraft, Typed, TypeOK
    <3>3. Seen(batch[r].metrics) < Drafts[r]
      <4>1. batch[r].metrics = NoMetrics
        BY <2>9 DEF SetUp, Typed, Counting
      <4>2. Seen(NoMetrics) = 0
        BY DEF Seen, NoMetrics, Outcomes
      <4> QED
        BY <4>1, <4>2, BatchAssumption
    <3>4. Counting'
      BY <2>9, <3>2, <3>3 DEF SetUp, BeginDraft, Typed, TypeOK, Counting, Seen
    <3> QED
      BY <2>9, <3>1, <3>2, <3>4, <2>3 DEF SetUp, Typed, TypeOK, Seen
  <2>10. CASE \E k \in Keys : ReadStats(r, k)
    <3>1. PICK k \in Keys : ReadStats(r, k)
      BY <2>10
    <3>2. batch' \in [Learners -> BatchRun]
      BY <2>2, <3>1 DEF ReadStats, Typed, TypeOK
    <3>3. \A l \in Learners : batch'[l].metrics = batch[l].metrics
                              /\ batch'[l].stage = batch[l].stage
      BY <2>2, <3>1 DEF ReadStats, Typed, TypeOK
    <3> QED
      BY <3>1, <3>2, <3>3, <2>3 DEF ReadStats, Typed, TypeOK, Counting, Seen
  <2>11. CASE \E a \in Arms, outcome \in Outcomes : Decide(r, a, outcome)
    <3>1. PICK a \in Arms, outcome \in Outcomes : Decide(r, a, outcome)
      BY <2>11
    <3> DEFINE counted == [batch[r].metrics EXCEPT ![outcome] = @ + 1]
    <3>2. counted \in Metrics /\ Seen(counted) = Seen(batch[r].metrics) + 1
      BY <2>2, CountedType
    <3>3. Seen(batch[r].metrics) < Drafts[r] /\ Seen(batch[r].metrics) \in Nat
      BY <2>2, <3>1 DEF Decide, Typed, Counting, Seen, Metrics, Outcomes
    <3>4. batch'[r].metrics = counted /\ batch'[r].stage = "updating"
      BY <2>2, <3>1 DEF Decide, Typed, TypeOK
    <3>5. \A l \in Learners : l # r => batch'[l] = batch[l]
      BY <3>1 DEF Decide, Typed, TypeOK
    <3>6. batch' \in [Learners -> BatchRun]
      BY <2>2, <3>1, <3>2 DEF Decide, Typed, TypeOK
    <3>7. Seen(counted) <= Drafts[r]
      BY <3>2, <3>3, BatchAssumption
    <3>8. Counting' /\ \A l \in Learners : Seen(batch'[l].metrics) <= Drafts[l]
      BY <3>4, <3>5, <3>7 DEF Typed, TypeOK, Counting
    <3>9. update' \in [Learners -> Update \cup {NoUpdate}]
      <4>1. CASE batch[r].policy = "redis"
        <5>1. PICK i \in Increments(Reward(outcome)) :
                update' = [update EXCEPT ![r] = [merchant |-> batch[r].merchant,
                  arm |-> a, field |-> i.field, amount |-> i.amount, step |-> 1]]
          BY <4>1, <3>1 DEF Decide, BeginUpdate
        <5>2. [merchant |-> batch[r].merchant, arm |-> a, field |-> i.field,
               amount |-> i.amount, step |-> 1] \in Update
          BY <2>2, IncrementType DEF Update
        <5> QED
          BY <5>1, <5>2 DEF Typed, TypeOK, StoreTypeOK
      <4>2. CASE batch[r].policy # "redis"
        BY <4>2, <3>1 DEF Decide, Typed, TypeOK, StoreTypeOK
      <4> QED
        BY <4>1, <4>2
    <3>10. StoreTypeOK'
      BY <3>1, <3>9 DEF Decide, Typed, TypeOK, StoreTypeOK
    <3> QED
      BY <3>1, <3>6, <3>8, <3>10 DEF Decide, Typed, TypeOK
  <2>12. CASE Learn(r)
    <3>1. StoreTypeOK'
      BY <2>12, StoreTyped DEF Learn, Typed, TypeOK
    <3> QED
      BY <2>12, <3>1 DEF Learn, Typed, TypeOK, Counting
  <2>13. CASE Record(r)
    <3>1. batch' \in [Learners -> BatchRun]
      <4>1. CASE Go(r, "committing")
        BY <2>2, <4>1 DEF Go, Typed, TypeOK
      <4>2. CASE BeginDraft(r)
        BY <2>2, <2>4, <4>2 DEF BeginDraft, Typed, TypeOK
      <4> QED
        BY <2>13, <4>1, <4>2 DEF Record
    <3>2. \A l \in Learners : batch'[l].metrics = batch[l].metrics
      BY <2>2, <2>13 DEF Record, Go, BeginDraft, Typed, TypeOK
    <3>3. \A l \in Learners : l # r => batch'[l] = batch[l]
      BY <2>13 DEF Record, Go, BeginDraft, Typed, TypeOK
    <3>4. batch'[r].stage \in {"committing", "sampling"}
          /\ (batch'[r].stage = "sampling" => Seen(batch[r].metrics) # Drafts[r])
      BY <2>2, <2>13 DEF Record, Go, BeginDraft, Typed, TypeOK
    <3>5. Seen(batch[r].metrics) <= Drafts[r] /\ Seen(batch[r].metrics) \in Nat
          /\ Drafts[r] \in Nat
      BY <2>2, BatchAssumption DEF Typed, TypeOK, Seen, Metrics, Outcomes
    <3>6. Counting'
      BY <3>2, <3>3, <3>4, <3>5 DEF Typed, Counting, Seen
    <3> QED
      BY <2>13, <3>1, <3>2, <3>6, <2>3 DEF Record, Typed, TypeOK, Seen
  <2>14. CASE Commit(r)
    <3>1. batch' \in [Learners -> BatchRun]
      BY <2>2, <2>14 DEF Commit, Typed, TypeOK
    <3>2. \A l \in Learners : batch'[l].metrics = batch[l].metrics
                              /\ (l # r => batch'[l].stage = batch[l].stage)
      BY <2>2, <2>14 DEF Commit, Typed, TypeOK
    <3>3. batch'[r].stage = "done"
      BY <2>2, <2>14 DEF Commit, Typed, TypeOK
    <3> QED
      BY <2>14, <3>1, <3>2, <3>3, <2>3, <2>5 DEF Commit, Typed, TypeOK, Counting, Seen
  <2>15. CASE batch[r].stage \in Active /\ Abandon(r)
    <3>1. NoMetrics \in Metrics /\ Seen(NoMetrics) = 0
      BY DEF NoMetrics, Metrics, Seen, Outcomes
    <3>2. batch' \in [Learners -> BatchRun]
      BY <2>2, <2>15, <3>1 DEF Abandon, Typed, TypeOK
    <3>3. batch'[r].metrics = NoMetrics /\ batch'[r].stage = "failed"
          /\ \A l \in Learners : l # r => batch'[l] = batch[l]
      BY <2>2, <2>15 DEF Abandon, Typed, TypeOK
    <3>4. Counting' /\ \A l \in Learners : Seen(batch'[l].metrics) <= Drafts[l]
      BY <3>1, <3>3, BatchAssumption DEF Typed, TypeOK, Counting
    <3> QED
      BY <2>15, <3>2, <3>4, <2>3, <2>5 DEF Abandon, Typed, TypeOK
  <2> QED
    BY <2>1, <2>6, <2>7, <2>8, <2>9, <2>10, <2>11, <2>12, <2>13, <2>14, <2>15
<1> QED
  BY <1>1, <1>2

(* Every variable keeps its type: an update adds at most 1.0 to a field,   *)
(* and no run does more drafts than it was asked to.                       *)
THEOREM TypeCorrect == Spec => []TypeOK
<1>1. Spec => []Typed
  BY InitTyped, StepTyped, PTL DEF Spec
<1>2. Typed => TypeOK
  BY DEF Typed
<1> QED
  BY <1>1, <1>2, PTL

-----------------------------------------------------------------------------
(* The priors                                                              *)

(* As nothing is learned without a prior, a hash is broken when one of its *)
(* two priors is missing.                                                  *)
LEMMA BrokenMeansSeeded ==
  ASSUME StoreTypeOK, \A c \in Keys \X Fields : learned[c] > 0 => c \in seeded,
         NEW k \in Keys
  PROVE  /\ \A f \in Fields : Exists(k, f) <=> <<k, f>> \in seeded
         /\ Broken(k) <=> (<<k, "alpha">> \in seeded) # (<<k, "beta">> \in seeded)
  BY DEF Exists, Broken, Fields

LEMMA CommandKeepsPriors ==
  ASSUME StoreTypeOK, PriorsIntact, PriorsLaid, NEW l \in Learners, Command(l)
  PROVE  PriorsIntact' /\ PriorsLaid'
<1> DEFINE u == update[l]
<1>1. u \in Update /\ u # NoUpdate
  BY DEF StoreTypeOK, Command, Materialize, Increment, RepeatIncrement, NoUpdate, Update
<1>2. KeyAt(u) \in Keys /\ FieldAt(u) \in Fields /\ Cell(u) = <<KeyAt(u), FieldAt(u)>>
  BY <1>1 DEF KeyAt, FieldAt, MerchantKey, GlobalKey, Keys, Scopes, Fields, Update, Cell
<1>3. StoreTypeOK'
  BY StoreTyped
<1>5. /\ u.step > 1 => <<MerchantKey(u), "alpha">> \in seeded
      /\ u.step > 2 => <<MerchantKey(u), "beta">> \in seeded
      /\ u.step > 3 => <<GlobalKey(u), "alpha">> \in seeded
      /\ u.step > 4 => <<GlobalKey(u), "beta">> \in seeded
  BY <1>1 DEF PriorsLaid
<1>4. ASSUME NEW k \in Keys
      PROVE  Broken(k) <=> (<<k, "alpha">> \in seeded) # (<<k, "beta">> \in seeded)
  BY <1>4, BrokenMeansSeeded DEF PriorsIntact
<1>6. CASE Materialize(l)
  <2>1. u.step \in 1..4 /\ learned' = learned /\ NextStep(l)
    BY <1>6 DEF Materialize
  <2>2. seeded' = seeded \cup {Cell(u)}
    BY <1>2, <1>6, BrokenMeansSeeded DEF Materialize, PriorsIntact
  <2>3. \A c \in Keys \X Fields : learned'[c] > 0 => c \in seeded'
    BY <2>1, <2>2 DEF PriorsIntact
  <2>4. update' = [update EXCEPT ![l] = At(u, u.step + 1)]
    <3>1. update[l].step # 6
      BY <2>1
    <3> QED
      BY <2>1, <3>1 DEF NextStep
  <2>5. /\ update'[l].step = u.step + 1
        /\ u.step \in {1, 3} => KeyAt(update'[l]) = KeyAt(u)
        /\ MerchantKey(update'[l]) = MerchantKey(u) /\ GlobalKey(update'[l]) = GlobalKey(u)
    BY <2>1, <2>4 DEF StoreTypeOK, At, KeyAt, MerchantKey, GlobalKey
  <2>6. \A m \in Learners : m # l => update'[m] = update[m]
    BY <2>4 DEF StoreTypeOK
  <2>7. PriorsLaid'
    <3>1. ASSUME NEW m \in Learners, m # l, update'[m] # NoUpdate
          PROVE  LET v == update'[m] IN
                 /\ v.step > 1 => <<MerchantKey(v), "alpha">> \in seeded'
                 /\ v.step > 2 => <<MerchantKey(v), "beta">> \in seeded'
                 /\ v.step > 3 => <<GlobalKey(v), "alpha">> \in seeded'
                 /\ v.step > 4 => <<GlobalKey(v), "beta">> \in seeded'
      BY <3>1, <2>2, <2>6 DEF PriorsLaid
    <3>2. LET v == update'[l] IN
          /\ v.step > 1 => <<MerchantKey(v), "alpha">> \in seeded'
          /\ v.step > 2 => <<MerchantKey(v), "beta">> \in seeded'
          /\ v.step > 3 => <<GlobalKey(v), "alpha">> \in seeded'
          /\ v.step > 4 => <<GlobalKey(v), "beta">> \in seeded'
      <4>1. /\ u.step = 1 => Cell(u) = <<MerchantKey(u), "alpha">>
            /\ u.step = 2 => Cell(u) = <<MerchantKey(u), "beta">>
            /\ u.step = 3 => Cell(u) = <<GlobalKey(u), "alpha">>
            /\ u.step = 4 => Cell(u) = <<GlobalKey(u), "beta">>
        BY DEF Cell, KeyAt, FieldAt
      <4> QED
        BY <2>1, <2>2, <2>5, <1>5, <4>1
    <3> QED
      BY <3>1, <3>2 DEF PriorsLaid
  <2>8. ASSUME NEW k \in Keys, Broken(k)'
        PROVE  /\ <<k, "alpha">> \in seeded'
               /\ \E m \in Learners : update'[m].step \in {2, 4} /\ KeyAt(update'[m]) = k
    <3>1. (<<k, "alpha">> \in seeded') # (<<k, "beta">> \in seeded')
      BY <2>3, <2>8, <1>3 DEF Broken, Exists, Fields, StoreTypeOK
    <3>2. CASE k # KeyAt(u)
      <4>1. Broken(k)
        BY <3>1, <3>2, <2>2, <1>2, <1>4
      <4>2. <<k, "alpha">> \in seeded
        BY <4>1 DEF PriorsIntact
      <4>3. PICK m \in Learners : update[m].step \in {2, 4} /\ KeyAt(update[m]) = k
        BY <4>1 DEF PriorsIntact
      <4>4. m # l
        BY <3>2, <4>3
      <4> QED
        BY <2>2, <2>6, <4>2, <4>3, <4>4
    <3>3. CASE k = KeyAt(u)
      <4>1. CASE u.step \in {1, 3}
        <5>1. Cell(u) = <<k, "alpha">>
          BY <3>3, <4>1, <1>2 DEF FieldAt
        <5> QED
          BY <2>2, <2>5, <3>3, <4>1, <5>1
      <4>2. CASE u.step \in {2, 4}
        <5>1. Cell(u) = <<k, "beta">>
          BY <3>3, <4>2, <1>2 DEF FieldAt
        <5>2. <<k, "alpha">> \in seeded
          <6>1. CASE u.step = 2
            <7>1. KeyAt(u) = MerchantKey(u)
              BY <6>1 DEF KeyAt
            <7>2. <<MerchantKey(u), "alpha">> \in seeded
              BY <6>1, <1>5
            <7> QED
              BY <7>1, <7>2, <3>3
          <6>2. CASE u.step = 4
            <7>1. KeyAt(u) = GlobalKey(u)
              BY <6>2 DEF KeyAt
            <7>2. <<GlobalKey(u), "alpha">> \in seeded
              BY <6>2, <1>5
            <7> QED
              BY <7>1, <7>2, <3>3
          <6> QED
            BY <4>2, <6>1, <6>2
        <5> QED
          BY <2>2, <3>1, <5>1, <5>2
      <4> QED
        BY <2>1, <4>1, <4>2
    <3> QED
      BY <3>2, <3>3
  <2>9. PriorsIntact'
    BY <2>3, <2>8 DEF PriorsIntact
  <2> QED
    BY <2>7, <2>9
<1>7. CASE Increment(l) \/ RepeatIncrement(l)
  <2>1. u.step \in 5..6 /\ seeded' = seeded
        /\ learned' = [learned EXCEPT ![Cell(u)] = @ + u.amount]
    BY <1>7 DEF Increment, RepeatIncrement
  <2>2. Cell(u) \in seeded
    <3>1. /\ <<MerchantKey(u), "alpha">> \in seeded
          /\ <<MerchantKey(u), "beta">> \in seeded
          /\ u.step = 6 => /\ <<GlobalKey(u), "alpha">> \in seeded
                           /\ <<GlobalKey(u), "beta">> \in seeded
      BY <2>1, <1>5
    <3>2. u.step = 5 => KeyAt(u) = MerchantKey(u)
      BY DEF KeyAt
    <3>3. u.step = 6 => KeyAt(u) = GlobalKey(u)
      BY DEF KeyAt
    <3>4. FieldAt(u) \in {"alpha", "beta"}
      BY <1>2 DEF Fields
    <3> QED
      BY <1>2, <2>1, <3>1, <3>2, <3>3, <3>4
  <2>3. \A c \in Keys \X Fields : learned'[c] > 0 => c \in seeded'
    BY <2>1, <2>2 DEF PriorsIntact, StoreTypeOK
  <2>4. \A m \in Learners : m # l => update'[m] = update[m]
    BY <1>7 DEF Increment, RepeatIncrement, NextStep, StoreTypeOK
  <2>5. update'[l] = u \/ (update'[l] = NoUpdate) \/ (u.step = 5 /\ update'[l] = At(u, 6))
    BY <1>7, <2>1 DEF Increment, RepeatIncrement, NextStep, StoreTypeOK
  <2>6. PriorsLaid'
    <3>1. ASSUME NEW m \in Learners, m # l, update'[m] # NoUpdate
          PROVE  LET v == update'[m] IN
                 /\ v.step > 1 => <<MerchantKey(v), "alpha">> \in seeded'
                 /\ v.step > 2 => <<MerchantKey(v), "beta">> \in seeded'
                 /\ v.step > 3 => <<GlobalKey(v), "alpha">> \in seeded'
                 /\ v.step > 4 => <<GlobalKey(v), "beta">> \in seeded'
      BY <3>1, <2>1, <2>4 DEF PriorsLaid
    <3>2. ASSUME update'[l] # NoUpdate
          PROVE  LET v == update'[l] IN
                 /\ v.step > 1 => <<MerchantKey(v), "alpha">> \in seeded'
                 /\ v.step > 2 => <<MerchantKey(v), "beta">> \in seeded'
                 /\ v.step > 3 => <<GlobalKey(v), "alpha">> \in seeded'
                 /\ v.step > 4 => <<GlobalKey(v), "beta">> \in seeded'
      <4>1. MerchantKey(update'[l]) = MerchantKey(u) /\ GlobalKey(update'[l]) = GlobalKey(u)
        BY <3>2, <2>5 DEF At, MerchantKey, GlobalKey
      <4> QED
        BY <1>1, <2>1, <4>1 DEF PriorsLaid
    <3> QED
      BY <3>1, <3>2 DEF PriorsLaid
  <2>7. ASSUME NEW k \in Keys, Broken(k)'
        PROVE  /\ <<k, "alpha">> \in seeded'
               /\ \E m \in Learners : update'[m].step \in {2, 4} /\ KeyAt(update'[m]) = k
    <3>1. (<<k, "alpha">> \in seeded) # (<<k, "beta">> \in seeded)
      BY <2>1, <2>3, <2>7, <1>3 DEF Broken, Exists, Fields, StoreTypeOK
    <3>2. Broken(k)
      BY <3>1, <1>4
    <3>3. PICK m \in Learners : update[m].step \in {2, 4} /\ KeyAt(update[m]) = k
      BY <3>2 DEF PriorsIntact
    <3>4. m # l
      BY <2>1, <3>3
    <3> QED
      BY <2>1, <2>4, <3>2, <3>3, <3>4 DEF PriorsIntact
  <2>8. PriorsIntact'
    BY <2>3, <2>7 DEF PriorsIntact
  <2> QED
    BY <2>6, <2>8
<1> QED
  BY <1>6, <1>7 DEF Command

LEMMA InitPriors == Init => StoreInv
<1> SUFFICES ASSUME Init PROVE StoreInv
  OBVIOUS
<1>1. seeded = {} /\ \A c \in Keys \X Fields : learned[c] = 0
  BY DEF Init, StoreInit
<1>2. \A k \in Keys : ~Broken(k)
  BY <1>1 DEF Broken, Exists, Fields
<1>3. \A l \in Learners : update[l] = NoUpdate
  BY DEF Init, StoreInit
<1>4. PriorsIntact
  BY <1>1, <1>2 DEF PriorsIntact
<1> QED
  BY <1>3, <1>4 DEF StoreInv, PriorsLaid, UpdateOwned

(* A step that leaves the statistics alone, with the updates.              *)
LEMMA QuietPriors ==
  ASSUME PriorsIntact, PriorsLaid, UNCHANGED storeVars
  PROVE  PriorsIntact' /\ PriorsLaid'
  BY DEF storeVars, PriorsIntact, PriorsLaid, Broken, Exists

(* A learner that has no update begins one: nobody between two HSETNX is   *)
(* forgotten.                                                              *)
LEMMA BeginKeepsPriors ==
  ASSUME StoreTypeOK, PriorsIntact, PriorsLaid,
         NEW r \in Learners, update[r] = NoUpdate,
         NEW m, NEW a, NEW reward, BeginUpdate(r, m, a, reward),
         UNCHANGED <<seeded, learned>>
  PROVE  PriorsIntact' /\ PriorsLaid'
<1>1. /\ \A l \in Learners : l # r => update'[l] = update[l]
      /\ update'[r].step = 1
  BY DEF BeginUpdate, StoreTypeOK
<1>2. ASSUME NEW k \in Keys, Broken(k)'
      PROVE  /\ <<k, "alpha">> \in seeded'
             /\ \E l \in Learners : update'[l].step \in {2, 4} /\ KeyAt(update'[l]) = k
  <2>1. Broken(k)
    BY <1>2 DEF Broken, Exists
  <2>2. PICK l \in Learners : update[l].step \in {2, 4} /\ KeyAt(update[l]) = k
    BY <2>1 DEF PriorsIntact
  <2>3. l # r
    BY <2>2 DEF NoUpdate
  <2> QED
    BY <1>1, <2>1, <2>2, <2>3 DEF PriorsIntact
<1>3. PriorsLaid'
  BY <1>1 DEF PriorsLaid
<1>4. PriorsIntact'
  BY <1>2 DEF PriorsIntact
<1> QED
  BY <1>3, <1>4

LEMMA StepPriors == Typed /\ StoreInv /\ [Next]_vars => StoreInv'
<1> SUFFICES ASSUME Typed, StoreInv, [Next]_vars PROVE StoreInv'
  OBVIOUS
<1>1. StoreTypeOK /\ batch \in [Learners -> BatchRun] /\ PriorsIntact /\ PriorsLaid
  BY DEF Typed, TypeOK, StoreInv
<1>2. CASE UNCHANGED vars
  BY <1>1, <1>2, QuietPriors DEF vars, storeVars, StoreInv, UpdateOwned
<1>3. CASE Next
  <2>1. PICK r \in Learners :
           \/ \E m \in Merchants, p \in Policies : StartRun(r, m, p)
           \/ \E row \in Rows : Look(r, row)
           \/ \E row \in Rows : InsertRow(r, row)
           \/ SetUp(r)
           \/ \E k \in Keys : ReadStats(r, k)
           \/ \E a \in Arms, outcome \in Outcomes : Decide(r, a, outcome)
           \/ Learn(r)
           \/ Record(r)
           \/ Commit(r)
           \/ batch[r].stage \in Active /\ Abandon(r)
    BY <1>3, RunSteps
  <2>2. batch[r] \in BatchRun
    BY <1>1
  <2>3. ASSUME UNCHANGED storeVars,
               \A l \in Learners : l # r => batch'[l] = batch[l],
               \/ update[r] = NoUpdate
               \/ batch'[r].stage = batch[r].stage
               \/ batch'[r].stage = "failed"
        PROVE  StoreInv'
    <3>1. UpdateOwned'
      BY <2>3 DEF StoreInv, UpdateOwned, storeVars
    <3> QED
      BY <1>1, <2>3, <3>1, QuietPriors DEF StoreInv
  <2>4. batch[r].stage \notin {"updating", "failed"} => update[r] = NoUpdate
    BY DEF StoreInv, UpdateOwned
  <2>5. CASE \E m \in Merchants, p \in Policies : StartRun(r, m, p)
    BY <1>1, <2>2, <2>3, <2>4, <2>5 DEF StartRun
  <2>6. CASE \E row \in Rows : Look(r, row)
    BY <1>1, <2>2, <2>3, <2>4, <2>6 DEF Look
  <2>7. CASE \E row \in Rows : InsertRow(r, row)
    BY <1>1, <2>2, <2>3, <2>4, <2>7 DEF InsertRow
  <2>8. CASE SetUp(r)
    BY <1>1, <2>2, <2>3, <2>4, <2>8 DEF SetUp, BeginDraft
  <2>9. CASE \E k \in Keys : ReadStats(r, k)
    BY <1>1, <2>2, <2>3, <2>4, <2>9 DEF ReadStats
  <2>10. CASE \E a \in Arms, outcome \in Outcomes : Decide(r, a, outcome)
    <3>1. PICK a \in Arms, outcome \in Outcomes : Decide(r, a, outcome)
      BY <2>10
    <3>2. update[r] = NoUpdate
      BY <2>4, <3>1 DEF Decide
    <3>3. /\ \A l \in Learners : l # r => batch'[l] = batch[l]
          /\ batch'[r].stage = "updating"
      BY <1>1, <2>2, <3>1 DEF Decide, BatchRun
    <3>4. CASE batch[r].policy = "redis"
      <4>1. BeginUpdate(r, batch[r].merchant, a, Reward(outcome))
            /\ UNCHANGED <<seeded, learned>>
        BY <3>1, <3>4 DEF Decide
      <4>2. PriorsIntact' /\ PriorsLaid'
        BY <1>1, <3>2, <4>1, BeginKeepsPriors
      <4>3. \A l \in Learners : l # r => update'[l] = update[l]
        BY <1>1, <4>1 DEF BeginUpdate, StoreTypeOK
      <4>4. UpdateOwned'
        BY <3>3, <4>3 DEF StoreInv, UpdateOwned
      <4> QED
        BY <4>2, <4>4 DEF StoreInv
    <3>5. CASE batch[r].policy # "redis"
      <4>1. UNCHANGED storeVars
        BY <3>1, <3>5 DEF Decide, storeVars
      <4> QED
        BY <2>3, <3>2, <3>3, <4>1
    <3> QED
      BY <3>4, <3>5
  <2>11. CASE Learn(r)
    <3>1. PriorsIntact' /\ PriorsLaid'
      BY <1>1, <2>11, CommandKeepsPriors DEF Learn
    <3>2. \A l \in Learners : l # r => update'[l] = update[l]
      BY <1>1, <2>11 DEF Learn, Command, Materialize, Increment, RepeatIncrement,
                        NextStep, StoreTypeOK
    <3>3. UpdateOwned'
      BY <2>11, <3>2 DEF Learn, StoreInv, UpdateOwned
    <3> QED
      BY <3>1, <3>3 DEF StoreInv
  <2>12. CASE Record(r)
    <3>1. update[r] = NoUpdate /\ UNCHANGED storeVars
      BY <2>12 DEF Record, Updated
    <3>2. \A l \in Learners : l # r => batch'[l] = batch[l]
      BY <1>1, <2>12 DEF Record, Go, BeginDraft
    <3> QED
      BY <2>3, <3>1, <3>2
  <2>13. CASE Commit(r)
    BY <1>1, <2>2, <2>3, <2>4, <2>13 DEF Commit
  <2>14. CASE batch[r].stage \in Active /\ Abandon(r)
    BY <1>1, <2>2, <2>3, <2>14 DEF Abandon, BatchRun
  <2> QED
    BY <2>1, <2>5, <2>6, <2>7, <2>8, <2>9, <2>10, <2>11, <2>12, <2>13, <2>14
<1> QED
  BY <1>2, <1>3

(* No interleaving of HSETNX and HINCRBYFLOAT, no repeated command and no  *)
(* death of a learner costs a field its prior or what it has learned over  *)
(* it; and a hash that lacks a field has somebody to blame.                *)
THEOREM PriorsKept == Spec => []PriorsIntact
<1>1. Spec => [](Typed /\ StoreInv)
  <2>1. Init => Typed /\ StoreInv
    BY InitTyped, InitPriors
  <2>2. Typed /\ StoreInv /\ [Next]_vars => (Typed /\ StoreInv)'
    BY StepTyped, StepPriors
  <2> QED
    BY <2>1, <2>2, PTL DEF Spec
<1>2. StoreInv => PriorsIntact
  BY DEF StoreInv
<1> QED
  BY <1>1, <1>2, PTL

-----------------------------------------------------------------------------
(* The references of committed runs                                        *)

LEMMA InitCatalog == Init => CatalogInv
  BY DEF Init, CatalogInv, RowsHeld, RowsAccounted, Active

(* A run that moves on to another stage keeps its rows: it may do so once  *)
(* it has none to look up or to insert, and may not stop.                  *)
LEMMA StageKeepsCatalog ==
  ASSUME CatalogInv, NEW r \in Learners, UNCHANGED catalog,
         \A l \in Learners : l # r => batch'[l] = batch[l],
         /\ batch'[r].merchant = batch[r].merchant /\ batch'[r].policy = batch[r].policy
         /\ batch'[r].unlooked = batch[r].unlooked /\ batch'[r].missing = batch[r].missing
         /\ batch'[r].held = batch[r].held,
         batch[r].stage \in Active, batch'[r].stage \in Active,
         batch'[r].stage # "preparing" =>
           batch[r].unlooked = {} /\ batch[r].missing = {}
  PROVE  CatalogInv'
<1>1. \A l \in Learners : batch'[l].held = batch[l].held
  OBVIOUS
<1>2. RowsHeld'
  BY <1>1 DEF CatalogInv, RowsHeld
<1>3. Needed(batch'[r]) = Needed(batch[r])
  BY DEF Needed
<1>4. RowsAccounted'
  BY <1>3 DEF CatalogInv, RowsAccounted
<1> QED
  BY <1>2, <1>4 DEF CatalogInv

(* A transaction ends: nobody else's rows change, and no committed row is  *)
(* taken back.                                                             *)
LEMMA ReleaseKeepsOthers ==
  ASSUME TypeOK, CatalogInv, NEW r \in Learners, NEW state, Release(r, state)
  PROVE  /\ \A row \in Rows : catalog[row] = "committed" => catalog'[row] = "committed"
         /\ \A l \in Learners : l # r =>
              \A row \in batch[l].held : catalog'[row] = "inserted"
         /\ \A row \in batch[r].held : catalog'[row] = state
<1>1. \A l \in Learners : batch[l].held \subseteq Rows
  BY DEF TypeOK, BatchRun
<1>2. \A row \in Rows : catalog'[row] = IF row \in batch[r].held THEN state ELSE catalog[row]
  BY DEF Release
<1>3. \A row \in batch[r].held : catalog[row] = "inserted"
  BY DEF CatalogInv, RowsHeld
<1>4. ASSUME NEW l \in Learners, l # r, NEW row \in batch[l].held
      PROVE  catalog'[row] = "inserted"
  <2>1. row \notin batch[r].held /\ catalog[row] = "inserted"
    BY <1>4 DEF CatalogInv, RowsHeld
  <2> QED
    BY <1>1, <1>2, <2>1
<1> QED
  BY <1>1, <1>2, <1>3, <1>4

LEMMA NeededAreRows ==
  ASSUME TypeOK, NEW r \in Learners
  PROVE  Needed(batch[r]) \subseteq Rows
  BY BatchAssumption DEF TypeOK, BatchRun, Needed, ArmsOf, Rows

LEMMA StepCatalog == TypeOK /\ CatalogInv /\ [Next]_vars => CatalogInv'
<1> SUFFICES ASSUME TypeOK, CatalogInv, [Next]_vars PROVE CatalogInv'
  OBVIOUS
<1>1. batch \in [Learners -> BatchRun] /\ RowsHeld /\ RowsAccounted
  BY DEF TypeOK, CatalogInv
<1>2. CASE UNCHANGED vars
  BY <1>2 DEF vars, CatalogInv, RowsHeld, RowsAccounted
<1>3. CASE Next
  <2>1. PICK r \in Learners :
           \/ \E m \in Merchants, p \in Policies : StartRun(r, m, p)
           \/ \E row \in Rows : Look(r, row)
           \/ \E row \in Rows : InsertRow(r, row)
           \/ SetUp(r)
           \/ \E k \in Keys : ReadStats(r, k)
           \/ \E a \in Arms, outcome \in Outcomes : Decide(r, a, outcome)
           \/ Learn(r)
           \/ Record(r)
           \/ Commit(r)
           \/ batch[r].stage \in Active /\ Abandon(r)
    BY <1>3, RunSteps
  <2>2. batch[r] \in BatchRun
    BY <1>1
  <2>4. CASE \E m \in Merchants, p \in Policies : StartRun(r, m, p)
    <3>1. PICK m \in Merchants, p \in Policies : StartRun(r, m, p)
      BY <2>4
    <3>2. /\ batch'[r].stage = "preparing" /\ batch'[r].merchant = m
          /\ batch'[r].policy = p /\ batch'[r].unlooked = {m} \cup ArmsOf(p)
          /\ batch'[r].held = batch[r].held
      BY <2>2, <3>1, <1>1 DEF StartRun, BatchRun
    <3>3. \A l \in Learners : l # r => batch'[l] = batch[l]
      BY <1>1, <3>1 DEF StartRun
    <3>4. RowsHeld'
      BY <1>1, <3>1, <3>2, <3>3 DEF StartRun, RowsHeld
    <3>5. RowsAccounted'
      BY <1>1, <3>1, <3>2, <3>3 DEF StartRun, RowsAccounted, Needed, Active
    <3> QED
      BY <3>4, <3>5 DEF CatalogInv
  <2>5. CASE \E row \in Rows : Look(r, row)
    <3>1. PICK row \in Rows : Look(r, row)
      BY <2>5
    <3>2. /\ batch'[r].stage = "preparing" /\ batch'[r].held = batch[r].held
          /\ Needed(batch'[r]) = Needed(batch[r])
          /\ batch'[r].unlooked = batch[r].unlooked \ {row}
          /\ batch'[r].missing = IF catalog[row] = "committed" THEN batch[r].missing
                                 ELSE batch[r].missing \cup {row}
      BY <2>2, <1>1, <3>1 DEF Look, BatchRun, Needed
    <3>3. \A l \in Learners : l # r => batch'[l] = batch[l]
      BY <1>1, <3>1 DEF Look
    <3>4. RowsHeld'
      BY <1>1, <3>1, <3>2, <3>3 DEF Look, RowsHeld
    <3>5. \A x \in Needed(batch[r]) :
            \/ x \in batch[r].unlooked \cup batch[r].missing \cup batch[r].held
            \/ catalog[x] = "committed"
      BY <1>1, <3>1 DEF Look, RowsAccounted, Active
    <3>6. RowsAccounted'
      BY <1>1, <3>1, <3>2, <3>3, <3>5 DEF Look, RowsAccounted, Active
    <3> QED
      BY <3>4, <3>6 DEF CatalogInv
  <2>6. CASE \E row \in Rows : InsertRow(r, row)
    <3>1. PICK row \in Rows : InsertRow(r, row)
      BY <2>6
    <3>2. /\ batch'[r].stage = "preparing"
          /\ batch'[r].held = batch[r].held \cup {row}
          /\ Needed(batch'[r]) = Needed(batch[r])
          /\ batch'[r].unlooked = batch[r].unlooked
          /\ batch'[r].missing = batch[r].missing \ {row}
      BY <2>2, <1>1, <3>1 DEF InsertRow, BatchRun, Needed
    <3>3. \A l \in Learners : l # r => batch'[l] = batch[l]
      BY <1>1, <3>1 DEF InsertRow
    <3>4. /\ catalog'[row] = "inserted" /\ catalog[row] = "absent"
          /\ \A x : x # row => catalog'[x] = catalog[x]
      BY <3>1 DEF InsertRow, TypeOK
    <3>5. \A l \in Learners : row \notin batch[l].held
      BY <1>1, <3>4 DEF RowsHeld
    <3>6. RowsHeld'
      BY <1>1, <3>2, <3>3, <3>4, <3>5 DEF RowsHeld
    <3>7. \A x \in Rows : catalog[x] = "committed" => catalog'[x] = "committed"
      BY <3>4
    <3>8. RowsAccounted'
      BY <1>1, <3>1, <3>2, <3>3, <3>7, NeededAreRows DEF InsertRow, RowsAccounted, Active
    <3> QED
      BY <3>6, <3>8 DEF CatalogInv
  <2>7. CASE SetUp(r) \/ (\E k \in Keys : ReadStats(r, k)) \/ Record(r)
             \/ \E a \in Arms, outcome \in Outcomes : Decide(r, a, outcome)
    <3>1. UNCHANGED catalog
      BY <2>7 DEF SetUp, ReadStats, Record, Decide
    <3>2. \A l \in Learners : l # r => batch'[l] = batch[l]
      BY <1>1, <2>7 DEF SetUp, ReadStats, Record, Decide, BeginDraft, Go
    <3>3. /\ batch'[r].merchant = batch[r].merchant /\ batch'[r].policy = batch[r].policy
          /\ batch'[r].unlooked = batch[r].unlooked /\ batch'[r].missing = batch[r].missing
          /\ batch'[r].held = batch[r].held
      <4>1. CASE SetUp(r)
        BY <4>1, <1>1, <2>2 DEF SetUp, BeginDraft, BatchRun
      <4>2. CASE \E k \in Keys : ReadStats(r, k)
        BY <4>2, <1>1, <2>2 DEF ReadStats, BatchRun
      <4>3. CASE Record(r)
        BY <4>3, <1>1, <2>2 DEF Record, Go, BeginDraft, BatchRun
      <4>4. CASE \E a \in Arms, outcome \in Outcomes : Decide(r, a, outcome)
        BY <4>4, <1>1, <2>2 DEF Decide, BatchRun
      <4> QED
        BY <2>7, <4>1, <4>2, <4>3, <4>4
    <3>4. batch[r].stage \in Active /\ batch'[r].stage \in Active
      BY <1>1, <2>2, <2>7 DEF SetUp, ReadStats, Record, Decide, BeginDraft, Go, Active, BatchRun
    <3>5. batch[r].unlooked = {} /\ batch[r].missing = {}
      BY <1>1, <2>7 DEF SetUp, ReadStats, Record, Decide, RowsAccounted
    <3> QED
      BY <3>1, <3>2, <3>3, <3>4, <3>5, StageKeepsCatalog
  <2>8. CASE Learn(r)
    BY <2>8 DEF Learn, CatalogInv, RowsHeld, RowsAccounted
  <2>9. CASE Commit(r)
    <3>1. /\ batch'[r].stage = "done" /\ batch'[r].held = {}
          /\ Needed(batch'[r]) = Needed(batch[r])
          /\ batch'[r].unlooked = batch[r].unlooked /\ batch'[r].missing = batch[r].missing
      BY <2>2, <1>1, <2>9 DEF Commit, BatchRun, Needed
    <3>2. \A l \in Learners : l # r => batch'[l] = batch[l]
      BY <1>1, <2>9 DEF Commit
    <3>3. Release(r, "committed")
      BY <2>9 DEF Commit
    <3>4. RowsHeld'
      BY <1>1, <3>1, <3>2, <3>3, ReleaseKeepsOthers DEF RowsHeld
    <3>5. batch[r].unlooked = {} /\ batch[r].missing = {}
      BY <1>1, <2>9 DEF Commit, RowsAccounted
    <3>6. \A row \in Needed(batch[r]) : catalog'[row] = "committed"
      BY <1>1, <2>9, <3>3, <3>5, ReleaseKeepsOthers, NeededAreRows DEF Commit, RowsAccounted, Active
    <3>7. ASSUME NEW l \in Learners, l # r, batch[l].stage \in Active \cup {"done"},
                 NEW row \in Needed(batch[l])
          PROVE  \/ row \in batch[l].unlooked \cup batch[l].missing \cup batch[l].held
                 \/ catalog'[row] = "committed"
      BY <1>1, <3>3, <3>7, ReleaseKeepsOthers, NeededAreRows DEF RowsAccounted
    <3>8. RowsAccounted'
      BY <1>1, <3>1, <3>2, <3>5, <3>6, <3>7 DEF RowsAccounted
    <3> QED
      BY <3>4, <3>8 DEF CatalogInv
  <2>10. CASE batch[r].stage \in Active /\ Abandon(r)
    <3>1. /\ batch'[r].stage = "failed" /\ batch'[r].held = {}
          /\ batch'[r].unlooked = {} /\ batch'[r].missing = {}
      BY <2>2, <1>1, <2>10 DEF Abandon, BatchRun
    <3>2. \A l \in Learners : l # r => batch'[l] = batch[l]
      BY <1>1, <2>10 DEF Abandon
    <3>3. Release(r, "absent")
      BY <2>10 DEF Abandon
    <3>4. RowsHeld'
      BY <1>1, <3>1, <3>2, <3>3, ReleaseKeepsOthers DEF RowsHeld
    <3>5. ASSUME NEW l \in Learners, l # r, batch[l].stage \in Active \cup {"done"},
                 NEW row \in Needed(batch[l])
          PROVE  \/ row \in batch[l].unlooked \cup batch[l].missing \cup batch[l].held
                 \/ catalog'[row] = "committed"
      BY <1>1, <3>3, <3>5, ReleaseKeepsOthers, NeededAreRows DEF RowsAccounted
    <3>6. RowsAccounted'
      BY <1>1, <3>1, <3>2, <3>5 DEF RowsAccounted, Active
    <3> QED
      BY <3>4, <3>6 DEF CatalogInv
  <2> QED
    BY <2>1, <2>4, <2>5, <2>6, <2>7, <2>8, <2>9, <2>10
<1> QED
  BY <1>2, <1>3

(* However many runs insert the same merchants and arms, and whichever of  *)
(* them fail, what a committed run refers to is in the database.           *)
THEOREM CommittedReferences == Spec => []ReferencesCommitted
<1>1. Spec => [](Typed /\ CatalogInv)
  <2>1. Init => Typed /\ CatalogInv
    BY InitTyped, InitCatalog
  <2>2. Typed /\ CatalogInv /\ [Next]_vars => (Typed /\ CatalogInv)'
    BY StepTyped, StepCatalog DEF Typed
  <2> QED
    BY <2>1, <2>2, PTL DEF Spec
<1>2. CatalogInv => ReferencesCommitted
  BY DEF CatalogInv, RowsAccounted, ReferencesCommitted, Needed, Active
<1> QED
  BY <1>1, <1>2, PTL

-----------------------------------------------------------------------------
(* The pooled statistics                                                   *)
(*                                                                         *)
(* GlobalPoolsMerchants sums over the learners that owe an increment to    *)
(* the pooled key; here the sum is over all learners, most of whom owe     *)
(* nothing, so that a step moves one term of it.                           *)

Debt(l, a, f) == IF l \in Owing(a, f) THEN update[l].amount ELSE 0
OfMerchants(a, f) == SumFunction([m \in Merchants |-> Once(<<m, a>>, f)])
OfDebts(a, f) == SumFunction([l \in Learners |-> Debt(l, a, f)])
Pooled ==
  \A a \in Arms, f \in Fields :
    OfMerchants(a, f) = Once(<<GLOBAL, a>>, f) + OfDebts(a, f)

(* What the type invariant says of the terms of the sums.                  *)
LEMMA StatesTyped ==
  ASSUME StoreTypeOK
  PROVE  /\ \A k \in Keys, f \in Fields : Once(k, f) \in Int
         /\ \A l \in Learners : update[l] # NoUpdate => update[l] \in Update /\ update[l].step \in 1..6
         /\ \A l \in Learners, a \in Arms, f \in Fields : Debt(l, a, f) \in Nat
<1>1. \A k \in Keys, f \in Fields : Once(k, f) \in Int
  BY DEF StoreTypeOK, Once
<1>2. \A l \in Learners : update[l] # NoUpdate => update[l] \in Update /\ update[l].step \in 1..6
  BY DEF StoreTypeOK, Update
<1>3. \A l \in Learners : update[l] = NoUpdate => update[l].step = 0
  BY DEF NoUpdate
<1>4. \A l \in Learners : update[l].step # 0 => update[l].amount \in 1..10
  BY <1>2, <1>3 DEF Update
<1>5. \A l \in Learners, a \in Arms, f \in Fields : Debt(l, a, f) \in Nat
  BY <1>4 DEF Debt, Owing
<1> QED
  BY <1>1, <1>2, <1>5

(* One run moves: the two sides of each equation move by its own terms.    *)
LEMMA PoolsFollow ==
  ASSUME StoreTypeOK, StoreTypeOK', NEW l \in Learners, NEW a \in Arms, NEW f \in Fields,
         NEW m \in Merchants,
         \A n \in Merchants : n # m => Once(<<n, a>>, f)' = Once(<<n, a>>, f),
         \A d \in Learners : d # l => Debt(d, a, f)' = Debt(d, a, f)
  PROVE  /\ OfMerchants(a, f) \in Int /\ OfDebts(a, f) \in Int
         /\ OfMerchants(a, f)' = OfMerchants(a, f) + (Once(<<m, a>>, f)' - Once(<<m, a>>, f))
         /\ OfDebts(a, f)' = OfDebts(a, f) + (Debt(l, a, f)' - Debt(l, a, f))
<1>1. PICK g : g = [n \in Merchants |-> Once(<<n, a>>, f)]
  OBVIOUS
<1>2. PICK h : h = [n \in Merchants |-> Once(<<n, a>>, f)']
  OBVIOUS
<1>3. OfMerchants(a, f) = SumFunctionOnSet(g, Merchants)
  BY <1>1 DEF OfMerchants, SumFunction
<1>4. OfMerchants(a, f)' = SumFunctionOnSet(h, Merchants)
  BY <1>2 DEF OfMerchants, SumFunction
<1>5. \A n \in Merchants : g[n] \in Int /\ h[n] \in Int
  <2>1. \A n \in Merchants : <<n, a>> \in Keys
    BY DEF Keys, Scopes
  <2>2. \A n \in Merchants : Once(<<n, a>>, f) \in Int
    BY <2>1, StatesTyped
  <2>3. \A n \in Merchants : Once(<<n, a>>, f)' \in Int
    BY <2>1 DEF StoreTypeOK, Once
  <2> QED
    BY <1>1, <1>2, <2>2, <2>3
<1>6. \A n \in Merchants \ {m} : g[n] = h[n]
  BY <1>1, <1>2
<1>7. SumFunctionOnSet(h, Merchants) = SumFunctionOnSet(g, Merchants) + (h[m] - g[m])
  BY <1>5, <1>6, FiniteAssumption, SumMoves
<1>8. SumFunctionOnSet(g, Merchants) \in Int
  BY <1>5, FiniteAssumption, SumIsInt
<1>9. PICK d : d = [n \in Learners |-> Debt(n, a, f)]
  OBVIOUS
<1>10. PICK e : e = [n \in Learners |-> Debt(n, a, f)']
  OBVIOUS
<1>11. OfDebts(a, f) = SumFunctionOnSet(d, Learners)
  BY <1>9 DEF OfDebts, SumFunction
<1>12. OfDebts(a, f)' = SumFunctionOnSet(e, Learners)
  BY <1>10 DEF OfDebts, SumFunction
<1>13. \A n \in Learners : d[n] \in Int /\ e[n] \in Int
  <2>1. \A n \in Learners : Debt(n, a, f) \in Int
    BY StatesTyped
  <2>2. \A n \in Learners : Debt(n, a, f)' \in Int
    <3>1. \A n \in Learners : update'[n] # NoUpdate => update'[n] \in Update
      BY DEF StoreTypeOK
    <3>2. \A n \in Learners : update'[n].step = 6 => update'[n].amount \in Int
      BY <3>1 DEF Update, NoUpdate
    <3> QED
      BY <3>2 DEF Debt, Owing
  <2> QED
    BY <1>9, <1>10, <2>1, <2>2
<1>14. \A n \in Learners \ {l} : d[n] = e[n]
  BY <1>9, <1>10
<1>15. SumFunctionOnSet(e, Learners) = SumFunctionOnSet(d, Learners) + (e[l] - d[l])
  BY <1>13, <1>14, FiniteAssumption, SumMoves
<1>16. SumFunctionOnSet(d, Learners) \in Int
  BY <1>13, FiniteAssumption, SumIsInt
<1> QED
  BY <1>1, <1>2, <1>3, <1>4, <1>7, <1>8, <1>9, <1>10, <1>11, <1>12, <1>15, <1>16

(* What a command does to what keys have learned, and to its learner.      *)
LEMMA CommandEffect ==
  ASSUME StoreTypeOK, NEW l \in Learners, Command(l)
  PROVE  /\ update[l] # NoUpdate /\ update[l] \in Update /\ update[l].step \in 1..6
         /\ \A d \in Learners : d # l => update'[d] = update[d]
         /\ \/ /\ update'[l] = update[l]
               /\ \A k \in Keys, f \in Fields : Once(k, f)' = Once(k, f)
            \/ /\ update[l].step \in 1..4 /\ update'[l] = At(update[l], update[l].step + 1)
               /\ \A k \in Keys, f \in Fields : Once(k, f)' = Once(k, f)
            \/ /\ update[l].step \in 5..6
               /\ update'[l] = IF update[l].step = 6 THEN NoUpdate ELSE At(update[l], 6)
               /\ \A k \in Keys, f \in Fields :
                    Once(k, f)' = Once(k, f) + (IF <<k, f>> = Cell(update[l])
                                                THEN update[l].amount ELSE 0)
<1> DEFINE u == update[l]
<1>1. u.step \in 1..6
  BY DEF Command, Materialize, Increment, RepeatIncrement
<1>2. u # NoUpdate /\ u \in Update
  BY <1>1 DEF StoreTypeOK, NoUpdate
<1>3. u.amount \in Int
  BY <1>2 DEF Update
<1>4. learned \in [Keys \X Fields -> Nat] /\ repeated \in [Keys \X Fields -> Nat]
  BY DEF StoreTypeOK
<1>5. CASE Materialize(l)
  <2>1. u.step \in 1..4 /\ update'[l] = At(u, u.step + 1)
    BY <1>5 DEF Materialize, NextStep, StoreTypeOK
  <2>2. \A d \in Learners : d # l => update'[d] = update[d]
    BY <1>5 DEF Materialize, NextStep, StoreTypeOK
  <2>3. \A k \in Keys, f \in Fields : Once(k, f)' = Once(k, f)
    BY <1>5 DEF Materialize, Once
  <2> QED
    BY <1>1, <1>2, <2>1, <2>2, <2>3
<1>6. CASE Increment(l)
  <2>1. u.step \in 5..6
    BY <1>6 DEF Increment
  <2>2. update'[l] = IF u.step = 6 THEN NoUpdate ELSE At(u, 6)
    <3>1. update'[l] = IF u.step = 6 THEN NoUpdate ELSE At(u, u.step + 1)
      BY <1>6 DEF Increment, NextStep, StoreTypeOK
    <3> QED
      BY <2>1, <3>1
  <2>3. \A d \in Learners : d # l => update'[d] = update[d]
    BY <1>6 DEF Increment, NextStep, StoreTypeOK
  <2>4. ASSUME NEW k \in Keys, NEW f \in Fields
        PROVE  Once(k, f)' = Once(k, f) + (IF <<k, f>> = Cell(u) THEN u.amount ELSE 0)
    <3>1. <<k, f>> \in Keys \X Fields
      OBVIOUS
    <3>2. learned'[<<k, f>>] = IF <<k, f>> = Cell(u) THEN learned[<<k, f>>] + u.amount
                               ELSE learned[<<k, f>>]
      BY <1>4, <1>6, <3>1 DEF Increment
    <3>3. repeated'[<<k, f>>] = repeated[<<k, f>>]
      BY <1>6 DEF Increment
    <3>4. learned[<<k, f>>] \in Int /\ repeated[<<k, f>>] \in Int
      BY <1>4, <3>1
    <3> QED
      BY <1>3, <3>2, <3>3, <3>4 DEF Once
  <2> QED
    BY <1>1, <1>2, <2>1, <2>2, <2>3, <2>4
<1>7. CASE RepeatIncrement(l)
  <2>1. update' = update
    BY <1>7 DEF RepeatIncrement
  <2>2. ASSUME NEW k \in Keys, NEW f \in Fields
        PROVE  Once(k, f)' = Once(k, f)
    <3>1. <<k, f>> \in Keys \X Fields
      OBVIOUS
    <3>2. learned'[<<k, f>>] = IF <<k, f>> = Cell(u) THEN learned[<<k, f>>] + u.amount
                               ELSE learned[<<k, f>>]
      BY <1>4, <1>7, <3>1 DEF RepeatIncrement
    <3>3. repeated'[<<k, f>>] = IF <<k, f>> = Cell(u) THEN repeated[<<k, f>>] + u.amount
                                ELSE repeated[<<k, f>>]
      BY <1>4, <1>7, <3>1 DEF RepeatIncrement
    <3>4. learned[<<k, f>>] \in Int /\ repeated[<<k, f>>] \in Int
      BY <1>4, <3>1
    <3> QED
      BY <1>3, <3>2, <3>3, <3>4 DEF Once
  <2> QED
    BY <1>1, <1>2, <2>1, <2>2
<1> QED
  BY <1>5, <1>6, <1>7 DEF Command

(* No command of an update, repeated or not, unbalances the pool.          *)
LEMMA CommandPools ==
  ASSUME StoreTypeOK, NEW l \in Learners, Command(l), Pooled
  PROVE  Pooled'
<1>1. PICK u : u = update[l]
  OBVIOUS
<1>2. PICK v : v = update'[l]
  OBVIOUS
<1>3. PICK m : m = u.merchant
  OBVIOUS
<1>4. /\ u # NoUpdate /\ u \in Update /\ u.step \in 1..6
      /\ \A d \in Learners : d # l => update'[d] = update[d]
      /\ \/ /\ v = u
            /\ \A k \in Keys, f \in Fields : Once(k, f)' = Once(k, f)
         \/ /\ u.step \in 1..4 /\ v = At(u, u.step + 1)
            /\ \A k \in Keys, f \in Fields : Once(k, f)' = Once(k, f)
         \/ /\ u.step \in 5..6
            /\ v = IF u.step = 6 THEN NoUpdate ELSE At(u, 6)
            /\ \A k \in Keys, f \in Fields :
                 Once(k, f)' = Once(k, f) + (IF <<k, f>> = Cell(u) THEN u.amount ELSE 0)
  BY <1>1, <1>2, CommandEffect
<1>5. StoreTypeOK'
  BY StoreTyped
<1>6. m \in Merchants /\ u.amount \in Int /\ m # GLOBAL /\ GLOBAL \notin Merchants
  BY <1>3, <1>4, StoreAssumption DEF Update
<1> SUFFICES ASSUME NEW a \in Arms, NEW f \in Fields
             PROVE  (OfMerchants(a, f) = Once(<<GLOBAL, a>>, f) + OfDebts(a, f))'
  BY DEF Pooled
<1>7. \A n \in Merchants : <<n, a>> \in Keys
  BY DEF Keys, Scopes
<1>8. <<GLOBAL, a>> \in Keys
  BY DEF Keys, Scopes
<1>9. Cell(u) = <<IF u.step \in {1, 2, 5} THEN <<m, u.arm>> ELSE <<GLOBAL, u.arm>>,
                  IF u.step \in {1, 3} THEN "alpha"
                  ELSE IF u.step \in {2, 4} THEN "beta" ELSE u.field>>
  BY <1>3 DEF Cell, KeyAt, FieldAt, MerchantKey, GlobalKey
<1>10. \A n \in Merchants : n # m => Once(<<n, a>>, f)' = Once(<<n, a>>, f)
  <2> SUFFICES ASSUME NEW n \in Merchants, n # m
               PROVE  Once(<<n, a>>, f)' = Once(<<n, a>>, f)
    OBVIOUS
  <2>1. <<<<n, a>>, f>> # Cell(u)
    BY <1>6, <1>9
  <2>2. Once(<<n, a>>, f) \in Int
    BY <1>7, StatesTyped
  <2> QED
    BY <1>4, <1>7, <2>1, <2>2
<1>11. \A d \in Learners : d # l => Debt(d, a, f)' = Debt(d, a, f)
  BY <1>4 DEF Debt, Owing
<1>12. /\ OfMerchants(a, f) \in Int /\ OfDebts(a, f) \in Int
      /\ OfMerchants(a, f)' = OfMerchants(a, f) + (Once(<<m, a>>, f)' - Once(<<m, a>>, f))
      /\ OfDebts(a, f)' = OfDebts(a, f) + (Debt(l, a, f)' - Debt(l, a, f))
  BY <1>5, <1>6, <1>10, <1>11, PoolsFollow
<1>13. Once(<<m, a>>, f) \in Int /\ Once(<<GLOBAL, a>>, f) \in Int /\ Debt(l, a, f) \in Int
  BY <1>6, <1>7, <1>8, StatesTyped
<1>14. Debt(l, a, f) = IF u.step = 6 /\ u.arm = a /\ u.field = f THEN u.amount ELSE 0
  BY <1>1 DEF Debt, Owing
<1>15. Debt(l, a, f)' = IF v.step = 6 /\ v.arm = a /\ v.field = f THEN v.amount ELSE 0
  BY <1>2 DEF Debt, Owing
<1>16. Once(<<m, a>>, f)' - Once(<<m, a>>, f)
         = (Once(<<GLOBAL, a>>, f)' - Once(<<GLOBAL, a>>, f)) + (Debt(l, a, f)' - Debt(l, a, f))
  <2>1. CASE /\ v = u
             /\ \A k \in Keys, g \in Fields : Once(k, g)' = Once(k, g)
    <3>1. Debt(l, a, f)' = Debt(l, a, f)
      BY <1>14, <1>15, <2>1
    <3> QED
      BY <1>6, <1>7, <1>8, <1>13, <2>1, <3>1
  <2>2. CASE /\ u.step \in 1..4 /\ v = At(u, u.step + 1)
             /\ \A k \in Keys, g \in Fields : Once(k, g)' = Once(k, g)
    <3>1. v.step = u.step + 1
      BY <2>2 DEF At
    <3>2. Debt(l, a, f)' = 0 /\ Debt(l, a, f) = 0
      BY <1>14, <1>15, <2>2, <3>1
    <3> QED
      BY <1>6, <1>7, <1>8, <1>13, <2>2, <3>2
  <2>3. CASE /\ u.step \in 5..6
             /\ v = IF u.step = 6 THEN NoUpdate ELSE At(u, 6)
             /\ \A k \in Keys, g \in Fields :
                  Once(k, g)' = Once(k, g) + (IF <<k, g>> = Cell(u) THEN u.amount ELSE 0)
    <3>1. /\ Once(<<m, a>>, f)' = Once(<<m, a>>, f)
               + (IF <<<<m, a>>, f>> = Cell(u) THEN u.amount ELSE 0)
          /\ Once(<<GLOBAL, a>>, f)' = Once(<<GLOBAL, a>>, f)
               + (IF <<<<GLOBAL, a>>, f>> = Cell(u) THEN u.amount ELSE 0)
      BY <1>6, <1>7, <1>8, <2>3
    <3>2. CASE u.step = 5
      <4>1. Cell(u) = <<<<m, u.arm>>, u.field>>
        BY <1>9, <3>2
      <4>2. v.step = 6 /\ v.arm = u.arm /\ v.field = u.field /\ v.amount = u.amount
        BY <2>3, <3>2 DEF At
      <4>3. <<<<GLOBAL, a>>, f>> # Cell(u)
        BY <1>6, <4>1
      <4>4. <<<<m, a>>, f>> = Cell(u) <=> u.arm = a /\ u.field = f
        BY <4>1
      <4>5. Debt(l, a, f) = 0
        BY <1>14, <3>2
      <4>6. Debt(l, a, f)' = IF u.arm = a /\ u.field = f THEN u.amount ELSE 0
        BY <1>15, <4>2
      <4> QED
        BY <1>6, <1>13, <3>1, <4>3, <4>4, <4>5, <4>6
    <3>3. CASE u.step = 6
      <4>1. Cell(u) = <<<<GLOBAL, u.arm>>, u.field>>
        BY <1>9, <3>3
      <4>2. v.step = 0
        BY <2>3, <3>3 DEF NoUpdate
      <4>3. <<<<m, a>>, f>> # Cell(u)
        BY <1>6, <4>1
      <4>4. <<<<GLOBAL, a>>, f>> = Cell(u) <=> u.arm = a /\ u.field = f
        BY <4>1
      <4>5. Debt(l, a, f)' = 0
        BY <1>15, <4>2
      <4>6. Debt(l, a, f) = IF u.arm = a /\ u.field = f THEN u.amount ELSE 0
        BY <1>14, <3>3
      <4> QED
        BY <1>6, <1>13, <3>1, <4>3, <4>4, <4>5, <4>6
    <3> QED
      BY <2>3, <3>2, <3>3
  <2> QED
    BY <1>4, <2>1, <2>2, <2>3
<1>17. Once(<<GLOBAL, a>>, f)' \in Int /\ Once(<<m, a>>, f)' \in Int /\ Debt(l, a, f)' \in Int
  <2>1. \A k \in Keys : Once(k, f)' \in Int
    BY <1>5 DEF StoreTypeOK, Once
  <2>2. Debt(l, a, f)' \in Int
    <3>1. v \in Update \/ v = NoUpdate
      BY <1>2, <1>5 DEF StoreTypeOK
    <3>2. v.step = 6 => v.amount \in Int
      BY <3>1 DEF Update, NoUpdate
    <3> QED
      BY <1>15, <3>2
  <2> QED
    BY <1>6, <1>7, <1>8, <2>1, <2>2
<1>18. OfMerchants(a, f) = Once(<<GLOBAL, a>>, f) + OfDebts(a, f)
  BY DEF Pooled
<1>19. OfMerchants(a, f)' = Once(<<GLOBAL, a>>, f)' + OfDebts(a, f)'
  BY <1>12, <1>13, <1>16, <1>17, <1>18
<1> QED
  BY <1>19

(* An update begins: nobody owes more or less.                             *)
LEMMA BeginPools ==
  ASSUME StoreTypeOK, StoreTypeOK', Pooled, NEW l \in Learners, update[l] = NoUpdate,
         update'[l].step \in {0, 1}, \A d \in Learners : d # l => update'[d] = update[d],
         UNCHANGED <<learned, repeated>>
  PROVE  Pooled'
<1> SUFFICES ASSUME NEW a \in Arms, NEW f \in Fields
             PROVE  (OfMerchants(a, f) = Once(<<GLOBAL, a>>, f) + OfDebts(a, f))'
  BY DEF Pooled
<1>1. \A k : Once(k, f)' = Once(k, f)
  BY DEF Once
<1>2. \A d \in Learners : Debt(d, a, f)' = Debt(d, a, f)
  <2>1. update[l].step # 6 /\ update'[l].step # 6
    BY DEF NoUpdate
  <2>2. Debt(l, a, f)' = 0 /\ Debt(l, a, f) = 0
    BY <2>1 DEF Debt, Owing
  <2>3. \A d \in Learners : d # l => Debt(d, a, f)' = Debt(d, a, f)
    BY DEF Debt, Owing
  <2> QED
    BY <2>2, <2>3
<1>3. OfMerchants(a, f)' = OfMerchants(a, f)
  BY <1>1 DEF OfMerchants
<1>4. OfDebts(a, f)' = OfDebts(a, f)
  BY <1>2 DEF OfDebts
<1> QED
  BY <1>1, <1>3, <1>4 DEF Pooled

(* Nothing is learned and nobody owes anything.                            *)
LEMMA InitPooled == Init => Pooled
<1> SUFFICES ASSUME Init, NEW a \in Arms, NEW f \in Fields
             PROVE  OfMerchants(a, f) = Once(<<GLOBAL, a>>, f) + OfDebts(a, f)
  BY DEF Pooled
<1>1. \A k \in Keys : Once(k, f) = 0
  BY DEF Init, StoreInit, Once
<1>2. \A k \in Merchants \cup {GLOBAL} : <<k, a>> \in Keys
  BY DEF Keys, Scopes
<1>3. OfMerchants(a, f) = 0
  <2>1. PICK g : g = [m \in Merchants |-> Once(<<m, a>>, f)]
    OBVIOUS
  <2>2. \A m \in Merchants : g[m] = 0
    BY <1>1, <1>2, <2>1
  <2>3. SumFunctionOnSet(g, Merchants) = 0
    BY <2>2, FiniteAssumption, SumOfNothing
  <2> QED
    BY <2>1, <2>3 DEF OfMerchants, SumFunction
<1>4. OfDebts(a, f) = 0
  <2>1. PICK g : g = [l \in Learners |-> Debt(l, a, f)]
    OBVIOUS
  <2>2. \A l \in Learners : g[l] = 0
    BY <2>1 DEF Init, StoreInit, NoUpdate, Debt, Owing
  <2>3. SumFunctionOnSet(g, Learners) = 0
    BY <2>2, FiniteAssumption, SumOfNothing
  <2> QED
    BY <2>1, <2>3 DEF OfDebts, SumFunction
<1> QED
  BY <1>1, <1>2, <1>3, <1>4

(* Every step keeps the balance.                                           *)
LEMMA StepPooled == Typed /\ StoreInv /\ Pooled /\ [Next]_vars => Pooled'
<1> SUFFICES ASSUME Typed, StoreInv, Pooled, [Next]_vars PROVE Pooled'
  OBVIOUS
<1>1. StoreTypeOK /\ StoreTypeOK'
  BY StepTyped DEF Typed, TypeOK
<1>2. ASSUME UNCHANGED storeVars PROVE Pooled'
  BY <1>2 DEF storeVars, Pooled, OfMerchants, OfDebts, Once, Debt, Owing
<1>3. CASE UNCHANGED vars
  BY <1>2, <1>3 DEF vars
<1>4. CASE Next
  <2>1. PICK r \in Learners :
           \/ \E m \in Merchants, p \in Policies : StartRun(r, m, p)
           \/ \E row \in Rows : Look(r, row)
           \/ \E row \in Rows : InsertRow(r, row)
           \/ SetUp(r)
           \/ \E k \in Keys : ReadStats(r, k)
           \/ \E a \in Arms, outcome \in Outcomes : Decide(r, a, outcome)
           \/ Learn(r)
           \/ Record(r)
           \/ Commit(r)
           \/ batch[r].stage \in Active /\ Abandon(r)
    BY <1>4, RunSteps
  <2>2. CASE \E a \in Arms, outcome \in Outcomes : Decide(r, a, outcome)
    <3>1. PICK a \in Arms, outcome \in Outcomes : Decide(r, a, outcome)
      BY <2>2
    <3>2. update[r] = NoUpdate
      BY <3>1 DEF Decide, StoreInv, UpdateOwned
    <3>3. \A d \in Learners : d # r => update'[d] = update[d]
      BY <1>1, <3>1 DEF Decide, BeginUpdate, StoreTypeOK
    <3>4. update'[r].step \in {0, 1}
      <4>1. CASE batch[r].policy = "redis"
        BY <4>1, <1>1, <3>1 DEF Decide, BeginUpdate, StoreTypeOK
      <4>2. CASE batch[r].policy # "redis"
        BY <4>2, <3>1, <3>2 DEF Decide, NoUpdate
      <4> QED
        BY <4>1, <4>2
    <3>5. UNCHANGED <<learned, repeated>>
      BY <3>1 DEF Decide
    <3> QED
      BY <1>1, <3>2, <3>3, <3>4, <3>5, BeginPools
  <2>3. CASE Learn(r)
    BY <1>1, <2>3, CommandPools DEF Learn
  <2>4. CASE \/ \E m \in Merchants, p \in Policies : StartRun(r, m, p)
             \/ \E row \in Rows : Look(r, row)
             \/ \E row \in Rows : InsertRow(r, row)
             \/ SetUp(r)
             \/ \E k \in Keys : ReadStats(r, k)
             \/ Record(r)
             \/ Commit(r)
             \/ batch[r].stage \in Active /\ Abandon(r)
    <3>1. UNCHANGED storeVars
      BY <2>4 DEF StartRun, Look, InsertRow, SetUp, ReadStats, Record, Commit, Abandon
    <3> QED
      BY <1>2, <3>1
  <2> QED
    BY <2>1, <2>2, <2>3, <2>4
<1> QED
  BY <1>3, <1>4

(* The balance is the one the property speaks of.                          *)
LEMMA PooledSays == StoreTypeOK /\ Pooled => GlobalPoolsMerchants
<1> SUFFICES ASSUME StoreTypeOK, Pooled, NEW a \in Arms, NEW f \in Fields
             PROVE  SumFunction([m \in Merchants |-> Once(<<m, a>>, f)])
                      = Once(<<GLOBAL, a>>, f)
                        + SumFunction([l \in Owing(a, f) |-> update[l].amount])
  BY DEF GlobalPoolsMerchants
<1>1. PICK d : d = [l \in Learners |-> Debt(l, a, f)]
  OBVIOUS
<1>2. PICK e : e = [l \in Owing(a, f) |-> update[l].amount]
  OBVIOUS
<1>3. Owing(a, f) \in SUBSET Learners
  BY DEF Owing
<1>4. \A l \in Learners : d[l] \in Int
  BY <1>1, StatesTyped
<1>5. \A l \in Learners \ Owing(a, f) : d[l] = 0
  BY <1>1 DEF Debt
<1>6. SumFunctionOnSet(d, Learners) = SumFunctionOnSet(d, Owing(a, f))
  BY <1>3, <1>4, <1>5, FiniteAssumption, SumOfSupport
<1>7. IsFiniteSet(Owing(a, f))
  BY <1>3, FiniteAssumption, FS_Subset
<1>8. \A l \in Owing(a, f) : d[l] = e[l]
  BY <1>1, <1>2, <1>3 DEF Debt
<1>9. SumFunctionOnSet(d, Owing(a, f)) = SumFunctionOnSet(e, Owing(a, f))
  BY <1>7, <1>8, SumAgrees
<1>10. OfDebts(a, f) = SumFunction(e)
  BY <1>1, <1>2, <1>6, <1>9 DEF OfDebts, SumFunction
<1> QED
  BY <1>2, <1>10 DEF Pooled, OfMerchants

(* Whatever learners do at the same time, whichever of them die and        *)
(* however many commands are repeated, the pooled statistics differ from   *)
(* the sum of the merchants' by what learners between their two increments *)
(* still owe, and by the repetitions.                                      *)
THEOREM GlobalIsPooled == Spec => []GlobalPoolsMerchants
<1>1. Init => Typed /\ StoreInv /\ Pooled
  BY InitTyped, InitPriors, InitPooled
<1>2. Typed /\ StoreInv /\ Pooled /\ [Next]_vars => (Typed /\ StoreInv /\ Pooled)'
  BY StepTyped, StepPriors, StepPooled
<1>3. Typed /\ Pooled => GlobalPoolsMerchants
  BY PooledSays DEF Typed, TypeOK
<1> QED
  BY <1>1, <1>2, <1>3, PTL DEF Spec

(* A lost reply is counted, and adds at most 1.0 to one field.             *)
OfRepetitions(a, f) == SumFunction([s \in Scopes |-> repeated[<<<<s, a>>, f>>]])
RepetitionsCounted == \A a \in Arms, f \in Fields : OfRepetitions(a, f) <= 10 * repeats

LEMMA ScopesAreFinite == IsFiniteSet(Scopes)
  BY FiniteAssumption, FS_AddElement DEF Scopes

LEMMA InitRepetitions == Init => RepetitionsCounted
<1> SUFFICES ASSUME Init, NEW a \in Arms, NEW f \in Fields
             PROVE  OfRepetitions(a, f) <= 10 * repeats
  BY DEF RepetitionsCounted
<1>1. PICK g : g = [s \in Scopes |-> repeated[<<<<s, a>>, f>>]]
  OBVIOUS
<1>2. \A s \in Scopes : g[s] = 0
  BY <1>1 DEF Init, StoreInit, Keys
<1>3. SumFunctionOnSet(g, Scopes) = 0
  BY <1>2, ScopesAreFinite, SumOfNothing
<1>4. OfRepetitions(a, f) = 0
  BY <1>1, <1>3 DEF OfRepetitions, SumFunction
<1> QED
  BY <1>4 DEF Init, StoreInit

LEMMA RepeatCounted ==
  ASSUME StoreTypeOK, RepetitionsCounted, NEW l \in Learners, RepeatIncrement(l)
  PROVE  RepetitionsCounted'
<1> SUFFICES ASSUME NEW a \in Arms, NEW f \in Fields
             PROVE  OfRepetitions(a, f)' <= 10 * repeats'
  BY DEF RepetitionsCounted
<1>1. PICK u : u = update[l]
  OBVIOUS
<1>2. u \in Update /\ u.step \in 5..6
  BY <1>1 DEF RepeatIncrement, StoreTypeOK, NoUpdate
<1>3. u.amount \in 1..10 /\ KeyAt(u) \in Keys /\ FieldAt(u) \in Fields
  BY <1>2 DEF KeyAt, FieldAt, MerchantKey, GlobalKey, Keys, Scopes, Fields, Update
<1>4. PICK k \in Scopes, b \in Arms : KeyAt(u) = <<k, b>>
  BY <1>3 DEF Keys
<1>5. \A c \in Keys \X Fields :
        repeated'[c] = IF c = Cell(u) THEN repeated[c] + u.amount ELSE repeated[c]
  BY <1>1 DEF RepeatIncrement, StoreTypeOK
<1>6. repeats' = repeats + 1 /\ repeats \in Nat
  BY StoreAssumption DEF RepeatIncrement, StoreTypeOK
<1>7. PICK g : g = [s \in Scopes |-> repeated[<<<<s, a>>, f>>]]
  OBVIOUS
<1>8. PICK h : h = [s \in Scopes |-> repeated'[<<<<s, a>>, f>>]]
  OBVIOUS
<1>9. \A s \in Scopes : <<<<s, a>>, f>> \in Keys \X Fields
  BY DEF Keys
<1>10. \A s \in Scopes : g[s] \in Nat
  BY <1>7, <1>9 DEF StoreTypeOK
<1>11. \A s \in Scopes : s # k => h[s] = g[s]
  BY <1>4, <1>5, <1>7, <1>8, <1>9 DEF Cell
<1>12. h[k] = g[k] \/ h[k] = g[k] + u.amount
  BY <1>5, <1>7, <1>8, <1>9
<1>13. \A s \in Scopes : g[s] \in Int /\ h[s] \in Int
  BY <1>3, <1>10, <1>11, <1>12
<1>14. SumFunctionOnSet(h, Scopes) = SumFunctionOnSet(g, Scopes) + (h[k] - g[k])
  BY <1>11, <1>13, ScopesAreFinite, SumMoves
<1>15. SumFunctionOnSet(g, Scopes) \in Int
  BY <1>13, ScopesAreFinite, SumIsInt
<1>16. SumFunctionOnSet(g, Scopes) <= 10 * repeats
  BY <1>7 DEF RepetitionsCounted, OfRepetitions, SumFunction
<1>17. OfRepetitions(a, f)' = SumFunctionOnSet(h, Scopes)
  BY <1>8 DEF OfRepetitions, SumFunction
<1> QED
  BY <1>3, <1>6, <1>12, <1>13, <1>14, <1>15, <1>16, <1>17

LEMMA StepRepetitions ==
  Typed /\ RepetitionsCounted /\ [Next]_vars => RepetitionsCounted'
<1> SUFFICES ASSUME Typed, RepetitionsCounted, [Next]_vars PROVE RepetitionsCounted'
  OBVIOUS
<1>1. ASSUME UNCHANGED <<repeated, repeats>> PROVE RepetitionsCounted'
  BY <1>1 DEF RepetitionsCounted, OfRepetitions
<1>2. CASE UNCHANGED vars
  BY <1>1, <1>2 DEF vars, storeVars
<1>3. CASE Next
  <2>1. PICK r \in Learners :
           \/ \E m \in Merchants, p \in Policies : StartRun(r, m, p)
           \/ \E row \in Rows : Look(r, row)
           \/ \E row \in Rows : InsertRow(r, row)
           \/ SetUp(r)
           \/ \E k \in Keys : ReadStats(r, k)
           \/ \E a \in Arms, outcome \in Outcomes : Decide(r, a, outcome)
           \/ Learn(r)
           \/ Record(r)
           \/ Commit(r)
           \/ batch[r].stage \in Active /\ Abandon(r)
    BY <1>3, RunSteps
  <2>2. CASE Learn(r)
    <3>1. CASE RepeatIncrement(r)
      BY <3>1, RepeatCounted DEF Typed, TypeOK
    <3>2. CASE Materialize(r) \/ Increment(r)
      BY <1>1, <3>2 DEF Materialize, Increment
    <3> QED
      BY <2>2, <3>1, <3>2 DEF Learn, Command
  <2>3. CASE ~Learn(r)
    BY <1>1, <2>1, <2>3 DEF StartRun, Look, InsertRow, SetUp, ReadStats, Decide, Record,
                            Commit, Abandon, storeVars
  <2> QED
    BY <2>2, <2>3
<1> QED
  BY <1>2, <1>3

(* What Redis holds: the sum over the merchants and the pooled count, with *)
(* what is on its way to it, are apart by what was repeated.               *)
DriftIsRepetition ==
  \A a \in Arms, f \in Fields :
    LET merchants == SumFunction([m \in Merchants |-> learned[<<<<m, a>>, f>>]])
        pooled == learned[<<<<GLOBAL, a>>, f>>]
                    + SumFunction([l \in Owing(a, f) |-> update[l].amount])
    IN  merchants - pooled <= 10 * repeats /\ pooled - merchants <= 10 * repeats

LEMMA RepetitionsSay ==
  StoreTypeOK /\ RepetitionsCounted /\ GlobalPoolsMerchants => DriftIsRepetition
<1> SUFFICES ASSUME StoreTypeOK, RepetitionsCounted, GlobalPoolsMerchants,
                    NEW a \in Arms, NEW f \in Fields
             PROVE  LET merchants == SumFunction([m \in Merchants |-> learned[<<<<m, a>>, f>>]])
                        pooled == learned[<<<<GLOBAL, a>>, f>>]
                                    + SumFunction([l \in Owing(a, f) |-> update[l].amount])
                    IN  merchants - pooled <= 10 * repeats /\ pooled - merchants <= 10 * repeats
  BY DEF DriftIsRepetition
<1>1. PICK h : h = [m \in Merchants |-> learned[<<<<m, a>>, f>>]]
  OBVIOUS
<1>2. PICK o : o = [m \in Merchants |-> Once(<<m, a>>, f)]
  OBVIOUS
<1>3. PICK g : g = [s \in Scopes |-> repeated[<<<<s, a>>, f>>]]
  OBVIOUS
<1>4. PICK e : e = [l \in Owing(a, f) |-> update[l].amount]
  OBVIOUS
<1>5. \A s \in Scopes : /\ learned[<<<<s, a>>, f>>] \in Nat /\ repeated[<<<<s, a>>, f>>] \in Nat
  BY DEF StoreTypeOK, Keys
<1>6. \A s \in Scopes : g[s] \in Nat
  BY <1>3, <1>5
<1>7. Merchants \subseteq Scopes /\ GLOBAL \in Scopes /\ Scopes \ {GLOBAL} = Merchants
  BY StoreAssumption DEF Scopes
<1>8. \A m \in Merchants : o[m] \in Int /\ g[m] \in Int /\ h[m] = o[m] + g[m]
  BY <1>1, <1>2, <1>3, <1>5, <1>7 DEF Once
<1>9. SumFunctionOnSet(h, Merchants) = SumFunctionOnSet(o, Merchants) + SumFunctionOnSet(g, Merchants)
  BY <1>8, FiniteAssumption, SumAdds
<1>10. SumFunctionOnSet(g, Scopes) = g[GLOBAL] + SumFunctionOnSet(g, Merchants)
  <2>1. \A s \in Scopes : g[s] \in Int
    BY <1>6
  <2>2. SumFunctionOnSet(g, Scopes) = g[GLOBAL] + SumFunctionOnSet(g, Scopes \ {GLOBAL})
    BY <1>7, <2>1, ScopesAreFinite, SumTakes
  <2> QED
    BY <1>7, <2>2
<1>11. SumFunctionOnSet(g, Merchants) \in Nat
  BY <1>6, <1>7, FiniteAssumption, SumOfNaturals
<1>12. SumFunctionOnSet(o, Merchants) \in Int
  BY <1>8, FiniteAssumption, SumIsInt
<1>13. SumFunctionOnSet(g, Scopes) <= 10 * repeats
  BY <1>3 DEF RepetitionsCounted, OfRepetitions, SumFunction
<1>14. SumFunctionOnSet(o, Merchants) = Once(<<GLOBAL, a>>, f) + SumFunction(e)
  BY <1>2, <1>4 DEF GlobalPoolsMerchants, SumFunction
<1>15. SumFunction(e) \in Int
  <2>1. Owing(a, f) \in SUBSET Learners
    BY DEF Owing
  <2>2. IsFiniteSet(Owing(a, f))
    BY <2>1, FiniteAssumption, FS_Subset
  <2>3. \A l \in Owing(a, f) : e[l] \in Int
    BY <1>4 DEF Owing, StoreTypeOK, Update, NoUpdate
  <2>4. SumFunction(e) = SumFunctionOnSet(e, Owing(a, f))
    BY <1>4 DEF SumFunction
  <2> QED
    BY <2>2, <2>3, <2>4, SumIsInt
<1>16. /\ Once(<<GLOBAL, a>>, f) = learned[<<<<GLOBAL, a>>, f>>] - g[GLOBAL]
       /\ learned[<<<<GLOBAL, a>>, f>>] \in Nat /\ g[GLOBAL] \in Nat
  BY <1>3, <1>5, <1>6, <1>7 DEF Once
<1>17. repeats \in Nat
  BY StoreAssumption DEF StoreTypeOK
<1>18. SumFunction(h) = SumFunctionOnSet(h, Merchants)
  BY <1>1 DEF SumFunction
<1> DEFINE H == SumFunction(h)
           P == learned[<<<<GLOBAL, a>>, f>>] + SumFunction(e)
<1>19. H - P <= 10 * repeats /\ P - H <= 10 * repeats
  <2>1. H - P = SumFunctionOnSet(g, Merchants) - g[GLOBAL]
    BY <1>9, <1>11, <1>12, <1>14, <1>15, <1>16, <1>18
  <2>2. P - H = g[GLOBAL] - SumFunctionOnSet(g, Merchants)
    BY <1>9, <1>11, <1>12, <1>14, <1>15, <1>16, <1>18
  <2> QED
    BY <1>10, <1>11, <1>13, <1>16, <1>17, <2>1, <2>2
<1> QED
  BY <1>1, <1>4, <1>19

(* However many replies are lost and whoever dies, what the pooled and the *)
(* merchants' statistics say of an arm differs by no more than 1.0 for     *)
(* each repeated command, once what is on its way has arrived.             *)
THEOREM DriftIsBounded == Spec => []DriftIsRepetition
<1>1. Spec => []Typed
  BY InitTyped, StepTyped, PTL DEF Spec
<1>2. Spec => [](Typed /\ RepetitionsCounted)
  BY <1>1, InitTyped, InitRepetitions, StepTyped, StepRepetitions, PTL DEF Spec
<1>3. Typed /\ RepetitionsCounted /\ GlobalPoolsMerchants => DriftIsRepetition
  BY RepetitionsSay DEF Typed, TypeOK
<1> QED
  BY <1>2, <1>3, GlobalIsPooled, PTL

-----------------------------------------------------------------------------
(* What committed runs count                                               *)
(*                                                                         *)
(* CommittedIsLearned speaks of runs that are over.  What is kept at every *)
(* step: what a merchant's keys have learned is at least what its runs     *)
(* that have not failed have told them so far, and just that if none has   *)
(* failed.  A run has told what its counts are worth, except for the       *)
(* increment it still has to send to its merchant's key.                   *)

Pending(r, f) ==
  IF update[r].step \in 1..5 /\ update[r].field = f THEN update[r].amount ELSE 0
Told(r, f) == Worth(batch[r].metrics, f) - Pending(r, f)
Share(r, m, f) ==
  IF r \in RunsOf(m) /\ batch[r].stage # "failed" THEN Told(r, f) ELSE 0
NoneFailed(m) == \A r \in RunsOf(m) : batch[r].stage # "failed"

(* The update of a run that has not failed is about its own merchant, and  *)
(* its counts include the outcome it is about.                             *)
OwnUpdate ==
  \A r \in Learners : update[r] # NoUpdate /\ batch[r].stage # "failed" =>
    /\ batch[r].policy = "redis" /\ update[r].merchant = batch[r].merchant
    /\ update[r].amount <= Worth(batch[r].metrics, update[r].field)

OfArms(m, f) == SumFunction([a \in Arms |-> Once(<<m, a>>, f)])
OfRuns(m, f) == SumFunction([r \in Learners |-> Share(r, m, f)])
Covered ==
  \A m \in Merchants, f \in Fields :
    OfArms(m, f) >= OfRuns(m, f) /\ (NoneFailed(m) => OfArms(m, f) = OfRuns(m, f))

(* The worth of counts is a number.                                        *)
LEMMA WorthIsNat ==
  ASSUME NEW metrics \in Metrics, NEW f \in Fields
  PROVE  Worth(metrics, f) \in Nat
  BY DEF Metrics, Outcomes, Worth, Fields

(* Each counted outcome is worth exactly the increment it asks for.        *)
LEMMA WorthOfOutcome ==
  ASSUME NEW metrics \in Metrics, NEW outcome \in Outcomes,
         NEW i \in Increments(Reward(outcome)), NEW f \in Fields
  PROVE  Worth([metrics EXCEPT ![outcome] = @ + 1], f)
           = Worth(metrics, f) + (IF i.field = f THEN i.amount ELSE 0)
<1>1. metrics \in [Outcomes -> Nat]
  BY DEF Metrics
<1>2. \A o \in Outcomes : [metrics EXCEPT ![outcome] = @ + 1][o] =
                           IF o = outcome THEN metrics[o] + 1 ELSE metrics[o]
  BY <1>1
<1>3. {"recovered", "not_recovered", "blocked"} = Outcomes
  BY DEF Outcomes
<1>4. CASE outcome = "recovered"
  <2>1. i.field = "alpha" /\ i.amount = 10
    BY <1>4 DEF Increments, Reward, Success, Failure
  <2> QED
    BY <1>1, <1>2, <1>3, <1>4, <2>1 DEF Worth, Fields
<1>5. CASE outcome = "not_recovered"
  <2>1. i.field = "beta" /\ i.amount = 10
    BY <1>5 DEF Increments, Reward, Success, Failure
  <2> QED
    BY <1>1, <1>2, <1>3, <1>5, <2>1 DEF Worth, Fields
<1>6. CASE outcome = "blocked"
  <2>1. i.field = "beta" /\ i.amount = 1
    BY <1>6 DEF Increments, Reward, Success, Failure
  <2> QED
    BY <1>1, <1>2, <1>3, <1>6, <2>1 DEF Worth, Fields
<1> QED
  BY <1>3, <1>4, <1>5, <1>6

SharesTyped ==
  \A r \in Learners, m \in Merchants, f \in Fields : Share(r, m, f) \in Nat

(* No run has told less than nothing.                                      *)
LEMMA SharesAreNat == TypeOK /\ OwnUpdate => SharesTyped
<1> SUFFICES ASSUME TypeOK, OwnUpdate,
                    NEW r \in Learners, NEW m \in Merchants, NEW f \in Fields
             PROVE  Share(r, m, f) \in Nat
  BY DEF SharesTyped
<1>1. batch[r].metrics \in Metrics
  BY DEF TypeOK, BatchRun
<1>2. Worth(batch[r].metrics, f) \in Nat
  BY <1>1, WorthIsNat
<1>3. CASE update[r] = NoUpdate
  <2>1. Pending(r, f) = 0
    BY <1>3 DEF Pending, NoUpdate
  <2> QED
    BY <1>2, <2>1 DEF Share, Told
<1>4. CASE update[r] # NoUpdate /\ r \in RunsOf(m) /\ batch[r].stage # "failed"
  <2>1. update[r].amount \in Nat
    BY <1>4 DEF TypeOK, StoreTypeOK, Update
  <2>2. update[r].amount <= Worth(batch[r].metrics, update[r].field)
    BY <1>4 DEF OwnUpdate
  <2>3. Pending(r, f) \in Nat /\ Pending(r, f) <= Worth(batch[r].metrics, f)
    BY <1>2, <2>1, <2>2 DEF Pending
  <2> QED
    BY <1>2, <2>3 DEF Share, Told
<1>5. CASE ~ (r \in RunsOf(m) /\ batch[r].stage # "failed")
  BY <1>5 DEF Share
<1> QED
  BY <1>3, <1>4, <1>5

(* The same of the next state.                                             *)
LEMMA SharesStayNat == (TypeOK /\ OwnUpdate)' => SharesTyped'
  BY SharesAreNat, PTL

(* One run moves: what is known of its merchant and what runs told of it.  *)
LEMMA KnowledgeFollows ==
  ASSUME TypeOK, TypeOK', OwnUpdate, OwnUpdate',
         NEW r \in Learners, NEW m \in Merchants, NEW f \in Fields, NEW a \in Arms,
         \A c \in Arms : c # a => Once(<<m, c>>, f)' = Once(<<m, c>>, f),
         \A d \in Learners : d # r => Share(d, m, f)' = Share(d, m, f)
  PROVE  /\ OfArms(m, f) \in Int /\ OfRuns(m, f) \in Int
         /\ OfArms(m, f)' = OfArms(m, f) + (Once(<<m, a>>, f)' - Once(<<m, a>>, f))
         /\ OfRuns(m, f)' = OfRuns(m, f) + (Share(r, m, f)' - Share(r, m, f))
<1>1. PICK g : g = [c \in Arms |-> Once(<<m, c>>, f)]
  OBVIOUS
<1>2. PICK h : h = [c \in Arms |-> Once(<<m, c>>, f)']
  OBVIOUS
<1>3. OfArms(m, f) = SumFunctionOnSet(g, Arms)
  BY <1>1 DEF OfArms, SumFunction
<1>4. OfArms(m, f)' = SumFunctionOnSet(h, Arms)
  BY <1>2 DEF OfArms, SumFunction
<1>5. \A c \in Arms : g[c] \in Int /\ h[c] \in Int
  <2>1. \A c \in Arms : <<m, c>> \in Keys
    BY DEF Keys, Scopes
  <2>2. \A c \in Arms : Once(<<m, c>>, f) \in Int
    BY <2>1, StatesTyped DEF TypeOK
  <2>3. \A c \in Arms : Once(<<m, c>>, f)' \in Int
    BY <2>1 DEF TypeOK, StoreTypeOK, Once
  <2> QED
    BY <1>1, <1>2, <2>2, <2>3
<1>6. \A c \in Arms \ {a} : g[c] = h[c]
  BY <1>1, <1>2
<1>7. SumFunctionOnSet(h, Arms) = SumFunctionOnSet(g, Arms) + (h[a] - g[a])
  BY <1>5, <1>6, FiniteAssumption, SumMoves
<1>8. SumFunctionOnSet(g, Arms) \in Int
  BY <1>5, FiniteAssumption, SumIsInt
<1>9. PICK d : d = [n \in Learners |-> Share(n, m, f)]
  OBVIOUS
<1>10. PICK e : e = [n \in Learners |-> Share(n, m, f)']
  OBVIOUS
<1>11. OfRuns(m, f) = SumFunctionOnSet(d, Learners)
  BY <1>9 DEF OfRuns, SumFunction
<1>12. OfRuns(m, f)' = SumFunctionOnSet(e, Learners)
  BY <1>10 DEF OfRuns, SumFunction
<1>13. \A n \in Learners : d[n] \in Int /\ e[n] \in Int
  <2>1. \A n \in Learners : Share(n, m, f) \in Int
    BY SharesAreNat DEF SharesTyped
  <2>2. \A n \in Learners : Share(n, m, f)' \in Int
    BY SharesStayNat DEF SharesTyped
  <2> QED
    BY <1>9, <1>10, <2>1, <2>2
<1>14. \A n \in Learners \ {r} : d[n] = e[n]
  BY <1>9, <1>10
<1>15. SumFunctionOnSet(e, Learners) = SumFunctionOnSet(d, Learners) + (e[r] - d[r])
  BY <1>13, <1>14, FiniteAssumption, SumMoves
<1>16. SumFunctionOnSet(d, Learners) \in Int
  BY <1>13, FiniteAssumption, SumIsInt
<1> QED
  BY <1>1, <1>2, <1>3, <1>4, <1>7, <1>8, <1>9, <1>10, <1>11, <1>12, <1>15, <1>16

(* What a step has to respect, for one merchant and one field.             *)
LEMMA CoveredMoves ==
  ASSUME TypeOK, TypeOK', OwnUpdate, OwnUpdate', Covered,
         NEW r \in Learners, NEW m \in Merchants, NEW f \in Fields, NEW a \in Arms,
         \A d \in Learners : d # r => batch'[d] = batch[d] /\ update'[d] = update[d],
         \A c \in Arms : c # a => Once(<<m, c>>, f)' = Once(<<m, c>>, f),
         Once(<<m, a>>, f)' - Once(<<m, a>>, f) >= Share(r, m, f)' - Share(r, m, f),
         NoneFailed(m)' =>
           /\ NoneFailed(m)
           /\ Once(<<m, a>>, f)' - Once(<<m, a>>, f) = Share(r, m, f)' - Share(r, m, f)
  PROVE  /\ OfArms(m, f)' >= OfRuns(m, f)'
         /\ NoneFailed(m)' => OfArms(m, f)' = OfRuns(m, f)'
<1>1. \A d \in Learners : d # r => Share(d, m, f)' = Share(d, m, f)
  BY DEF Share, Told, Pending, RunsOf
<1>2. /\ OfArms(m, f) \in Int /\ OfRuns(m, f) \in Int
      /\ OfArms(m, f)' = OfArms(m, f) + (Once(<<m, a>>, f)' - Once(<<m, a>>, f))
      /\ OfRuns(m, f)' = OfRuns(m, f) + (Share(r, m, f)' - Share(r, m, f))
  BY <1>1, KnowledgeFollows
<1>3. Once(<<m, a>>, f) \in Int /\ Once(<<m, a>>, f)' \in Int
  <2>1. <<m, a>> \in Keys
    BY DEF Keys, Scopes
  <2>2. Once(<<m, a>>, f) \in Int
    BY <2>1, StatesTyped DEF TypeOK
  <2>3. Once(<<m, a>>, f)' \in Int
    BY <2>1 DEF TypeOK, StoreTypeOK, Once
  <2> QED
    BY <2>2, <2>3
<1>4. Share(r, m, f) \in Int /\ Share(r, m, f)' \in Int
  BY SharesAreNat, SharesStayNat DEF SharesTyped
<1>5. OfArms(m, f) >= OfRuns(m, f) /\ (NoneFailed(m) => OfArms(m, f) = OfRuns(m, f))
  BY DEF Covered
<1> QED
  BY <1>2, <1>3, <1>4, <1>5

(* A run learns for its own merchant what it has counted.                  *)
LEMMA StepOwn == Typed /\ StoreInv /\ OwnUpdate /\ [Next]_vars => OwnUpdate'
<1> SUFFICES ASSUME Typed, StoreInv, OwnUpdate, [Next]_vars PROVE OwnUpdate'
  OBVIOUS
<1>1. CASE UNCHANGED vars
  BY <1>1 DEF vars, storeVars, OwnUpdate, NoUpdate
<1>2. CASE Next
  <2>1. PICK r \in Learners :
           \/ \E m \in Merchants, p \in Policies : StartRun(r, m, p)
           \/ \E row \in Rows : Look(r, row)
           \/ \E row \in Rows : InsertRow(r, row)
           \/ SetUp(r)
           \/ \E k \in Keys : ReadStats(r, k)
           \/ \E a \in Arms, outcome \in Outcomes : Decide(r, a, outcome)
           \/ Learn(r)
           \/ Record(r)
           \/ Commit(r)
           \/ batch[r].stage \in Active /\ Abandon(r)
    BY <1>2, RunSteps
  <2>2. batch \in [Learners -> BatchRun] /\ batch[r] \in BatchRun /\ StoreTypeOK
    BY DEF Typed, TypeOK
  <2>3. CASE \/ \E m \in Merchants, p \in Policies : StartRun(r, m, p)
             \/ \E row \in Rows : Look(r, row)
             \/ \E row \in Rows : InsertRow(r, row)
             \/ SetUp(r)
             \/ \E k \in Keys : ReadStats(r, k)
             \/ Record(r)
             \/ Commit(r)
    <3>1. UNCHANGED update
      BY <2>3 DEF StartRun, Look, InsertRow, SetUp, ReadStats, Record, Commit, storeVars
    <3>2. update[r] = NoUpdate
      BY <2>3 DEF StartRun, Look, InsertRow, SetUp, ReadStats, Record, Updated, Commit,
                  StoreInv, UpdateOwned
    <3>3. \A d \in Learners : d # r => batch'[d] = batch[d]
      BY <2>2, <2>3 DEF StartRun, Look, InsertRow, SetUp, ReadStats, Record, Commit,
                        Go, BeginDraft
    <3> QED
      BY <3>1, <3>2, <3>3 DEF OwnUpdate, NoUpdate
  <2>4. CASE \E a \in Arms, outcome \in Outcomes : Decide(r, a, outcome)
    <3>1. PICK a \in Arms, outcome \in Outcomes : Decide(r, a, outcome)
      BY <2>4
    <3>2. \A d \in Learners : d # r => batch'[d] = batch[d] /\ update'[d] = update[d]
      BY <2>2, <3>1 DEF Decide, BeginUpdate, StoreTypeOK
    <3>3. CASE batch[r].policy # "redis"
      <4>1. update'[r] = NoUpdate
        BY <3>1, <3>3 DEF Decide, StoreInv, UpdateOwned
      <4> QED
        BY <3>2, <4>1 DEF OwnUpdate, NoUpdate
    <3>4. CASE batch[r].policy = "redis"
      <4>1. PICK i \in Increments(Reward(outcome)) :
              update' = [update EXCEPT ![r] = [merchant |-> batch[r].merchant,
                arm |-> a, field |-> i.field, amount |-> i.amount, step |-> 1]]
        BY <3>4, <3>1 DEF Decide, BeginUpdate
      <4>2. /\ update'[r].merchant = batch[r].merchant
            /\ update'[r].field = i.field /\ update'[r].amount = i.amount
        BY <2>2, <4>1 DEF StoreTypeOK
      <4>3. /\ batch'[r].policy = "redis" /\ batch'[r].merchant = batch[r].merchant
            /\ batch'[r].metrics = [batch[r].metrics EXCEPT ![outcome] = @ + 1]
        BY <2>2, <3>1, <3>4 DEF Decide, BatchRun
      <4>4. batch[r].metrics \in Metrics
        BY <2>2 DEF BatchRun
      <4>5. i.field \in Fields /\ i.amount \in 1..10
        BY IncrementType
      <4>6. Worth(batch'[r].metrics, i.field) = Worth(batch[r].metrics, i.field) + i.amount
        BY <4>3, <4>4, <4>5, WorthOfOutcome
      <4>7. Worth(batch[r].metrics, i.field) \in Nat
        BY <4>4, <4>5, WorthIsNat
      <4>8. update'[r].amount <= Worth(batch'[r].metrics, update'[r].field)
        BY <4>2, <4>5, <4>6, <4>7
      <4> QED
        BY <3>2, <4>2, <4>3, <4>8 DEF OwnUpdate, NoUpdate, Worth
    <3> QED
      BY <3>3, <3>4
  <2>5. CASE Learn(r)
    <3>1. Command(r) /\ UNCHANGED batch
      BY <2>5 DEF Learn
    <3>2. /\ update[r] # NoUpdate
          /\ \A d \in Learners : d # r => update'[d] = update[d]
          /\ \/ update'[r] = update[r]
             \/ update'[r] = NoUpdate
             \/ \E n \in 1..6 : update'[r] = At(update[r], n)
      <4>1. update[r].step \in 1..6
        BY <2>2, <3>1, CommandEffect
      <4> QED
        BY <2>2, <3>1, <4>1, CommandEffect
    <3>3. \/ update'[r] = NoUpdate
          \/ /\ update'[r].merchant = update[r].merchant
             /\ update'[r].field = update[r].field
             /\ update'[r].amount = update[r].amount
      BY <3>2 DEF At
    <3> QED
      BY <3>1, <3>2, <3>3 DEF OwnUpdate, NoUpdate, Worth
  <2>6. CASE batch[r].stage \in Active /\ Abandon(r)
    <3>1. UNCHANGED update
      BY <2>6 DEF Abandon, storeVars
    <3>2. batch'[r].stage = "failed" /\ \A d \in Learners : d # r => batch'[d] = batch[d]
      BY <2>2, <2>6 DEF Abandon, BatchRun
    <3> QED
      BY <3>1, <3>2 DEF OwnUpdate, NoUpdate
  <2> QED
    BY <2>1, <2>3, <2>4, <2>5, <2>6
<1> QED
  BY <1>1, <1>2

(* Nothing is learned and no run has told anything.                        *)
LEMMA InitCovered == Init => OwnUpdate /\ Covered
<1> SUFFICES ASSUME Init, NEW m \in Merchants, NEW f \in Fields
             PROVE  OfArms(m, f) = 0 /\ OfRuns(m, f) = 0
  <2>1. Init => OwnUpdate
    BY DEF Init, StoreInit, OwnUpdate
  <2> QED
    BY <2>1 DEF Covered
<1>1. OfArms(m, f) = 0
  <2>1. PICK g : g = [a \in Arms |-> Once(<<m, a>>, f)]
    OBVIOUS
  <2>2. \A a \in Arms : <<m, a>> \in Keys
    BY DEF Keys, Scopes
  <2>3. \A a \in Arms : g[a] = 0
    BY <2>1, <2>2 DEF Init, StoreInit, Once
  <2>4. SumFunctionOnSet(g, Arms) = 0
    BY <2>3, FiniteAssumption, SumOfNothing
  <2> QED
    BY <2>1, <2>4 DEF OfArms, SumFunction
<1>2. OfRuns(m, f) = 0
  <2>1. PICK g : g = [r \in Learners |-> Share(r, m, f)]
    OBVIOUS
  <2>2. \A r \in Learners : g[r] = 0
    BY <2>1 DEF Init, Share, RunsOf
  <2>3. SumFunctionOnSet(g, Learners) = 0
    BY <2>2, FiniteAssumption, SumOfNothing
  <2> QED
    BY <2>1, <2>3 DEF OfRuns, SumFunction
<1> QED
  BY <1>1, <1>2

(* What is learned and what is told move together, until a run fails.      *)
LEMMA StepCovered ==
  Typed /\ StoreInv /\ OwnUpdate /\ Covered /\ [Next]_vars => Covered'
<1> SUFFICES ASSUME Typed, StoreInv, OwnUpdate, Covered, [Next]_vars PROVE Covered'
  OBVIOUS
<1>1. TypeOK /\ TypeOK' /\ OwnUpdate'
  BY StepTyped, StepOwn DEF Typed
<1>2. CASE UNCHANGED vars
  BY <1>2 DEF vars, storeVars, Covered, OfArms, OfRuns, Once, Share, Told, Pending,
              NoneFailed, RunsOf
<1>3. CASE Next
  <2>1. PICK r \in Learners :
           \/ \E m \in Merchants, p \in Policies : StartRun(r, m, p)
           \/ \E row \in Rows : Look(r, row)
           \/ \E row \in Rows : InsertRow(r, row)
           \/ SetUp(r)
           \/ \E k \in Keys : ReadStats(r, k)
           \/ \E a \in Arms, outcome \in Outcomes : Decide(r, a, outcome)
           \/ Learn(r)
           \/ Record(r)
           \/ Commit(r)
           \/ batch[r].stage \in Active /\ Abandon(r)
    BY <1>3, RunSteps
  <2>2. batch \in [Learners -> BatchRun] /\ batch[r] \in BatchRun /\ StoreTypeOK
    BY <1>1 DEF TypeOK
  <2> SUFFICES ASSUME NEW m \in Merchants, NEW f \in Fields
               PROVE  /\ OfArms(m, f)' >= OfRuns(m, f)'
                      /\ NoneFailed(m)' => OfArms(m, f)' = OfRuns(m, f)'
    BY DEF Covered
  <2>3. Stop \in Arms /\ <<m, Stop>> \in Keys
    BY BatchAssumption DEF Keys, Scopes
  <2>4. \A a \in Arms : Once(<<m, a>>, f) \in Int
    <3>1. \A a \in Arms : <<m, a>> \in Keys
      BY DEF Keys, Scopes
    <3> QED
      BY <2>2, <3>1, StatesTyped
  <2>5. Share(r, m, f) \in Nat
    BY <1>1, SharesAreNat DEF SharesTyped
  (* Steps at which nothing is learned.                                    *)
  <2>6. ASSUME UNCHANGED <<learned, repeated>>,
               \A d \in Learners : d # r => batch'[d] = batch[d] /\ update'[d] = update[d],
               Share(r, m, f)' \in Int, Share(r, m, f)' <= Share(r, m, f),
               NoneFailed(m)' => NoneFailed(m) /\ Share(r, m, f)' = Share(r, m, f)
        PROVE  /\ OfArms(m, f)' >= OfRuns(m, f)'
               /\ NoneFailed(m)' => OfArms(m, f)' = OfRuns(m, f)'
    <3>1. \A a \in Arms : Once(<<m, a>>, f)' = Once(<<m, a>>, f)
      BY <2>6 DEF Once
    <3>2. Once(<<m, Stop>>, f)' - Once(<<m, Stop>>, f) = 0
      BY <2>3, <2>4, <3>1
    <3>3. Share(r, m, f)' - Share(r, m, f) <= 0
      BY <2>5, <2>6
    <3>4. NoneFailed(m)' => Share(r, m, f)' - Share(r, m, f) = 0
      BY <2>5, <2>6
    <3>5. Share(r, m, f)' - Share(r, m, f) \in Int
      BY <2>5, <2>6
    <3> HIDE DEF Covered
    <3> QED
      BY <1>1, <2>3, <2>6, <3>1, <3>2, <3>3, <3>4, <3>5, CoveredMoves
  <2>7. CASE \/ \E n \in Merchants, p \in Policies : StartRun(r, n, p)
             \/ \E row \in Rows : Look(r, row)
             \/ \E row \in Rows : InsertRow(r, row)
             \/ SetUp(r)
             \/ \E k \in Keys : ReadStats(r, k)
             \/ Record(r)
             \/ Commit(r)
    <3>1. UNCHANGED <<learned, repeated, update>>
      BY <2>7 DEF StartRun, Look, InsertRow, SetUp, ReadStats, Record, Commit, storeVars
    <3>2. \A d \in Learners : d # r => batch'[d] = batch[d]
      BY <2>2, <2>7 DEF StartRun, Look, InsertRow, SetUp, ReadStats, Record, Commit,
                        Go, BeginDraft
    <3>3. /\ batch'[r].metrics = batch[r].metrics /\ batch[r].stage # "failed"
          /\ batch'[r].stage \notin {"idle", "failed"}
          /\ batch[r].stage # "idle" => /\ batch'[r].policy = batch[r].policy
                                        /\ batch'[r].merchant = batch[r].merchant
      <4>1. CASE \E n \in Merchants, p \in Policies : StartRun(r, n, p)
        BY <2>2, <4>1 DEF StartRun, BatchRun
      <4>2. CASE \E row \in Rows : Look(r, row)
        BY <2>2, <4>2 DEF Look, BatchRun
      <4>3. CASE \E row \in Rows : InsertRow(r, row)
        BY <2>2, <4>3 DEF InsertRow, BatchRun
      <4>4. CASE SetUp(r)
        BY <2>2, <4>4 DEF SetUp, BeginDraft, BatchRun
      <4>5. CASE \E k \in Keys : ReadStats(r, k)
        BY <2>2, <4>5 DEF ReadStats, BatchRun
      <4>6. CASE Record(r)
        BY <2>2, <4>6 DEF Record, Go, BeginDraft, BatchRun
      <4>7. CASE Commit(r)
        BY <2>2, <4>7 DEF Commit, BatchRun
      <4> QED
        BY <2>7, <4>1, <4>2, <4>3, <4>4, <4>5, <4>6, <4>7
    <3>4. Told(r, f)' = Told(r, f)
      BY <3>1, <3>3 DEF Told, Pending, Worth
    <3>5. Share(r, m, f)' = Share(r, m, f)
      <4>1. CASE batch[r].stage = "idle"
        <5>1. batch[r].metrics = NoMetrics /\ update[r] = NoUpdate
          BY <4>1 DEF Typed, Counting, StoreInv, UpdateOwned
        <5>2. Told(r, f) = 0
          BY <5>1 DEF Told, Pending, NoUpdate, Worth, NoMetrics, Outcomes
        <5>3. Share(r, m, f) = 0
          BY <4>1 DEF Share, RunsOf
        <5>4. Share(r, m, f)' = 0
          BY <3>4, <5>2 DEF Share
        <5> QED
          BY <5>3, <5>4
      <4>2. CASE batch[r].stage # "idle"
        <5>1. r \in RunsOf(m) <=> (r \in RunsOf(m))'
          BY <3>3, <4>2 DEF RunsOf
        <5> QED
          BY <3>3, <3>4, <5>1 DEF Share
      <4> QED
        BY <4>1, <4>2
    <3>6. NoneFailed(m)' => NoneFailed(m)
      BY <3>2, <3>3 DEF NoneFailed, RunsOf
    <3> QED
      BY <2>5, <2>6, <3>1, <3>2, <3>5, <3>6
  <2>8. CASE \E a \in Arms, outcome \in Outcomes : Decide(r, a, outcome)
    <3>1. PICK a \in Arms, outcome \in Outcomes : Decide(r, a, outcome)
      BY <2>8
    <3>2. \A d \in Learners : d # r => batch'[d] = batch[d] /\ update'[d] = update[d]
      BY <2>2, <3>1 DEF Decide, BeginUpdate, StoreTypeOK
    <3>3. /\ batch[r].stage = "sampling" /\ batch'[r].stage = "updating"
          /\ batch'[r].policy = batch[r].policy /\ batch'[r].merchant = batch[r].merchant
          /\ batch'[r].metrics = [batch[r].metrics EXCEPT ![outcome] = @ + 1]
      BY <2>2, <3>1 DEF Decide, BatchRun
    <3>4. update[r] = NoUpdate
      BY <3>3 DEF StoreInv, UpdateOwned
    <3>5. r \in RunsOf(m) <=> (r \in RunsOf(m))'
      BY <3>3 DEF RunsOf
    <3>6. Share(r, m, f)' = Share(r, m, f)
      <4>1. CASE r \notin RunsOf(m)
        BY <4>1, <3>5 DEF Share
      <4>2. CASE r \in RunsOf(m)
        <5>1. PICK i \in Increments(Reward(outcome)) :
                update' = [update EXCEPT ![r] = [merchant |-> batch[r].merchant,
                  arm |-> a, field |-> i.field, amount |-> i.amount, step |-> 1]]
          BY <4>2, <3>1 DEF Decide, BeginUpdate, RunsOf
        <5>2. i.amount \in Int
          BY IncrementType
        <5>3. batch[r].metrics \in Metrics
          BY <2>2 DEF BatchRun
        <5>4. Pending(r, f)' = IF i.field = f THEN i.amount ELSE 0
          BY <2>2, <5>1 DEF Pending, StoreTypeOK
        <5>5. Pending(r, f) = 0
          BY <3>4 DEF Pending, NoUpdate
        <5>6. Worth(batch'[r].metrics, f)
                = Worth(batch[r].metrics, f) + (IF i.field = f THEN i.amount ELSE 0)
          BY <3>3, <5>3, WorthOfOutcome
        <5>7. Worth(batch[r].metrics, f) \in Int
          BY <5>3, WorthIsNat
        <5>8. Told(r, f)' = Worth(batch'[r].metrics, f) - Pending(r, f)'
          BY DEF Told, Worth
        <5>9. Told(r, f)' = Told(r, f)
          BY <5>2, <5>4, <5>5, <5>6, <5>7, <5>8 DEF Told
        <5> QED
          BY <3>3, <3>5, <5>9 DEF Share
      <4> QED
        BY <4>1, <4>2
    <3>7. NoneFailed(m)' => NoneFailed(m)
      BY <3>2, <3>3 DEF NoneFailed, RunsOf
    <3>8. UNCHANGED <<learned, repeated>>
      BY <3>1 DEF Decide
    <3> QED
      BY <2>5, <2>6, <3>2, <3>6, <3>7, <3>8
  <2>9. CASE batch[r].stage \in Active /\ Abandon(r)
    <3>1. UNCHANGED <<learned, repeated, update>>
      BY <2>9 DEF Abandon, storeVars
    <3>2. /\ batch'[r].stage = "failed" /\ batch[r].stage \notin {"idle", "failed"}
          /\ batch'[r].policy = batch[r].policy /\ batch'[r].merchant = batch[r].merchant
          /\ \A d \in Learners : d # r => batch'[d] = batch[d]
      BY <2>2, <2>9 DEF Abandon, BatchRun, Active
    <3>3. Share(r, m, f)' = 0
      BY <3>2 DEF Share
    <3>4. r \in RunsOf(m) <=> (r \in RunsOf(m))'
      BY <3>2 DEF RunsOf
    <3>5. ASSUME NoneFailed(m)' PROVE NoneFailed(m) /\ Share(r, m, f)' = Share(r, m, f)
      <4>1. r \notin RunsOf(m)
        BY <3>2, <3>4, <3>5 DEF NoneFailed
      <4> QED
        BY <3>2, <3>3, <3>5, <4>1 DEF NoneFailed, RunsOf, Share
    <3> QED
      BY <2>5, <2>6, <3>1, <3>2, <3>3, <3>5
  <2>10. CASE Learn(r)
    <3>1. Command(r) /\ UNCHANGED batch
      BY <2>10 DEF Learn
    <3>2. PICK u : u = update[r]
      OBVIOUS
    <3>3. PICK v : v = update'[r]
      OBVIOUS
    <3>4. /\ u # NoUpdate /\ u \in Update /\ u.step \in 1..6
          /\ \A d \in Learners : d # r => update'[d] = update[d]
          /\ \/ /\ v = u
                /\ \A k \in Keys, g \in Fields : Once(k, g)' = Once(k, g)
             \/ /\ u.step \in 1..4 /\ v = At(u, u.step + 1)
                /\ \A k \in Keys, g \in Fields : Once(k, g)' = Once(k, g)
             \/ /\ u.step \in 5..6
                /\ v = IF u.step = 6 THEN NoUpdate ELSE At(u, 6)
                /\ \A k \in Keys, g \in Fields :
                     Once(k, g)' = Once(k, g) + (IF <<k, g>> = Cell(u) THEN u.amount ELSE 0)
      BY <2>2, <3>1, <3>2, <3>3, CommandEffect
    <3>5. /\ batch[r].stage = "updating" /\ batch[r].policy = "redis"
          /\ u.merchant = batch[r].merchant
      BY <2>10, <3>2, <3>4 DEF Learn, OwnUpdate
    <3>6. u.arm \in Arms /\ u.amount \in Int /\ m # GLOBAL
      BY <3>4, StoreAssumption DEF Update
    <3>7. Cell(u) = <<IF u.step \in {1, 2, 5} THEN <<u.merchant, u.arm>> ELSE <<GLOBAL, u.arm>>,
                      IF u.step \in {1, 3} THEN "alpha"
                      ELSE IF u.step \in {2, 4} THEN "beta" ELSE u.field>>
      BY DEF Cell, KeyAt, FieldAt, MerchantKey, GlobalKey
    <3>8. \A c \in Arms : <<m, c>> \in Keys
      BY DEF Keys, Scopes
    <3>9. \A c \in Arms : c # u.arm => Once(<<m, c>>, f)' = Once(<<m, c>>, f)
      <4> SUFFICES ASSUME NEW c \in Arms, c # u.arm
                   PROVE  Once(<<m, c>>, f)' = Once(<<m, c>>, f)
        OBVIOUS
      <4>1. <<<<m, c>>, f>> # Cell(u)
        BY <3>6, <3>7
      <4> QED
        BY <2>4, <3>4, <3>8, <4>1
    <3>10. r \in RunsOf(m) <=> m = u.merchant
      BY <3>5 DEF RunsOf
    <3>11. RunsOf(m)' = RunsOf(m) /\ (NoneFailed(m)' <=> NoneFailed(m))
      BY <3>1 DEF RunsOf, NoneFailed
    <3>12. Pending(r, f) = IF u.step \in 1..5 /\ u.field = f THEN u.amount ELSE 0
      BY <3>2 DEF Pending
    <3>13. Pending(r, f)' = IF v.step \in 1..5 /\ v.field = f THEN v.amount ELSE 0
      BY <3>3 DEF Pending
    <3>14. Worth(batch[r].metrics, f) \in Int
      BY <2>2, WorthIsNat DEF BatchRun
    <3>15. /\ Share(r, m, f) = IF m = u.merchant THEN Worth(batch[r].metrics, f) - Pending(r, f) ELSE 0
           /\ Share(r, m, f)' = IF m = u.merchant THEN Worth(batch[r].metrics, f) - Pending(r, f)' ELSE 0
      BY <3>1, <3>5, <3>10, <3>11 DEF Share, Told, Worth
    <3>16. Once(<<m, u.arm>>, f)' - Once(<<m, u.arm>>, f) = Share(r, m, f)' - Share(r, m, f)
      <4>1. CASE /\ v = u
                 /\ \A k \in Keys, g \in Fields : Once(k, g)' = Once(k, g)
        <5>1. Pending(r, f)' = Pending(r, f)
          BY <3>12, <3>13, <4>1
        <5> QED
          BY <2>4, <2>5, <3>6, <3>8, <3>15, <4>1, <5>1
      <4>2. CASE /\ u.step \in 1..4 /\ v = At(u, u.step + 1)
                 /\ \A k \in Keys, g \in Fields : Once(k, g)' = Once(k, g)
        <5>1. v.step = u.step + 1 /\ v.field = u.field /\ v.amount = u.amount
          BY <4>2 DEF At
        <5>2. Pending(r, f)' = Pending(r, f)
          BY <3>12, <3>13, <4>2, <5>1
        <5> QED
          BY <2>4, <2>5, <3>6, <3>8, <3>15, <4>2, <5>2
      <4>3. CASE /\ u.step \in 5..6
                 /\ v = IF u.step = 6 THEN NoUpdate ELSE At(u, 6)
                 /\ \A k \in Keys, g \in Fields :
                      Once(k, g)' = Once(k, g) + (IF <<k, g>> = Cell(u) THEN u.amount ELSE 0)
        <5>1. Once(<<m, u.arm>>, f)' = Once(<<m, u.arm>>, f)
                + (IF <<<<m, u.arm>>, f>> = Cell(u) THEN u.amount ELSE 0)
          BY <3>6, <3>8, <4>3
        <5>2. CASE u.step = 5
          <6>1. <<<<m, u.arm>>, f>> = Cell(u) <=> m = u.merchant /\ f = u.field
            BY <3>7, <5>2
          <6>2. v.step = 6
            BY <4>3, <5>2 DEF At
          <6>3. Pending(r, f)' = 0
            BY <3>13, <6>2
          <6>4. Pending(r, f) = IF u.field = f THEN u.amount ELSE 0
            BY <3>12, <5>2
          <6> QED
            BY <2>4, <3>6, <3>14, <3>15, <5>1, <6>1, <6>3, <6>4
        <5>3. CASE u.step = 6
          <6>1. <<<<m, u.arm>>, f>> # Cell(u)
            BY <3>6, <3>7, <5>3
          <6>2. v.step = 0
            BY <4>3, <5>3 DEF NoUpdate
          <6>3. Pending(r, f)' = 0 /\ Pending(r, f) = 0
            BY <3>12, <3>13, <5>3, <6>2
          <6> QED
            BY <2>4, <2>5, <3>6, <3>15, <5>1, <6>1, <6>3
        <5> QED
          BY <4>3, <5>2, <5>3
      <4> QED
        BY <3>4, <4>1, <4>2, <4>3
    <3>17. Share(r, m, f)' - Share(r, m, f) \in Int
      <4>1. Pending(r, f)' \in Int
        <5>1. v \in Update \/ v = NoUpdate
          BY <1>1, <3>3 DEF TypeOK, StoreTypeOK
        <5>2. v.step \in 1..5 => v.amount \in Int
          BY <5>1 DEF Update, NoUpdate
        <5> QED
          BY <3>13, <5>2
      <4> QED
        BY <2>5, <3>14, <3>15, <4>1
    <3> HIDE DEF Covered
    <3> QED
      BY <1>1, <3>1, <3>4, <3>6, <3>9, <3>11, <3>16, <3>17, CoveredMoves
  <2> QED
    BY <2>1, <2>7, <2>8, <2>9, <2>10
<1> QED
  BY <1>2, <1>3

(* A committed run has told all its counts are worth.                      *)
LEMMA CoveredSays == Typed /\ StoreInv /\ OwnUpdate /\ Covered => CommittedIsLearned
<1> SUFFICES ASSUME Typed, StoreInv, OwnUpdate, Covered,
                    NEW m \in Merchants, NEW f \in Fields
             PROVE  LET known == SumFunction([a \in Arms |-> Once(<<m, a>>, f)])
                        counted == SumFunction([r \in DoneFor(m) |-> Worth(batch[r].metrics, f)])
                    IN  known >= counted /\ (RunsOf(m) = DoneFor(m) => known = counted)
  BY DEF CommittedIsLearned
<1>1. PICK d : d = [r \in Learners |-> Share(r, m, f)]
  OBVIOUS
<1>2. PICK e : e = [r \in DoneFor(m) |-> Worth(batch[r].metrics, f)]
  OBVIOUS
<1>3. DoneFor(m) \in SUBSET Learners
  BY DEF DoneFor, RunsOf
<1>4. \A r \in Learners : d[r] \in Nat
  BY <1>1, SharesAreNat DEF Typed, SharesTyped
<1>5. ASSUME NEW r \in DoneFor(m) PROVE d[r] = e[r]
  <2>1. r \in Learners /\ r \in RunsOf(m) /\ batch[r].stage = "done"
    BY <1>5 DEF DoneFor, RunsOf
  <2>2. update[r] = NoUpdate
    BY <2>1 DEF StoreInv, UpdateOwned
  <2>3. Pending(r, f) = 0
    BY <2>2 DEF Pending, NoUpdate
  <2>4. Worth(batch[r].metrics, f) \in Nat
    BY <2>1, WorthIsNat DEF Typed, TypeOK, BatchRun
  <2> QED
    BY <1>1, <1>2, <2>1, <2>3, <2>4 DEF Share, Told
<1>6. IsFiniteSet(DoneFor(m))
  BY <1>3, FiniteAssumption, FS_Subset
<1>7. SumFunctionOnSet(d, DoneFor(m)) = SumFunctionOnSet(e, DoneFor(m))
  BY <1>5, <1>6, SumAgrees
<1>8. SumFunctionOnSet(d, DoneFor(m)) <= SumFunctionOnSet(d, Learners)
  BY <1>3, <1>4, FiniteAssumption, SumOfFewer
<1>9. ASSUME RunsOf(m) = DoneFor(m)
      PROVE  /\ SumFunctionOnSet(d, Learners) = SumFunctionOnSet(d, DoneFor(m))
             /\ NoneFailed(m)
  <2>1. \A r \in Learners \ DoneFor(m) : d[r] = 0
    BY <1>1, <1>9 DEF Share
  <2>2. SumFunctionOnSet(d, Learners) = SumFunctionOnSet(d, DoneFor(m))
    BY <1>3, <1>4, <2>1, FiniteAssumption, SumOfSupport
  <2>3. NoneFailed(m)
    BY <1>9 DEF NoneFailed, DoneFor
  <2> QED
    BY <2>2, <2>3
<1>10. OfRuns(m, f) = SumFunctionOnSet(d, Learners)
  BY <1>1 DEF OfRuns, SumFunction
<1>11. SumFunction(e) = SumFunctionOnSet(e, DoneFor(m))
  BY <1>2 DEF SumFunction
<1>12. OfArms(m, f) >= OfRuns(m, f) /\ (NoneFailed(m) => OfArms(m, f) = OfRuns(m, f))
  BY DEF Covered
<1>13. OfArms(m, f) \in Int
  <2>1. PICK g : g = [a \in Arms |-> Once(<<m, a>>, f)]
    OBVIOUS
  <2>2. \A a \in Arms : <<m, a>> \in Keys
    BY DEF Keys, Scopes
  <2>3. \A a \in Arms : g[a] \in Int
    BY <2>1, <2>2, StatesTyped DEF Typed, TypeOK
  <2> QED
    BY <2>1, <2>3, FiniteAssumption, SumIsInt DEF OfArms, SumFunction
<1>14. SumFunctionOnSet(d, DoneFor(m)) \in Int /\ SumFunctionOnSet(d, Learners) \in Int
  BY <1>3, <1>4, FiniteAssumption, SumIsInt
<1>15. OfArms(m, f) >= SumFunction(e)
  BY <1>7, <1>8, <1>10, <1>11, <1>12, <1>13, <1>14
<1>16. RunsOf(m) = DoneFor(m) => OfArms(m, f) = SumFunction(e)
  BY <1>7, <1>9, <1>10, <1>11, <1>12
<1> QED
  BY <1>2, <1>15, <1>16 DEF OfArms

(* What a run reports when it commits, its merchant's statistics have      *)
(* learned: each reward once, into the right field, however runs overlap;  *)
(* and they have learned nothing else if no run of the merchant is under   *)
(* way or has failed.                                                      *)
THEOREM CommittedCountsAreLearned == Spec => []CommittedIsLearned
<1> DEFINE Inv == Typed /\ StoreInv /\ OwnUpdate /\ Covered
<1>1. Init => Inv
  BY InitTyped, InitPriors, InitCovered
<1>2. Inv /\ [Next]_vars => Inv'
  BY StepTyped, StepPriors, StepOwn, StepCovered
<1>3. Inv => CommittedIsLearned
  BY CoveredSays
<1> QED
  BY <1>1, <1>2, <1>3, PTL DEF Spec

-----------------------------------------------------------------------------
(* Termination                                                             *)
(*                                                                         *)
(* The drafts a run has left, rows and keys it has left to look at, and    *)
(* commands it has left to send, weighed so that every step of the run     *)
(* makes the total smaller: a draft weighs more than all its steps.        *)
DraftCost == Cardinality(Keys) + 8
DraftsLeft(r) == Drafts[r] - Seen(batch[r].metrics)
CommandsLeft(r) == IF update[r] = NoUpdate THEN 0 ELSE 7 - update[r].step
Toll(stage) ==
  [idle |-> 2 * Cardinality(Rows) + Cardinality(Keys) + 4,
   preparing |-> Cardinality(Keys) + 3, sampling |-> 2,
   updating |-> Cardinality(Keys) + 3, committing |-> 1, done |-> 0][stage]
Rank(r) ==
  IF batch[r].stage = "failed" THEN 0
  ELSE DraftsLeft(r) * DraftCost + Toll(batch[r].stage)
       + 2 * Cardinality(batch[r].unlooked) + Cardinality(batch[r].missing)
       + Cardinality(batch[r].unread) + CommandsLeft(r)
Remaining == SumFunction([r \in Learners |-> Rank(r)]) + (MaxRepeats - repeats)

LEMMA CatalogueIsFinite ==
  /\ IsFiniteSet(Rows) /\ IsFiniteSet(Keys)
  /\ Cardinality(Rows) \in Nat /\ Cardinality(Keys) \in Nat
<1>1. IsFiniteSet(Rows)
  BY FiniteAssumption, FS_Union DEF Rows
<1>2. IsFiniteSet(Scopes)
  BY FiniteAssumption, FS_AddElement DEF Scopes
<1>3. IsFiniteSet(Keys)
  BY <1>2, FiniteAssumption, FS_Product DEF Keys
<1> QED
  BY <1>1, <1>3, FS_CardinalityType

(* What a rank is made of.                                                 *)
LEMMA RankIsMadeOf ==
  ASSUME TypeOK, NEW r \in Learners
  PROVE  /\ DraftsLeft(r) \in Nat /\ DraftCost \in Nat /\ CommandsLeft(r) \in 0..6
         /\ DraftsLeft(r) * DraftCost \in Nat
         /\ batch[r].stage # "failed" => Toll(batch[r].stage) \in Nat
         /\ batch[r].stage \in Active => Toll(batch[r].stage) > 0
         /\ IsFiniteSet(batch[r].unlooked) /\ Cardinality(batch[r].unlooked) \in Nat
         /\ IsFiniteSet(batch[r].missing) /\ Cardinality(batch[r].missing) \in Nat
         /\ IsFiniteSet(batch[r].unread) /\ Cardinality(batch[r].unread) \in Nat
<1>1. batch[r] \in BatchRun
  BY DEF TypeOK
<1>2. DraftsLeft(r) \in Nat
  BY <1>1, BatchAssumption DEF TypeOK, DraftsLeft, BatchRun, Seen, Metrics, Outcomes
<1>3. DraftCost \in Nat
  BY CatalogueIsFinite DEF DraftCost
<1>4. DraftsLeft(r) * DraftCost \in Nat
  BY <1>2, <1>3
<1>5. CommandsLeft(r) \in 0..6
  BY DEF TypeOK, StoreTypeOK, Update, CommandsLeft
<1>6. /\ batch[r].stage # "failed" => Toll(batch[r].stage) \in Nat
      /\ batch[r].stage \in Active => Toll(batch[r].stage) > 0
  <2> PICK k \in Nat, n \in Nat : k = Cardinality(Keys) /\ n = Cardinality(Rows)
    BY CatalogueIsFinite
  <2>1. batch[r].stage \in Stages
    BY <1>1 DEF BatchRun
  <2> QED
    BY <2>1 DEF Stages, Active, Toll
<1>7. IsFiniteSet(batch[r].unlooked) /\ IsFiniteSet(batch[r].missing)
      /\ IsFiniteSet(batch[r].unread)
  <2>1. /\ batch[r].unlooked \in SUBSET Rows /\ batch[r].missing \in SUBSET Rows
        /\ batch[r].unread \in SUBSET Keys
    BY <1>1 DEF BatchRun
  <2> QED
    BY <2>1, CatalogueIsFinite, FS_Subset
<1> QED
  BY <1>2, <1>3, <1>4, <1>5, <1>6, <1>7, FS_CardinalityType

LEMMA RankIsNat ==
  ASSUME TypeOK, NEW r \in Learners
  PROVE  Rank(r) \in Nat
<1>1. PICK x \in Nat : x = DraftsLeft(r) * DraftCost
  BY RankIsMadeOf
<1>2. CASE batch[r].stage = "failed"
  BY <1>2 DEF Rank
<1>3. CASE batch[r].stage # "failed"
  <2>1. Rank(r) = x + Toll(batch[r].stage)
           + 2 * Cardinality(batch[r].unlooked) + Cardinality(batch[r].missing)
           + Cardinality(batch[r].unread) + CommandsLeft(r)
    BY <1>1, <1>3 DEF Rank
  <2> HIDE DEF Rank
  <2> QED
    BY <1>3, <2>1, RankIsMadeOf
<1> QED
  BY <1>2, <1>3

(* A step of a run, other than a command that is repeated, brings it       *)
(* nearer to its end.                                                      *)
Nearer(r) == repeats' = repeats /\ Rank(r)' < Rank(r)

LEMMA SetUpNearer ==
  ASSUME TypeOK, TypeOK', NEW r \in Learners,
         \/ \E m \in Merchants, p \in Policies : StartRun(r, m, p)
         \/ \E row \in Rows : Look(r, row)
         \/ \E row \in Rows : InsertRow(r, row)
  PROVE  Nearer(r)
<1>1. PICK x \in Nat : x = DraftsLeft(r) * DraftCost
  BY RankIsMadeOf
<1>2. batch[r] \in BatchRun /\ batch \in [Learners -> BatchRun]
  BY DEF TypeOK
<1> DEFINE Kept ==
      /\ batch'[r].metrics = batch[r].metrics /\ batch'[r].unread = batch[r].unread
      /\ repeats' = repeats /\ update' = update
      /\ batch[r].stage \in {"idle", "preparing"} /\ batch'[r].stage = "preparing"
<1>3. Kept
  <2>1. ASSUME NEW m \in Merchants, NEW p \in Policies, StartRun(r, m, p)
        PROVE  Kept
    BY <1>2, <2>1 DEF StartRun, BatchRun, storeVars
  <2>2. ASSUME NEW row \in Rows, Look(r, row) PROVE Kept
    BY <1>2, <2>2 DEF Look, BatchRun, storeVars
  <2>3. ASSUME NEW row \in Rows, InsertRow(r, row) PROVE Kept
    <3>1. batch' = [batch EXCEPT ![r] = [batch[r] EXCEPT
                      !.missing = batch[r].missing \ {row}, !.held = batch[r].held \cup {row}]]
      BY <1>2, <2>3 DEF InsertRow
    <3>2. batch[r].stage = "preparing" /\ repeats' = repeats /\ update' = update
      BY <2>3 DEF InsertRow, storeVars
    <3>3. batch'[r] = [batch[r] EXCEPT !.missing = batch[r].missing \ {row},
                                       !.held = batch[r].held \cup {row}]
      BY <1>2, <3>1
    <3>4. batch'[r].metrics = batch[r].metrics /\ batch'[r].unread = batch[r].unread
          /\ batch'[r].stage = batch[r].stage
      BY <1>2, <3>3 DEF BatchRun
    <3> QED
      BY <3>2, <3>4
  <2> QED
    BY <2>1, <2>2, <2>3
<1>4. repeats' = repeats /\ CommandsLeft(r)' = CommandsLeft(r)
  BY <1>3 DEF CommandsLeft
<1>5. x = (DraftsLeft(r) * DraftCost)'
  BY <1>1, <1>3 DEF DraftsLeft
<1>6. PICK c \in 0..6, u \in Nat :
        c = CommandsLeft(r) /\ u = Cardinality(batch[r].unread)
  BY RankIsMadeOf
<1>7. Rank(r) = x + Toll(batch[r].stage) + 2 * Cardinality(batch[r].unlooked)
                + Cardinality(batch[r].missing) + u + c
  BY <1>1, <1>3, <1>6 DEF Rank
<1>8. Rank(r)' = x + Toll("preparing") + 2 * Cardinality(batch'[r].unlooked)
                 + Cardinality(batch'[r].missing) + u + c
  BY <1>3, <1>4, <1>5, <1>6 DEF Rank
<1>9. PICK rows \in Nat, keys \in Nat : rows = Cardinality(Rows) /\ keys = Cardinality(Keys)
  BY CatalogueIsFinite
<1>10. Toll("idle") = 2 * rows + keys + 4 /\ Toll("preparing") = keys + 3
  BY <1>9 DEF Toll
<1> DEFINE A == Cardinality(batch[r].unlooked)
           B == Cardinality(batch[r].missing)
           C == Cardinality(batch'[r].unlooked)
           D == Cardinality(batch'[r].missing)
<1>11. A \in Nat /\ B \in Nat
  BY RankIsMadeOf
<1>12. CASE \E m \in Merchants, p \in Policies : StartRun(r, m, p)
  <2>1. batch[r].stage = "idle" /\ batch'[r].missing = batch[r].missing
    <3>1. PICK m \in Merchants, p \in Policies : StartRun(r, m, p)
      BY <1>12
    <3> QED
      BY <1>2, <3>1 DEF StartRun, BatchRun
  <2>2. batch'[r].unlooked \in SUBSET Rows
    BY DEF TypeOK, BatchRun
  <2>3. C \in Nat /\ C <= rows
    BY <1>9, <2>2, CatalogueIsFinite, FS_Subset, FS_CardinalityType
  <2>4. B = D
    BY <2>1
  <2> HIDE DEF A, B, C, D
  <2>5. Rank(r) = x + (2 * rows + keys + 4) + 2 * A + B + u + c
    BY <1>7, <1>10, <2>1 DEF A, B
  <2>6. Rank(r)' = x + (keys + 3) + 2 * C + D + u + c
    BY <1>8, <1>10 DEF C, D
  <2> QED
    BY <1>4, <1>11, <2>3, <2>4, <2>5, <2>6 DEF Nearer
<1>13. CASE \E row \in Rows : Look(r, row)
  <2>1. PICK row \in Rows : Look(r, row)
    BY <1>13
  <2>2. /\ row \in batch[r].unlooked /\ batch'[r].unlooked = batch[r].unlooked \ {row}
        /\ batch'[r].missing \in {batch[r].missing, batch[r].missing \cup {row}}
        /\ batch[r].stage = "preparing"
    BY <1>2, <2>1 DEF Look, BatchRun, IsNextRow
  <2>3. C = A - 1
    <3>1. IsFiniteSet(batch[r].unlooked)
      BY RankIsMadeOf
    <3>2. Cardinality(batch[r].unlooked \ {row}) = A - 1
      BY <2>2, <3>1, FS_RemoveElement
    <3> QED
      BY <2>2, <3>2
  <2>4. D \in {B, B + 1}
    <3>1. IsFiniteSet(batch[r].missing)
      BY RankIsMadeOf
    <3> QED
      BY <2>2, <3>1, FS_AddElement
  <2> HIDE DEF A, B, C, D
  <2>5. Rank(r) = x + (keys + 3) + 2 * A + B + u + c
    BY <1>7, <1>10, <2>2 DEF A, B
  <2>6. Rank(r)' = x + (keys + 3) + 2 * C + D + u + c
    BY <1>8, <1>10 DEF C, D
  <2> QED
    BY <1>4, <1>11, <2>3, <2>4, <2>5, <2>6 DEF Nearer
<1>14. CASE \E row \in Rows : InsertRow(r, row)
  <2>1. PICK row \in Rows : InsertRow(r, row)
    BY <1>14
  <2>2. /\ row \in batch[r].missing /\ batch'[r].missing = batch[r].missing \ {row}
        /\ batch'[r].unlooked = batch[r].unlooked /\ batch[r].stage = "preparing"
    BY <1>2, <2>1 DEF InsertRow, BatchRun
  <2>3. D = B - 1
    <3>1. IsFiniteSet(batch[r].missing)
      BY RankIsMadeOf
    <3> QED
      BY <2>2, <3>1, FS_RemoveElement
  <2>4. C = A
    BY <2>2
  <2> HIDE DEF A, B, C, D
  <2>5. Rank(r) = x + (keys + 3) + 2 * A + B + u + c
    BY <1>7, <1>10, <2>2 DEF A, B
  <2>6. Rank(r)' = x + (keys + 3) + 2 * C + D + u + c
    BY <1>8, <1>10 DEF C, D
  <2> QED
    BY <1>4, <1>11, <2>3, <2>4, <2>5, <2>6 DEF Nearer
<1> QED
  BY <1>12, <1>13, <1>14

LEMMA ReadNearer ==
  ASSUME TypeOK, TypeOK', NEW r \in Learners,
         SetUp(r) \/ (\E k \in Keys : ReadStats(r, k)) \/ Record(r)
  PROVE  Nearer(r)
<1>1. PICK x \in Nat : x = DraftsLeft(r) * DraftCost
  BY RankIsMadeOf
<1>2. batch[r] \in BatchRun /\ batch \in [Learners -> BatchRun]
  BY DEF TypeOK
<1> DEFINE Kept ==
      /\ batch'[r].metrics = batch[r].metrics /\ batch'[r].unlooked = batch[r].unlooked
      /\ batch'[r].missing = batch[r].missing
      /\ repeats' = repeats /\ update' = update
      /\ batch[r].stage # "failed" /\ batch'[r].stage # "failed"
<1>3. Kept
  <2>1. CASE SetUp(r)
    BY <1>2, <2>1 DEF SetUp, BeginDraft, BatchRun, storeVars
  <2>2. ASSUME NEW k \in Keys, ReadStats(r, k) PROVE Kept
    BY <1>2, <2>2 DEF ReadStats, BatchRun, storeVars
  <2>3. CASE Record(r)
    <3>1. CASE Go(r, "committing")
      BY <1>2, <2>3, <3>1 DEF Record, Go, BatchRun, storeVars
    <3>2. CASE BeginDraft(r)
      BY <1>2, <2>3, <3>2 DEF Record, BeginDraft, BatchRun, storeVars
    <3> QED
      BY <2>3, <3>1, <3>2 DEF Record
  <2> QED
    BY <2>1, <2>2, <2>3
<1>4. CommandsLeft(r)' = CommandsLeft(r)
  BY <1>3 DEF CommandsLeft
<1>5. x = (DraftsLeft(r) * DraftCost)'
  BY <1>1, <1>3 DEF DraftsLeft
<1>6. PICK c \in 0..6, a \in Nat, b \in Nat :
        /\ c = CommandsLeft(r) /\ a = Cardinality(batch[r].unlooked)
        /\ b = Cardinality(batch[r].missing)
  BY RankIsMadeOf
<1> DEFINE U == Cardinality(batch[r].unread)
           V == Cardinality(batch'[r].unread)
<1>7. Rank(r) = x + Toll(batch[r].stage) + 2 * a + b + U + c
  BY <1>1, <1>3, <1>6 DEF Rank
<1>8. Rank(r)' = x + Toll(batch'[r].stage) + 2 * a + b + V + c
  BY <1>3, <1>4, <1>5, <1>6 DEF Rank
<1>9. PICK keys \in Nat : keys = Cardinality(Keys)
  BY CatalogueIsFinite
<1>10. /\ Toll("preparing") = keys + 3 /\ Toll("updating") = keys + 3
       /\ Toll("sampling") = 2 /\ Toll("committing") = 1
  BY <1>9 DEF Toll
<1>11. U \in Nat
  BY RankIsMadeOf
<1>12. V \in Nat /\ V <= keys
  <2>1. batch'[r].unread \in SUBSET Keys
    BY DEF TypeOK, BatchRun
  <2> QED
    BY <1>9, <2>1, CatalogueIsFinite, FS_Subset, FS_CardinalityType
<1>13. CASE \E k \in Keys : ReadStats(r, k)
  <2>1. PICK k \in Keys : ReadStats(r, k)
    BY <1>13
  <2>2. /\ k \in batch[r].unread /\ batch'[r].unread = batch[r].unread \ {k}
        /\ batch'[r].stage = batch[r].stage /\ batch[r].stage = "sampling"
    BY <1>2, <2>1 DEF ReadStats, BatchRun, IsNextKey
  <2>3. V = U - 1
    <3>1. IsFiniteSet(batch[r].unread)
      BY RankIsMadeOf
    <3>2. Cardinality(batch[r].unread \ {k}) = U - 1
      BY <2>2, <3>1, FS_RemoveElement
    <3> QED
      BY <2>2, <3>2
  <2> HIDE DEF U, V
  <2> QED
    BY <1>3, <1>7, <1>8, <1>10, <1>11, <2>2, <2>3 DEF Nearer
<1>14. CASE SetUp(r) \/ Record(r)
  <2>1. batch[r].stage \in {"preparing", "updating"}
    BY <1>14 DEF SetUp, Record
  <2>2. CASE batch'[r].stage = "sampling"
    <3> HIDE DEF U, V
    <3> QED
      BY <1>3, <1>7, <1>8, <1>10, <1>11, <1>12, <2>1, <2>2 DEF Nearer
  <2>3. CASE batch'[r].stage = "committing"
    <3> HIDE DEF U, V
    <3> QED
      BY <1>3, <1>7, <1>8, <1>10, <1>11, <1>12, <2>1, <2>3 DEF Nearer
  <2>4. batch'[r].stage \in {"sampling", "committing"}
    <3>1. CASE Go(r, "committing")
      BY <1>2, <3>1 DEF Go, BatchRun
    <3>2. CASE BeginDraft(r)
      BY <1>2, <3>2 DEF BeginDraft, BatchRun
    <3> QED
      BY <1>14, <3>1, <3>2 DEF SetUp, Record
  <2> QED
    BY <2>2, <2>3, <2>4
<1> QED
  BY <1>13, <1>14

(* A draft is counted when it is decided, and pays for the commands, the   *)
(* record and the next reads.                                              *)
LEMMA DecideNearer ==
  ASSUME TypeOK, TypeOK', NEW r \in Learners, NEW outcome \in Outcomes,
         NEW arm \in Arms, Decide(r, arm, outcome)
  PROVE  Nearer(r)
<1>1. batch[r] \in BatchRun /\ batch \in [Learners -> BatchRun]
  BY DEF TypeOK
<1>2. /\ batch'[r].metrics = [batch[r].metrics EXCEPT ![outcome] = @ + 1]
      /\ batch'[r].unlooked = batch[r].unlooked /\ batch'[r].missing = batch[r].missing
      /\ batch'[r].unread = batch[r].unread /\ batch'[r].stage = "updating"
      /\ batch[r].stage = "sampling" /\ repeats' = repeats
  BY <1>1 DEF Decide, BatchRun
<1>3. DraftsLeft(r)' = DraftsLeft(r) - 1
  <2>1. Seen(batch'[r].metrics) = Seen(batch[r].metrics) + 1
    BY <1>1, <1>2, CountedType DEF BatchRun
  <2>2. Drafts[r] \in Nat /\ Seen(batch[r].metrics) \in Nat
    BY <1>1, BatchAssumption DEF BatchRun, Seen, Metrics, Outcomes
  <2> QED
    BY <2>1, <2>2 DEF DraftsLeft
<1>4. PICK keys \in Nat : keys = Cardinality(Keys)
  BY CatalogueIsFinite
<1>5. PICK x \in Nat : x = DraftsLeft(r) * DraftCost
  BY RankIsMadeOf
<1>6. (DraftsLeft(r) * DraftCost)' = x - (keys + 8)
  <2>1. DraftCost' = keys + 8 /\ DraftCost = keys + 8
    BY <1>4 DEF DraftCost
  <2>2. PICK n \in Nat, w \in Nat : n = DraftsLeft(r) /\ w = keys + 8
    BY RankIsMadeOf
  <2>3. (n - 1) * w = n * w - w
    OBVIOUS
  <2> QED
    BY <1>3, <1>5, <2>1, <2>2, <2>3
<1>7. PICK a \in Nat, b \in Nat, u \in Nat :
        /\ a = Cardinality(batch[r].unlooked) /\ b = Cardinality(batch[r].missing)
        /\ u = Cardinality(batch[r].unread)
  BY RankIsMadeOf
<1>8. CommandsLeft(r) \in 0..6 /\ CommandsLeft(r)' \in 0..6
  <2>1. CommandsLeft(r) \in 0..6
    BY RankIsMadeOf
  <2>2. CommandsLeft(r)' \in 0..6
    BY DEF TypeOK, StoreTypeOK, Update, CommandsLeft
  <2> QED
    BY <2>1, <2>2
<1>9. Toll("updating") = keys + 3 /\ Toll("sampling") = 2
  BY <1>4 DEF Toll
<1>10. Rank(r) = x + 2 + 2 * a + b + u + CommandsLeft(r)
  BY <1>2, <1>5, <1>7, <1>9 DEF Rank
<1>11. Rank(r)' = x - (keys + 8) + (keys + 3) + 2 * a + b + u + CommandsLeft(r)'
  BY <1>2, <1>6, <1>7, <1>9 DEF Rank
<1> QED
  BY <1>2, <1>8, <1>10, <1>11 DEF Nearer

(* A command is one command less to send, unless it is repeated; and       *)
(* repetitions are counted.                                                *)
LEMMA LearnNearer ==
  ASSUME TypeOK, TypeOK', NEW r \in Learners, Learn(r)
  PROVE  Nearer(r) \/ (repeats' = repeats + 1 /\ Rank(r)' = Rank(r))
<1>1. UNCHANGED batch /\ batch[r].stage = "updating"
  BY DEF Learn
<1>2. PICK v : v = update'[r]
  OBVIOUS
<1>3. CASE RepeatIncrement(r)
  BY <1>1, <1>3 DEF RepeatIncrement, Rank, DraftsLeft, DraftCost, CommandsLeft
<1>4. CASE Materialize(r) \/ Increment(r)
  <2>1. repeats' = repeats /\ update[r].step \in 1..6 /\ NextStep(r)
    BY <1>4 DEF Materialize, Increment, Exists
  <2>2. v = IF update[r].step = 6 THEN NoUpdate ELSE At(update[r], update[r].step + 1)
    BY <1>2, <2>1 DEF NextStep, TypeOK, StoreTypeOK
  <2>3. CommandsLeft(r)' = IF v = NoUpdate THEN 0 ELSE 7 - v.step
    BY <1>2 DEF CommandsLeft
  <2>4. update[r] # NoUpdate
    BY <2>1 DEF NoUpdate
  <2>5. CommandsLeft(r) = 7 - update[r].step
    BY <2>4 DEF CommandsLeft
  <2>6. CommandsLeft(r)' = CommandsLeft(r) - 1
    <3>1. CASE update[r].step = 6
      BY <2>2, <2>3, <2>5, <3>1
    <3>2. CASE update[r].step # 6
      <4>1. v.step = update[r].step + 1
        BY <2>2, <3>2 DEF At
      <4>2. v # NoUpdate
        BY <2>1, <4>1 DEF NoUpdate
      <4> QED
        BY <2>1, <2>3, <2>5, <4>1, <4>2
    <3> QED
      BY <3>1, <3>2
  <2>7. PICK y \in Nat : y = DraftsLeft(r) * DraftCost + Toll("updating")
           + 2 * Cardinality(batch[r].unlooked) + Cardinality(batch[r].missing)
           + Cardinality(batch[r].unread)
    <3>1. PICK x \in Nat : x = DraftsLeft(r) * DraftCost
      BY RankIsMadeOf
    <3>2. Toll("updating") \in Nat
      BY <1>1, RankIsMadeOf
    <3> QED
      BY <3>1, <3>2, RankIsMadeOf
  <2>8. Rank(r) = y + CommandsLeft(r)
    BY <1>1, <2>7 DEF Rank
  <2>9. Rank(r)' = y + CommandsLeft(r)'
    BY <1>1, <2>7 DEF Rank, DraftsLeft, DraftCost
  <2>10. CommandsLeft(r) \in 0..6
    BY RankIsMadeOf
  <2> QED
    BY <2>1, <2>6, <2>8, <2>9, <2>10 DEF Nearer
<1> QED
  BY <1>3, <1>4 DEF Learn, Command

(* A run that commits or fails has nothing left to do.                     *)
LEMMA EndNearer ==
  ASSUME TypeOK, TypeOK', NEW r \in Learners,
         Commit(r) \/ (batch[r].stage \in Active /\ Abandon(r))
  PROVE  Nearer(r)
<1>1. batch[r] \in BatchRun /\ batch \in [Learners -> BatchRun]
  BY DEF TypeOK
<1>2. repeats' = repeats /\ update' = update
  BY DEF Commit, Abandon, storeVars
<1>3. CASE Commit(r)
  <2>1. /\ batch'[r].metrics = batch[r].metrics /\ batch'[r].unlooked = batch[r].unlooked
        /\ batch'[r].missing = batch[r].missing /\ batch'[r].unread = batch[r].unread
        /\ batch[r].stage = "committing" /\ batch'[r].stage = "done"
    BY <1>1, <1>3 DEF Commit, BatchRun
  <2>2. PICK x \in Nat : x = DraftsLeft(r) * DraftCost
    BY RankIsMadeOf
  <2>3. x = (DraftsLeft(r) * DraftCost)'
    BY <2>1, <2>2 DEF DraftsLeft
  <2>4. CommandsLeft(r)' = CommandsLeft(r)
    BY <1>2 DEF CommandsLeft
  <2>5. PICK c \in 0..6, a \in Nat, b \in Nat, u \in Nat :
          /\ c = CommandsLeft(r) /\ a = Cardinality(batch[r].unlooked)
          /\ b = Cardinality(batch[r].missing) /\ u = Cardinality(batch[r].unread)
    BY RankIsMadeOf
  <2>6. Toll("committing") = 1 /\ Toll("done") = 0
    BY DEF Toll
  <2>7. Rank(r) = x + 1 + 2 * a + b + u + c
    BY <2>1, <2>2, <2>5, <2>6 DEF Rank
  <2>8. Rank(r)' = x + 0 + 2 * a + b + u + c
    BY <2>1, <2>3, <2>4, <2>5, <2>6 DEF Rank
  <2> QED
    BY <1>2, <2>7, <2>8 DEF Nearer
<1>4. CASE batch[r].stage \in Active /\ Abandon(r)
  <2>1. batch'[r].stage = "failed"
    BY <1>1, <1>4 DEF Abandon
  <2>2. Rank(r)' = 0
    BY <2>1 DEF Rank
  <2>3. Rank(r) > 0
    <3>1. PICK x \in Nat : x = DraftsLeft(r) * DraftCost
      BY RankIsMadeOf
    <3>2. PICK c \in 0..6, a \in Nat, b \in Nat, u \in Nat :
          /\ c = CommandsLeft(r) /\ a = Cardinality(batch[r].unlooked)
          /\ b = Cardinality(batch[r].missing) /\ u = Cardinality(batch[r].unread)
      BY RankIsMadeOf
    <3>3. batch[r].stage # "failed"
      BY <1>4 DEF Active
    <3>4. PICK t \in Nat : t = Toll(batch[r].stage) /\ t > 0
      BY <1>4, <3>3, RankIsMadeOf
    <3>5. Rank(r) = x + t + 2 * a + b + u + c
      BY <3>1, <3>2, <3>3, <3>4 DEF Rank
    <3> QED
      BY <3>4, <3>5
  <2> QED
    BY <1>2, <2>2, <2>3 DEF Nearer
<1> QED
  BY <1>3, <1>4

LEMMA RanksAreNat == TypeOK => \A r \in Learners : Rank(r) \in Nat
  BY RankIsNat
LEMMA RanksStayNat == TypeOK' => \A r \in Learners : Rank(r)' \in Nat
<1>1. (TypeOK => \A r \in Learners : Rank(r) \in Nat)'
  BY RanksAreNat, PTL
<1> QED
  BY <1>1

LEMMA EveryStepNearer ==
  ASSUME Typed, Typed', Next
  PROVE  Remaining' < Remaining
<1> TypeOK /\ TypeOK'
  BY DEF Typed
<1>1. PICK r \in Learners :
           \/ \E m \in Merchants, p \in Policies : StartRun(r, m, p)
           \/ \E row \in Rows : Look(r, row)
           \/ \E row \in Rows : InsertRow(r, row)
           \/ SetUp(r)
           \/ \E k \in Keys : ReadStats(r, k)
           \/ \E a \in Arms, outcome \in Outcomes : Decide(r, a, outcome)
           \/ Learn(r)
           \/ Record(r)
           \/ Commit(r)
           \/ batch[r].stage \in Active /\ Abandon(r)
  BY RunSteps
<1>2. Nearer(r) \/ (repeats' = repeats + 1 /\ Rank(r)' = Rank(r))
  BY <1>1, SetUpNearer, ReadNearer, DecideNearer, LearnNearer, EndNearer
<1>3. \A l \in Learners : l # r => batch'[l] = batch[l] /\ update'[l] = update[l]
  <2>1. CASE Learn(r)
    BY <2>1 DEF Learn, Command, Materialize, Increment, RepeatIncrement, NextStep, TypeOK, StoreTypeOK
  <2>2. ASSUME NEW a \in Arms, NEW outcome \in Outcomes, Decide(r, a, outcome)
        PROVE  <1>3
    BY <2>2 DEF Decide, BeginUpdate, TypeOK, StoreTypeOK
  <2>3. CASE \/ \E m \in Merchants, p \in Policies : StartRun(r, m, p)
             \/ \E row \in Rows : Look(r, row)
             \/ \E row \in Rows : InsertRow(r, row)
    BY <2>3 DEF StartRun, Look, InsertRow, storeVars, TypeOK
  <2>4. CASE SetUp(r) \/ (\E k \in Keys : ReadStats(r, k)) \/ Record(r)
    BY <2>4 DEF SetUp, ReadStats, Record, Go, BeginDraft, storeVars, TypeOK
  <2>5. CASE Commit(r) \/ Abandon(r)
    BY <2>5 DEF Commit, Abandon, storeVars, TypeOK
  <2> QED
    BY <1>1, <2>1, <2>2, <2>3, <2>4, <2>5
<1>4. \A l \in Learners : l # r => Rank(l)' = Rank(l)
  BY <1>3 DEF Rank, DraftsLeft, DraftCost, CommandsLeft
<1>5. PICK f : f = [l \in Learners |-> Rank(l)]
  OBVIOUS
<1>6. PICK g : g = [l \in Learners |-> Rank(l)']
  OBVIOUS
<1>7. \A l \in Learners : f[l] \in Int /\ g[l] \in Int
  <2>1. \A l \in Learners : Rank(l) \in Nat
    BY RanksAreNat
  <2>2. \A l \in Learners : Rank(l)' \in Nat
    BY RanksStayNat
  <2> QED
    BY <1>5, <1>6, <2>1, <2>2
<1>8. SumFunctionOnSet(g, Learners) = SumFunctionOnSet(f, Learners) + (g[r] - f[r])
  BY <1>4, <1>5, <1>6, <1>7, FiniteAssumption, SumMoves
<1>9. SumFunctionOnSet(f, Learners) \in Int
  BY <1>7, FiniteAssumption, SumIsInt
<1>10. Remaining = SumFunctionOnSet(f, Learners) + (MaxRepeats - repeats)
  BY <1>5 DEF Remaining, SumFunction
<1>11. Remaining' = SumFunctionOnSet(g, Learners) + (MaxRepeats - repeats')
  BY <1>6 DEF Remaining, SumFunction
<1>12. repeats \in Nat /\ repeats' \in Nat /\ MaxRepeats \in Nat
  BY StoreAssumption DEF TypeOK, StoreTypeOK
<1>13. f[r] \in Int /\ g[r] \in Int /\ f[r] = Rank(r) /\ g[r] = Rank(r)'
  BY <1>5, <1>6, <1>7
<1> QED
  BY <1>2, <1>8, <1>9, <1>10, <1>11, <1>12, <1>13 DEF Nearer

LEMMA RemainingIsNat == TypeOK => Remaining \in Nat
<1> SUFFICES ASSUME TypeOK PROVE Remaining \in Nat
  OBVIOUS
<1>1. PICK f : f = [l \in Learners |-> Rank(l)]
  OBVIOUS
<1>2. \A l \in Learners : f[l] \in Nat
  BY <1>1, RankIsNat
<1>3. SumFunctionOnSet(f, Learners) \in Nat
  BY <1>2, FiniteAssumption, SumOfNaturals
<1>4. MaxRepeats - repeats \in Nat
  BY StoreAssumption DEF TypeOK, StoreTypeOK
<1> QED
  BY <1>1, <1>3, <1>4 DEF Remaining, SumFunction

(* Runs cannot go on for ever, whatever they do to one another: each step  *)
(* of the system leaves less to do, and there is never less than nothing   *)
(* to do.                                                                  *)
THEOREM RunsDescend == Spec => [](Remaining \in Nat) /\ [][Remaining' < Remaining]_vars
<1>1. Spec => []Typed
  BY InitTyped, StepTyped, PTL DEF Spec
<1>2. Typed => Remaining \in Nat
  BY RemainingIsNat DEF Typed
<1>3. Typed /\ Typed' /\ [Next]_vars => [Remaining' < Remaining]_vars
  BY EveryStepNearer
<1>4. Spec => [][Next]_vars
  BY PTL DEF Spec
<1> QED
  BY <1>1, <1>2, <1>3, <1>4, PTL

-----------------------------------------------------------------------------
(* Deadlock                                                                *)
(*                                                                         *)
(* A run waits when every row it still has to insert was inserted by a     *)
(* transaction that is open.                                               *)

Waiting(r) ==
  /\ batch[r].stage = "preparing" /\ batch[r].unlooked = {} /\ batch[r].missing # {}
  /\ \A row \in batch[r].missing : catalog[row] = "inserted"
WaitingForOneAnother(cycle) ==
  \A w \in cycle : Waiting(w) /\
    \A row \in batch[w].missing : \E h \in cycle : row \in batch[h].held
NobodyIsStuck ==
  (\E r \in Learners : batch[r].stage \in Active) =>
    \/ \E r \in Learners : batch[r].stage \in Active /\ ~Waiting(r)
    \/ \E cycle \in (SUBSET Learners) \ {{}} : WaitingForOneAnother(cycle)

(* Every inserted row has a transaction that will commit it or take it     *)
(* back.                                                                   *)
InsertedAreHeld ==
  \A row \in Rows : catalog[row] = "inserted" => \E r \in Learners : row \in batch[r].held

LEMMA StepHeld == TypeOK /\ CatalogInv /\ InsertedAreHeld /\ [Next]_vars => InsertedAreHeld'
<1> SUFFICES ASSUME TypeOK, CatalogInv, InsertedAreHeld, [Next]_vars PROVE InsertedAreHeld'
  OBVIOUS
<1>1. CASE UNCHANGED vars
  BY <1>1 DEF vars, InsertedAreHeld
<1>2. CASE Next
  <2>1. PICK r \in Learners :
           \/ \E m \in Merchants, p \in Policies : StartRun(r, m, p)
           \/ \E row \in Rows : Look(r, row)
           \/ \E row \in Rows : InsertRow(r, row)
           \/ SetUp(r)
           \/ \E k \in Keys : ReadStats(r, k)
           \/ \E a \in Arms, outcome \in Outcomes : Decide(r, a, outcome)
           \/ Learn(r)
           \/ Record(r)
           \/ Commit(r)
           \/ batch[r].stage \in Active /\ Abandon(r)
    BY <1>2, RunSteps
  <2>2. batch[r] \in BatchRun /\ batch \in [Learners -> BatchRun]
        /\ catalog \in [Rows -> {"absent", "inserted", "committed"}]
    BY DEF TypeOK
  <2>3. ASSUME UNCHANGED catalog, \A l \in Learners : batch'[l].held = batch[l].held
        PROVE  InsertedAreHeld'
    BY <2>3 DEF InsertedAreHeld
  <2>4. CASE \E m \in Merchants, p \in Policies : StartRun(r, m, p)
    BY <2>2, <2>3, <2>4 DEF StartRun, BatchRun
  <2>5. CASE \E row \in Rows : Look(r, row)
    BY <2>2, <2>3, <2>5 DEF Look, BatchRun
  <2>6. CASE SetUp(r)
    BY <2>2, <2>3, <2>6 DEF SetUp, BeginDraft, BatchRun
  <2>7. CASE \E k \in Keys : ReadStats(r, k)
    BY <2>2, <2>3, <2>7 DEF ReadStats, BatchRun
  <2>8. CASE \E a \in Arms, outcome \in Outcomes : Decide(r, a, outcome)
    BY <2>2, <2>3, <2>8 DEF Decide, BatchRun
  <2>9. CASE Learn(r)
    BY <2>3, <2>9 DEF Learn
  <2>10. CASE Record(r)
    <3>1. CASE Go(r, "committing")
      BY <2>2, <2>3, <2>10, <3>1 DEF Record, Go, BatchRun
    <3>2. CASE BeginDraft(r)
      BY <2>2, <2>3, <2>10, <3>2 DEF Record, BeginDraft, BatchRun
    <3> QED
      BY <2>10, <3>1, <3>2 DEF Record
  <2>11. CASE \E row \in Rows : InsertRow(r, row)
    <3>1. PICK row \in Rows : InsertRow(r, row)
      BY <2>11
    <3>2. batch'[r].held = batch[r].held \cup {row}
          /\ \A l \in Learners : l # r => batch'[l] = batch[l]
      BY <2>2, <3>1 DEF InsertRow, BatchRun
    <3>3. \A x \in Rows : x # row => catalog'[x] = catalog[x]
      BY <2>2, <3>1 DEF InsertRow
    <3>4. \A x \in Rows : (\E l \in Learners : x \in batch[l].held) \/ x = row
                          => \E l \in Learners : x \in batch'[l].held
      BY <3>2
    <3> QED
      BY <3>3, <3>4 DEF InsertedAreHeld
  <2>12. CASE Commit(r) \/ (batch[r].stage \in Active /\ Abandon(r))
    <3>1. PICK state \in {"committed", "absent"} : Release(r, state)
      BY <2>12 DEF Commit, Abandon
    <3>2. \A l \in Learners : l # r => batch'[l] = batch[l]
      BY <2>2, <2>12 DEF Commit, Abandon
    <3>3. ASSUME NEW row \in Rows, catalog'[row] = "inserted"
          PROVE  \E l \in Learners : row \in batch'[l].held
      <4>1. row \notin batch[r].held /\ catalog[row] = "inserted"
        BY <3>1, <3>3 DEF Release
      <4>2. PICK l \in Learners : row \in batch[l].held
        BY <4>1 DEF InsertedAreHeld
      <4> QED
        BY <3>2, <4>1, <4>2
    <3> QED
      BY <3>3 DEF InsertedAreHeld
  <2> QED
    BY <2>1, <2>4, <2>5, <2>6, <2>7, <2>8, <2>9, <2>10, <2>11, <2>12
<1> QED
  BY <1>1, <1>2

(* Runs never all wait for rows that nobody will give up: while one is     *)
(* active there is one that does not wait, or there is a circle of runs    *)
(* that wait for one another, which Postgres sees and breaks               *)
(* (DeadlockVictim).                                                       *)
THEOREM RunsAreNotStuck == Spec => []NobodyIsStuck
<1> DEFINE Inv == Typed /\ CatalogInv /\ InsertedAreHeld
<1>1. Init => Inv
  BY InitTyped, InitCatalog DEF Init, InsertedAreHeld
<1>2. Inv /\ [Next]_vars => Inv'
  BY StepTyped, StepCatalog, StepHeld DEF Typed
<1>3. Inv => NobodyIsStuck
  <2> SUFFICES ASSUME Inv, NEW r \in Learners, batch[r].stage \in Active,
                      \A w \in Learners : batch[w].stage \in Active => Waiting(w)
               PROVE  \E cycle \in (SUBSET Learners) \ {{}} : WaitingForOneAnother(cycle)
    BY DEF NobodyIsStuck
  <2> DEFINE cycle == {w \in Learners : batch[w].stage \in Active}
  <2>1. cycle \in (SUBSET Learners) \ {{}}
    OBVIOUS
  <2>2. ASSUME NEW w \in cycle, NEW row \in batch[w].missing
        PROVE  \E h \in cycle : row \in batch[h].held
    <3>1. row \in Rows /\ catalog[row] = "inserted"
      BY <2>2 DEF Waiting, Typed, TypeOK, BatchRun
    <3>2. PICK h \in Learners : row \in batch[h].held
      BY <3>1 DEF InsertedAreHeld
    <3>3. batch[h].stage \in Active
      BY <3>2 DEF CatalogInv, RowsAccounted
    <3> QED
      BY <3>2, <3>3
  <2>3. WaitingForOneAnother(cycle)
    BY <2>2 DEF WaitingForOneAnother
  <2> QED
    BY <2>1, <2>3
<1> QED
  BY <1>1, <1>2, <1>3, PTL DEF Spec
=============================================================================
