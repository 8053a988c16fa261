--------------------------- MODULE BatchLearning ---------------------------
(***************************************************************************)
(* eval/run_batch.py: batch runs that learn from synthetic events.  POST   *)
(* /simulations/run and the command line share the Redis statistics of     *)
(* BanditStore; POST /pipeline/run-batch gives each run a policy of its    *)
(* own.  A run writes the catalogue rows it misses, then works through its *)
(* drafts - sample an arm, ask the gate, simulate, update the bandit - and *)
(* commits everything it has to say to Postgres in one transaction, at the *)
(* end.  The bandit has learned long before that.                          *)
(***************************************************************************)
EXTENDS BanditStore, Functions

CONSTANTS
  Stop,         \* the arm that does nothing
  Retry,        \* the arm of BaselinePolicy, and the only one it lists
  Histories,    \* sets of runs, <<merchant, policy>>, that may have been made
  Drafts        \* how many events each run simulates

(* The bandit on the shared statistics, the bandit on statistics of the    *)
(* run's own, and BaselinePolicy.                                          *)
Policies == {"redis", "memory", "baseline"}

(* The arms a policy lists in get_stats are those it will look up.         *)
ArmsOf(policy) == IF policy = "baseline" THEN {Retry} ELSE Arms

ASSUME BatchAssumption ==
  /\ Histories \subseteq SUBSET (Merchants \X Policies)
  /\ Stop \in Arms /\ Retry \in Arms /\ Stop # Retry
  /\ Merchants \cap Arms = {}
  /\ Drafts \in [Learners -> Nat \ {0}]

(* Merchants and arms are lists in the code, and learners are threads.     *)
ASSUME FiniteAssumption ==
  IsFiniteSet(Learners) /\ IsFiniteSet(Merchants) /\ IsFiniteSet(Arms)

VARIABLES
  catalog,   \* rows of merchants and arms: absent, inserted or committed
  batch      \* the batch runs

vars == <<storeVars, catalog, batch>>

Rows == Merchants \cup Arms
Outcomes == {"recovered", "not_recovered", "blocked"}
Stages == {"idle", "preparing", "sampling", "updating", "committing",
           "done", "failed"}
Metrics == [Outcomes -> Nat]

(* unlooked: rows still to look up; missing: rows it did not find and has  *)
(* still to insert; held: those it has inserted; unread: keys whose        *)
(* statistics it still has to read.                                        *)
BatchRun == [stage : Stages, policy : Policies, merchant : Merchants,
             unlooked : SUBSET Rows, missing : SUBSET Rows, held : SUBSET Rows,
             unread : SUBSET Keys, metrics : Metrics]
NoMetrics == [outcome \in Outcomes |-> 0]

Seen(metrics) ==
  metrics["recovered"] + metrics["blocked"] + metrics["not_recovered"]

Init ==
  /\ StoreInit
  /\ \E earlier \in Histories :
       catalog = [row \in Rows |->
         IF \E run \in earlier : row \in {run[1]} \cup ArmsOf(run[2])
         THEN "committed" ELSE "absent"]
  /\ \E m \in Merchants :
       batch = [r \in Learners |->
         [stage |-> "idle", policy |-> "redis", merchant |-> m,
          unlooked |-> {}, missing |-> {}, held |-> {}, unread |-> {},
          metrics |-> NoMetrics]]

Go(r, stage) == batch' = [batch EXCEPT ![r].stage = stage]

(***************************************************************************)
(* Setting up: lines 102-126                                               *)
(***************************************************************************)
StartRun(r, m, p) ==
  /\ batch[r].stage = "idle"
  /\ batch' = [batch EXCEPT ![r].stage = "preparing", ![r].policy = p,
                 ![r].merchant = m, ![r].unlooked = {m} \cup ArmsOf(p)]
  /\ UNCHANGED <<storeVars, catalog>>

(* Merchants are looked up before arms, and stop is the last of ARMS.      *)
IsNextRow(row, rest) ==
  /\ row \in rest
  /\ row \in Arms => rest \cap Merchants = {}
  /\ row = Stop => rest = {Stop}

(* Mutation: a dirty read.                                                 *)
Look_Dirty(r, row) ==
  /\ batch[r].stage = "preparing" /\ IsNextRow(row, batch[r].unlooked)
  /\ batch' = [batch EXCEPT ![r].unlooked = @ \ {row},
       ![r].missing = IF catalog[row] # "absent" THEN @ ELSE @ \cup {row}]
  /\ UNCHANGED <<storeVars, catalog>>
(* A query sees committed rows only, and not the run's own additions       *)
(* (autoflush is off).                                                     *)
Look(r, row) ==
  /\ batch[r].stage = "preparing" /\ IsNextRow(row, batch[r].unlooked)
  /\ batch' = [batch EXCEPT ![r].unlooked = @ \ {row},
       ![r].missing = IF catalog[row] = "committed" THEN @ ELSE @ \cup {row}]
  /\ UNCHANGED <<storeVars, catalog>>

(* The flush inserts row after row; the unit of work does not promise an   *)
(* order.  A row that another open transaction has inserted makes this one *)
(* wait; one committed since it was looked up makes it fail (Duplicate).   *)
InsertRow(r, row) ==
  /\ batch[r].stage = "preparing" /\ batch[r].unlooked = {}
  /\ row \in batch[r].missing
  /\ catalog[row] = "absent"
  /\ catalog' = [catalog EXCEPT ![row] = "inserted"]
  /\ batch' = [batch EXCEPT ![r].missing = @ \ {row},
                            ![r].held = @ \cup {row}]
  /\ UNCHANGED storeVars

(* The keys sample_arm reads: for every arm the merchant's, then the       *)
(* pooled one.  Private policies have no reader or writer but this run.    *)
KeysToRead(r) == IF batch[r].policy = "redis"
                 THEN {batch[r].merchant, GLOBAL} \X Arms ELSE {}
BeginDraft(r) ==
  batch' = [batch EXCEPT ![r].stage = "sampling", ![r].unread = KeysToRead(r)]

SetUp(r) ==
  /\ batch[r].stage = "preparing"
  /\ batch[r].unlooked = {} /\ batch[r].missing = {}
  /\ BeginDraft(r)
  /\ UNCHANGED <<storeVars, catalog>>

(***************************************************************************)
(* A draft: lines 163-288                                                  *)
(***************************************************************************)
(* get_stats reads the merchant's key and then the pooled one.             *)
IsNextKey(k, rest) ==
  /\ k \in rest
  /\ k[1] = GLOBAL => rest \cap (Merchants \X {k[2]}) = {}
  /\ k[2] = Stop => rest \subseteq Scopes \X {Stop}

ReadStats(r, k) ==
  /\ batch[r].stage = "sampling" /\ IsNextKey(k, batch[r].unread)
  /\ ~Broken(k)
  /\ batch' = [batch EXCEPT ![r].unread = @ \ {k}]
  /\ UNCHANGED <<storeVars, catalog>>

Reward(outcome) == IF outcome = "recovered" THEN 10
                   ELSE IF outcome = "blocked" THEN -1 ELSE 0

(* Stop always passes the gate and never recovers anything.                *)
GateBlocks(a) == IF a = Stop THEN {} ELSE {"blocked"}
Simulated(a) == IF a = Stop THEN {"not_recovered"} ELSE {"recovered", "not_recovered"}
PossibleOutcomes(a) == GateBlocks(a) \cup Simulated(a)

(* The sampled arm and the simulated outcome are random.  The counters are *)
(* the run's own until it commits, so it does not matter that the code     *)
(* adds to some of them after the update.                                  *)
Decide(r, a, outcome) ==
  /\ batch[r].stage = "sampling" /\ batch[r].unread = {}
  /\ a \in ArmsOf(batch[r].policy) /\ outcome \in PossibleOutcomes(a)
  /\ batch' = [batch EXCEPT ![r].stage = "updating",
                            ![r].metrics[outcome] = @ + 1]
  /\ IF batch[r].policy = "redis"
     THEN BeginUpdate(r, batch[r].merchant, a, Reward(outcome))
     ELSE UNCHANGED update
  /\ UNCHANGED <<seeded, learned, repeated, repeats, catalog>>

Learn(r) ==
  /\ batch[r].stage = "updating"
  /\ Command(r)
  /\ UNCHANGED <<catalog, batch>>

(* The bandit is updated and the draft's audit row added to the session;   *)
(* then comes the next draft, or the commit.                               *)
Record(r) ==
  /\ batch[r].stage = "updating" /\ Updated(r)
  /\ IF Seen(batch[r].metrics) = Drafts[r] THEN Go(r, "committing") ELSE BeginDraft(r)
  /\ UNCHANGED <<storeVars, catalog>>

(***************************************************************************)
(* The end of a run                                                        *)
(***************************************************************************)
Release(r, state) ==
  catalog' = [row \in Rows |-> IF row \in batch[r].held THEN state ELSE catalog[row]]

Commit(r) ==
  /\ batch[r].stage = "committing"
  /\ Release(r, "committed")
  /\ batch' = [batch EXCEPT ![r].stage = "done", ![r].held = {}]
  /\ UNCHANGED storeVars

(* Mutation: the session is not closed.                                    *)
Abandon_Open(r) ==
  /\ Go(r, "failed")
  /\ UNCHANGED <<storeVars, catalog>>
(* An exception of Redis or Postgres, or the death of the process: the     *)
(* transaction is rolled back and the counts are gone.  Redis keeps what   *)
(* it was told, and an update under way stays where it is.                 *)
Abandon(r) ==
  /\ Release(r, "absent")
  /\ batch' = [batch EXCEPT ![r].stage = "failed", ![r].held = {},
                 ![r].unlooked = {}, ![r].missing = {}, ![r].unread = {},
                 ![r].metrics = NoMetrics]
  /\ UNCHANGED storeVars

Active == {"preparing", "sampling", "updating", "committing"}

Fail(r) == batch[r].stage \in Active /\ Abandon(r)

(* The failures the code itself runs into: a duplicate key, a cycle of     *)
(* waiting transactions (Postgres fails one of them), a hash that lacks a  *)
(* field.                                                                  *)
Duplicate(r) ==
  /\ batch[r].stage = "preparing" /\ batch[r].unlooked = {}
  /\ \E row \in batch[r].missing : catalog[row] = "committed"
  /\ Abandon(r)
DeadlockVictim(r) ==
  /\ \E cycle \in SUBSET Learners : r \in cycle /\ \A w \in cycle :
       /\ batch[w].stage = "preparing"
       /\ batch[w].unlooked = {} /\ batch[w].missing # {}
       /\ \A row \in batch[w].missing : \E h \in cycle : row \in batch[h].held
  /\ Abandon(r)
ReadBroken(r) ==
  /\ batch[r].stage = "sampling"
  /\ \E k \in Keys : IsNextKey(k, batch[r].unread) /\ Broken(k)
  /\ Abandon(r)

Step(r) ==
  \/ \E row \in Rows : Look(r, row) \/ InsertRow(r, row)
  \/ SetUp(r) \/ \E k \in Keys : ReadStats(r, k)
  \/ \E a \in Arms, outcome \in Outcomes : Decide(r, a, outcome)
  \/ Learn(r) \/ Record(r) \/ Commit(r)
  \/ Duplicate(r) \/ DeadlockVictim(r) \/ ReadBroken(r)

Next == \E r \in Learners :
  \/ \E m \in Merchants, p \in Policies : StartRun(r, m, p)
  \/ Step(r) \/ Fail(r)

(* A run that has started is a thread the scheduler runs; Postgres grants  *)
(* a lock when its holder is gone and breaks cycles.  Nobody has to start  *)
(* a run.                                                                  *)
Fairness == \A r \in Learners : WF_vars(Step(r))
Spec == Init /\ [][Next]_vars /\ Fairness

(***************************************************************************)
(* Properties                                                              *)
(***************************************************************************)
TypeOK ==
  /\ StoreTypeOK
  /\ catalog \in [Rows -> {"absent", "inserted", "committed"}]
  /\ batch \in [Learners -> BatchRun]
  /\ \A r \in Learners : Seen(batch[r].metrics) <= Drafts[r]

Once(k, f) == learned[<<k, f>>] - repeated[<<k, f>>]
Owing(a, f) ==
  {l \in Learners : update[l].step = 6 /\ update[l].arm = a /\ update[l].field = f}

(* The pooled statistics are the sum of the merchants', except for the     *)
(* increments whose learner has done the merchant's key and not yet, or    *)
(* never, the pooled one.                                                  *)
GlobalPoolsMerchants ==
  \A a \in Arms, f \in Fields :
    SumFunction([m \in Merchants |-> Once(<<m, a>>, f)])
      = Once(<<GLOBAL, a>>, f) + SumFunction([l \in Owing(a, f) |-> update[l].amount])

RunsOf(m) == {r \in Learners : /\ batch[r].policy = "redis"
                               /\ batch[r].merchant = m /\ batch[r].stage # "idle"}
DoneFor(m) == {r \in RunsOf(m) : batch[r].stage = "done"}

(* What the counts of a run are worth to a field of its merchant's keys.   *)
Worth(metrics, f) ==
  IF f = "alpha" THEN 10 * metrics["recovered"]
  ELSE 10 * metrics["not_recovered"] + metrics["blocked"]

(* The counts a run commits are in its merchant's statistics: its rewards  *)
(* were learned once each.  What else was learned comes from runs that     *)
(* have not committed, or never will.                                      *)
CommittedIsLearned ==
  \A m \in Merchants, f \in Fields :
    LET known == SumFunction([a \in Arms |-> Once(<<m, a>>, f)])
        counted == SumFunction([r \in DoneFor(m) |-> Worth(batch[r].metrics, f)])
    IN  known >= counted /\ (RunsOf(m) = DoneFor(m) => known = counted)

(* A committed run refers to its merchant and to its arms, and those rows  *)
(* are committed too, whoever inserted them and whatever became of him.    *)
ReferencesCommitted ==
  \A r \in Learners : batch[r].stage = "done" =>
    \A row \in {batch[r].merchant} \cup ArmsOf(batch[r].policy) : catalog[row] = "committed"

(* A run that starts ends, and no run waits for ever for a row that nobody *)
(* will commit or roll back: time and again no run is active (and none     *)
(* starts twice).                                                          *)
RunsEnd == []<>(\A r \in Learners : batch[r].stage \notin Active)
=============================================================================
