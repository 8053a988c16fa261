------------------------ MODULE CircuitBreakerProofs ------------------------
(***************************************************************************)
(* What the breaker's hash guarantees for any number of workers, any       *)
(* threshold, any number of crashes and any number of commands sent again. *)
(***************************************************************************)
EXTENDS CircuitBreaker, FiniteSetTheorems, TLAPS

USE BreakerAssumption

(* Steps that leave the hash alone, but for the time going by.             *)
Quiet(w) ==
  \/ ShouldAllowAttempt(w) \/ (\E ok \in BOOLEAN : Attempt(w, ok))
  \/ RecordProbe(w) \/ RecordCount(w) \/ Recheck(w) \/ Crash(w)

LEMMA StepsByEffect ==
  ASSUME Next
  PROVE  \/ Elapse
         \/ \E w \in Workers : \/ Quiet(w) \/ EnterHalfOpen(w) \/ ClearOpenedAt(w)
                               \/ SetState(w) \/ IncAttempts(w) \/ IncFailures(w)
                               \/ Trip(w)
  BY DEF Next, Work, RecordResult, Quiet

(* Each step is one worker's, and moves it to a pc that its action names.  *)
LEMMA OneWorker ==
  ASSUME TypeOK, NEW w \in Workers,
         \/ Quiet(w) \/ EnterHalfOpen(w) \/ ClearOpenedAt(w) \/ SetState(w)
         \/ IncAttempts(w) \/ IncFailures(w) \/ Trip(w)
  PROVE  /\ workers' \in [Workers -> [pc : PC, succeeded : BOOLEAN, target : CircuitState]]
         /\ \A v \in Workers \ {w} : workers'[v] = workers[v]
         /\ crashes' \in 0 .. MaxCrashes /\ crashes <= crashes'
         /\ repeats' \in 0 .. MaxRepeats /\ recounted' \in 0 .. repeats'
  <1>0. workers[w] \in [pc : PC, succeeded : BOOLEAN, target : CircuitState]
      BY DEF TypeOK
  <1>1. ASSUME NEW p \in PC, workers' = [workers EXCEPT ![w].pc = p]
        PROVE  /\ workers' \in [Workers -> [pc : PC, succeeded : BOOLEAN, target : CircuitState]]
               /\ \A v \in Workers \ {w} : workers'[v] = workers[v]
      BY <1>1 DEF TypeOK
  <1>2. ASSUME NEW ok \in BOOLEAN, Attempt(w, ok)
        PROVE  /\ workers' \in [Workers -> [pc : PC, succeeded : BOOLEAN, target : CircuitState]]
               /\ \A v \in Workers \ {w} : workers'[v] = workers[v]
    <2>1. "recording" \in PC
        BY DEF PC
    <2> QED BY <1>2, <2>1 DEF Attempt, TypeOK
  <1>3. ASSUME RecordProbe(w)
        PROVE  /\ workers' \in [Workers -> [pc : PC, succeeded : BOOLEAN, target : CircuitState]]
               /\ \A v \in Workers \ {w} : workers'[v] = workers[v]
    <2>1. PICK t \in CircuitState :
            workers' = [workers EXCEPT ![w].pc = "clearing", ![w].target = t]
        BY <1>3 DEF RecordProbe, CircuitState
    <2>2. "clearing" \in PC
        BY DEF PC
    <2> QED BY <2>1, <2>2 DEF TypeOK
  <1>4. crashes' \in 0 .. MaxCrashes /\ crashes <= crashes'
      BY DEF TypeOK, Quiet, ShouldAllowAttempt, AllowClosed, SeeCooledOff, AllowHalfOpen, Attempt,
         RecordProbe, RecordCount, Recheck, Crash, EnterHalfOpen, ClearOpenedAt, SetState,
         IncAttempts, IncFailures, Trip
  <1>5. ASSUME ~(\E ok \in BOOLEAN : Attempt(w, ok)), ~RecordProbe(w), workers' # workers
        PROVE  \E p \in PC : workers' = [workers EXCEPT ![w].pc = p]
      BY <1>5 DEF PC, Goto, Reply, Quiet, ShouldAllowAttempt, AllowClosed, SeeCooledOff,
         AllowHalfOpen, RecordCount, Recheck, Crash, EnterHalfOpen, ClearOpenedAt, SetState,
         IncAttempts, IncFailures, Trip
  <1>6. ASSUME workers' = workers
        PROVE  /\ workers' \in [Workers -> [pc : PC, succeeded : BOOLEAN, target : CircuitState]]
               /\ \A v \in Workers \ {w} : workers'[v] = workers[v]
      BY <1>6 DEF TypeOK
  <1>7. /\ repeats' \in 0 .. MaxRepeats
        /\ \/ repeats' = repeats
           \/ repeats' = repeats + 1
    <2>1. CASE Quiet(w)
        BY <2>1 DEF TypeOK, Quiet, ShouldAllowAttempt, AllowClosed, SeeCooledOff, AllowHalfOpen,
           Attempt, RecordProbe, RecordCount, Recheck, Crash
    <2>2. CASE ~Quiet(w)
        BY <2>2 DEF TypeOK, Reply, EnterHalfOpen, ClearOpenedAt, SetState, IncAttempts,
           IncFailures, Trip
    <2> QED BY <2>1, <2>2
  <1>8. \/ recounted' = recounted
        \/ recounted' = 0
        \/ recounted' = recounted + (repeats' - repeats)
      BY DEF Quiet, ShouldAllowAttempt, AllowClosed, SeeCooledOff, AllowHalfOpen, Attempt,
         RecordProbe, RecordCount, Recheck, Crash, EnterHalfOpen, ClearOpenedAt, SetState,
         IncAttempts, IncFailures, Trip
  <1>9. recounted' \in 0 .. repeats'
      BY <1>7, <1>8 DEF TypeOK
  <1> QED BY <1>1, <1>2, <1>3, <1>4, <1>5, <1>6, <1>7, <1>9

LEMMA TypeStarts == Init => TypeOK
  BY DEF Init, TypeOK, CircuitState, PC

LEMMA TypeSteps == TypeOK /\ [Next]_vars => TypeOK'
  <1> SUFFICES ASSUME TypeOK, [Next]_vars PROVE TypeOK'
      OBVIOUS
  <1>1. ASSUME NEW w \in Workers,
               \/ Quiet(w) \/ EnterHalfOpen(w) \/ ClearOpenedAt(w) \/ SetState(w)
               \/ IncAttempts(w) \/ IncFailures(w) \/ Trip(w)
        PROVE  TypeOK'
    <2>1. workers[w].target \in CircuitState
        BY DEF TypeOK
    <2>2. ASSUME Quiet(w) PROVE hash' = hash
        BY <2>2 DEF Quiet, ShouldAllowAttempt, AllowClosed, SeeCooledOff, AllowHalfOpen, Attempt,
           RecordProbe, RecordCount, Recheck, Crash
    <2>3. hash' \in [state : CircuitState, recent_failures : Nat, recent_attempts : Nat,
                     opened_at : {"none", "fresh", "elapsed"}]
      <3>1. CASE Quiet(w)
          BY <3>1, <2>2 DEF TypeOK
      <3>2. CASE EnterHalfOpen(w) \/ ClearOpenedAt(w) \/ Trip(w)
          BY <3>2 DEF TypeOK, CircuitState, EnterHalfOpen, ClearOpenedAt, Trip
      <3>3. CASE SetState(w)
          BY <3>3, <2>1 DEF TypeOK, SetState
      <3>4. CASE IncAttempts(w) \/ IncFailures(w)
          BY <3>4 DEF TypeOK, IncAttempts, IncFailures
      <3> QED BY <1>1, <3>1, <3>2, <3>3, <3>4
    <2> QED BY <1>1, <2>3, OneWorker DEF TypeOK
  <1>2. ASSUME Elapse PROVE TypeOK'
      BY <1>2 DEF Elapse, TypeOK
  <1>3. ASSUME UNCHANGED vars PROVE TypeOK'
      BY <1>3 DEF vars, TypeOK
  <1> QED BY <1>1, <1>2, <1>3, StepsByEffect

(* What the hash and the workers hold has its type, whatever is read from  *)
(* the hash between two workers' commands.                                 *)
THEOREM TypeCorrect == Spec => []TypeOK
  BY TypeStarts, TypeSteps, PTL DEF Spec

(***************************************************************************)
(* Open without a timestamp                                                *)
(***************************************************************************)
(* A worker that has begun to reset the breaker and is not done with it.   *)
InReset(w) == workers[w].pc \in {"clearing", "setting"}

LEMMA TimestampSteps == TypeOK /\ OpenHasTimestamp /\ [Next]_vars => OpenHasTimestamp'
  <1> SUFFICES ASSUME TypeOK, OpenHasTimestamp, [Next]_vars,
                      crashes' = 0, hash'.state = "open", hash'.opened_at = "none"
               PROVE  \E w \in Workers : InReset(w)'
      BY DEF OpenHasTimestamp, InReset, At
  <1>1. ASSUME NEW w \in Workers, Quiet(w) PROVE \E v \in Workers : InReset(v)'
    <2>1. hash' = hash /\ crashes = 0
        BY <1>1 DEF Quiet, ShouldAllowAttempt, AllowClosed, SeeCooledOff, AllowHalfOpen, Attempt,
           RecordProbe, RecordCount, Recheck, Crash, TypeOK
    <2>2. PICK v \in Workers : InReset(v)
        BY <2>1 DEF OpenHasTimestamp, InReset, At
    <2>3. v # w
        BY <1>1, <2>1, <2>2 DEF Quiet, ShouldAllowAttempt, AllowClosed, SeeCooledOff,
           AllowHalfOpen, Attempt, RecordProbe, RecordCount, Recheck, Crash, InReset,
           At, TypeOK
    <2>4. workers'[v] = workers[v]
        BY <1>1, <2>3, OneWorker
    <2> QED BY <2>2, <2>4 DEF InReset, At
  <1>2. ASSUME NEW w \in Workers, ClearOpenedAt(w) PROVE InReset(w)'
      BY <1>2 DEF ClearOpenedAt, Reply, Goto, InReset, At, TypeOK
  <1>3. ASSUME NEW w \in Workers, EnterHalfOpen(w) \/ SetState(w) \/ Trip(w)
        PROVE  \E v \in Workers : InReset(v)'
    <2>1. CASE EnterHalfOpen(w)
        BY <2>1 DEF EnterHalfOpen, TypeOK
    <2>2. CASE SetState(w)
        BY <2>2 DEF SetState, TypeOK
    <2>3. CASE Trip(w)
        BY <2>3 DEF Trip, TypeOK
    <2> QED BY <1>3, <2>1, <2>2, <2>3
  <1>4. ASSUME NEW w \in Workers, IncAttempts(w) \/ IncFailures(w)
        PROVE  \E v \in Workers : InReset(v)'
    <2>1. hash.state = "open" /\ hash.opened_at = "none" /\ crashes = 0
        BY <1>4 DEF IncAttempts, IncFailures, TypeOK
    <2>2. PICK v \in Workers : InReset(v)
        BY <2>1 DEF OpenHasTimestamp, InReset, At
    <2>3. v # w
        BY <1>4, <2>2 DEF IncAttempts, IncFailures, InReset, At
    <2>4. workers'[v] = workers[v]
        BY <1>4, <2>3, OneWorker
    <2> QED BY <2>2, <2>4 DEF InReset, At
  <1>5. ASSUME Elapse PROVE FALSE
      BY <1>5 DEF Elapse, TypeOK
  <1>6. ASSUME UNCHANGED vars PROVE \E v \in Workers : InReset(v)'
      BY <1>6 DEF vars, OpenHasTimestamp, InReset, At
  <1> QED BY <1>1, <1>2, <1>3, <1>4, <1>5, <1>6, StepsByEffect

(* Short of a crash, an open breaker lacks opened_at (and so refuses) only *)
(* while some worker is on its way through a reset, its HDEL and its HSET. *)
THEOREM TimestampIsKept == Spec => []OpenHasTimestamp
  <1>1. Init => OpenHasTimestamp
      BY DEF Init, OpenHasTimestamp
  <1> QED BY <1>1, TypeCorrect, TimestampSteps, PTL DEF Spec

(***************************************************************************)
(* Torn counts                                                             *)
(***************************************************************************)
(* Workers that have counted the attempt of a failure, not yet the failure.*)
Torn == {w \in Workers : At(w, "inc_failures")}

(* Every failure that is to come has its attempt counted, or a reset wiped *)
(* the attempt away: it can do so to every worker but the one that resets. *)
(* A failure counted again was not to come.                                *)
FailuresToCome ==
  hash.recent_failures + Cardinality(Torn) <=
    hash.recent_attempts + Cardinality(Workers) - 1 + recounted

LEMMA TornIsFinite ==
  /\ IsFiniteSet(Torn) /\ Cardinality(Torn) \in Nat
  /\ Cardinality(Workers) \in Nat \ {0}
  <1>1. IsFiniteSet(Torn)
      BY FS_Subset DEF Torn
  <1>2. Cardinality(Torn) \in Nat /\ Cardinality(Workers) \in Nat
      BY <1>1, FS_CardinalityType
  <1>3. Cardinality(Workers) # 0
      BY FS_EmptySet
  <1> QED BY <1>1, <1>2, <1>3

LEMMA TornShrinks ==
  ASSUME NEW S, S \subseteq Torn PROVE Cardinality(S) \in Nat /\ Cardinality(S) <= Cardinality(Torn)
  BY TornIsFinite, FS_Subset, FS_CardinalityType

LEMMA TornSteps == TypeOK /\ FailuresToCome /\ [Next]_vars => FailuresToCome'
  <1> SUFFICES ASSUME TypeOK, FailuresToCome, [Next]_vars PROVE FailuresToCome'
      OBVIOUS
  <1> DEFINE n == Cardinality(Workers)
  <1>a. n \in Nat \ {0} /\ Cardinality(Torn) \in Nat
      BY TornIsFinite
  <1>b. /\ hash.recent_failures \in Nat /\ hash.recent_attempts \in Nat
        /\ recounted \in Nat
      BY DEF TypeOK
  <1>1. ASSUME NEW w \in Workers,
               Quiet(w) \/ EnterHalfOpen(w) \/ ClearOpenedAt(w) \/ Trip(w)
        PROVE  FailuresToCome'
    <2>1. /\ hash'.recent_failures = hash.recent_failures
          /\ hash'.recent_attempts = hash.recent_attempts
          /\ recounted' = recounted
        BY <1>1 DEF TypeOK, Quiet, ShouldAllowAttempt, AllowClosed, SeeCooledOff, AllowHalfOpen,
           Attempt, RecordProbe, RecordCount, Recheck, Crash, EnterHalfOpen, ClearOpenedAt, Trip
    <2>2. workers'[w].pc # "inc_failures"
        BY <1>1 DEF TypeOK, Quiet, ShouldAllowAttempt, AllowClosed, SeeCooledOff, AllowHalfOpen,
           Attempt, RecordProbe, RecordCount, Recheck, Crash, EnterHalfOpen, ClearOpenedAt, Trip,
           Reply, Goto, At
    <2>3. Torn' \subseteq Torn
        BY <1>1, <2>2, OneWorker DEF Torn, At
    <2>4. Cardinality(Torn') \in Nat /\ Cardinality(Torn') <= Cardinality(Torn)
        BY <2>3, TornShrinks
    <2> QED BY <1>a, <1>b, <2>1, <2>4 DEF FailuresToCome
  <1>2. ASSUME NEW w \in Workers, SetState(w) PROVE FailuresToCome'
    <2>1. hash'.recent_failures = 0 /\ hash'.recent_attempts = 0 /\ recounted' = 0
        BY <1>2 DEF SetState, TypeOK
    <2>2. workers'[w].pc # "inc_failures"
        BY <1>2 DEF SetState, Reply, Goto, At, TypeOK
    <2>3. Torn' \subseteq Workers \ {w}
        BY <2>2 DEF Torn, At
    <2>4. IsFiniteSet(Workers \ {w}) /\ Cardinality(Workers \ {w}) = n - 1
        BY FS_RemoveElement
    <2>5. Cardinality(Torn') <= n - 1 /\ Cardinality(Torn') \in Nat
        BY <2>3, <2>4, FS_Subset, FS_CardinalityType
    <2> QED BY <1>a, <2>1, <2>5 DEF FailuresToCome
  <1>3. ASSUME NEW w \in Workers, IncAttempts(w) PROVE FailuresToCome'
    <2>1. /\ hash'.recent_failures = hash.recent_failures
          /\ hash'.recent_attempts = hash.recent_attempts + 1
          /\ recounted' = recounted
        BY <1>3 DEF IncAttempts, TypeOK
    <2>2. Torn' \subseteq Torn \cup {w}
        BY <1>3, OneWorker DEF Torn, At
    <2>3. /\ IsFiniteSet(Torn \cup {w}) /\ Cardinality(Torn \cup {w}) \in Nat
          /\ Cardinality(Torn \cup {w}) <= Cardinality(Torn) + 1
      <3>1. /\ IsFiniteSet(Torn \cup {w})
            /\ \/ Cardinality(Torn \cup {w}) = Cardinality(Torn)
               \/ Cardinality(Torn \cup {w}) = Cardinality(Torn) + 1
        <4>1. IsFiniteSet(Torn)
            BY TornIsFinite
        <4> QED BY <4>1, FS_AddElement
      <3> QED BY <1>a, <3>1
    <2>4. Cardinality(Torn') \in Nat /\ Cardinality(Torn') <= Cardinality(Torn) + 1
        BY <1>a, <2>2, <2>3, FS_Subset, FS_CardinalityType
    <2> QED BY <1>a, <1>b, <2>1, <2>4 DEF FailuresToCome
  <1>4. ASSUME NEW w \in Workers, IncFailures(w) PROVE FailuresToCome'
    <2>1. /\ hash'.recent_failures = hash.recent_failures + 1
          /\ hash'.recent_attempts = hash.recent_attempts
          /\ recounted' = recounted + (repeats' - repeats)
          /\ w \in Torn
        BY <1>4 DEF IncFailures, TypeOK, Torn, At
    <2>2. CASE Goto(w, "rechecking") /\ UNCHANGED repeats
      <3>1. workers'[w].pc # "inc_failures"
          BY <2>2 DEF Goto, TypeOK
      <3>2. Torn' \subseteq Torn \ {w}
          BY <1>4, <3>1, OneWorker DEF Torn, At
      <3>3. IsFiniteSet(Torn \ {w}) /\ Cardinality(Torn \ {w}) = Cardinality(Torn) - 1
          BY <2>1, TornIsFinite, FS_RemoveElement
      <3>4. Cardinality(Torn') <= Cardinality(Torn) - 1 /\ Cardinality(Torn') \in Nat
          BY <3>2, <3>3, FS_Subset, FS_CardinalityType
      <3>5. recounted' = recounted
          BY <1>b, <2>1, <2>2 DEF TypeOK
      <3> QED BY <1>a, <1>b, <2>1, <3>4, <3>5 DEF FailuresToCome
    <2>3. CASE repeats' = repeats + 1 /\ UNCHANGED workers
      <3>1. Torn' = Torn
          BY <2>3 DEF Torn, At
      <3>2. recounted' = recounted + 1
          BY <1>b, <2>1, <2>3 DEF TypeOK
      <3> QED BY <1>a, <1>b, <2>1, <3>1, <3>2 DEF FailuresToCome
    <2> QED BY <1>4, <2>2, <2>3 DEF IncFailures, Reply
  <1>5. ASSUME Elapse PROVE FailuresToCome'
      BY <1>5 DEF Elapse, FailuresToCome, TypeOK, Torn, At
  <1>6. ASSUME UNCHANGED vars PROVE FailuresToCome'
      BY <1>6 DEF vars, FailuresToCome, Torn, At
  <1> QED BY <1>1, <1>2, <1>3, <1>4, <1>5, <1>6, StepsByEffect

(* Concurrent resets leave at most one failure too many for each worker    *)
(* but the one that resets, and the client's repetitions one for each that *)
(* was applied twice.                                                      *)
THEOREM TornCountsAreBounded == Spec => []TornCountsBounded
  <1>1. Init => FailuresToCome
    <2> SUFFICES ASSUME Init PROVE FailuresToCome
        OBVIOUS
    <2>1. Torn = {}
        BY DEF Init, Torn, At
    <2>2. hash.recent_failures = 0 /\ hash.recent_attempts = 0 /\ recounted = 0
        BY DEF Init
    <2> QED BY <2>1, <2>2, TornIsFinite, FS_EmptySet DEF FailuresToCome
  <1>2. TypeOK /\ FailuresToCome => TornCountsBounded
      BY TornIsFinite DEF TypeOK, FailuresToCome, TornCountsBounded
  <1> QED BY <1>1, <1>2, TypeCorrect, TornSteps, PTL DEF Spec

(***************************************************************************)
(* One worker alone                                                        *)
(***************************************************************************)
(* What a worker has read of the state is still true when it acts on it,   *)
(* or its own command has been applied already and is sent again.          *)
FreshRead(w) ==
  /\ At(w, "to_half_open") => hash.state # "closed"
  /\ workers[w].pc \in {"attempting", "recording"} => hash.state # "open"
  /\ At(w, "clearing") => hash.state = "half_open"
  /\ At(w, "setting") => hash.state \in {"half_open", workers[w].target}
  /\ workers[w].pc \in {"clearing", "setting"} => workers[w].target # "half_open"
  /\ workers[w].pc \in {"inc_attempts", "inc_failures", "rechecking"} =>
       hash.state = "closed"
  /\ At(w, "tripping") => hash.state # "half_open"

LEMMA FreshReadSteps ==
  ASSUME NEW w \in Workers, Workers = {w}
  PROVE  TypeOK /\ FreshRead(w) /\ [Next]_vars =>
           FreshRead(w)' /\ [FSM!Next]_(hash.state)
  <1> SUFFICES ASSUME TypeOK, FreshRead(w), [Next]_vars
               PROVE  FreshRead(w)' /\ [FSM!Next]_(hash.state)
      OBVIOUS
  <1>0. /\ hash.state \in CircuitState /\ workers[w].target \in CircuitState
        /\ workers \in [Workers -> [pc : PC, succeeded : BOOLEAN, target : CircuitState]]
        /\ hash \in [state : CircuitState, recent_failures : Nat, recent_attempts : Nat,
                     opened_at : {"none", "fresh", "elapsed"}]
      BY DEF TypeOK
  <1>1. ASSUME ShouldAllowAttempt(w) PROVE FreshRead(w)' /\ hash' = hash
      BY <1>0, <1>1 DEF ShouldAllowAttempt, AllowClosed, SeeCooledOff, AllowHalfOpen, CooledOff,
         FreshRead, At, Goto
  <1>2. ASSUME NEW ok \in BOOLEAN, Attempt(w, ok) PROVE FreshRead(w)' /\ hash' = hash
    <2>1. workers'[w].pc = "recording" /\ hash' = hash /\ workers[w].pc = "attempting"
        BY <1>0, <1>2 DEF Attempt, At
    <2> QED BY <2>1 DEF FreshRead, At
  <1>3. ASSUME RecordProbe(w) PROVE FreshRead(w)' /\ hash' = hash
    <2>1. /\ workers'[w].pc = "clearing" /\ hash' = hash /\ hash.state = "half_open"
          /\ workers'[w].target \in {"closed", "open"}
        BY <1>0, <1>3 DEF RecordProbe
    <2> QED BY <2>1 DEF FreshRead, At
  <1>4. ASSUME RecordCount(w) \/ Recheck(w) \/ Crash(w) PROVE FreshRead(w)' /\ hash' = hash
      BY <1>0, <1>4 DEF RecordCount, Recheck, Crash, FreshRead, At, Goto, CircuitState
  <1>5. ASSUME ClearOpenedAt(w) \/ IncAttempts(w) \/ IncFailures(w)
        PROVE  FreshRead(w)' /\ hash'.state = hash.state
    <2>1. hash'.state = hash.state
        BY <1>0, <1>5 DEF ClearOpenedAt, IncAttempts, IncFailures
    <2>2. workers'[w].target = workers[w].target
        BY <1>0, <1>5 DEF ClearOpenedAt, IncAttempts, IncFailures, Reply, Goto
    <2>3. \/ /\ workers[w].pc = "clearing"
             /\ workers'[w].pc \in {"clearing", "setting"}
          \/ /\ workers[w].pc \in {"inc_attempts", "inc_failures"}
             /\ workers'[w].pc \in {"inc_attempts", "inc_failures", "rechecking"}
        BY <1>0, <1>5 DEF ClearOpenedAt, IncAttempts, IncFailures, Reply, Goto, At
    <2> QED BY <2>1, <2>2, <2>3 DEF FreshRead, At
  <1>6. ASSUME EnterHalfOpen(w) PROVE FreshRead(w)' /\ [FSM!Next]_(hash.state)
    <2>1. /\ hash.state \in {"open", "half_open"} /\ hash'.state = "half_open"
          /\ workers'[w].pc \in {"attempting", "to_half_open"}
        BY <1>0, <1>6 DEF EnterHalfOpen, FreshRead, At, Reply, Goto, CircuitState
    <2> QED BY <2>1 DEF FreshRead, At, FSM!Next, FSM!Cool
  <1>7. ASSUME SetState(w) PROVE FreshRead(w)' /\ [FSM!Next]_(hash.state)
    <2>1. /\ hash.state \in {"half_open", workers[w].target}
          /\ workers[w].target \in {"closed", "open"}
          /\ hash'.state = workers[w].target
          /\ workers'[w].pc \in {"idle", "setting"}
          /\ workers'[w].target = workers[w].target
        BY <1>0, <1>7 DEF SetState, FreshRead, At, Reply, Goto, CircuitState
    <2> QED BY <2>1 DEF FreshRead, At, FSM!Next, FSM!Close, FSM!Reopen
  <1>8. ASSUME Trip(w) PROVE FreshRead(w)' /\ [FSM!Next]_(hash.state)
    <2>1. /\ hash.state \in {"closed", "open"} /\ hash'.state = "open"
          /\ workers'[w].pc \in {"idle", "tripping"}
        BY <1>0, <1>8 DEF Trip, FreshRead, At, Reply, Goto, CircuitState
    <2> QED BY <2>1 DEF FreshRead, At, FSM!Next, FSM!Trip
  <1>9. ASSUME Elapse \/ UNCHANGED vars PROVE FreshRead(w)' /\ hash'.state = hash.state
    <2>1. hash'.state = hash.state /\ workers' = workers
        BY <1>0, <1>9 DEF Elapse, vars
    <2> QED BY <2>1 DEF FreshRead, At
  <1> QED BY <1>1, <1>2, <1>3, <1>4, <1>5, <1>6, <1>7, <1>8, <1>9, StepsByEffect DEF Quiet

(* A worker that has the segment to itself takes the breaker through the   *)
(* steps of the documented three-state machine and no others, even if it   *)
(* dies between any two commands and comes back, and even if a command of  *)
(* its is applied more than once.                                          *)
THEOREM AloneItIsTheTextbook ==
  ASSUME NEW w \in Workers, Workers = {w}
  PROVE  Spec => FSM!Init /\ [][FSM!Next]_(hash.state)
  <1>1. Init => FSM!Init /\ FreshRead(w)
      BY DEF Init, FSM!Init, FreshRead, At
  <1> QED BY <1>1, FreshReadSteps, TypeCorrect, PTL DEF Spec

(***************************************************************************)
(* Open for good                                                           *)
(***************************************************************************)
(* The state a crash between HDEL and HSET can leave behind: nobody is at  *)
(* work on an open breaker that has no opened_at.                          *)
Wedged ==
  /\ hash.state = "open" /\ hash.opened_at = "none"
  /\ \A w \in Workers : At(w, "idle")

(* Nothing takes a breaker out of it again: no worker is let in, none has  *)
(* a result to record, and there is no timestamp to grow old.  This is the *)
(* counterexample to ReprobeEventually, for any workers and thresholds.    *)
THEOREM WedgedForGood == Spec => [](Wedged => []Wedged)
  <1>1. Wedged /\ [Next]_vars => Wedged'
    <2> SUFFICES ASSUME Wedged, [Next]_vars PROVE UNCHANGED vars
        BY DEF Wedged, At, vars
    <2>1. ASSUME NEW w \in Workers, ShouldAllowAttempt(w) PROVE FALSE
        BY <2>1 DEF ShouldAllowAttempt, AllowClosed, SeeCooledOff, AllowHalfOpen, CooledOff,
           Wedged
    <2>2. ASSUME NEW w \in Workers, Work(w) \/ Crash(w) PROVE FALSE
        BY <2>2 DEF Work, Crash, EnterHalfOpen, Attempt, RecordResult, RecordProbe,
           ClearOpenedAt, SetState, RecordCount, IncAttempts, IncFailures, Recheck, Trip,
           Wedged, At
    <2>3. ~Elapse
        BY DEF Elapse, Wedged
    <2> QED BY <2>1, <2>2, <2>3 DEF Next
  <1> QED BY <1>1, PTL DEF Spec
=============================================================================
