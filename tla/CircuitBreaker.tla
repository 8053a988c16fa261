--------------------------- MODULE CircuitBreaker ---------------------------
(***************************************************************************)
(* services/act/circuit_breaker.py: the circuit breaker of one bank        *)
(* segment, kept in one Redis hash and shared by all workers.  Redis runs  *)
(* each command atomically; CircuitBreaker and its store are sequences of  *)
(* commands, and the workers interleave between them.  The Redis client    *)
(* sends a command again when the connection fails before its reply, and   *)
(* Redis may have applied it already: every command that writes may be     *)
(* applied more than once before its caller goes on.                       *)
(*                                                                         *)
(* Time is what should_allow_attempt sees of it: an opened_at is "fresh"   *)
(* until open_duration has gone by, then "elapsed".                        *)
(***************************************************************************)
EXTENDS Integers, FiniteSets

CONSTANTS
  Workers,      \* processes that run execute_action for this segment
  MinAttempts,  \* min_attempts_before_tripping (5 in the code)
  RateNum,      \* failure_rate_threshold as a fraction (7/10 in the code)
  RateDen,
  MaxAttempts,  \* bound: a closed breaker that counts this admits no more
  MaxCount,     \* bound: no probe is admitted once this many are counted
  MaxCrashes,   \* bound: workers that die between two commands
  MaxRepeats    \* bound: commands sent again after a lost reply

ASSUME BreakerAssumption ==
  /\ IsFiniteSet(Workers) /\ Workers # {}
  /\ MinAttempts \in Nat \ {0} /\ MaxAttempts \in Nat /\ MaxCount \in Nat
  /\ RateNum \in Nat \ {0} /\ RateDen \in Nat \ {0} /\ RateNum <= RateDen
  /\ MaxCrashes \in Nat /\ MaxRepeats \in Nat

VARIABLES
  hash,     \* the Redis hash circuit_breaker:<segment>
  workers,  \* what each worker is doing
  crashes,  \* how many workers have died, for the bound
  repeats,  \* commands that were applied and sent again, for the bound
  recounted \* history: failures counted twice since the last reset

vars == <<hash, workers, crashes, repeats, recounted>>

CircuitState == {"closed", "open", "half_open"}
PC == {"idle", "to_half_open", "attempting", "recording", "clearing",
       "setting", "inc_attempts", "inc_failures", "rechecking", "tripping"}

TypeOK ==
  /\ hash \in [state : CircuitState, recent_failures : Nat,
               recent_attempts : Nat,
               opened_at : {"none", "fresh", "elapsed"}]
  /\ workers \in [Workers -> [pc : PC, succeeded : BOOLEAN,
                              target : CircuitState]]
  /\ crashes \in 0 .. MaxCrashes
  /\ repeats \in 0 .. MaxRepeats /\ recounted \in 0 .. repeats

Init ==
  /\ hash = [state |-> "closed", recent_failures |-> 0,
             recent_attempts |-> 0, opened_at |-> "none"]
  /\ workers = [w \in Workers |-> [pc |-> "idle", succeeded |-> FALSE,
                                   target |-> "closed"]]
  /\ crashes = 0 /\ repeats = 0 /\ recounted = 0

At(w, pc) == workers[w].pc = pc
Goto(w, pc) == workers' = [workers EXCEPT ![w].pc = pc]

(* A command that writes has been applied: its caller goes on, or the      *)
(* reply was lost and the client sends the command again.                  *)
Reply(w, pc) ==
  \/ Goto(w, pc) /\ UNCHANGED repeats
  \/ repeats < MaxRepeats /\ repeats' = repeats + 1 /\ UNCHANGED workers

-----------------------------------------------------------------------------
(* should_allow_attempt: one HGETALL, then perhaps one HSET.               *)

AllowClosed(w) ==
  /\ At(w, "idle") /\ hash.state = "closed"
  /\ hash.recent_attempts < MaxAttempts
  /\ Goto(w, "attempting")
  /\ UNCHANGED <<hash, crashes, repeats, recounted>>

(* Open and cooled off: this worker will move the breaker to half open.    *)
(* An open breaker without opened_at, or a fresh one, refuses: no step.    *)
CooledOff == hash.state = "open" /\ hash.opened_at = "elapsed"
Spent == hash.recent_attempts >= MaxCount
SeeCooledOff(w) ==
  /\ At(w, "idle") /\ CooledOff /\ ~Spent
  /\ Goto(w, "to_half_open")
  /\ UNCHANGED <<hash, crashes, repeats, recounted>>

(* transition(HALF_OPEN) without reset: opened_at and the counts stay.     *)
EnterHalfOpen(w) ==
  /\ At(w, "to_half_open")
  /\ hash' = [hash EXCEPT !.state = "half_open"]
  /\ Reply(w, "attempting")
  /\ UNCHANGED <<crashes, recounted>>

AllowHalfOpen(w) ==
  /\ At(w, "idle") /\ hash.state = "half_open" /\ ~Spent
  /\ Goto(w, "attempting")
  /\ UNCHANGED <<hash, crashes, repeats, recounted>>

(* The Razorpay call of execute_action ends, well or badly.                *)
Attempt(w, ok) ==
  /\ At(w, "attempting")
  /\ workers' = [workers EXCEPT ![w].pc = "recording", ![w].succeeded = ok]
  /\ UNCHANGED <<hash, crashes, repeats, recounted>>

-----------------------------------------------------------------------------
(* record_result: the state is read once; what follows goes by that.       *)

(* Mutation: a failed probe leaves the breaker half open and its counts.   *)
RecordProbe_SuccessOnly(w) ==
  /\ At(w, "recording") /\ hash.state = "half_open"
  /\ workers' = [workers EXCEPT
                   ![w].pc = IF workers[w].succeeded THEN "clearing" ELSE "idle",
                   ![w].target = "closed"]
  /\ UNCHANGED <<hash, crashes, repeats, recounted>>
(* Whoever finds the breaker half open decides: transition(..., reset).    *)
RecordProbe(w) ==
  /\ At(w, "recording") /\ hash.state = "half_open"
  /\ workers' = [workers EXCEPT
                   ![w].pc = "clearing",
                   ![w].target = IF workers[w].succeeded THEN "closed"
                                                         ELSE "open"]
  /\ UNCHANGED <<hash, crashes, repeats, recounted>>

(* HDEL opened_at ...                                                      *)
ClearOpenedAt(w) ==
  /\ At(w, "clearing")
  /\ hash' = [hash EXCEPT !.opened_at = "none"]
  /\ Reply(w, "setting")
  /\ UNCHANGED <<crashes, recounted>>

(* Mutation: the reset forgets recent_failures.                            *)
SetState_KeepFailures(w) ==
  /\ At(w, "setting")
  /\ hash' = [hash EXCEPT
                !.state = workers[w].target, !.recent_attempts = 0,
                !.opened_at = IF workers[w].target = "open" THEN "fresh"
                                                            ELSE @]
  /\ Reply(w, "idle")
  /\ recounted' = 0
  /\ UNCHANGED crashes
(* Mutation: opened_at is not part of the update when the probe failed.    *)
SetState_NoOpenedAt(w) ==
  /\ At(w, "setting")
  /\ hash' = [hash EXCEPT !.state = workers[w].target,
                          !.recent_failures = 0, !.recent_attempts = 0]
  /\ Reply(w, "idle")
  /\ recounted' = 0
  /\ UNCHANGED crashes

(* ... then one HSET of state, counts and, when opening, opened_at.        *)
SetState(w) ==
  /\ At(w, "setting")
  /\ hash' = [hash EXCEPT
                !.state = workers[w].target,
                !.recent_failures = 0, !.recent_attempts = 0,
                !.opened_at = IF workers[w].target = "open" THEN "fresh"
                                                            ELSE @]
  /\ Reply(w, "idle")
  /\ recounted' = 0
  /\ UNCHANGED crashes

(* Closed, or open: the result is counted, in one HINCRBY or two.          *)
RecordCount(w) ==
  /\ At(w, "recording") /\ hash.state # "half_open"
  /\ Goto(w, "inc_attempts")
  /\ UNCHANGED <<hash, crashes, repeats, recounted>>

(* Mutation: a success takes a failure back.                               *)
IncAttempts_TakeBack(w) ==
  /\ At(w, "inc_attempts")
  /\ hash' = [hash EXCEPT !.recent_attempts = @ + 1,
                !.recent_failures = IF workers[w].succeeded THEN @ - 1 ELSE @]
  /\ Reply(w, IF workers[w].succeeded THEN "rechecking" ELSE "inc_failures")
  /\ UNCHANGED <<crashes, recounted>>
IncAttempts(w) ==
  /\ At(w, "inc_attempts")
  /\ hash' = [hash EXCEPT !.recent_attempts = @ + 1]
  /\ Reply(w, IF workers[w].succeeded THEN "rechecking" ELSE "inc_failures")
  /\ UNCHANGED <<crashes, recounted>>

IncFailures(w) ==
  /\ At(w, "inc_failures")
  /\ hash' = [hash EXCEPT !.recent_failures = @ + 1]
  /\ Reply(w, "rechecking")
  /\ recounted' = recounted + (repeats' - repeats)
  /\ UNCHANGED crashes

(* The second HGETALL.                                                     *)
OverThreshold ==
  /\ hash.recent_attempts >= MinAttempts
  /\ hash.recent_failures * RateDen >= hash.recent_attempts * RateNum

Recheck(w) ==
  /\ At(w, "rechecking")
  /\ Goto(w, IF OverThreshold THEN "tripping" ELSE "idle")
  /\ UNCHANGED <<hash, crashes, repeats, recounted>>

(* transition(OPEN) without reset; again if it is open already.            *)
(* Mutation: opened_at is written only by the reset of a failed probe.     *)
Trip_NoOpenedAt(w) ==
  /\ At(w, "tripping")
  /\ hash' = [hash EXCEPT !.state = "open"]
  /\ Reply(w, "idle")
  /\ UNCHANGED <<crashes, recounted>>
Trip(w) ==
  /\ At(w, "tripping")
  /\ hash' = [hash EXCEPT !.state = "open", !.opened_at = "fresh"]
  /\ Reply(w, "idle")
  /\ UNCHANGED <<crashes, recounted>>

-----------------------------------------------------------------------------
(* The worker dies, or Redis is down and the exception leaves the caller.  *)
Crash(w) ==
  /\ crashes < MaxCrashes /\ ~At(w, "idle")
  /\ crashes' = crashes + 1
  /\ Goto(w, "idle")
  /\ UNCHANGED <<hash, repeats, recounted>>

(* open_duration goes by.                                                  *)
Elapse ==
  /\ hash.opened_at = "fresh"
  /\ hash' = [hash EXCEPT !.opened_at = "elapsed"]
  /\ UNCHANGED <<workers, crashes, repeats, recounted>>

ShouldAllowAttempt(w) == AllowClosed(w) \/ SeeCooledOff(w) \/ AllowHalfOpen(w)
RecordResult(w) ==
  \/ RecordProbe(w) \/ ClearOpenedAt(w) \/ SetState(w)
  \/ RecordCount(w) \/ IncAttempts(w) \/ IncFailures(w)
  \/ Recheck(w) \/ Trip(w)
Work(w) == \/ EnterHalfOpen(w) \/ \E ok \in BOOLEAN : Attempt(w, ok)
           \/ RecordResult(w)

Next ==
  \/ \E w \in Workers : ShouldAllowAttempt(w) \/ Work(w) \/ Crash(w)
  \/ Elapse

Spec == Init /\ [][Next]_vars

(* Time passes, a worker that has begun goes on, and recovery decisions    *)
(* keep arriving, so a breaker that would admit one is eventually asked.   *)
Fairness ==
  /\ WF_vars(Elapse)
  /\ \A w \in Workers : WF_vars(Work(w))
  /\ WF_vars(\E w \in Workers : SeeCooledOff(w) \/ AllowHalfOpen(w))
FairSpec == Spec /\ Fairness

-----------------------------------------------------------------------------
(* Safety.                                                                 *)

(* An open breaker without opened_at refuses for ever (line 108); until a  *)
(* worker crashes it is only seen while some worker is between the first   *)
(* application of its HDEL and the last of its HSET.                       *)
OpenHasTimestamp ==
  (crashes = 0 /\ hash.state = "open" /\ hash.opened_at = "none") =>
    \E w \in Workers : At(w, "clearing") \/ At(w, "setting")

(* A reset between the two HINCRBYs of a failure leaves more failures than *)
(* attempts, by at most one for each worker but the one that reset, and    *)
(* one for each HINCRBY recent_failures that was sent again since; a crash *)
(* between the two only ever loses a failure.                              *)
TornCountsBounded ==
  hash.recent_failures <=
    hash.recent_attempts + Cardinality(Workers) - 1 + recounted

-----------------------------------------------------------------------------
(* Liveness.                                                               *)

(* A tripped segment is tried again: no order of results, stale ones       *)
(* included, keeps it open for ever (but for the bound MaxCount).          *)
ReprobeEventually == hash.state = "open" ~> (hash.state # "open" \/ Spent)

(* A half-open segment gets its verdict (but for the bound MaxCount).      *)
HalfOpenDecides ==
  hash.state = "half_open" ~> (hash.state # "half_open" \/ Spent)

(* One worker alone implements the textbook machine, liveness included.    *)
FSM == INSTANCE BreakerFSM WITH state <- hash.state
ImplementsFSM == FSM!Spec

=============================================================================
