----------------------- MODULE ComplianceGateProofs -----------------------
(***************************************************************************)
(* What holds of ComplianceGate for any number of episodes, promises,      *)
(* evaluations and runs of the task.                                       *)
(***************************************************************************)
EXTENDS ComplianceGate, TLAPS

(* A recorded verdict is the one the evaluation reached.                   *)
Recorded ==
  \A c \in Checks : gateChecks[c] # "none" =>
    check[c].at = "returned" /\ gateChecks[c] = check[c].verdict

(* An opt-out that was there when the evaluation began is still there when *)
(* it is looked for.                                                       *)
Barred ==
  \A c \in Checks : check[c].barred =>
    /\ EpisodeOf[c] \in optedOut
    /\ check[c].at \notin {"promise", "episode"}
    /\ check[c].at \in {"record", "returned"} => check[c].verdict = "customer_opted_out"

(* What PromiseSuppresses says, from the moment the promise is read.       *)
Masked(c) ==
  \A p \in check[c].live : promises[p].status = "active" =>
    \E q \in Promises : /\ EpisodeOf[q] = EpisodeOf[c]
                        /\ promises[q].status # "absent"
                        /\ ~InForce(q, check[c].day)
BeyondPromise(c) ==
  \/ check[c].at = "episode"
  \/ /\ check[c].at \in {"record", "returned"}
     /\ check[c].verdict \in OperationalRules \cup {"passed"}
Suppressed ==
  \A c \in Checks :
    /\ \A p \in check[c].live : /\ EpisodeOf[p] = EpisodeOf[c]
                                /\ promises[p].status # "absent"
                                /\ InForce(p, check[c].day)
    /\ BeyondPromise(c) => Masked(c)

(* What a run of the task has read stays true: a promise remains overdue,  *)
(* an episode recovered.                                                   *)
Read ==
  \A s \in Settlers :
    /\ \A p \in settler[s].unread \cup settler[s].kept :
         promises[p].status # "absent" /\ ~InForce(p, today)
    /\ \A p \in settler[s].kept : EpisodeOf[p] \in recovered

GateInv == Recorded /\ Barred /\ Suppressed /\ Read /\ KeptWhenOver

-----------------------------------------------------------------------------
(* Type correctness                                                        *)

CheckStep(c) == \/ Begin(c) \/ CheckOptOut(c) \/ CheckPromise(c) \/ CheckEpisode(c)
                \/ CoolOffRaises(c) \/ RecordGateCheck(c) \/ AbandonCheck(c)
SettlerStep(s) == \/ StartSettling(s) \/ (\E p \in Promises : ReadEpisode(s, p))
                  \/ CommitSettling(s) \/ RollBack(s) \/ AbandonSettling(s)
Environment == \/ NextDay \/ (\E e \in Episodes : OptOut(e) \/ Recover(e))
               \/ (\E p \in Promises : MakePromise(p))

LEMMA NextSplit ==
  Next <=> \/ \E c \in Checks : CheckStep(c)
           \/ \E s \in Settlers : SettlerStep(s)
           \/ Environment
  BY DEF Next, Settling, CheckStep, SettlerStep, Environment

LEMMA InitTyped == Init => TypeOK
  BY GateAssumption DEF Init, TypeOK, Days, Promise, Check, Settler, IdleSettler

LEMMA CheckTyped ==
  ASSUME TypeOK, NEW c \in Checks, CheckStep(c)
  PROVE  TypeOK'
<1> USE DEF Check, Verdicts, OperationalRules
<1>1. check[c] \in Check
  BY DEF TypeOK
<1>2. CASE Begin(c)
  BY <1>1, <1>2 DEF Begin, BeginAt, TypeOK, rows, Active
<1>3. CASE CheckOptOut(c)
  BY <1>1, <1>3 DEF CheckOptOut, Conclude, GoOn, TypeOK, rows
<1>4. CASE CheckPromise(c)
  BY <1>1, <1>4 DEF CheckPromise, Conclude, GoOn, TypeOK, rows
<1>5. CASE CheckEpisode(c)
  <2>1. PICK verdict \in OperationalRules \cup {"passed"} : Conclude(c, verdict)
    BY <1>5 DEF CheckEpisode
  <2>2. check' \in [Checks -> Check]
    BY <1>1, <2>1 DEF Conclude, TypeOK
  <2> QED
    BY <1>5, <2>2 DEF CheckEpisode, TypeOK, rows
<1>6. CASE CoolOffRaises(c) \/ AbandonCheck(c)
  BY <1>1, <1>6 DEF CoolOffRaises, AbandonCheck, GoOn, TypeOK, rows
<1>7. CASE RecordGateCheck(c)
  BY <1>1, <1>7 DEF RecordGateCheck, GoOn, TypeOK, rows
<1> QED
  BY <1>2, <1>3, <1>4, <1>5, <1>6, <1>7 DEF CheckStep

LEMMA SettlerTyped ==
  ASSUME TypeOK, NEW s \in Settlers, SettlerStep(s)
  PROVE  TypeOK'
<1> USE DEF Settler, IdleSettler
<1>1. settler[s] \in Settler
  BY DEF TypeOK
<1>2. CASE StartSettling(s)
  <2>1. Run(Overdue) \in Settler
    BY DEF Run, Overdue
  <2> QED
    BY <1>2, <2>1 DEF StartSettling, TypeOK, rows
<1>3. CASE \E p \in Promises : ReadEpisode(s, p)
  <2>1. PICK p \in Promises : ReadEpisode(s, p)
    BY <1>3
  <2>2. settler' \in [Settlers -> Settler]
    BY <1>1, <2>1 DEF ReadEpisode, TypeOK
  <2> QED
    BY <2>1, <2>2 DEF ReadEpisode, TypeOK, rows
<1>4. CASE CommitSettling(s)
  BY <1>1, <1>4 DEF CommitSettling, Close, TypeOK, Promise
<1>5. CASE RollBack(s)
  BY <1>1, <1>5 DEF RollBack, Close, TypeOK, rows
<1>6. CASE AbandonSettling(s)
  BY <1>1, <1>6, GateAssumption DEF AbandonSettling, Close, TypeOK, rows
<1> QED
  BY <1>2, <1>3, <1>4, <1>5, <1>6 DEF SettlerStep

LEMMA EnvironmentTyped ==
  ASSUME TypeOK, Environment
  PROVE  TypeOK'
<1>1. CASE NextDay
  BY <1>1, GateAssumption DEF NextDay, TypeOK, Days
<1>2. CASE \E e \in Episodes : OptOut(e) \/ Recover(e)
  BY <1>2 DEF OptOut, Recover, TypeOK
<1>3. CASE \E p \in Promises : MakePromise(p)
  <2>1. today..Horizon \subseteq Days
    BY GateAssumption DEF TypeOK, Days
  <2> QED
    BY <1>3, <2>1 DEF MakePromise, TypeOK, Promise
<1> QED
  BY <1>1, <1>2, <1>3 DEF Environment

LEMMA StepTyped == TypeOK /\ [Next]_vars => TypeOK'
<1>1. TypeOK /\ UNCHANGED vars => TypeOK'
  BY DEF vars, rows, TypeOK
<1> QED
  BY <1>1, NextSplit, CheckTyped, SettlerTyped, EnvironmentTyped

(* Verdicts are among the rules the code knows, and no promise leaves the  *)
(* days and states it can be in.                                           *)
THEOREM TypeCorrect == Spec => []TypeOK
  BY InitTyped, StepTyped, PTL DEF Spec

-----------------------------------------------------------------------------
(* The rows only move one way: opt-outs and recoveries stay, days pass, a  *)
(* promise keeps its date and never becomes active again.                  *)
Forward ==
  /\ optedOut \subseteq optedOut' /\ recovered \subseteq recovered' /\ today <= today'
  /\ \A p \in Promises : promises[p].status # "absent" =>
       /\ promises'[p].status # "absent"
       /\ promises'[p].due = promises[p].due
       /\ promises'[p].status = "active" => promises[p].status = "active"

LEMMA StepForward == TypeOK /\ [Next]_vars => Forward
<1> SUFFICES ASSUME TypeOK, [Next]_vars PROVE Forward
  OBVIOUS
<1>1. today \in Int
  BY DEF TypeOK, Days
<1>2. ASSUME UNCHANGED rows PROVE Forward
  BY <1>1, <1>2 DEF rows, Forward
<1>3. CASE UNCHANGED vars
  BY <1>2, <1>3 DEF vars
<1>4. CASE \E c \in Checks : CheckStep(c)
  BY <1>2, <1>4 DEF CheckStep, Begin, BeginAt, CheckOptOut, CheckPromise, CheckEpisode,
                    CoolOffRaises, RecordGateCheck, AbandonCheck
<1>5. ASSUME NEW s \in Settlers, SettlerStep(s) PROVE Forward
  <2>1. CASE CommitSettling(s)
    BY <1>1, <2>1 DEF CommitSettling, Forward, TypeOK, Promise
  <2>2. CASE ~CommitSettling(s)
    BY <1>2, <1>5, <2>2 DEF SettlerStep, StartSettling, ReadEpisode, RollBack, AbandonSettling
  <2> QED
    BY <2>1, <2>2
<1>6. CASE Environment
  <2>1. CASE NextDay
    BY <1>1, <2>1 DEF NextDay, Forward
  <2>2. CASE \E e \in Episodes : OptOut(e) \/ Recover(e)
    BY <1>1, <2>2 DEF OptOut, Recover, Forward
  <2>3. CASE \E p \in Promises : MakePromise(p)
    BY <1>1, <2>3 DEF MakePromise, Forward, TypeOK
  <2> QED
    BY <1>6, <2>1, <2>2, <2>3 DEF Environment
<1> QED
  BY <1>3, <1>4, <1>5, <1>6, NextSplit

-----------------------------------------------------------------------------
(* The inductive invariant                                                 *)

LEMMA InitGate == Init => GateInv
<1> SUFFICES ASSUME Init PROVE GateInv
  OBVIOUS
<1>1. Recorded /\ Barred /\ Suppressed
  BY DEF Init, Recorded, Barred, Suppressed, BeyondPromise
<1>2. Read /\ KeptWhenOver
  BY DEF Init, Read, KeptWhenOver, IdleSettler
<1> QED
  BY <1>1, <1>2 DEF GateInv

(* An evaluation is its own: no step of another one, of the task or of the *)
(* environment changes it.                                                 *)
LEMMA CheckUntouched ==
  ASSUME TypeOK, [Next]_vars, NEW c \in Checks, ~CheckStep(c)
  PROVE  check'[c] = check[c] /\ gateChecks'[c] = gateChecks[c]
<1>1. CASE UNCHANGED vars
  BY <1>1 DEF vars
<1>2. ASSUME NEW d \in Checks, CheckStep(d), c # d
      PROVE  check'[c] = check[c] /\ gateChecks'[c] = gateChecks[c]
  BY <1>2 DEF CheckStep, Begin, BeginAt, CheckOptOut, CheckPromise, CheckEpisode,
              CoolOffRaises, RecordGateCheck, AbandonCheck, Conclude, GoOn, TypeOK
<1>3. CASE \E s \in Settlers : SettlerStep(s)
  BY <1>3 DEF SettlerStep, StartSettling, ReadEpisode, CommitSettling, RollBack, AbandonSettling
<1>4. CASE Environment
  BY <1>4 DEF Environment, NextDay, OptOut, Recover, MakePromise
<1> QED
  BY <1>1, <1>2, <1>3, <1>4, NextSplit

LEMMA StepRecorded == TypeOK /\ Recorded /\ [Next]_vars => Recorded'
<1> SUFFICES ASSUME TypeOK, Recorded, [Next]_vars, NEW c \in Checks, gateChecks'[c] # "none"
             PROVE  check'[c].at = "returned" /\ gateChecks'[c] = check'[c].verdict
  BY DEF Recorded
<1>1. check[c] \in Check
  BY DEF TypeOK
<1>2. CASE ~CheckStep(c)
  BY <1>2, CheckUntouched DEF Recorded
<1>3. CASE RecordGateCheck(c)
  BY <1>1, <1>3 DEF RecordGateCheck, GoOn, TypeOK, Check
<1>4. CASE CheckStep(c) /\ ~RecordGateCheck(c)
  <2>1. gateChecks' = gateChecks /\ check[c].at # "returned"
    BY <1>4 DEF CheckStep, Begin, BeginAt, CheckOptOut, CheckPromise, CheckEpisode,
                CoolOffRaises, AbandonCheck
  <2> QED
    BY <2>1 DEF Recorded
<1> QED
  BY <1>2, <1>3, <1>4

LEMMA StepBarred == TypeOK /\ Barred /\ [Next]_vars => Barred'
<1> SUFFICES ASSUME TypeOK, Barred, [Next]_vars, NEW c \in Checks, check'[c].barred
             PROVE  /\ EpisodeOf[c] \in optedOut'
                    /\ check'[c].at \notin {"promise", "episode"}
                    /\ check'[c].at \in {"record", "returned"} =>
                         check'[c].verdict = "customer_opted_out"
  BY DEF Barred
<1>1. check[c] \in Check /\ optedOut \subseteq optedOut'
  BY StepForward DEF TypeOK, Forward
<1>2. CASE ~CheckStep(c)
  BY <1>1, <1>2, CheckUntouched DEF Barred
<1>3. CASE Begin(c)
  BY <1>1, <1>3 DEF Begin, BeginAt, TypeOK
<1>4. CASE CheckOptOut(c)
  BY <1>1, <1>4 DEF CheckOptOut, Conclude, GoOn, TypeOK, Check, Barred
<1>5. CASE CheckPromise(c) \/ CheckEpisode(c)
  <2>1. \A verdict : Conclude(c, verdict) => check'[c].barred = check[c].barred
    BY <1>1 DEF Conclude, TypeOK, Check
  <2>2. check'[c].barred = check[c].barred
    <3>1. CASE CheckPromise(c)
      <4>1. Conclude(c, "active_promise_to_pay") \/ GoOn(c, "episode")
        BY <3>1 DEF CheckPromise
      <4>2. GoOn(c, "episode") => check'[c].barred = check[c].barred
        BY <1>1 DEF GoOn, TypeOK, Check
      <4> QED
        BY <2>1, <4>1, <4>2
    <3>2. CASE CheckEpisode(c)
      <4>1. PICK verdict \in OperationalRules \cup {"passed"} : Conclude(c, verdict)
        BY <3>2 DEF CheckEpisode
      <4> QED
        BY <2>1, <4>1
    <3> QED
      BY <1>5, <3>1, <3>2
  <2>3. check[c].at \in {"promise", "episode"}
    BY <1>5 DEF CheckPromise, CheckEpisode
  <2> QED
    BY <2>2, <2>3 DEF Barred
<1>6. CASE CoolOffRaises(c) \/ AbandonCheck(c)
  BY <1>1, <1>6 DEF CoolOffRaises, AbandonCheck, GoOn, TypeOK, Check, Barred
<1>7. CASE RecordGateCheck(c)
  BY <1>1, <1>7 DEF RecordGateCheck, GoOn, TypeOK, Check, Barred
<1> QED
  BY <1>2, <1>3, <1>4, <1>5, <1>6, <1>7 DEF CheckStep

(* An overdue promise that masks another stays in its way.                 *)
LEMMA MaskedForward ==
  ASSUME TypeOK, Forward, NEW c \in Checks, Masked(c),
         check'[c].live = check[c].live, check'[c].day = check[c].day,
         \A p \in check[c].live : promises[p].status # "absent",
         check[c].live \subseteq Promises
  PROVE  Masked(c)'
<1> SUFFICES ASSUME NEW p \in check[c].live, promises'[p].status = "active"
             PROVE  \E q \in Promises : /\ EpisodeOf[q] = EpisodeOf[c]
                                        /\ promises'[q].status # "absent"
                                        /\ ~InForce(q, check[c].day)'
  BY DEF Masked, InForce
<1>1. promises[p].status = "active"
  BY DEF Forward
<1>2. PICK q \in Promises : /\ EpisodeOf[q] = EpisodeOf[c]
                            /\ promises[q].status # "absent"
                            /\ ~InForce(q, check[c].day)
  BY <1>1 DEF Masked
<1> QED
  BY <1>2 DEF Forward, InForce

LEMMA StepSuppressed == TypeOK /\ Suppressed /\ [Next]_vars => Suppressed'
<1> SUFFICES ASSUME TypeOK, Suppressed, [Next]_vars, NEW c \in Checks
             PROVE  /\ \A p \in check'[c].live : /\ EpisodeOf[p] = EpisodeOf[c]
                                                 /\ promises'[p].status # "absent"
                                                 /\ InForce(p, check[c].day)'
                    /\ BeyondPromise(c)' => Masked(c)'
  BY DEF Suppressed
<1>1. check[c] \in Check /\ Forward
  BY StepForward DEF TypeOK
<1>2. /\ check[c].live \subseteq Promises
      /\ \A p \in check[c].live : /\ EpisodeOf[p] = EpisodeOf[c]
                                  /\ promises[p].status # "absent"
                                  /\ InForce(p, check[c].day)
  BY <1>1 DEF Suppressed, Check
<1>3. ASSUME check'[c].live = check[c].live, check'[c].day = check[c].day,
             BeyondPromise(c)' => Masked(c)
      PROVE  /\ \A p \in check'[c].live : /\ EpisodeOf[p] = EpisodeOf[c]
                                          /\ promises'[p].status # "absent"
                                          /\ InForce(p, check[c].day)'
             /\ BeyondPromise(c)' => Masked(c)'
  BY <1>1, <1>2, <1>3, MaskedForward DEF Forward, InForce
<1>4. CASE ~CheckStep(c)
  BY <1>3, <1>4, CheckUntouched DEF BeyondPromise, Suppressed
<1>5. CASE Begin(c)
  <2>1. /\ check'[c].at = "opt_out" /\ check'[c].day = today
        /\ check'[c].live = {p \in Active(EpisodeOf[c]) : InForce(p, today)}
        /\ promises' = promises
    BY <1>5 DEF Begin, BeginAt, TypeOK, rows
  <2> QED
    BY <2>1 DEF BeyondPromise, Active, InForce
<1>6. CASE CheckOptOut(c)
  <2>1. /\ check'[c].live = check[c].live /\ check'[c].day = check[c].day
        /\ ~BeyondPromise(c)'
    BY <1>1, <1>6 DEF CheckOptOut, Conclude, GoOn, TypeOK, Check, BeyondPromise, OperationalRules
  <2> QED
    BY <1>3, <2>1
<1>7. CASE CheckPromise(c)
  <2>1. check'[c].live = check[c].live /\ check'[c].day = check[c].day
    BY <1>1, <1>7 DEF CheckPromise, Conclude, GoOn, TypeOK, Check
  <2>2. CASE Active(EpisodeOf[c]) = {}
    <3>1. Masked(c)
      BY <1>2, <2>2 DEF Masked, Active
    <3> QED
      BY <1>3, <2>1, <3>1
  <2>3. ASSUME NEW p \in Active(EpisodeOf[c]), ~InForce(p, check[c].day)
        PROVE  Masked(c)
    BY <2>3 DEF Masked, Active
  <2>4. ASSUME Conclude(c, "active_promise_to_pay") PROVE ~BeyondPromise(c)'
    BY <1>1, <2>4 DEF Conclude, TypeOK, Check, BeyondPromise, OperationalRules
  <2> QED
    BY <1>3, <1>7, <2>1, <2>2, <2>3, <2>4 DEF CheckPromise
<1>8. CASE CheckEpisode(c)
  <2>1. check'[c].live = check[c].live /\ check'[c].day = check[c].day
    BY <1>1, <1>8 DEF CheckEpisode, Conclude, TypeOK, Check
  <2>2. Masked(c)
    BY <1>8 DEF CheckEpisode, Suppressed, BeyondPromise
  <2> QED
    BY <1>3, <2>1, <2>2
<1>9. CASE CoolOffRaises(c) \/ AbandonCheck(c)
  <2>1. /\ check'[c].live = check[c].live /\ check'[c].day = check[c].day
        /\ ~BeyondPromise(c)'
    BY <1>1, <1>9 DEF CoolOffRaises, AbandonCheck, GoOn, TypeOK, Check, BeyondPromise
  <2> QED
    BY <1>3, <2>1
<1>10. CASE RecordGateCheck(c)
  <2>1. /\ check'[c].live = check[c].live /\ check'[c].day = check[c].day
        /\ BeyondPromise(c)' => BeyondPromise(c)
    BY <1>1, <1>10 DEF RecordGateCheck, GoOn, TypeOK, Check, BeyondPromise
  <2> QED
    BY <1>3, <2>1 DEF Suppressed
<1> QED
  BY <1>4, <1>5, <1>6, <1>7, <1>8, <1>9, <1>10 DEF CheckStep

LEMMA StepRead == TypeOK /\ Read /\ KeptWhenOver /\ [Next]_vars => Read' /\ KeptWhenOver'
<1> SUFFICES ASSUME TypeOK, Read, KeptWhenOver, [Next]_vars
             PROVE  Read' /\ KeptWhenOver'
  OBVIOUS
<1>1. Forward /\ today \in Int /\ today' \in Int /\ \A p \in Promises : promises[p].due \in Int
  BY StepForward, StepTyped DEF TypeOK, Days, Promise
<1>2. \A p \in Promises : promises[p].status # "absent" /\ ~InForce(p, today) =>
        promises'[p].status # "absent" /\ ~InForce(p, today)'
  BY <1>1 DEF Forward, InForce, Grace
<1>3. \A s \in Settlers : settler[s] \in Settler
  BY DEF TypeOK
<1>4. ASSUME settler' = settler PROVE Read'
  BY <1>1, <1>2, <1>3, <1>4 DEF Read, Settler, Forward
<1>5. ASSUME \A p \in Promises : promises'[p].status = "kept" => promises[p].status = "kept"
      PROVE  KeptWhenOver'
  BY <1>1, <1>2, <1>5 DEF KeptWhenOver, Forward
<1>6. CASE UNCHANGED vars \/ (\E c \in Checks : CheckStep(c))
  <2>1. settler' = settler /\ promises' = promises
    BY <1>6 DEF vars, rows, CheckStep, Begin, BeginAt, CheckOptOut, CheckPromise, CheckEpisode,
                CoolOffRaises, RecordGateCheck, AbandonCheck
  <2> QED
    BY <1>4, <1>5, <2>1
<1>7. CASE Environment
  <2>1. settler' = settler
    BY <1>7 DEF Environment, NextDay, OptOut, Recover, MakePromise
  <2>2. \A p \in Promises : promises'[p].status = "kept" => promises[p].status = "kept"
    BY <1>7 DEF Environment, NextDay, OptOut, Recover, MakePromise, TypeOK
  <2> QED
    BY <1>4, <1>5, <2>1, <2>2
<1>8. ASSUME NEW s \in Settlers, SettlerStep(s) PROVE Read' /\ KeptWhenOver'
  <2>1. today' = today /\ recovered' = recovered
    BY <1>8 DEF SettlerStep, StartSettling, ReadEpisode, CommitSettling, RollBack,
                AbandonSettling, rows
  <2>2. \A t \in Settlers : t # s => settler'[t] = settler[t]
    BY <1>8 DEF SettlerStep, StartSettling, ReadEpisode, CommitSettling, RollBack,
                AbandonSettling, Close, TypeOK
  <2>3. ASSUME /\ \A p \in settler'[s].unread \cup settler'[s].kept :
                    p \in Promises /\ promises[p].status # "absent" /\ ~InForce(p, today)
               /\ \A p \in settler'[s].kept : EpisodeOf[p] \in recovered
        PROVE  Read'
    <3>1. ASSUME NEW t \in Settlers
          PROVE  /\ \A p \in settler'[t].unread \cup settler'[t].kept :
                      promises'[p].status # "absent" /\ ~InForce(p, today)'
                 /\ \A p \in settler'[t].kept : EpisodeOf[p] \in recovered'
      BY <1>2, <1>3, <2>1, <2>2, <2>3 DEF Read, Settler
    <3> QED
      BY <3>1 DEF Read
  <2>4. CASE StartSettling(s)
    <3>1. settler'[s] = Run(Overdue) /\ promises' = promises
      BY <2>4 DEF StartSettling, TypeOK, rows
    <3>2. \A p \in Overdue :
            p \in Promises /\ promises[p].status # "absent" /\ ~InForce(p, today)
      BY <1>1 DEF Overdue, InForce, Grace
    <3>3. Read'
      BY <2>3, <3>1, <3>2 DEF Run
    <3> QED
      BY <1>5, <3>1, <3>3
  <2>5. CASE \E p \in Promises : ReadEpisode(s, p)
    <3>1. PICK p \in Promises : ReadEpisode(s, p)
      BY <2>5
    <3>2. /\ p \in settler[s].unread
          /\ settler'[s].unread = settler[s].unread \ {p}
          /\ settler'[s].kept = IF EpisodeOf[p] \in recovered
                                THEN settler[s].kept \cup {p} ELSE settler[s].kept
          /\ promises' = promises
      BY <1>3, <3>1 DEF ReadEpisode, TypeOK, Settler, rows
    <3>3. Read'
      BY <1>3, <2>3, <3>2 DEF Read, Settler
    <3> QED
      BY <1>5, <3>2, <3>3
  <2>6. CASE CommitSettling(s)
    <3>1. settler'[s] = IdleSettler
      BY <2>6 DEF CommitSettling, Close, TypeOK
    <3>2. Read'
      BY <2>3, <3>1 DEF IdleSettler
    <3>3. ASSUME NEW p \in Promises, promises'[p].status = "kept"
          PROVE  EpisodeOf[p] \in recovered' /\ ~InForce(p, today)'
      <4>1. CASE p \in settler[s].kept
        BY <1>2, <2>1, <4>1 DEF Read
      <4>2. CASE p \notin settler[s].kept
        BY <1>2, <2>1, <2>6, <3>3, <4>2 DEF CommitSettling, KeptWhenOver
      <4> QED
        BY <4>1, <4>2
    <3> QED
      BY <3>2, <3>3 DEF KeptWhenOver
  <2>7. CASE RollBack(s) \/ AbandonSettling(s)
    <3>1. settler'[s] = IdleSettler /\ promises' = promises
      BY <2>7 DEF RollBack, AbandonSettling, Close, TypeOK, rows
    <3>2. Read'
      BY <2>3, <3>1 DEF IdleSettler
    <3> QED
      BY <1>5, <3>1, <3>2
  <2> QED
    BY <1>8, <2>4, <2>5, <2>6, <2>7 DEF SettlerStep
<1> QED
  BY <1>6, <1>7, <1>8, NextSplit

THEOREM GateInvariance == Spec => [](TypeOK /\ GateInv)
<1>1. Init => TypeOK /\ GateInv
  BY InitTyped, InitGate
<1>2. TypeOK /\ GateInv /\ [Next]_vars => (TypeOK /\ GateInv)'
  <2> SUFFICES ASSUME TypeOK, GateInv, [Next]_vars PROVE (TypeOK /\ GateInv)'
    OBVIOUS
  <2>1. TypeOK'
    BY StepTyped
  <2>2. Recorded' /\ Barred' /\ Suppressed' /\ Read' /\ KeptWhenOver'
    BY StepRecorded, StepBarred, StepSuppressed, StepRead DEF GateInv
  <2> QED
    BY <2>1, <2>2 DEF GateInv
<1> QED
  BY <1>1, <1>2, PTL DEF Spec

(* However late other customers, other evaluations and the task act: an    *)
(* opt-out that was there first is the verdict.                            *)
THEOREM OptOutDecides == Spec => []OptOutFirst
<1>1. TypeOK /\ GateInv => OptOutFirst
  BY DEF GateInv, Recorded, Barred, OptOutFirst
<1> QED
  BY <1>1, GateInvariance, PTL

(* Only an overdue promise of the same episode can hide one in force.      *)
THEOREM PromiseIsHeard == Spec => []PromiseSuppresses
<1>1. TypeOK /\ GateInv => PromiseSuppresses
  <2> SUFFICES ASSUME GateInv, NEW c \in Checks,
                      gateChecks[c] \in OperationalRules \cup {"passed"}
               PROVE  Masked(c)
    BY DEF PromiseSuppresses, Masked
  <2>1. gateChecks[c] # "none"
    BY DEF OperationalRules
  <2>2. BeyondPromise(c)
    BY <2>1 DEF GateInv, Recorded, BeyondPromise
  <2> QED
    BY <2>2 DEF GateInv, Suppressed
<1> QED
  BY <1>1, GateInvariance, PTL

(* No run of the task books a promise as kept early, or unrecovered.       *)
THEOREM KeptIsOver == Spec => []KeptWhenOver
<1>1. TypeOK /\ GateInv => KeptWhenOver
  BY DEF GateInv
<1> QED
  BY <1>1, GateInvariance, PTL
=============================================================================
