----------------------------- MODULE AuditTrail -----------------------------
(***************************************************************************)
(* The audit log: services/audit writes it, a transaction at a time, and   *)
(* query_audit_trail reads it back page by page, newest row first.  A page *)
(* is two queries - how many rows, and which - of two snapshots, and rows  *)
(* arrive in between whose recorded_at, the clock of whichever process     *)
(* writes, may put them anywhere in the order.                             *)
(*                                                                         *)
(* The client is the environment: it asks for page after page until one    *)
(* lies past the total that came with it.  A query that fails is answered  *)
(* with a total of 0, which no client can tell from the end of the trail.  *)
(***************************************************************************)
EXTENDS Integers, FiniteSets

CONSTANTS
  Writers,    \* transactions that write audit rows
  RowsOf,     \* the rows of each: many for a batch run, one for the others
  Readers,
  PageSize,
  DemoRows,   \* how many rows the fallback has (8 in the code)
  MaxClock    \* bound: the readings of the writers' clocks are 1..MaxClock

Rows == UNION {RowsOf[w] : w \in Writers}

ASSUME TrailAssumption ==
  /\ IsFiniteSet(Rows)
  /\ \A v, w \in Writers : v # w => RowsOf[v] \cap RowsOf[w] = {}
  /\ PageSize \in Nat \ {0} /\ DemoRows \in Nat \ {0} /\ MaxClock \in Nat \ {0}

VARIABLES
  recordedAt,  \* of each row; 0 while it is not committed
  reader

trailVars == <<recordedAt, reader>>

Log == {a \in Rows : recordedAt[a] > 0}

(* total: the response's.  History: start, the log when the reader set     *)
(* out; seen, the rows it was given; fooled, whether it took demo rows for *)
(* the log's; cut, whether it took a failure for the end.                  *)
Reader == [at : {"idle", "counting", "fetching", "ended"},
           page : Nat \ {0}, total : Nat, start : SUBSET Rows,
           seen : SUBSET Rows, fooled : BOOLEAN, cut : BOOLEAN]

TrailInit ==
  /\ recordedAt = [a \in Rows |-> 0]
  /\ reader = [d \in Readers |-> [at |-> "idle", page |-> 1, total |-> 0,
                                  start |-> {}, seen |-> {}, fooled |-> FALSE,
                                  cut |-> FALSE]]

(* Every row takes its stamp when it is flushed; stamps may repeat, and    *)
(* the order of the commits is not theirs.  A transaction that is rolled   *)
(* back leaves nothing.                                                    *)
Write(w) ==
  /\ RowsOf[w] \cap Log = {}
  /\ \E stamp \in [RowsOf[w] -> 1..MaxClock] :
       recordedAt' = [a \in Rows |-> IF a \in RowsOf[w] THEN stamp[a] ELSE recordedAt[a]]
  /\ UNCHANGED reader

Ask(d) ==
  /\ reader[d].at = "idle"
  /\ reader' = [reader EXCEPT ![d].at = "counting", ![d].start = Log]
  /\ UNCHANGED recordedAt

Count(d) ==
  /\ reader[d].at = "counting"
  /\ reader' = [reader EXCEPT ![d].at = "fetching", ![d].total = Cardinality(Log)]
  /\ UNCHANGED recordedAt

(* The n first rows of the log in descending order of recorded_at; between *)
(* equal stamps every query decides anew.                                  *)
Newest(n) == {A \in SUBSET Log :
  /\ Cardinality(A) = n
  /\ \A a \in A, b \in Log \ A : recordedAt[a] >= recordedAt[b]}

UpTo(n) == IF n < Cardinality(Log) THEN n ELSE Cardinality(Log)

(* Mutation: pages are numbered from 0.                                    *)
Offset_FromZero(page) == page * PageSize
Offset(page) == (page - 1) * PageSize

(* ORDER BY recorded_at DESC OFFSET offset LIMIT PageSize                  *)
Slices(offset) == {AB[2] \ AB[1] : AB \in
  {AB \in Newest(UpTo(offset)) \X Newest(UpTo(offset + PageSize)) : AB[1] \subseteq AB[2]}}
(* An empty page is filled with demo rows, which also make up the total of *)
(* an empty log.                                                           *)
Total(d, rows) == IF reader[d].total > 0 THEN reader[d].total
                  ELSE IF rows = {} THEN DemoRows ELSE Cardinality(rows)

(* The client drops a page past the total and is done.                     *)
Fetch(d) ==
  /\ reader[d].at = "fetching"
  /\ \E rows \in Slices(Offset(reader[d].page)) :
       reader' = IF (reader[d].page - 1) * PageSize >= Total(d, rows)
         THEN [reader EXCEPT ![d].at = "ended"]
         ELSE [reader EXCEPT ![d].at = "counting", ![d].page = @ + 1,
                 ![d].seen = @ \cup rows, ![d].fooled = @ \/ rows = {}]
  /\ UNCHANGED recordedAt

(* A query that fails is answered with no rows, not even demo rows, and a  *)
(* total of 0: every page is past that, and the client is done.            *)
FailRead(d) ==
  /\ reader[d].at \in {"counting", "fetching"}
  /\ reader' = [reader EXCEPT ![d].at = "ended", ![d].cut = TRUE]
  /\ UNCHANGED recordedAt

Reading(d) == Ask(d) \/ Count(d) \/ Fetch(d) \/ FailRead(d)
TrailNext == (\E w \in Writers : Write(w)) \/ (\E d \in Readers : Reading(d))
TrailSpec == TrailInit /\ [][TrailNext]_trailVars

(***************************************************************************)
(* Properties                                                              *)
(***************************************************************************)
(* Every variable stays in its type.                                       *)
TrailTypeOK ==
  /\ recordedAt \in [Rows -> 0..MaxClock]
  /\ reader \in [Readers -> Reader]

Untied(a) == \A b \in Rows \ {a} : recordedAt[b] # recordedAt[a]
Newer(a) == {b \in Log : recordedAt[b] > recordedAt[a]}
Unseen(d) == {a \in reader[d].start : Untied(a) /\ a \notin reader[d].seen}

(* What a client has when it has paged through the audit trail to the end, *)
(* whatever was written meanwhile: every row that was there when it began  *)
(* and carries a recorded_at of its own, or, if a query failed and passed  *)
(* for the end, all of them but such as lie behind the pages it got; and   *)
(* demo rows only if the log was empty when it began.                      *)
TrailIsFaithful ==
  \A d \in Readers :
    /\ reader[d].at = "ended" =>
         \A a \in Unseen(d) :
           reader[d].cut /\ Cardinality(Newer(a)) >= Offset(reader[d].page)
    /\ reader[d].fooled => reader[d].start = {}
=============================================================================
