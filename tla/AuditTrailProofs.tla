-------------------------- MODULE AuditTrailProofs --------------------------
(***************************************************************************)
(* What a client of query_audit_trail gets, for any number of writers,     *)
(* rows and readers, any page size and any clocks.                         *)
(***************************************************************************)
EXTENDS AuditTrail, FiniteSetTheorems, TLAPS

(* The argument: a row that a reader still lacks has at least as many      *)
(* newer ones as he has asked for, so that it lies on a later page, and    *)
(* before the end of the log he was told of.                               *)
Ahead(d) ==
  reader[d].at # "idle" =>
    \A a \in Unseen(d) : Cardinality(Newer(a)) >= Offset(reader[d].page)
Within(d) ==
  reader[d].at = "fetching" =>
    /\ \A a \in Unseen(d) : Offset(reader[d].page) < reader[d].total
    /\ reader[d].total <= Cardinality(Log)
    /\ reader[d].start # {} => reader[d].total > 0
Fresh(d) ==
  /\ reader[d].start \subseteq Log
  /\ reader[d].at = "idle" => reader[d].page = 1 /\ ~reader[d].fooled
Faithful(d) ==
  /\ reader[d].at = "ended" /\ ~reader[d].cut => Unseen(d) = {}
  /\ reader[d].fooled => reader[d].start = {}

ReaderInv(d) == Ahead(d) /\ Within(d) /\ Fresh(d) /\ Faithful(d)
TrailInv == TrailTypeOK /\ \A d \in Readers : ReaderInv(d)

(***************************************************************************)
(* Counting rows                                                           *)
(***************************************************************************)
LEMMA LogFinite ==
  IsFiniteSet(Log) /\ Cardinality(Log) \in Nat
  <1>1. Log \in SUBSET Rows
      BY DEF Log
  <1> QED BY <1>1, FS_Subset, FS_CardinalityType, TrailAssumption

LEMMA PartsOfLog ==
  ASSUME NEW A \in SUBSET Log
  PROVE  /\ IsFiniteSet(A) /\ Cardinality(A) \in Nat
         /\ Cardinality(A) <= Cardinality(Log)
         /\ Cardinality(A) = Cardinality(Log) => A = Log
  BY LogFinite, FS_Subset, FS_CardinalityType

LEMMA OffsetGrows ==
  ASSUME NEW page \in Nat \ {0}
  PROVE  /\ Offset(page) \in Nat
         /\ Offset(page + 1) = Offset(page) + PageSize
  <1>1. PageSize \in Nat /\ page - 1 \in Nat /\ (page + 1) - 1 = (page - 1) + 1
      BY TrailAssumption
  <1>2. ((page - 1) + 1) * PageSize = (page - 1) * PageSize + PageSize
      BY <1>1
  <1>3. (page - 1) * PageSize \in Nat
      BY <1>1
  <1> QED BY <1>1, <1>2, <1>3 DEF Offset

(* A row of a set that lacks one of the log's has at least one more row    *)
(* than the newer ones, if the set holds all of those.                     *)
LEMMA NewerThan ==
  ASSUME TrailTypeOK, NEW a \in Log, NEW A \in SUBSET Log, a \in A, Newer(a) \subseteq A
  PROVE  Cardinality(Newer(a)) < Cardinality(A)
  <1>1. Newer(a) \in SUBSET Log /\ a \notin Newer(a)
    <2>1. recordedAt[a] \in Nat
        BY DEF Log, TrailTypeOK
    <2> QED BY <2>1 DEF Newer
  <1>2. IsFiniteSet(Newer(a)) /\ Cardinality(Newer(a)) \in Nat
      BY <1>1, PartsOfLog
  <1>3. Cardinality(Newer(a) \cup {a}) = Cardinality(Newer(a)) + 1
      BY <1>1, <1>2, FS_AddElement
  <1>4. IsFiniteSet(A) /\ Cardinality(A) \in Nat
      BY PartsOfLog
  <1>5. Cardinality(Newer(a) \cup {a}) <= Cardinality(A)
    <2>1. Newer(a) \cup {a} \in SUBSET A
        OBVIOUS
    <2> QED BY <1>4, <2>1, FS_Subset
  <1> QED BY <1>2, <1>3, <1>4, <1>5

(* What a page leaves out, and nothing else is on a later page: a row that *)
(* has as many newer ones as the offset, shares its stamp with nobody and  *)
(* is not on the page, has a page more of them.                            *)
LEMMA NotOnPage ==
  ASSUME TrailTypeOK, NEW a \in Log, Untied(a), NEW offset \in Nat,
         offset <= Cardinality(Newer(a)),
         NEW rows \in Slices(offset), a \notin rows
  PROVE  Cardinality(Newer(a)) >= offset + PageSize
  <1>1. PICK A \in Newest(UpTo(offset)), B \in Newest(UpTo(offset + PageSize)) :
          A \subseteq B /\ rows = B \ A
      BY DEF Slices
  <1>2. /\ A \in SUBSET Log /\ B \in SUBSET Log
        /\ Cardinality(A) = UpTo(offset) /\ Cardinality(B) = UpTo(offset + PageSize)
        /\ \A x \in A, y \in Log \ A : recordedAt[x] >= recordedAt[y]
        /\ \A x \in B, y \in Log \ B : recordedAt[x] >= recordedAt[y]
      BY <1>1 DEF Newest
  <1>3. Log \subseteq Rows /\ \A x \in Log : recordedAt[x] \in Nat
      BY DEF Log, TrailTypeOK
  <1>4. Cardinality(Newer(a)) \in Nat /\ Cardinality(Log) \in Nat /\ PageSize \in Nat
      BY PartsOfLog, LogFinite, TrailAssumption DEF Newer
  <1>5. a \notin A
    <2> SUFFICES ASSUME a \in A PROVE FALSE
        OBVIOUS
    <2>1. Newer(a) \subseteq A
        BY <1>2, <1>3 DEF Newer
    <2>2. Cardinality(Newer(a)) < Cardinality(A)
        BY <1>2, <2>1, NewerThan
    <2> QED BY <1>2, <1>4, <2>2 DEF UpTo
  <1>6. a \in Log \ B
      BY <1>1, <1>5
  <1>7. B \subseteq Newer(a)
    <2> SUFFICES ASSUME NEW b \in B PROVE b \in Newer(a)
        OBVIOUS
    <2>1. recordedAt[b] >= recordedAt[a] /\ b # a /\ b \in Log
        BY <1>2, <1>6
    <2>2. recordedAt[b] # recordedAt[a]
        BY <1>3, <2>1 DEF Untied
    <2> QED BY <1>3, <2>1, <2>2 DEF Newer
  <1>8. Cardinality(B) <= Cardinality(Newer(a))
      BY <1>4, <1>7, PartsOfLog, FS_Subset DEF Newer
  <1>9. Cardinality(B) # Cardinality(Log)
      BY <1>2, <1>6, PartsOfLog
  <1> QED BY <1>2, <1>4, <1>8, <1>9 DEF UpTo

(* A page that begins inside the log is not empty.                         *)
LEMMA PageInside ==
  ASSUME NEW offset \in Nat, offset < Cardinality(Log)
  PROVE  {} \notin Slices(offset)
  <1> SUFFICES ASSUME {} \in Slices(offset) PROVE FALSE
      OBVIOUS
  <1>1. PICK A \in Newest(UpTo(offset)), B \in Newest(UpTo(offset + PageSize)) :
          A \subseteq B /\ {} = B \ A
      BY DEF Slices
  <1>2. A = B
      BY <1>1
  <1>3. UpTo(offset) = UpTo(offset + PageSize)
      BY <1>2 DEF Newest
  <1> QED BY <1>3, LogFinite, TrailAssumption DEF UpTo

(***************************************************************************)
(* Writing: rows that are in the log keep their stamps                     *)
(***************************************************************************)
LEMMA WriteKeeps ==
  ASSUME TrailInv, NEW w \in Writers, Write(w)
  PROVE  TrailInv'
  <1>1. PICK stamp \in [RowsOf[w] -> 1..MaxClock] :
          recordedAt' = [a \in Rows |-> IF a \in RowsOf[w] THEN stamp[a] ELSE recordedAt[a]]
      BY DEF Write
  <1>2. RowsOf[w] \cap Log = {} /\ reader' = reader
      BY DEF Write
  <1>3. recordedAt \in [Rows -> 0..MaxClock] /\ MaxClock \in Nat
      BY TrailAssumption DEF TrailInv, TrailTypeOK
  <1>4. TrailTypeOK'
    <2>1. ASSUME NEW a \in Rows PROVE recordedAt'[a] \in 0..MaxClock
        BY <1>1, <1>3
    <2> QED BY <1>1, <1>2, <2>1 DEF TrailInv, TrailTypeOK
  <1>5. \A a \in Log : recordedAt'[a] = recordedAt[a]
      BY <1>1, <1>2 DEF Log
  <1>6. Log \in SUBSET Log'
      BY <1>1, <1>2 DEF Log
  <1>7. Log' \in SUBSET Rows
      BY DEF Log
  <1>8. /\ IsFiniteSet(Log') /\ Cardinality(Log') \in Nat
        /\ Cardinality(Log) <= Cardinality(Log') /\ Cardinality(Log) \in Nat
      BY <1>6, <1>7, LogFinite, FS_Subset, FS_CardinalityType, TrailAssumption
  <1>9. ASSUME NEW a \in Log
        PROVE  /\ Untied(a)' => Untied(a)
               /\ Cardinality(Newer(a)) <= Cardinality(Newer(a)')
               /\ Cardinality(Newer(a)) \in Nat /\ Cardinality(Newer(a)') \in Nat
    <2>1. ASSUME Untied(a)' PROVE Untied(a)
      <3> SUFFICES ASSUME NEW b \in Rows \ {a} PROVE recordedAt[b] # recordedAt[a]
          BY DEF Untied
      <3>1. CASE b \in Log
          BY <1>5, <2>1, <3>1 DEF Untied
      <3>2. CASE b \notin Log
          BY <1>3, <3>2 DEF Log
      <3> QED BY <3>1, <3>2
    <2>2. Newer(a) \in SUBSET (Newer(a)') /\ Newer(a)' \in SUBSET (Log') /\ Newer(a) \in SUBSET Log
        BY <1>5, <1>6 DEF Newer
    <2>3. IsFiniteSet(Newer(a)')
        BY <1>8, <2>2, FS_Subset
    <2> QED BY <2>1, <2>2, <2>3, PartsOfLog, FS_Subset, FS_CardinalityType
  <1>10. ASSUME NEW d \in Readers PROVE ReaderInv(d)'
    <2>1. ReaderInv(d) /\ reader[d].start \subseteq Log
        BY DEF TrailInv, ReaderInv, Fresh
    <2>2. Unseen(d)' \subseteq Unseen(d)
        BY <1>2, <1>9, <2>1 DEF Unseen
    <2>3. reader[d].page \in Nat \ {0} /\ reader[d].total \in Nat
        BY DEF TrailInv, TrailTypeOK, Reader
    <2>4. Offset(reader[d].page) \in Nat /\ Offset(reader[d].page)' = Offset(reader[d].page)
        BY <1>2, <2>3, OffsetGrows DEF Offset
    <2>5. Ahead(d)'
      <3> SUFFICES ASSUME reader[d].at # "idle", NEW a \in Unseen(d)'
                   PROVE  Cardinality(Newer(a)') >= Offset(reader[d].page)
          BY <1>2, <2>4 DEF Ahead
      <3>1. a \in Unseen(d) /\ a \in Log
          BY <2>1, <2>2 DEF Unseen
      <3>2. Cardinality(Newer(a)) >= Offset(reader[d].page)
          BY <2>1, <3>1 DEF ReaderInv, Ahead
      <3> QED BY <1>9, <2>4, <3>1, <3>2
    <2>6. Within(d)'
      <3> SUFFICES ASSUME reader[d].at = "fetching"
                   PROVE  /\ \A a \in Unseen(d)' : Offset(reader[d].page) < reader[d].total
                          /\ reader[d].total <= Cardinality(Log')
                          /\ reader[d].start # {} => reader[d].total > 0
          BY <1>2, <2>4 DEF Within
      <3>1. /\ \A a \in Unseen(d) : Offset(reader[d].page) < reader[d].total
            /\ reader[d].total <= Cardinality(Log)
            /\ reader[d].start # {} => reader[d].total > 0
          BY <2>1 DEF ReaderInv, Within
      <3> QED BY <1>8, <2>2, <2>3, <3>1
    <2>7. Fresh(d)'
        BY <1>2, <1>6, <2>1 DEF ReaderInv, Fresh
    <2>8. Faithful(d)'
        BY <1>2, <2>1, <2>2 DEF ReaderInv, Faithful
    <2> QED BY <2>5, <2>6, <2>7, <2>8 DEF ReaderInv
  <1> QED BY <1>4, <1>10 DEF TrailInv

(***************************************************************************)
(* Reading                                                                 *)
(***************************************************************************)
(* A step of one reader leaves the others as they are.                     *)
LEMMA OneReaderSteps ==
  ASSUME TrailInv, NEW d \in Readers, UNCHANGED recordedAt,
         reader' \in [Readers -> Reader],
         \A o \in Readers \ {d} : reader'[o] = reader[o],
         ReaderInv(d)'
  PROVE  TrailInv'
  <1>1. ASSUME NEW o \in Readers \ {d} PROVE ReaderInv(o)'
    <2>1. reader'[o] = reader[o] /\ ReaderInv(o)
        BY DEF TrailInv
    <2> QED BY <2>1 DEF ReaderInv, Ahead, Within, Fresh, Faithful, Unseen, Newer, Untied, Log, Offset
  <1> QED BY <1>1 DEF TrailInv, TrailTypeOK

LEMMA OneReplaced ==
  ASSUME NEW f \in [Readers -> Reader], NEW d \in Readers, NEW q \in Reader
  PROVE  /\ [f EXCEPT ![d] = q] \in [Readers -> Reader]
         /\ \A o \in Readers \ {d} : [f EXCEPT ![d] = q][o] = f[o]
  OBVIOUS

LEMMA AskKeeps ==
  ASSUME TrailInv, NEW d \in Readers, Ask(d)
  PROVE  TrailInv'
  <1>0. reader \in [Readers -> Reader] /\ reader[d] \in Reader /\ ReaderInv(d)
      BY DEF TrailInv, TrailTypeOK
  <1>1. Log \in SUBSET Rows
      BY DEF Log
  <1>2. /\ reader' \in [Readers -> Reader] /\ UNCHANGED recordedAt
        /\ \A o \in Readers \ {d} : reader'[o] = reader[o]
      BY <1>0, <1>1 DEF Ask, Reader
  <1>3. /\ reader[d].at = "idle" /\ reader'[d].at = "counting" /\ reader'[d].start = Log
        /\ reader'[d].page = reader[d].page /\ reader'[d].fooled = reader[d].fooled
      BY <1>0 DEF Ask, Reader
  <1>4. reader[d].page = 1 /\ ~reader[d].fooled
      BY <1>0, <1>3 DEF ReaderInv, Fresh
  <1>5. Offset(1) = 0
      BY TrailAssumption DEF Offset
  <1>6. Ahead(d)'
    <2> SUFFICES ASSUME NEW a \in Unseen(d)'
                 PROVE  Cardinality(Newer(a)') >= Offset(reader'[d].page)
        BY DEF Ahead, Offset
    <2>1. Newer(a)' = Newer(a) /\ Cardinality(Newer(a)) \in Nat
        BY <1>2, PartsOfLog DEF Newer, Log
    <2> QED BY <1>3, <1>4, <1>5, <2>1
  <1>7. Within(d)' /\ Fresh(d)' /\ Faithful(d)'
      BY <1>2, <1>3, <1>4 DEF Within, Fresh, Faithful, Log
  <1> QED BY <1>2, <1>6, <1>7, OneReaderSteps DEF ReaderInv

LEMMA CountKeeps ==
  ASSUME TrailInv, NEW d \in Readers, Count(d)
  PROVE  TrailInv'
  <1>0. reader \in [Readers -> Reader] /\ reader[d] \in Reader /\ ReaderInv(d)
      BY DEF TrailInv, TrailTypeOK
  <1>1. /\ reader' \in [Readers -> Reader] /\ UNCHANGED recordedAt
        /\ \A o \in Readers \ {d} : reader'[o] = reader[o]
      BY <1>0, LogFinite DEF Count, Reader
  <1>2. /\ reader[d].at = "counting" /\ reader'[d].at = "fetching"
        /\ reader'[d].total = Cardinality(Log) /\ reader'[d].start = reader[d].start
        /\ reader'[d].page = reader[d].page /\ reader'[d].seen = reader[d].seen
        /\ reader'[d].fooled = reader[d].fooled
      BY <1>0 DEF Count, Reader
  <1>3. /\ Unseen(d)' = Unseen(d) /\ Log' = Log /\ \A a : Newer(a)' = Newer(a)
        /\ reader[d].start \subseteq Log
      BY <1>0, <1>1, <1>2 DEF Unseen, Untied, Log, Newer, ReaderInv, Fresh
  <1>4. Offset(reader[d].page) \in Nat
      BY <1>0, OffsetGrows DEF Reader
  <1>5. \A a \in Unseen(d) : Cardinality(Newer(a)) >= Offset(reader[d].page)
      BY <1>0, <1>2 DEF ReaderInv, Ahead
  <1>6. Ahead(d)'
      BY <1>2, <1>3, <1>5 DEF Ahead, Offset
  <1>7. ASSUME NEW a \in Unseen(d) PROVE Offset(reader[d].page) < Cardinality(Log)
    <2>1. a \in Log /\ Newer(a) \subseteq Log /\ Log \in SUBSET Log
        BY <1>3 DEF Unseen, Newer
    <2>2. Cardinality(Newer(a)) < Cardinality(Log)
        BY <2>1, NewerThan DEF TrailInv
    <2>3. Cardinality(Newer(a)) \in Nat
        BY <2>1, PartsOfLog
    <2> QED BY <1>4, <1>5, <2>2, <2>3, LogFinite
  <1>8. reader[d].start # {} => Cardinality(Log) > 0
      BY <1>3, LogFinite, FS_EmptySet
  <1>9. Within(d)'
      BY <1>2, <1>3, <1>7, <1>8, LogFinite DEF Within, Offset
  <1>10. Fresh(d)' /\ Faithful(d)'
      BY <1>0, <1>2, <1>3 DEF ReaderInv, Fresh, Faithful
  <1> QED BY <1>1, <1>6, <1>9, <1>10, OneReaderSteps DEF ReaderInv

(* The page past the total: nothing is missing.                            *)
LEMMA EndKeeps ==
  ASSUME TrailInv, NEW d \in Readers, Fetch(d), NEW rows \in SUBSET Log,
         Offset(reader[d].page) >= Total(d, rows),
         reader' = [reader EXCEPT ![d].at = "ended"]
  PROVE  TrailInv'
  <1>0. reader \in [Readers -> Reader] /\ reader[d] \in Reader /\ ReaderInv(d)
      BY DEF TrailInv, TrailTypeOK
  <1>1. /\ reader' \in [Readers -> Reader] /\ UNCHANGED recordedAt
        /\ \A o \in Readers \ {d} : reader'[o] = reader[o]
      BY <1>0 DEF Fetch, Reader
  <1>2. /\ reader[d].at = "fetching" /\ reader'[d].at = "ended"
        /\ reader'[d].start = reader[d].start /\ reader'[d].seen = reader[d].seen
        /\ reader'[d].fooled = reader[d].fooled
      BY <1>0 DEF Fetch, Reader
  <1>3. Unseen(d)' = Unseen(d) /\ Log' = Log
      BY <1>1, <1>2 DEF Unseen, Untied, Log
  <1>4. Unseen(d) = {}
    <2> SUFFICES ASSUME NEW a \in Unseen(d) PROVE FALSE
        OBVIOUS
    <2>1. Offset(reader[d].page) < reader[d].total
        BY <1>0, <1>2 DEF ReaderInv, Within
    <2>2. Offset(reader[d].page) \in Nat /\ reader[d].total \in Nat
        BY <1>0, OffsetGrows DEF Reader
    <2> QED BY <2>1, <2>2 DEF Total
  <1>5. Ahead(d)' /\ Within(d)' /\ Fresh(d)' /\ Faithful(d)'
      BY <1>0, <1>2, <1>3, <1>4 DEF ReaderInv, Ahead, Within, Fresh, Faithful
  <1> QED BY <1>1, <1>5, OneReaderSteps DEF ReaderInv

(* A page before the total: what is still missing is further on.           *)
LEMMA PageKeeps ==
  ASSUME TrailInv, NEW d \in Readers, Fetch(d),
         NEW rows \in Slices(Offset(reader[d].page)),
         ~(Offset(reader[d].page) >= Total(d, rows)),
         reader' = [reader EXCEPT ![d].at = "counting", ![d].page = @ + 1,
                      ![d].seen = @ \cup rows, ![d].fooled = @ \/ rows = {}]
  PROVE  TrailInv'
  <1> DEFINE offset == Offset(reader[d].page)
  <1>0. /\ reader \in [Readers -> Reader] /\ reader[d] \in Reader /\ ReaderInv(d)
        /\ TrailTypeOK
      BY DEF TrailInv, TrailTypeOK
  <1>1. rows \in SUBSET Log /\ rows \in SUBSET Rows
      BY DEF Slices, Newest, Log
  <1>2. /\ reader[d].at = "fetching" /\ reader'[d].at = "counting"
        /\ reader'[d].page = reader[d].page + 1
        /\ reader'[d].start = reader[d].start /\ reader'[d].seen = reader[d].seen \cup rows
        /\ reader'[d].fooled = (reader[d].fooled \/ rows = {})
        /\ UNCHANGED recordedAt
      BY <1>0 DEF Fetch, Reader
  <1>3. /\ reader' \in [Readers -> Reader]
        /\ \A o \in Readers \ {d} : reader'[o] = reader[o]
    <2> DEFINE page == reader[d].page + 1
               seen == reader[d].seen \cup rows
               fooled == reader[d].fooled \/ rows = {}
    <2>1. page \in Nat \ {0} /\ seen \in SUBSET Rows /\ fooled \in BOOLEAN
        BY <1>0, <1>1 DEF Reader
    <2>2. reader' = [reader EXCEPT ![d].at = "counting", ![d].page = page,
                       ![d].seen = seen, ![d].fooled = fooled]
        OBVIOUS
    <2> HIDE DEF page, seen, fooled
    <2> DEFINE next == [at |-> "counting", page |-> page, total |-> reader[d].total,
                        start |-> reader[d].start, seen |-> seen, fooled |-> fooled,
                        cut |-> reader[d].cut]
    <2>3. next \in Reader
        BY <1>0, <2>1 DEF Reader
    <2>4. reader' = [reader EXCEPT ![d] = next]
        BY <1>0, <2>2 DEF Reader
    <2> HIDE DEF next
    <2>5. /\ [reader EXCEPT ![d] = next] \in [Readers -> Reader]
          /\ \A o \in Readers \ {d} : [reader EXCEPT ![d] = next][o] = reader[o]
        BY <1>0, <2>3, OneReplaced
    <2> QED BY <2>4, <2>5
  <1>4. /\ Unseen(d)' \subseteq Unseen(d) \ rows /\ Log' = Log
        /\ \A a : Newer(a)' = Newer(a)
        /\ reader[d].start \subseteq Log
      BY <1>0, <1>2 DEF Unseen, Untied, Log, Newer, ReaderInv, Fresh
  <1>5. /\ offset \in Nat /\ Offset(reader[d].page + 1) = offset + PageSize
        /\ reader[d].total \in Nat
      BY <1>0, OffsetGrows DEF Reader
  <1>6. Ahead(d)'
    <2> SUFFICES ASSUME NEW a \in Unseen(d)'
                 PROVE  Cardinality(Newer(a)) >= offset + PageSize
        BY <1>2, <1>4, <1>5 DEF Ahead, Offset
    <2>1. a \in Unseen(d) /\ a \notin rows /\ a \in Log /\ Untied(a)
        BY <1>4 DEF Unseen
    <2>2. offset <= Cardinality(Newer(a))
        BY <1>0, <1>2, <2>1 DEF ReaderInv, Ahead
    <2> HIDE DEF offset
    <2> QED BY <1>0, <1>5, <2>1, <2>2, NotOnPage DEF offset
  <1>7. Faithful(d)'
    <2> SUFFICES ASSUME rows = {}, reader[d].start # {} PROVE FALSE
        BY <1>0, <1>2 DEF ReaderInv, Faithful
    <2>1. 0 < reader[d].total /\ reader[d].total <= Cardinality(Log)
        BY <1>0, <1>2, <1>5 DEF ReaderInv, Within
    <2>2. offset < Cardinality(Log)
        BY <1>5, <2>1, LogFinite DEF Total
    <2> QED BY <1>5, <2>2, PageInside
  <1>8. Within(d)' /\ Fresh(d)'
      BY <1>0, <1>2, <1>4 DEF ReaderInv, Within, Fresh
  <1> QED BY <1>2, <1>3, <1>6, <1>7, <1>8, OneReaderSteps DEF ReaderInv

LEMMA FetchKeeps ==
  ASSUME TrailInv, NEW d \in Readers, Fetch(d)
  PROVE  TrailInv'
  <1>1. PICK rows \in Slices(Offset(reader[d].page)) :
          reader' = IF (reader[d].page - 1) * PageSize >= Total(d, rows)
            THEN [reader EXCEPT ![d].at = "ended"]
            ELSE [reader EXCEPT ![d].at = "counting", ![d].page = @ + 1,
                    ![d].seen = @ \cup rows, ![d].fooled = @ \/ rows = {}]
      BY DEF Fetch
  <1>2. rows \in SUBSET Log
      BY DEF Slices, Newest
  <1>3. Offset(reader[d].page) = (reader[d].page - 1) * PageSize
      BY DEF Offset
  <1> QED BY <1>1, <1>2, <1>3, EndKeeps, PageKeeps

(* A failure that passes for the end: what is missing is still ahead.      *)
LEMMA FailKeeps ==
  ASSUME TrailInv, NEW d \in Readers, FailRead(d)
  PROVE  TrailInv'
  <1>0. reader \in [Readers -> Reader] /\ reader[d] \in Reader /\ ReaderInv(d)
      BY DEF TrailInv, TrailTypeOK
  <1>1. /\ reader' \in [Readers -> Reader] /\ UNCHANGED recordedAt
        /\ \A o \in Readers \ {d} : reader'[o] = reader[o]
      BY <1>0 DEF FailRead, Reader
  <1>2. /\ reader[d].at # "idle" /\ reader'[d].at = "ended" /\ reader'[d].cut
        /\ reader'[d].start = reader[d].start /\ reader'[d].seen = reader[d].seen
        /\ reader'[d].page = reader[d].page /\ reader'[d].fooled = reader[d].fooled
      BY <1>0 DEF FailRead, Reader
  <1>3. Unseen(d)' = Unseen(d) /\ \A a : Newer(a)' = Newer(a)
      BY <1>1, <1>2 DEF Unseen, Untied, Newer, Log
  <1>4. Ahead(d)'
      BY <1>0, <1>2, <1>3 DEF ReaderInv, Ahead, Offset
  <1>5. Within(d)' /\ Fresh(d)' /\ Faithful(d)'
      BY <1>0, <1>1, <1>2 DEF ReaderInv, Within, Fresh, Faithful, Log
  <1> QED BY <1>1, <1>4, <1>5, OneReaderSteps DEF ReaderInv

(***************************************************************************)
(* The theorems                                                            *)
(***************************************************************************)
LEMMA TrailStarts == TrailInit => TrailInv
  <1> SUFFICES ASSUME TrailInit PROVE TrailInv
      OBVIOUS
  <1>1. TrailTypeOK
      BY TrailAssumption DEF TrailInit, TrailTypeOK, Reader
  <1>2. ASSUME NEW d \in Readers PROVE ReaderInv(d)
      BY DEF TrailInit, ReaderInv, Ahead, Within, Fresh, Faithful
  <1> QED BY <1>1, <1>2 DEF TrailInv

LEMMA TrailSteps == TrailInv /\ [TrailNext]_trailVars => TrailInv'
  <1> SUFFICES ASSUME TrailInv, [TrailNext]_trailVars PROVE TrailInv'
      OBVIOUS
  <1>1. CASE UNCHANGED trailVars
      BY <1>1 DEF trailVars, TrailInv, TrailTypeOK, ReaderInv, Ahead, Within, Fresh,
                  Faithful, Unseen, Untied, Newer, Log, Offset
  <1> QED BY <1>1, WriteKeeps, AskKeeps, CountKeeps, FetchKeeps, FailKeeps
          DEF TrailNext, Reading

(* The inductive invariant holds in every reachable state.                 *)
THEOREM TrailInvariance == TrailSpec => []TrailInv
  BY TrailStarts, TrailSteps, PTL DEF TrailSpec

LEMMA TrailImplies == TrailInv => TrailIsFaithful
  BY DEF TrailInv, TrailTypeOK, ReaderInv, Ahead, Faithful, TrailIsFaithful

(* Whoever pages through the audit trail to the end has every row that was *)
(* there when he began and shares its stamp with no other, but for those   *)
(* behind the page whose failure he took for the end; and he has taken     *)
(* demo rows for real ones only if there were none.                        *)
THEOREM FaithfulTrail == TrailSpec => []TrailIsFaithful
  BY TrailInvariance, TrailImplies, PTL
=============================================================================
