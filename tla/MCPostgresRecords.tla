------------------------- MODULE MCPostgresRecords -------------------------
(***************************************************************************)
(* Instances of PostgresRecords for TLC.                                   *)
(***************************************************************************)
EXTENDS PostgresRecords, TLC

CONSTANTS m1, c1, q1, q2, b1, w1, w2, x1, x2, x3, x4, d1

TwoReportTheSame == q1 :> c1 @@ q2 :> c1
OneMerchant == [c \in Customers |-> m1]
ByName == c1 :> 1 @@ Episode :> 2 @@ m1 :> 3
BatchOfTwo == b1 :> {x1, x2} @@ w1 :> {x3} @@ w2 :> {x4}
ForMerchant == b1 :> m1
ReportsOrReading == {{q1, q2, b1}, {b1, w1, w2, d1}}
=============================================================================
