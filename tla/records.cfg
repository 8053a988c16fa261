CONSTANTS
  m1 = m1  c1 = c1  q1 = q1  q2 = q2  b1 = b1  w1 = w1  w2 = w2
  x1 = x1  x2 = x2  x3 = x3  x4 = x4  d1 = d1
  Requests = {q1, q2}
  Merchants = {m1}
  Customers = {c1}
  CustomerOf <- TwoReportTheSame
  MerchantOf <- OneMerchant
  FlushRank <- ByName
  MaxLost = 2
  Writers = {b1, w1, w2}
  Runs = {b1}
  RowsOf <- BatchOfTwo
  MerchantFor <- ForMerchant
  Readers = {d1}
  PageSize = 1
  DemoRows = 2
  MaxClock = 3
  Traffic <- ReportsOrReading
SPECIFICATION Spec
CHECK_DEADLOCK FALSE
INVARIANTS TypeOK EventsAreAccounted DuplicatesAreFound TrailIsFaithful
PROPERTY RequestsEnd
