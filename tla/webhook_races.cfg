CONSTANTS
  a1 = a1  a2 = a2  api1 = api1  api2 = api2  poll1 = poll1  poll2 = poll2
  Actions = {a1}
  PaymentRefs = {a1}
  Servers = {api1, api2}
  Pollers = {poll1, poll2}
  HaveEventId = FALSE
  Reported = {"captured", "charge_failed"}
  Nested = {}
  Verdicts = {"not_recovered"}
  MayDie = TRUE
  MaxEntries = 3
  MaxExpiries = 2
  MaxRepeats = 1
SPECIFICATION Spec
SYMMETRY Symmetric
INVARIANTS TypeOK PostsAreAccounted AckedIsAccounted RecoveredIsReal
PROPERTY ImplementsLedger
