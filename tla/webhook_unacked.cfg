CONSTANTS
  a1 = a1  a2 = a2  api1 = api1  api2 = api2  poll1 = poll1  poll2 = poll2
  Actions = {a1}
  PaymentRefs = {a1}
  Servers = {api1}
  Pollers = {}
  HaveEventId = TRUE
  Reported = {"captured", "charge_failed"}
  Nested = {}
  Verdicts = {}
  MayDie = FALSE
  MaxEntries = 2
  MaxExpiries = 1
  MaxRepeats = 0
SPECIFICATION FairSpec
PROPERTY BegunIsAcked
