CONSTANTS
  a1 = a1  a2 = a2  api1 = api1  api2 = api2  poll1 = poll1  poll2 = poll2
  Actions = {a1}
  PaymentRefs = {}
  Servers = {api1}
  Pollers = {poll1, poll2}
  HaveEventId = TRUE
  Reported = {"captured", "charge_failed"}
  Nested = {}
  Verdicts = {}
  MayDie = TRUE
  MaxEntries = 1
  MaxExpiries = 0
  MaxRepeats = 0
SPECIFICATION FairSpec
PROPERTY CapturedIsSettled
