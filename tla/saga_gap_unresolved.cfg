CONSTANTS
  pay = pay  ghost = ghost  later = later  nudge = nudge  halt = halt
  c1 = c1  c2 = c2  s1 = s1  s2 = s2
  Decisions <- AllDecisions
  ArmOf <- AllArms
  Recorded = {pay, ghost, later, nudge, halt}
  Calls = {c1}
  Sweeps = {s1}
  MaxRetries = 2
  Window = 100
  MaxOtherLinks = 0
  CallsMayHang = FALSE
SPECIFICATION FairSpec
PROPERTY StuckIntentResolved
