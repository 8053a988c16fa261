CONSTANTS
  pay = pay  ghost = ghost  later = later  nudge = nudge  halt = halt
  c1 = c1  c2 = c2  s1 = s1  s2 = s2
  Decisions <- AllDecisions
  ArmOf <- AllArms
  Recorded = {pay}
  Calls = {c1, c2}
  Sweeps = {s1, s2}
  MaxRetries = 2
  Window = 4
  MaxOtherLinks = 1
  CallsMayHang = FALSE
SPECIFICATION Spec
SYMMETRY Symmetric
INVARIANTS LedgersAgree DeadLetterIsTruthful OutcomesAudited
PROPERTY IntentSettles
