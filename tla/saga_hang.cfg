CONSTANTS
  pay = pay  ghost = ghost  later = later  nudge = nudge  halt = halt
  c1 = c1  c2 = c2  s1 = s1  s2 = s2
  Decisions <- OneDecision
  ArmOf <- OneArm
  Recorded = {}
  Calls = {c1, c2}
  Sweeps = {s1}
  MaxRetries = 2
  Window = 2
  MaxOtherLinks = 1
  CallsMayHang = TRUE
SPECIFICATION FairSpec
INVARIANTS TypeOK SingleCreator ReferencesAreReal LinksBounded OneDeliveryActs
PROPERTIES IntentNeverReopened UnrecordedGapResolved CallsEnd
