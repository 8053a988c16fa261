CONSTANTS
  w1 = w1  w2 = w2  w3 = w3
  Workers = {w1, w2}
  MinAttempts = 3
  RateNum = 7
  RateDen = 10
  MaxAttempts = 5
  MaxCount = 7
  MaxCrashes = 0
  MaxRepeats = 2
SPECIFICATION FairSpec
INVARIANTS TypeOK OpenHasTimestamp TornCountsBounded
PROPERTIES ReprobeEventually HalfOpenDecides
CHECK_DEADLOCK FALSE
