CONSTANTS
  w1 = w1  w2 = w2  w3 = w3
  Workers = {w1, w2}
  MinAttempts = 2
  RateNum = 7
  RateDen = 10
  MaxAttempts = 3
  MaxCount = 4
  MaxCrashes = 1
  MaxRepeats = 1
SPECIFICATION FairSpec
PROPERTY ReprobeEventually
CHECK_DEADLOCK FALSE
