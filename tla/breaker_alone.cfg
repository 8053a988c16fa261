CONSTANTS
  w1 = w1  w2 = w2  w3 = w3
  Workers = {w1}
  MinAttempts = 5
  RateNum = 7
  RateDen = 10
  MaxAttempts = 9
  MaxCount = 100
  MaxCrashes = 1
  MaxRepeats = 3
SPECIFICATION FairSpec
PROPERTY ImplementsFSM
CHECK_DEADLOCK FALSE
