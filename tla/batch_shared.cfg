CONSTANTS
  r1 = r1  r2 = r2  m1 = m1  m2 = m2  retry = retry  stop = stop
  GLOBAL = GLOBAL
  Learners = {r1, r2}
  Merchants = {m1, m2}
  Arms = {retry, stop}
  Stop = stop
  Retry = retry
  MaxRepeats = 1
  Histories <- NothingOrOneRun
  Drafts <- DraftsPerRun
SPECIFICATION Spec
CHECK_DEADLOCK FALSE
INVARIANTS TypeOK PriorsIntact GlobalPoolsMerchants CommittedIsLearned ReferencesCommitted
PROPERTY RunsEnd
