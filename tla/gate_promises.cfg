CONSTANTS
  e1 = e1  p1 = p1  p2 = p2  c1 = c1  s1 = s1  s2 = s2
  Episodes = {e1}
  Promises = {p1, p2}
  Checks = {c1}
  Settlers = {s1, s2}
  EpisodeOf <- OneEpisode
  Horizon = 2
  MaxFailures = 1
SPECIFICATION Spec
CHECK_DEADLOCK FALSE
INVARIANTS TypeOK OptOutFirst PromiseSuppresses KeptWhenOver
PROPERTY KeptIsSettled
