SPECIFICATION Spec
CONSTANTS
  Calls = {c1}
  Worker = worker
  ann = ann
  bob = bob
  t1 = t1
  t2 = t2
  TeamOrder <- Order
  People = {ann, bob}
  Answers <- LineUps
  Rows = 2
  TeamsEveryRuns = 2
  MaxTroubles = 1
  Nowhere = Nowhere
  Gets = {g1, g2}
  Spacing = 2
  Window = 3
  RetryAfters = {4}
  MaxRetries = 1
  Late = 1
  Latency = 1
  NoGet = NoGet
INVARIANTS FeedInv ClientInv
PROPERTIES FeedCatchesUp ClientServes
CHECK_DEADLOCK FALSE
