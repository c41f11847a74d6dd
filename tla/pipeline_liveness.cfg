SPECIFICATION FairSpec
CONSTANTS
  j1 = j1  j2 = j2  j3 = j3  s1 = s1  s2 = s2  b1 = b1
  w1 = w1  w2 = w2  h1 = h1  h2 = h2  h3 = h3
  None = None
  Jobs = {j1}
  Subs = {s1}
  Batches = {b1}
  BatchOf <- MCOneInBatch
  Workers = {w1, w2}
  Requests = {h1}
  Calls <- MCStart
  MaxRuns = 4
  NumInserts = 1
  MaxFaults = 1
  MaxReceive = 1
  ChanCap = 1
  MaxCopies = 2
  FaultKinds = {"save", "s3", "send", "ack", "expire", "crash", "backlog", "create", "apiCrash"}
PROPERTY PendingIsPickedUp
PROPERTY ProcessingEnds
PROPERTY AnalyzingEnds
CHECK_DEADLOCK FALSE
