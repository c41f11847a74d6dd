SPECIFICATION FairSpec
CONSTANTS
  j1 = j1  j2 = j2  j3 = j3  s1 = s1  s2 = s2  b1 = b1
  w1 = w1  w2 = w2  h1 = h1  h2 = h2  h3 = h3
  None = None
  Jobs = {j1, j2}
  Subs = {s1, s2}
  Batches = {b1}
  BatchOf <- MCBothInBatch
  Workers = {w1, w2}
  Requests = {h1}
  Calls <- MCAnalyze
  MaxRuns = 3
  NumInserts = 1
  MaxFaults = 1
  MaxReceive = 2
  ChanCap = 2
  MaxCopies = 1
  FaultKinds = {"send", "save", "s3"}
INVARIANT FinalWhenProcessed
INVARIANT ExactInv
INVARIANT VerdictExact
PROPERTY BatchFinalises
CHECK_DEADLOCK FALSE
