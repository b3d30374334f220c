SPECIFICATION FairSpec
CONSTANTS
  t1 = t1  t2 = t2  f1 = f1  f2 = f2  f3 = f3
  Ids = {t1, t2}
  Files = {f1, f2, f3}
  Session <- TwoAndOne
  Size <- OneBlock
  Uploads = {1, 2}
  None = None
  MaxSessions = 1
  MaxTokens = 2
  MaxDrops = 1
  MaxBoth = 2
INVARIANT WithinCapacity
INVARIANT OneOutcome
INVARIANT CompleteMeansReceived
INVARIANT ProgressNotInflated
PROPERTY RetriesAreIdempotent
PROPERTY CancelStopsUpload
