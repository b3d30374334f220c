SPECIFICATION FairSpec
CONSTANTS
  N = 2
  Size <- OneTwo
  MaxRetries = 1
  Conns = {1, 2, 3}
  Cancels = TRUE
  MaxChanges = 1
  MaxFaults = 2
INVARIANT TypeOK
INVARIANT PartsAreAligned
INVARIANT OutcomesAreHonest
PROPERTY ReceiptsSpec
PROPERTY SendEnds
PROPERTY ResumeDelivers
