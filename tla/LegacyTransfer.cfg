SPECIFICATION FairSpec
CONSTANTS
  t1 = t1  t2 = t2  f1 = f1  f2 = f2
  Ids = {t1, t2}
  Files = {f1, f2}
  Session <- OneOwner
  Size <- OneAndNil
  Uploads = {1, 2}
  None = None
  MaxSessions = 1
  MaxTokens = 1
  MaxDrops = 1
  MaxBoth = 2
  Id = t1
  Order <- FirstLast
  MaxRetries = 1
  MaxFaults = 1
  MaxChanges = 1
  MaxTrouble = 2
  MaxHours = 1
INVARIANT TypeOK
INVARIANT OutcomesAreHonest
INVARIANT ProgressIsTrue
PROPERTY TransferEnds
CHECK_DEADLOCK FALSE
