SPECIFICATION Spec
CONSTANTS
  V1 = {"a", "e"}
  V2 = {"b", "d"}
  Relative <- Paths_
  Name <- Names_
  FileId <- Ids_
  Data <- Data_
  Skipped = {"", ".", "..", "C:"}
  Clean <- Clean_
  Names <- Cleaned_
  NoName <- NoName_
  NoPath <- NoPath_
  Blocks = {1, 2}
  Fallback <- Fallback_
  Reserved <- Reserved_
  MaxNames = 3
  ForeignData <- Foreign_
  MaxForeign = 1
  MaxDrops = 1
  MaxMisreads = 1
INVARIANT Confined
INVARIANT FinishedIsIntact
INVARIANT NothingLeftOver
PROPERTY FilesAreKept
CHECK_DEADLOCK FALSE
