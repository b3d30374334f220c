SPECIFICATION Spec
CONSTANTS
  s1 = s1  s2 = s2  f1 = f1  f2 = f2  f3 = f3  a = a  d1 = d1  d2 = d2  d3 = d3
  b = b  sub = sub  Root = Root
  Ids = {s1, s2}
  Files = {f1, f2, f3}
  Session <- AndAnother
  Size <- UnitSize
  Digest <- Digests
  Base <- TwoNames
  Bases = {a, b}
  Dirs = {sub}
  DirOf <- InSub
  Contents = {d1, d2, d3}
  Foreign = d3
  Absent = Absent  NoName = NoName  NoFile = NoFile  NoReg = NoReg
  MaxIndex = 1
  MaxSessions = 1
  MaxCrashes = 2
  MaxDrops = 0
  MaxIoErrors = 0
INVARIANT ToldFactsAreDurable
INVARIANT SessionsWithinLimit
PROPERTY NothingPublishedAfterCancel
PROPERTY ReceiptsSpec
