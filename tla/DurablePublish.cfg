SPECIFICATION Spec
CONSTANTS
  s1 = s1  s2 = s2  f1 = f1  f2 = f2  f3 = f3  a = a  d1 = d1  d2 = d2  d3 = d3
  b = b  sub = sub  Root = Root
  Ids = {s1}
  Files = {f1, f2}
  Session <- OneTransfer
  Size <- EmptySecond
  Digest <- Digests
  Base <- SameName
  Bases = {a}
  Dirs = {sub}
  DirOf <- OnlySub
  Contents = {d1, d2}
  Foreign = d2
  Absent = Absent  NoName = NoName  NoFile = NoFile  NoReg = NoReg
  MaxIndex = 2
  MaxSessions = 1
  MaxCrashes = 1
  MaxDrops = 1
  MaxIoErrors = 0
VIEW Consulted
INVARIANT Inv
PROPERTY OnlyVerifiedPublished
