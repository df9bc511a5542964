CONSTANTS
  d1 = d1
  d2 = d2
  i1 = i1
  i2 = i2
  r1 = r1
  r2 = r2
  p1 = p1
  p2 = p2
  c1 = c1
  c2 = c2
  radar = radar
  biscuit = biscuit
  AutoSerial = AutoSerial
  None = None
  Boards = {radar, biscuit}
  Devices = {d1}
  Ids = {i1}
  Releases = {r1, r2}
  V3Releases = {r1}
  Procs = {p1}
  Caches = {c1}
  Explicit = {TRUE}
  Commands = {"one-shot", "continue-one-shot"}
  CacheOf <- OneCache
  Product <- OneProduct
  BoardOf <- OneTarget
  Origins <- AllOrigins
SPECIFICATION LiveSpec
INVARIANT TypeOK EvidenceSound
PROPERTY NothingDiscarded ImplementsTransaction RunEnds Recoverable
