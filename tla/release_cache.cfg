SPECIFICATION LiveSpec
CONSTANTS
  p1 = p1
  p2 = p2
  c1 = c1
  c2 = c2
  radar = radar
  Targets = {radar}
  Listed <- OneAsset
  Bundle = "tar"
  Blocks = 1
  Procs = {p1, p2}
  Caches = {c1, c2}
  DefaultCache = c1
  None = None
INVARIANT InstallsOwnBundle KeptForContinuation
PROPERTY AcceptedStays GetsThrough
CONSTRAINT OthersOnlyDownload
