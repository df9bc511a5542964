SPECIFICATION LiveSpec
CONSTANTS
  p1 = p1
  Procs = {p1}
  Origins <- Units
  None = None
INVARIANT SavedIsLegacy SystemKept ATableIsWhole
PROPERTY PreloaderLast Completes
CHECK_DEADLOCK FALSE
