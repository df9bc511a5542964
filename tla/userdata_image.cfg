SPECIFICATION LiveSpec
CONSTANTS
  Blocks = 7
  GroupSize = 3
  Budget = 5
  Stale = Stale
  None = None
INVARIANT LiveBlocksWritten MapIsAllocation
PROPERTY IntactNotRefused ImplementsFormat IntactIsAccepted
