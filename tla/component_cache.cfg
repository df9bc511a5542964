CONSTANTS
  b1 = b1
  b2 = b2
  one = one
  other = other
  Builds = {b1, b2}
  Outputs = {one, other}
  Damaged = Damaged
  None = None
SPECIFICATION LiveSpec
INVARIANTS OneOutput RecordBacked
PROPERTIES EntryKept ImplementsOutput Heals
