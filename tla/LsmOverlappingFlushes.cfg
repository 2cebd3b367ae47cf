SPECIFICATION Spec
CONSTANTS
  Key = {k1}
  Session = {s1, s2}
  Writer = {s1, s2}
  U64Max = 4
  MemtableMax = 1
  CompactionThreshold = 9
  MaxRestarts = 0
  MaxSnapshots = 0
  MaxHolders = 0
  ManualFlushes = FALSE
  Faults = {}
INVARIANT Durable
