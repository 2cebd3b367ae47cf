SPECIFICATION Spec
CONSTANTS
  Key = {k1, k2}
  Session = {s1}
  Writer = {s1}
  U64Max = 3
  MemtableMax = 9
  CompactionThreshold = 9
  MaxRestarts = 0
  MaxSnapshots = 0
  MaxHolders = 0
  ManualFlushes = FALSE
  Faults = {}
INVARIANT NoTornBatch
