SPECIFICATION Spec
CONSTANTS
  Key = {k1}
  Session = {s1, s2}
  Writer = {s1}
  U64Max = 6
  MemtableMax = 1
  CompactionThreshold = 2
  MaxRestarts = 0
  MaxSnapshots = 0
  MaxHolders = 0
  ManualFlushes = FALSE
  Faults = {}
INVARIANT UnregisteredReads
