SPECIFICATION Spec
CONSTANTS
  Key = {k1}
  Session = {s1}
  Writer = {s1}
  U64Max = 5
  MemtableMax = 9
  CompactionThreshold = 9
  MaxRestarts = 2
  MaxSnapshots = 0
  MaxHolders = 0
  ManualFlushes = FALSE
  Faults = {"append"}
INVARIANT CommitSeqFresh
