SPECIFICATION Spec
CONSTANTS
  Key = {k1}
  Session = {s1, s2}
  Writer = {s1, s2}
  U64Max = 4
  MemtableMax = 1
  CompactionThreshold = 2
  MaxRestarts = 1
  MaxSnapshots = 0
  MaxHolders = 0
  ManualFlushes = TRUE
  Faults = {"upload", "cas", "truncate", "lease"}
SYMMETRY Symmetry
INVARIANTS
  StoreInv
  ListedObjectsExist
  CommitSeqFresh
  SeqInv
