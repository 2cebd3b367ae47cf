\* One session: every flush and compaction it starts completes, or dies in a
\* crash, before its next write.
SPECIFICATION LoneSpec
CONSTANTS
  Key = {k1, k2}
  Session = {s1}
  Writer = {s1}
  U64Max = 4
  MemtableMax = 2
  CompactionThreshold = 2
  MaxRestarts = 1
  MaxSnapshots = 1
  MaxHolders = 1
  ManualFlushes = FALSE
  Faults = {"append", "truncate"}
SYMMETRY Symmetry
INVARIANTS
  TypeOK
  Durable
  SnapshotReads
  CommitSeqFresh
PROPERTY
  ImplementsMvcc
