SPECIFICATION ServingSpec
CONSTANTS
  Key = {k1}
  MaxSeq = 3
  Client = {c1, c2, c3}
  Writing = {c1}
  Caller = {t1, t2, t3}
  MaxInflight = 2
  FailureThreshold = 2
  OpenFor = 1
INVARIANTS
  TxnTypeOK
  RepeatableReads
  HoldersExact
  GuardTypeOK
  SlotsExact
  NoLostWakeup
  ProbeAtThreshold
PROPERTY
  WaitersServed
