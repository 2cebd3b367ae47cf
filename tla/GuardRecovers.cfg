SPECIFICATION BusySpec
CONSTANTS
  Caller = {t1, t2}
  MaxInflight = 2
  FailureThreshold = 2
  OpenFor = 2
PROPERTY Recovers
