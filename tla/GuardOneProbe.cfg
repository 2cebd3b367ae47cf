SPECIFICATION GuardSpec
CONSTANTS
  Caller = {t1, t2}
  MaxInflight = 2
  FailureThreshold = 2
  OpenFor = 1
INVARIANT OneProbe
