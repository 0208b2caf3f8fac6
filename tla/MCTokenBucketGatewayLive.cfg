SPECIFICATION FairSpec
CONSTANTS
  Request = {r1, r2, r3}
  Cost = 2
  Cap = 2
  MaxRetries = 2
  BaseBackoff = 1
  MaxBackoff = 1
  MinJitter = 1
  RetryAfter = {0}
  Resolution = 1
  MaxTime = 0
PROPERTIES
  EveryCallEnds
CHECK_DEADLOCK FALSE
