SPECIFICATION Spec
CONSTANTS
  Request = {r1, r2, r3}
  Cost = 2
  Cap = 3
  MaxRetries = 2
  BaseBackoff = 1
  MaxBackoff = 1
  MinJitter = 1
  RetryAfter = {0, 2}
  Resolution = 1
  MaxTime = 1
SYMMETRY AnyRequest
CHECK_DEADLOCK FALSE
INVARIANTS LimitsAreKept FirstComeFirstServed TelemetryAccounts
PROPERTIES ImplementsWindowLimiter
