SPECIFICATION Spec
CONSTANTS
  kInterval = 3
  kLatency = 4
  Times <- MCTimes
  kWidth = 8
  kBufSize = 3
INVARIANTS NeverEarly DriftBounded NoCatchingUp PrintsItsValue
