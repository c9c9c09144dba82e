SPECIFICATION MCSpec
CONSTANTS
  Sends = {m1, m2, m3}
  FrameSizes = {1, 3, 4, 5}
  ResponseBytes = 3
  Concurrency = 2
  MaxBytes = 5
  MaxDepth = 2
  MaxInput = 7
INVARIANTS CountersAgree ErrorsAreHeard ScannerAgrees LimitsAreExact NothingLost
PROPERTIES ListenerGoes
CHECK_DEADLOCK FALSE
