SPECIFICATION ServerSpec
CONSTANTS
  Requests = {r1, r2, r3}
  Ids = {i1, i2}
  Concurrency = 1
  NoCall = NoCall
  NoId = NoId
  ResponseBytes = 10
  EnvelopeBytes = 3
  DiagnosticSizes = {5}
  ResultSizes = {4, 9, 12}
PROPERTIES OverLimitDiagnosed
CHECK_DEADLOCK FALSE
