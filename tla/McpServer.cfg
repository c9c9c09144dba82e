SPECIFICATION ServerFairSpec
CONSTANTS
  Requests = {r1, r2, r3}
  Ids = {i1}
  Concurrency = 1
  NoCall = NoCall
  NoId = NoId
  ResponseBytes = 10
  EnvelopeBytes = 3
  DiagnosticSizes = {5, 11}
  ResultSizes = {4, 9, 12}
INVARIANTS SlotsBelongToCalls
PROPERTIES RefusedOnlyByAbandoned EveryRequestEnds
CHECK_DEADLOCK FALSE
