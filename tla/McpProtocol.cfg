SPECIFICATION Spec
CONSTANTS
  Requests = {r1, r2, r3, r4}
  Ids = {i1, i2, i3}
  Concurrency = 2
  NoCall = NoCall
  NoId = NoId
SYMMETRY RequestSymmetry
INVARIANTS PendingIsExact AnsweredOrClosed HandshakeFirst
PROPERTIES SilentAfterEnd
CHECK_DEADLOCK FALSE
