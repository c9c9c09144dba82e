SPECIFICATION FairSpec
CONSTANTS
  Calls = {c1, c2}
  Concurrency = 1
INVARIANTS SlotAccounting NothingLeaks AnswerHasCause
PROPERTIES LateValueSuppressed ImplementsSlotGate EveryCallerAnswered EverySlotReturned
CHECK_DEADLOCK FALSE
