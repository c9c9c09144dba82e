SPECIFICATION MCSpec
CONSTANTS
  good = good
  noted = noted
  bad = bad
  Undefined = Undefined
  Hole = Hole
  Values = {good, noted, bad, Undefined}
  Noted = {noted}
  Items = {good, noted}
  Typed <- MCTyped
  Keys = {1, 2}
  Least = 1
  Most = 2
  MaxLength = 3
  MaxChanges = 2
  Lazy = {1, 2}
  Eager = {3, 4}
  Nowhere = 0
  MaxParts = 2
  MaxCalls = 2
INVARIANTS SequenceAgreesWithSync ItemsAreValidated AnswersStand
CHECK_DEADLOCK FALSE
