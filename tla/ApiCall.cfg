SPECIFICATION Spec
CONSTANTS
  good = good
  noted = noted
  bad = bad
  lossy = lossy
  Nothing = Nothing
  Empty = Empty
  Values = {good, noted, bad, lossy, Nothing, Empty}
  Statuses = {"200", "204", "500"}
  Accepted <- MCAccepted
  Noted <- MCNoted
  Endpoints <- MCEndpoints
  Lossy = {lossy}
  MaxChanges = 1
INVARIANTS NothingSentUnvalidated ResultHasCause RecoveryIsValidated
PROPERTY AbortedCallEnds
CHECK_DEADLOCK FALSE
