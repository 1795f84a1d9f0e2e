SPECIFICATION Spec
CONSTANTS
  Stamps = {0, 4}
  Times = {0, 3, 4, 8}
  Forever = 11
  PerMinute = 2
  Minutes = 5
  Spans <- MCSpans
  MaxEvents = 3
\* the events of a behaviour are bounded
CHECK_DEADLOCK FALSE
INVARIANTS
  OutagesMeanWhatWasSaid
  FreeTimePassesTheChecker
  FreeTimeIsLongest
