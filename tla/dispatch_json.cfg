SPECIFICATION Spec
CONSTANTS
  w1 = w1
  w2 = w2
  f1 = f1
  f2 = f2
  Writers = {w1}
  Fitters = {f1, f2}
  Ids <- MCIds
  Versions <- MCVersions
  None = None
  Torn = Torn
  ConditionalWrites = FALSE
  Kinds = {"book", "cancel", "commit", "crew", "repair", "outage", "started", "overran"}
  RoomForAll = FALSE
  Crashes = TRUE
  MaxRequests = 4
  MaxBookings = 2
  Strategies = {0, 1}
  MaxOverruns = 1
\* the requests of a behaviour are bounded
CHECK_DEADLOCK FALSE
INVARIANTS
  HeadIsReadable
PROPERTIES
  NoBookingDiscarded
  StartedWorkStays
