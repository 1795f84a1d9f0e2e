SPECIFICATION Spec
CONSTANTS
  w1 = w1
  w2 = w2
  f1 = f1
  f2 = f2
  Writers = {w1, w2}
  Fitters = {f1, f2}
  Ids <- MCIds
  Versions <- MCVersions
  None = None
  Torn = Torn
  ConditionalWrites = TRUE
  Kinds = {"book", "cancel", "repair", "outage"}
  RoomForAll = FALSE
  Crashes = FALSE
  MaxRequests = 3
  MaxBookings = 2
  Strategies = {0}
  MaxOverruns = 0
\* the requests of a behaviour are bounded
CHECK_DEADLOCK FALSE
VIEW MCView
SYMMETRY MCSymmetry
INVARIANTS
  OffersAreForActiveJobs
PROPERTIES
  RepairNeverDiscards
  OnlyForceDropsPromises
  RepairsNameWhatTheyReplace
