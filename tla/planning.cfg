SPECIFICATION Spec
CONSTANTS
  PerMinute = 1
  Minutes = 10
  Bands <- MCEasing
  Anywhere = "anywhere"
  Depot = "depot"
  Goods = {"panes", "seal"}
  Overtime = 1
  Days = 2
  Worlds <- MCWorlds
  Followed <- MCFollowed
  Troubles <- MCTroubles
  Utilization = 100
  MaxRounds = 2
  MaxPlans = 2
\* the plans of a behaviour are bounded
CHECK_DEADLOCK FALSE
INVARIANTS
  EveryJobIsAnsweredOnce
  PlanPassesTheChecker
  CarriedWorkStands
  ImpossibleMeansImpossible
PROPERTY
  CapacityOnlyTightens
