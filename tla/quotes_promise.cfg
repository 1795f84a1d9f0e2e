SPECIFICATION Spec
CONSTANTS
  Unsaid = Unsaid
  Unparsed = Unparsed
  LastHour = 5
  CivilHour = 1
  WorkingWeek = 3
  NonAnswers = {"", "n/a"}
  Dialable = {"913-295-2960"}
  Catalogue <- MCCatalogue
  MadeToOrder = {"tempered"}
  LeadDays = 2
  Sold = {"window", "storefront"}
  Map <- MCMap
  Weights <- MCWeights
  MaxCommitment = 4
  PerMinute = 1
  Minutes = 12
  Bands <- MCSteady
  Anywhere = "anywhere"
  Depot = "depot"
  Goods = {"panes", "seal"}
  Overtime = 1
  PerMile = 2
  OvertimeRate = 3
  Quarter = 2
  LabourRate = 4
  AfterHoursRate = 6
  CallOut = 5
  Minimum = 10
  Calls <- MCAnyTime
  Diaries <- MCFullDiary
  Nows = {0}
  Calendar = 3
  HorizonDays = 2
  HourLen = 2
  Noon = 3
  Lead = 1
  QuotedWindow = 2
  Limit = 2
  FlexibleLimit = 1
\* a request ends with its answer
CHECK_DEADLOCK FALSE
INVARIANTS
  NoPromiseIsSpentOnAQuote
