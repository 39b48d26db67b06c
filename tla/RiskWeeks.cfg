\* The default limits in units of 87.50 dollars, rounded; two-day weeks.
\* The run ends with its list of days.
CHECK_DEADLOCK FALSE
SPECIFICATION Spec
CONSTANTS
  PerTrade = 2
  Cooldown = 1
  SoftStop <- MinusFour
  HardStop <- MinusFive
  WeekStop <- MinusSix
  ConsecHalt = 3
  MaxEntries = 3
  DayCap = 4
  FloorBuffer = 4
  TrailAmount = 8
  TrailMode = "intraday_equity"
  DailyLoss = 7
  Slip = 1
  MaxR = 2
  WeekLen = 2
  MaxDays = 3
INVARIANTS
  TypeOK
  FirmLimitHolds
  AboveFloor
  WeekLossBounded
  RealizedMatchesBalance
  HardStopEndsDay
PROPERTIES
  NoMartingale
