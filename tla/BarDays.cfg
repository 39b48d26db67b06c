\* One unit of price is a quarter of the stop, two of volume a lot step.
\* The run ends with its list of days.
CHECK_DEADLOCK FALSE
SPECIFICATION Spec
CONSTANTS
  PerTrade = 8
  Cooldown = 4
  SoftStop <- MinusFifteen
  HardStop <- MinusEighteen
  WeekStop <- MinusTwentyFour
  ConsecHalt = 2
  MaxEntries = 2
  DayCap = 20
  FloorBuffer = 17
  TrailAmount = 34
  TrailMode = "intraday_equity"
  DailyLoss = 32
  Slip = 8
  MaxR = 2
  WeekLen = 1
  MaxDays = 2
  Stops = {4}
  Targets = {6}
  Tp1Move <- OneR
  Tp1Lots <- HalfOf
  LotStep = 2
  MaxLot = 2
  Spreads = {1}
  SlipIn = 0
  SlipOut = 1
  Commission = 1
  Gap = 1
  EntryEnd = 2
  ForcedExit = 4
  TimeStop = 2
  LastBar = 5
INVARIANTS
  TypeOK
  LateOnlyByTp1
PROPERTIES
  DaysSpec
  RestIsProtected
