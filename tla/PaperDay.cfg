\* One session on a paper broker: the documented v1 (runner.py:4-5).
SPECIFICATION Spec
CONSTANTS
  PerTrade = 4
  Cooldown = 2
  SoftStop <- MinusFive
  HardStop <- MinusNine
  WeekStop <- MinusFifteen
  ConsecHalt = 2
  MaxEntries = 3
  DayCap = 5
  FloorBuffer = 10
  TrailAmount = 18
  TrailMode = "intraday_equity"
  DailyLoss = 13
  Symbols = {"EURUSD"}
  Prices <- Bids
  FirstBid = 5
  Spread = 1
  Drift = 1
  Stop = 2
  Tp1 = 2
  Target = 3
  Lots = 2
  Tp1Lots = 1
  EntryEnd = 2
  ForcedExit = 3
  TimeStop = 1
  MaxTime = 3
  Emulated = TRUE
  Unreliable = FALSE
INVARIANTS
  TypeOK
  BooksAgree
  SessionMirrorsBroker
  DayLossBounded
PROPERTIES
  Tp1Protects
