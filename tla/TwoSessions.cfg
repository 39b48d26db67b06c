\* Two sessions on one paper broker.
SPECIFICATION Spec
CONSTANTS
  PerTrade = 4
  Cooldown = 2
  SoftStop <- MinusFive
  HardStop <- MinusNine
  WeekStop <- MinusFifteen
  ConsecHalt = 2
  MaxEntries = 3
  DayCap = 5
  FloorBuffer = 10
  TrailAmount = 18
  TrailMode = "intraday_equity"
  DailyLoss = 13
  Symbols = {"EURUSD", "GBPUSD"}
  Prices <- FewBids
  FirstBid = 3
  Spread = 1
  Drift = 0
  Stop = 2
  Tp1 = 2
  Target = 3
  Lots = 2
  Tp1Lots = 1
  EntryEnd = 0
  ForcedExit = 1
  TimeStop = 1
  MaxTime = 1
  Emulated = TRUE
  Unreliable = FALSE
INVARIANTS
  OneRiskUnit
