\* A session and its restart on a broker with native brackets whose calls may
\* fail, raise, do a part or do it untold, and the flattener beside it.
SPECIFICATION NightSpec
CONSTANTS
  PerTrade = 4
  Cooldown = 2
  SoftStop <- MinusFive
  HardStop <- MinusSix
  WeekStop <- MinusFifteen
  ConsecHalt = 2
  MaxEntries = 3
  DayCap = 5
  FloorBuffer = 10
  TrailAmount = 18
  TrailMode = "static"
  DailyLoss = 13
  Symbols = {"EURUSD"}
  Prices <- FewBids
  FirstBid = 3
  Spread = 0
  Drift = 0
  Stop = 2
  Tp1 = 2
  Target = 3
  Lots = 2
  Tp1Lots = 1
  EntryEnd = 0
  ForcedExit = 1
  TimeStop = 1
  MaxTime = 1
  Emulated = FALSE
  Unreliable = TRUE
  FlattenFrom = 1
  Runs = 1
  MaxRounds = 2
  MaxRestarts = 1
  Raises = TRUE
  Blind = TRUE
PROPERTIES
  KnownFlatByNight
  FlatOrEscalated
