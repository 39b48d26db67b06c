\* Prices in pips, up to eight; a window of four bars, of which any may be missing.
\* The run ends with the last bar of the day.
CHECK_DEADLOCK FALSE
SPECIFICATION Spec
CONSTANTS
  AsianBars = 3
  EntryStart = 3
  EntryEnd = 7
  MaxSlot = 7
  MaxGap = 3
  Bars <- EightBars
  Adrs <- TwoAdrs
  Pip = 1
  RangeMin = 5
  SweepMin = 1
  StopMin = 2
  StopMax = 6
  StopBuffer = 1
  Unit = 10
  RangeMax = 6
  SweepMax = 4
  Quality = 5
  Tp1R = 10
  Tp2R = 22
  ReclaimBars = 2
INVARIANTS
  TypeOK
  SetupIsSound
  NeverBothSides
  OncePerDirection
