\* Two keys, a truthful broker, one restart, a clock that crosses midnight.
SPECIFICATION Spec
CONSTANTS
  i1 = i1
  i2 = i2
  Intents = {i1, i2}
  Nobody = nobody
  MaxRetries = 2
  MaxOps = 1
  EntryInterval = 2
  DayLen = 2
  Lots = 2
  AckLoss = FALSE
  CodesNamed = FALSE
  MaxTime = 2
  MaxTickets = 2
  MaxBoots = 1
SYMMETRY Symmetry
INVARIANTS
  TypeOK
  OneOrderPerKey
  ExecutedIsAccountedFor
  EntriesRespectLimiter
  JournalConserves
PROPERTIES
  LedgerSpec
