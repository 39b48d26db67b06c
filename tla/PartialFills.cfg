\* One key, no lost answer, an adapter that does not know every code.
SPECIFICATION Spec
CONSTANTS
  i1 = i1
  Intents = {i1}
  Nobody = nobody
  MaxRetries = 2
  MaxOps = 6
  EntryInterval = 1
  DayLen = 2
  Lots = 2
  AckLoss = FALSE
  CodesNamed = FALSE
  MaxTime = 0
  MaxTickets = 2
  MaxBoots = 0
INVARIANTS
  PartialFillsAreManaged
