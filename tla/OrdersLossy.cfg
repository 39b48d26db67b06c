\* One key, a broker whose answers may be lost.
SPECIFICATION FairSpec
CONSTANTS
  i1 = i1
  Intents = {i1}
  Nobody = nobody
  MaxRetries = 2
  MaxOps = 1
  EntryInterval = 0
  DayLen = 2
  Lots = 3
  AckLoss = TRUE
  CodesNamed = FALSE
  MaxTime = 0
  MaxTickets = 3
  MaxBoots = 1
INVARIANTS
  DuplicatesBounded
  BookedTicketIsOurs
  PartialCloseBounded
PROPERTIES
  CallsReturn
