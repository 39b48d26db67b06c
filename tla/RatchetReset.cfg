\* One thread, so that requests never overlap, and one restart.
SPECIFICATION Spec
CONSTANTS
  w1 = w1
  Workers = {w1}
  Strategies <- FourConfigs
  Edits <- NoEdits
  Firms <- TwoFirms
  FirstStrategy <- Loose
  FirstFirm = 4
  InEvaluation = TRUE
  MaxRequests = 2
  MaxBoots = 1
  MaxFails = 0
PROPERTIES
  RowsOnlyReduce
