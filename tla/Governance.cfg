\* Two threads, three requests, one restart, one handler that raises.
SPECIFICATION Spec
CONSTANTS
  w1 = w1
  w2 = w2
  Workers = {w1, w2}
  Strategies <- FourConfigs
  Edits <- OneEdit
  Firms <- TwoFirms
  FirstStrategy <- Loose
  FirstFirm = 4
  InEvaluation = TRUE
  MaxRequests = 3
  MaxBoots = 1
  MaxFails = 1
SYMMETRY WorkerSymmetry
INVARIANTS
  NeverLooser
  PairStaysValid
  KilledIsPaused
  AuditKeepsUp
  DisarmIsPrompt
