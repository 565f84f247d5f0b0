SPECIFICATION LiveSpec
CONSTANTS
  Client = {5}
  Server = {0, 1}
  Replica = {0, 1, 5}
  Key = {k1}
  Value <- MCValue
  Removable <- Removals
  MaxPuts <- OneWriter2
  MaxRestarts <- NoRestart
  MaxDown = 1
  MaxLate = 1
  LookupMayFail = FALSE
  IntLimit = 7
  WordRange = 32
INVARIANTS NoLostPut TagsCovered RemovalsApplied ReportTruthful
PROPERTIES NeverBack ImplementsAddWins SyncReturns KeysConverge
