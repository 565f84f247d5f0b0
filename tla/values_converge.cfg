SPECIFICATION LiveSpec
CONSTANTS
  Client = {5, 6}
  Server = {0, 1}
  Replica = {0, 1, 5, 6}
  Key = {k1}
  Value <- MCValue
  Removable = {}
  MaxPuts <- TwoOne
  MaxRestarts <- NoRestart
  MaxDown = 0
  MaxLate = 0
  LookupMayFail = FALSE
  IntLimit = 7
  WordRange = 32
INVARIANTS UniqueTimestamps NewestOfItsWriter
PROPERTIES ReportsConverge
