SPECIFICATION LiveSpec
CONSTANTS
  Client = {5}
  Server = {0, 1}
  Replica = {0, 1, 5}
  Key = {k1}
  Value <- MCValue
  Removable <- Removals
  MaxPuts <- OneWriter2
  MaxRestarts <- NoRestart
  MaxDown = 0
  MaxLate = 0
  LookupMayFail = FALSE
PROPERTIES ValuesConverge
