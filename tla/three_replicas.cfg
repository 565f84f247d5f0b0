SPECIFICATION Spec
CONSTANTS
  Client = {5}
  Server = {0, 1, 2}
  Replica = {0, 1, 2, 5}
  Key = {k1}
  Value <- MCValue
  Removable <- Removals
  MaxPuts <- OnePut
  MaxRestarts <- NoRestart
  MaxDown = 0
  MaxLate = 1
  LookupMayFail = FALSE
INVARIANTS TypeOK AcksCounted
