SPECIFICATION Spec
CONSTANTS
  Client = {5, 6}
  Server = {0, 1}
  Replica = {0, 1, 5, 6}
  Key = {k1}
  Value <- MCValue
  Removable <- Removals
  MaxPuts <- OnePut
  MaxRestarts <- NoRestart
  MaxDown = 0
  MaxLate = 0
  LookupMayFail = TRUE
INVARIANTS KeysMatchRegisters NoLostPut MergeKeysCommute AcksCounted
