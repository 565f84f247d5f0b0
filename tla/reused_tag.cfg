SPECIFICATION Spec
CONSTANTS
  Client = {5}
  Server = {0, 1, 2}
  Replica = {0, 1, 2, 5}
  Key = {k1}
  Value <- MCValue
  Removable <- Removals
  MaxPuts <- OneWriter2
  MaxRestarts <- OneRestarts
  MaxDown = 0
  MaxLate = 0
  LookupMayFail = TRUE
INVARIANTS OwnerAhead
