SPECIFICATION Spec
CONSTANTS
  Client = {5, 6}
  Here = 0
  Peer = 1
  Replica = {0, 1, 5, 6}
  Key = {k1}
  Value <- MCValue
  Removable <- OneRemover
  MaxPuts <- OneWriter
INVARIANTS SafeUnlessOverlapped NoPhantom OwnerAhead
