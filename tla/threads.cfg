SPECIFICATION LiveSpec
CONSTANTS
  Client = {5, 6}
  Server = {0, 1, 2}
  Threads = 7
INVARIANTS TypeOK ThreadFree
PROPERTIES PostAnswered
