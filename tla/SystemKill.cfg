SPECIFICATION KillSpec
CONSTANTS
  MAX_NPROCESS = 7
  ElfReads = 1
  MaxCalls = 0
INVARIANTS
  TypeOK
  ForegroundDone
