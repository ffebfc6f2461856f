SPECIFICATION KillSpec
CONSTANTS
  MAX_NPROCESS = 6
  ElfReads = 1
  MaxCalls = 1
INVARIANT KnownReceiver
