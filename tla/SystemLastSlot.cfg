SPECIFICATION Spec
CONSTANTS
  MAX_NPROCESS = 6
  ElfReads = 1
  MaxCalls = 0
INVARIANT SomeoneCanRun
