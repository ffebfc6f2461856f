SPECIFICATION RoomFairSpec
CONSTANTS
  MAX_NPROCESS = 7
  ElfReads = 1
  MaxCalls = 1
INVARIANTS
  KnownReceiver
  SomeoneCanRun
PROPERTIES
  SpawnIsAnswered
  PromptReturns
