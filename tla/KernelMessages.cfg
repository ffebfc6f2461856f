SPECIFICATION IpcFairSpec
CONSTANTS
  MAX_NPROCESS = 4
  GPID_USER_START = 4
  Msg = {1, 2, 3}
  NoMsg = NoMsg
INVARIANTS
  NoLostWakeup
  OneRunning
  NeverPollsInVain
PROPERTIES
  IpcRefines
  EveryoneRuns
