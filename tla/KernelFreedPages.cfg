SPECIFICATION ReuseSpec
CONSTANTS
  MAX_NPROCESS = 3
  GPID_USER_START = 2
  Msg = {1, 2}
  NoMsg = NoMsg
INVARIANT RunsOnItsOwnPages
