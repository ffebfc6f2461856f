SPECIFICATION ReuseSpec
CONSTANTS
  MAX_NPROCESS = 4
  GPID_USER_START = 2
  Msg = {2, 3}
  NoMsg = NoMsg
INVARIANTS
  TypeOK
  KernelInv
PROPERTIES
  NoRevival
  IpcRefines
