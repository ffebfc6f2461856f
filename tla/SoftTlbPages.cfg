SPECIFICATION TlbSpec
CONSTANTS
  Pid = {1, 2, 3}
  VPage = {"code", "data"}
  ElfPage = {"code", "data"}
  APPS_PAGES_CNT = 3
  Value = {"0", "a"}
  Zero = "0"
  NoPage = NoPage
INVARIANTS
  TypeOK
  PagesAccountedFor
  OwnAddressSpace
PROPERTY Isolation
