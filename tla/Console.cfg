SPECIFICATION ConsoleSpec
CONSTANTS
  Char = {"x", " ", ";", "(", ")"}
  TERM_BUF_SIZE = 8
  MAX_CMDS = 2
  CMD_NARGS = 2
  CMD_ARG_LEN = 3
  MaxKeys = 9
INVARIANTS
  TypeOK
  LineIsWhatWasTyped
  ScreenShowsTheLine
  RunsWhatWasTyped
  ArgumentsAreWords
CHECK_DEADLOCK FALSE
