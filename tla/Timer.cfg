SPECIFICATION FairSpec
CONSTANTS
  W = 4
  QUANTUM = 2
  NEVER = 11
  MaxTime = 8
INVARIANTS
  TimerInv
  DeadlineIsCurrent
  FullQuantum
  QuietWhileSet
PROPERTY Preempted
