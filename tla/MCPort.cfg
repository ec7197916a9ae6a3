SPECIFICATION Spec
CONSTANTS
  H = H
  A = A
  B = B
  I = I
  END = END
  NONE = NONE
  Tasks <- MCTasks
  Prio <- MCPrio
  Priorities = {0, 1, 2}
  OPS <- MCOps
  First = H
  Idle = I
  START <- MCStart
  HALF = 4
  COUNTS_PER_TICK = 3
  MAX_TIME = 7
  MAX_NEST = 2
INVARIANTS TypeOK CriticalIsExclusive HighestRuns NeverAhead
PROPERTIES CatchesUp NowNotTorn
CHECK_DEADLOCK FALSE
