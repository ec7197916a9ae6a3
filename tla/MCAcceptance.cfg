SPECIFICATION Spec
CONSTANTS
  END = END
  Tasks <- MCTasks
  Priorities = {0, 1, 2, 3}
  STATIC_WORKER_COUNT = 13
  WAIT_TICKS = 100
  QUEUE_LENGTH = 4
  YIELDS = 4
  MESSAGES = 8
  ONE_SHOT = 3
  PERIOD = 2
  STEPS_PER_TICK = 4
INVARIANTS FailsOnlyForARace PassesClean
PROPERTIES AcceptanceEnds
CHECK_DEADLOCK FALSE
