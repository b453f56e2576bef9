SPECIFICATION Spec
CONSTANTS
  t1 = t1
  i1 = i1
  i2 = i2
  r1 = r1
  r2 = r2
  NoItem = NoItem
  Idle = Idle
  Tasks <- MCTasks
  Items <- MCItems
  Runs <- MCRuns
  MaxAttempts = 2
PROPERTY RestartClearsDispatched
