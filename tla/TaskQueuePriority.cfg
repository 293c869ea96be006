\* Two tasks of different priority and one process: which one is claimed first?
SPECIFICATION Spec
CONSTANTS
  t1 = t1
  t2 = t2
  w1 = w1
  w2 = w2
  Task = {t1, t2}
  Worker = {w1}
  Priority <- MCPriority
  MaxAttempts = 1
  Concurrency = 1
  MaxBatch = 10
  MaxLapses <- MCMaxLapses
  MaxFaults = 0
PROPERTY
  LowerNumberFirst
