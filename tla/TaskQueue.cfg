\* Two tasks, two processes of one agent, two attempts.
SPECIFICATION Spec
CONSTANTS
  t1 = t1
  t2 = t2
  w1 = w1
  w2 = w2
  Task = {t1, t2}
  Worker = {w1, w2}
  Priority <- MCPriority
  MaxAttempts = 2
  Concurrency = 2
  MaxBatch = 10
  MaxLapses <- MCMaxLapses
  MaxFaults = 1
SYMMETRY MCSymmetry
INVARIANTS
  OneLeaseHolder
  PendingHasAttemptsLeft
  ConcurrencyCeiling
  OutcomesAccounted
PROPERTY
  ImplementsWorklist
