\* Components under fairness, each on its small instance.
SPECIFICATION OneSpec
CONSTANTS
  w1 = w1
  w2 = w2
  w3 = w3
  x = x
  y = y
  NoWriter = NoWriter
  Writer = {w1, w2, w3}
  Content = {x, y}
  PageLimit = 3
  MaxRows = 3
  MaxFaults = 1
  t1 = t1
  t2 = t2
  a1 = a1
  a2 = a2
  NoAnomaly = NoAnomaly
  Task = {t1, t2}
  Priority <- Priorities
  MaxAttempts = 2
  Concurrency = 1
  MaxBatch = 10
  MaxLapses <- Lapsing
  Queues = {"alone", "pair"}
  WorkersOf <- Workers
  FailuresOf <- Failures
  Anomaly = {a1, a2}
  Archivist = {w1, w2}
  RefusedContent = {a2}
  BatchLimit = 2
  MaxOrders = 1
  WatchUntil = 5
  SegmentSize = 2
  GiveUpAfter = 3
  MaxBackoff = 2
  MaxChunks = 4
  MaxDrops = 2
INVARIANTS
  UntamperedVerifies
  ReturnedIsInLog
  TamperingShows
  CustodyComplete
  AudioAccounted
PROPERTIES
  EventuallySettled
  TakenIsArchived
  SessionEnds
CHECK_DEADLOCK FALSE
