\* Every graph of three nodes with up to two edges each, and the services on small instances.
SPECIFICATION OneSpec
CONSTANTS
  n1 = n1
  n2 = n2
  n3 = n3
  ghost = ghost
  w1 = w1
  w2 = w2
  t1 = t1
  t2 = t2
  s1 = s1
  s2 = s2
  c1 = c1
  c2 = c2
  q1 = q1
  q2 = q2
  r1 = r1
  r2 = r2
  o1 = o1
  o2 = o2
  Nobody = Nobody
  NoContent = NoContent
  NoRunner = NoRunner
  Node = {n1, n2, n3}
  Unknown = {ghost}
  Trigger = n1
  MaxDegree = 2
  MaxFaults = 1
  Source = {s1, s2}
  Content = {c1, c2}
  Feed <- Feeds
  Bucket <- Buckets
  CollectTask = {t1, t2}
  Collecting = {"sharded", "aria", "atlas", "sentinel"}
  AgentOf <- Agents
  PayloadOf <- Payloads
  PollsOf <- Polls
  Staff = {2}
  PageSize = 2
  MaxBroadcasts = 1
  MaxMessages = 2
  Polling = {"chat", "sources"}
  WardensOf <- Wardens
  KindsOf <- Kinds
  GrantsOf <- Grants
  Request = {q1, q2}
  MaxExecutions = 4
  Runner = {r1, r2}
  Files <- Versions
  MaxRuns = 4
  Operator = {o1, o2}
  Claims <- ClaimLists
  Served = {"readEvidence", "executeWorkflow"}
  MaxRequests = 2
  Measured <- Signals
  Normalized = {0, 3333, 10000}
INVARIANTS
  CycleIsReal
  NoCycleMissed
  ReachableIsExact
  FlaggedIsReported
  SamplesCounted
  NoCommentSkipped
  CeilingHeld
  SchemaInOrder
  AccessAccounted
  ScoreExplained
CHECK_DEADLOCK FALSE
