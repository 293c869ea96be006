\* One run of up to three tasks, two operators and two readers of results at once.
SPECIFICATION FairSpec
CONSTANTS
  r1 = r1
  r2 = r2
  o1 = o1
  o2 = o2
  k1 = k1
  k2 = k2
  NoRun = NoRun
  Run = {r1}
  Operator = {o1, o2}
  Consumer = {k1, k2}
  Agent <- TwoAgents
  MaxConcurrency <- TwoAtATime
  MaxConcurrentTasks = 8
  SourceCounts <- TwoAgentsSources
  Limit = 10
  Cost = {0, 1, 8}
  MaxFaults = 1
INVARIANTS
  OverBudgetRunIsHalting
  WarnedAtMark
  CostConserved
PROPERTY
  EventuallyEnds
CHECK_DEADLOCK FALSE
