\* Two runs of one task each, two operators at once, one reader of results.
SPECIFICATION Spec
CONSTANTS
  r1 = r1
  r2 = r2
  o1 = o1
  o2 = o2
  k1 = k1
  k2 = k2
  NoRun = NoRun
  Run = {r1, r2}
  Operator = {o1, o2}
  Consumer = {k1}
  Agent <- OneAgent
  MaxConcurrency <- OneAtATime
  MaxConcurrentTasks = 8
  SourceCounts <- OneAgentSources
  Limit = 10
  Cost = {10}
  MaxFaults = 1
SYMMETRY MCSymmetry
INVARIANTS
  SingleFlight
  EndedRunsAudited
PROPERTY
  NeverReopened
CHECK_DEADLOCK FALSE
