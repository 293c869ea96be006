\* Two executions at once, real or dry, with one failure.
SPECIFICATION FairSpec
CONSTANTS
  x1 = x1
  x2 = x2
  s1 = s1
  s2 = s2
  hi = hi
  lo = lo
  Unlabelled = Unlabelled
  NoWorkflow = NoWorkflow
  NoFrame = NoFrame
  Execution = {x1, x2}
  Node = {1, 2, 3, 4, 5}
  Trigger = 1
  Item = {1, 2}
  Source = {s1, s2}
  SourceOf <- MCSourceOf
  Label = {hi, lo}
  Workflow <- TwoWorkflows
  Price = 2
  MaxFaults = 1
INVARIANTS
  EveryBranchFollowed
  EffectsAreReported
  DryRunForetells
  SpendBounded
  SendsOnceItself
PROPERTY
  ExecutionsEnd
CHECK_DEADLOCK FALSE
