\* A log longer than the page the verification reads.
SPECIFICATION Spec
CONSTANTS
  w1 = w1
  w2 = w2
  w3 = w3
  x = x
  y = y
  NoWriter = NoWriter
  Writer = {w1}
  Content = {x, y}
  PageLimit = 2
  MaxRows = 3
  MaxFaults = 0
INVARIANT
  VerifyReportsTampering
