\* One comment, two drafts of it, two triage loops and two requests.
SPECIFICATION FairSpec
CONSTANTS
  c1 = c1
  c2 = c2
  d1 = d1
  d2 = d2
  d3 = d3
  t1 = t1
  t2 = t2
  q1 = q1
  q2 = q2
  NoComment = NoComment
  NoDraft = NoDraft
  Comment = {c1}
  Draft = {d1, d2}
  Triager = {t1, t2}
  Request = {q1, q2}
  MaxFaults = 1
INVARIANTS
  OneOpenDraft
  PublishedIsOnRecord
  PublishedIsAudited
PROPERTY
  ApprovedIsResolved
