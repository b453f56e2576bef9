SPECIFICATION Spec
CONSTANTS
  i1 = i1
  sys = sys
  m1 = m1
  m2 = m2
  q1 = q1
  q2 = q2
  None = None
  Issues = {i1, sys}
  Tasked = {i1}
  SystemIssue = sys
  Mutations = {m1, m2}
  Promotions = {q1, q2}
  Threshold = 1
  MaxEvents = 1
  MaxCrashes = 1
INVARIANT TypeOK
INVARIANT OneRecentMutation
PROPERTY PromotedByApproval
PROPERTY FoundIssueTakenUp
 
