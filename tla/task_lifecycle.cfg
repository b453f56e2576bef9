SPECIFICATION FairSpec
CONSTANTS
  t1 = t1
  t2 = t2
  a1 = a1
  a2 = a2
  System = System
  NoOne = NoOne
  NoTask = NoTask
  Tasks <- MCTasks
  Agents <- MCAgents
  SelfReview <- MCSelfReview
  MaxRetries = 1
INVARIANT TypeOK
INVARIANT ParentGate
INVARIANT VerifierGate
 
PROPERTY ChildIsReleased
PROPERTY KeepsPromise
CHECK_DEADLOCK FALSE
