SPECIFICATION Spec
CONSTANTS
  p1 = p1
  p2 = p2
  r1 = r1
  r2 = r2
  Proposals <- MCProposals
  Routers <- MCRouters
  Keys <- MCKeys
  Requeued = {"handled", "failed", "ignored"}
  MaxReruns = 1
  MaxCrashes = 1
INVARIANT TypeOK
 
INVARIANT VerdictBinds
PROPERTY ApprovalTakesEffect
