SPECIFICATION Spec
CONSTANTS
  s1 = s1
  s2 = s2
  plan1 = plan1
  plan2 = plan2
  Sessions = {s1, s2}
  SessionCost = 1
  Plans = {plan1, plan2}
  Estimate <- MCEstimate
  DailyLimits = {2, 3}
  HourlyLimit = 3
  MaxHours = 2
  MaxCrashes = 1
INVARIANT TypeOK
INVARIANT OverspendBounded
 
PROPERTY DailyResetOnce
