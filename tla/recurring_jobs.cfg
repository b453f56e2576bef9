SPECIFICATION Spec
CONSTANTS
  r1 = r1
  r2 = r2
  NoRun = NoRun
  Runs <- MCRuns
  MaxEvents = 2
SYMMETRY Interchangeable
INVARIANT TypeOK
INVARIANT OneActiveRun
INVARIANT EndIsMarked
PROPERTY SlotRunOnce
