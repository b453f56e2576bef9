SPECIFICATION Spec
CONSTANTS
  t1 = t1
  t2 = t2
  t3 = t3
  a1 = a1
  r1 = r1
  NoEdge = NoEdge
  Tasks <- MCTwo
  Edges <- MCOneEdge
  Adders = {a1}
  Gates <- MCGates
  MaxFails = 1
  Keys <- MCPhaseKeys
  Routers = {r1}
  Requeued = {}
  MaxReruns = 0
  MaxCrashes = 0
INVARIANT TypeOK
PROPERTY PhaseBarrier
PROPERTY PhaseAdvances
