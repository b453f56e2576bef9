SPECIFICATION Spec
CONSTANTS
  t1 = t1
  t2 = t2
  t3 = t3
  a1 = a1
  r1 = r1
  NoEdge = NoEdge
  Tasks <- MCThree
  Edges <- MCEdges
  Adders = {a1}
  Gates <- MCNoGates
  MaxFails = 0
  Keys <- MCKeys
  Routers = {r1}
  Requeued = {"handled"}
  MaxReruns = 1
  MaxCrashes = 1
 
PROPERTY DependentsReleased
