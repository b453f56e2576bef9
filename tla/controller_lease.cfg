SPECIFICATION FairSpec
CONSTANTS
  p1 = p1
  p2 = p2
  g1 = g1
  g2 = g2
  x1 = x1
  Null = Null
  Handoff = Handoff
  Gone = Gone
  Off = Off
  Processes <- MCProcesses
  Generations <- MCGenerations
  Proposals <- MCProposals
  Mutations <- MCProposals
INVARIANT TypeOK
INVARIANT CliKeepsNoLease
PROPERTY FloorBinds
PROPERTY ControllerFound
