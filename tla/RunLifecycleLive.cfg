SPECIFICATION FairSpec
CONSTANTS
  N = 2
  EvaluationNodes = {2}
  ArtifactNodes = {1}
  Clients = {c1, c2}
  MaxFaults = 0
PROPERTIES
  RunSettles
  SlotReleased
