SPECIFICATION FairSpec
CONSTANTS
  N = 2
  EvaluationNodes = {}
  ArtifactNodes = {1, 2}
  Clients = {c1}
  MaxFaults = 0
PROPERTIES
  CancellationSettles
