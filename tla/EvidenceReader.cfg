SPECIFICATION ReaderSpec
CONSTANTS
  N = 2
  EvaluationNodes = {2}
  ArtifactNodes = {1}
  Clients = {}
  MaxFaults = 1
  f = f
  g = g
  i = i
  p = p
  q = q
  None = None
  Flows = {f, g}
  ThisFlow = f
  Inputs = {i}
  Outputs = {p, q}
  EarlierRuns <- MCEarlier
INVARIANTS
  ReaderTypeOK
  NeverRefused
  ShownIsFinal
  EventsAgree
  ForkDivergesNoEarlier
  StabilityAsSpecified
PROPERTIES
  PollsAdvance
