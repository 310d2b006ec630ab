SPECIFICATION Spec
CONSTANTS
  N = 3
  EvaluationNodes = {2}
  ArtifactNodes = {1, 3}
  Clients = {c1, c2}
  MaxFaults = 1
SYMMETRY ClientSymmetry
INVARIANTS
  TypeOK
  JournalEndsWithStatus
  ContextFollowsNodes
  RejectionStops
  AcceptedNeverSucceeds
PROPERTIES
  TerminalImmutable
  NothingAcceptedLate
  ImplementsRunStatus
