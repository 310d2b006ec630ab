SPECIFICATION Spec
CONSTANTS
  Runs = {r1, r2, r3}
  NoRun = NoRun
  Clients = {c1}
  N = 2
  LastNumber = 3
  MaxFaults = 1
SYMMETRY RunSymmetry
INVARIANTS
  TypeOK
  OneActive
  ExecutingInSlot
  DirectoryUsedOnce
  ForkedFromAccepted
PROPERTIES
  HistoryKept
  RunsKeepPromise
