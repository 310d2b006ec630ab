SPECIFICATION SharedSpec
CONSTANTS
  Runs = {r1}
  NoRun = NoRun
  Clients = {c1}
  N = 1
  LastNumber = 1
  MaxFaults = 0
PROPERTIES
  TerminalImmutable
