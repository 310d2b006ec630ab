SPECIFICATION Spec
CONSTANTS
  None = None
  p = p
  x = x
  worker = worker
  other = other
  tool = tool
  i1 = i1
  Clients = {c1}
  Tasks = {t1}
  NodeIds = {"draft", "revise", "send", "publish"}
  PortableIds = {p, x}
  SessionGroups = {"loop"}
  Goals = {g1, g2}
  Drafts <- MCDrafts
  Computed <- MCComputed
  Inputs = {i1}
  Executors = {"deterministic"}
  KnownRoles = {"draft"}
  Capabilities = {worker, tool}
  KindOf <- MCKindOf
  SessionCapable = {worker}
  Writes <- MCWrites
  Refs = {a, b}
  Runs = {r1, r2, r3}
  MaxConfirmed = 2
CHECK_DEADLOCK FALSE
SYMMETRY AdmissionSymmetry
INVARIANTS
  TypeOK
  WritesConfirmed
  ForkRepeatsParent
  TurnsContinue
