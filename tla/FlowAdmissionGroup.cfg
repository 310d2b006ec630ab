SPECIFICATION Spec
CONSTANTS
  None = None
  p = p
  x = x
  worker = worker
  other = other
  tool = tool
  i1 = i1
  Clients = {c1}
  Tasks = {t1}
  NodeIds = {"draft", "revise", "send", "publish"}
  PortableIds = {p, x}
  SessionGroups = {"loop"}
  Goals = {g1}
  Drafts <- MCSplit
  Computed <- MCComputed
  Inputs = {i1}
  Executors = {"deterministic"}
  KnownRoles = {"draft"}
  Capabilities = {worker, other, tool}
  KindOf <- MCKindOf
  SessionCapable = {worker, other}
  Writes <- MCWrites
  Refs = {a, b}
  Runs = {r1}
  MaxConfirmed = 1
CHECK_DEADLOCK FALSE
INVARIANTS
  OneConversation
