SPECIFICATION Spec
CONSTANTS
  fixture = fixture
  tool = tool
  p = p
  q = q
  Clients = {c1, c2}
  NoClient = NoClient
  Tasks = {t0, t1, t2}
  Canonical = t0
  Capabilities = {fixture, tool}
  Samples = {fixture}
  Fixture = fixture
  Fingerprints = {1, 2}
  PortableIds = {p, q}
  Drafts <- MCDrafts
  Bundles <- MCBundles
  MaxFaults = 1
SYMMETRY CatalogSymmetry
INVARIANTS
  TypeOK
  PinsResolve
  StoresAgree
  ReceiptHolds
  RollbackComplete
PROPERTIES
  FingerprintsImmutable
  InstallKeepsOthers
