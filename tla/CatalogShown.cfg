SPECIFICATION Spec
CONSTANTS
  fixture = fixture
  tool = tool
  p = p
  q = q
  Clients = {c1}
  NoClient = NoClient
  Tasks = {t0, t1, t2}
  Canonical = t0
  Capabilities = {fixture, tool}
  Samples = {fixture}
  Fixture = fixture
  Fingerprints = {1, 2}
  PortableIds = {p, q}
  Drafts <- MCDrafts
  Bundles <- MCBundles
  MaxFaults = 0
INVARIANTS
  ShownCapabilitiesListed
