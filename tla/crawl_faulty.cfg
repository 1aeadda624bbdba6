SPECIFICATION Spec
CONSTANTS
  u1 = u1  u2 = u2  s1 = s1  s2 = s2
  h1 = h1  h2 = h2  h3 = h3  h4 = h4  h5 = h5
  v1 = v1  v2 = v2  p1 = p1  p2 = p2
  None = None  Raised = Raised  CatalogPath = CatalogPath
  Hashes = {h1, h2, h3, h4, h5}
  Versions = {v1, v2}
  Paths = {p1, p2}
  Urls = {u1, u2}
  SpecIds = {s1, s2}
  Sha256 <- MCSha256
  ParseSpec <- MCParseSpec
  MaxRecords = 0
  MakeSpecId <- MCSameId
  Contents <- AllContents
  Faults = {"kill", "write", "damage_catalog", "damage_history", "read_catalog", "read_history", "unsolicited_304"}
  MaxRuns = 2
INVARIANTS
  TypeOK
  VersionSignalIsImplied
  StatsAddUp
PROPERTIES
  CatalogIsReplacedWhole
  HistoryIsExtendedOrRestarted
CHECK_DEADLOCK FALSE
