SPECIFICATION DiscoveredSpec
CONSTANTS
  u1 <- RawOnGitHub  u2 <- RawElsewhere  s1 = s1  s2 = s2
  h1 = h1  h2 = h2  h3 = h3  h4 = h4  h5 = h5
  v1 = v1  v2 = v2  p1 = p1  p2 = p2
  malformed = malformed  null_repository = null_repository
  None = None  Raised = Raised  CatalogPath = CatalogPath
  Hashes = {h1, h2, h3, h4, h5}
  Versions = {v1, v2}
  Paths = {p1, p2}
  Urls <- MCUrls
  SpecIds = {s1, s2}
  Sha256 <- MCSha256
  ParseSpec <- MCParseSpec
  MaxRecords = 0
  MakeSpecId <- MCDistinctIds
  Contents <- GoodContents
  Faults = {}
  MaxRuns = 1
  Sites = {"github", "raw", "other"}
  Repositories = {"a"}
  Views = {"blob", "none"}
  Rests = {"x"}
  Queries = 2
  HtmlUrls <- MCHtmlUrls
  Malformed = malformed
  NullRepository = null_repository
  Pages <- MCPages
  MaxPages = 2
  MaxResults = 2
  Resets <- MCResets
  NoReset = NoReset
  RetryAfters <- MCRetryAfters
  SearchFaults = {"refused"}
INVARIANTS
  WaitsOutRefusals
CHECK_DEADLOCK FALSE
