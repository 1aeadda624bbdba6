INIT ParseInit
NEXT ParseNext
CONSTANTS
  v1 = v1  p1 = p1  p2 = p2
  None = None  Raised = Raised
  Hashes = {}
  Versions = {v1}
  Paths = {p1, p2}
INVARIANTS
  ParserAcceptsWellShaped
  ParserRejectsNonMappings
