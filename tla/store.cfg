SPECIFICATION StoreSpec
CONSTANTS
  s1 = s1  s2 = s2  e1 = e1  e2 = e2  r1 = r1  r2 = r2
  None = None  CatalogPath = CatalogPath
  SpecIds = {s1, s2}
  Entry = {e1, e2}
  Record = {r1, r2}
  MaxRecords = 2
  Faults = {"kill", "write"}
SYMMETRY Symmetry
PROPERTIES
  HistoryIsAppendOnly
  NoEntryIsDropped
  ImplementsDurableStore
CHECK_DEADLOCK FALSE
