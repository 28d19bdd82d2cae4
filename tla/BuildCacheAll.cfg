SPECIFICATION Spec
CONSTANTS
  h1 = h1 h2 = h2 i1 = i1 i2 = i2
  None = None
  NoID = NoID
  Hosts = {h1, h2}
  BuildID = {i1, i2}
  NBase = 2
  BaseImages <- MCBaseImages
  Foreign <- MCForeign
  Requests <- MCRequests
  MaxBuilds = 2
SYMMETRY HostSymmetry
INVARIANTS TypeOK HistoryTrue CacheHit NoNeedlessBuild
