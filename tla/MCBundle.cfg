SPECIFICATION Spec
CONSTANTS
  p1 = p1
  p2 = p2
  Absent = Absent
  Empty = Empty
  Torn = Torn
  Proc = {p1, p2}
  Editors = {p1}
  Backends = {"hnsw", "ivf"}
  StoreLens = {1, 2}
  Ids = {0, 1}
  MaxBuilds = 2
  MaxInserts = 2
INVARIANTS StableIds DeletesStay ManifestIsCommitPoint LatestManifestMixesNothing
CHECK_DEADLOCK FALSE
