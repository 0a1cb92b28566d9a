CONSTANTS
  c1 = c1  c2 = c2  team = team  alice = alice  bob = bob
  this = this  that = that  blank = blank
  NaN = NaN  None = None  NoThreshold = NoThreshold
  Clients = {c1, c2}
  Workspaces = {team}
  Ids = {1, 2, 3}
  GeneratedIds = {2, 3}
  Agents = {alice}
  Kinds = {"long_term"}
  Contents = {this, that}
  Similarity <- Scores
  Alike <- Neighbours
  TTLs = {0, 1}
  Ks = {2}
  Thresholds = {NoThreshold, 2}
  HistoryCap = 1
  DefaultK = 2
  Commands = {"Put", "Remember", "Get", "Search", "Recall", "Consolidate"}
  MaxOps = 4
  MaxTime = 1
SYMMETRY ClientSymmetry
SPECIFICATION Spec
INVARIANTS RecordsInStep
PROPERTIES LineageContract SearchReturnsLive ConsolidationSound
