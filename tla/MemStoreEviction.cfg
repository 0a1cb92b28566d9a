CONSTANTS
  c1 = c1  c2 = c2  w1 = w1  w2 = w2  ka = ka  kb = kb  kd = kd  ke = ke
  Free = Free
  Clients = {c1, c2}
  Workspaces = {w1}
  Names = {ka, kb, kd, ke}
  NumShards = 2
  ShardIndex <- TwoShards
  MaxEntries = 2
  Policy = "Weighted"
  EvictionSampleSize = 20
  SweepSampleSize = 20
  IntMax = 1
  Unparsable = 9
  Elems = {1}
  Payloads = {1}
  Numbers = {1}
  TTLs = {0}
  SetOptions <- PlainSet
  Commands = {"Set", "Get", "Keys"}
  MaxOps = 4
  MaxTime = 2
SYMMETRY ClientSymmetry
SPECIFICATION Spec
INVARIANTS CapBound KeysComplete
PROPERTIES VictimNotBetter
