CONSTANTS
  c1 = c1  c2 = c2  w1 = w1  w2 = w2  ka = ka  kb = kb  kd = kd  ke = ke
  Free = Free
  Clients = {c1, c2}
  Workspaces = {w1}
  Names = {ka, kb, kd}
  NumShards = 2
  ShardIndex <- TwoShards
  MaxEntries = 2
  Policy = "LRU"
  EvictionSampleSize = 20
  SweepSampleSize = 1
  IntMax = 1
  Unparsable = 9
  Elems = {1}
  Payloads = {1}
  Numbers = {1}
  TTLs = {0, 1}
  SetOptions <- SetNX
  Commands = {"Set", "Rename", "Close"}
  MaxOps = 2
  MaxTime = 1
SPECIFICATION FairSpec
CHECK_DEADLOCK FALSE
PROPERTIES ExpiredKeysGo CallsReturn
