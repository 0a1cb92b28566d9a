CONSTANTS
  c1 = c1  c2 = c2  w1 = w1  w2 = w2  ka = ka  kb = kb  kd = kd  ke = ke
  Free = Free
  Clients = {c1, c2}
  Workspaces = {w1}
  Names = {ka, kb}
  NumShards = 2
  ShardIndex <- TwoShards
  MaxEntries = 1
  Policy = "LRU"
  EvictionSampleSize = 20
  SweepSampleSize = 20
  IntMax = 1
  Unparsable = 9
  Elems = {1}
  Payloads = {9}
  Numbers <- MinusOne
  TTLs = {0, 1}
  SetOptions <- GetAndXX
  Commands = {"Set", "Del", "Expire", "Persist", "Rename", "FlushDB", "HSet", "HIncrBy", "HGet", "HDel", "LPush", "RPop", "LRem", "LSet", "SAdd", "ZAdd", "ZIncrBy", "ZRem", "Scan", "Exists", "Type", "TTL", "HGetAll", "LRange", "SMembers", "ZRange"}
  MaxOps = 3
  MaxTime = 1
SYMMETRY ClientSymmetry
SPECIFICATION Spec
INVARIANTS TypeOK CountExact TTLIndexExact NewKeyStaysAbsent ContentsOK
PROPERTIES WatchContract
