CONSTANTS
  k1 = k1  k2 = k2
  Nobody = Nobody
  Conns = {k1, k2}
  Configs <- MCConfigs
  DefaultMaxConnections = 2
  Frames <- MCFrames
  MaxFrames = 1
SPECIFICATION FairSpec
INVARIANTS GracefulStop SlotsExact CommandsAsSent
PROPERTIES RunReturns Answered
