CONSTANTS
  c1 = c1  c2 = c2  kx = kx  ky = ky  home = home  team = team
  Unlocked = Unlocked
  Conns = {c1, c2}
  Keys = {kx, ky}
  DefaultWS = home
  Modes = {"open", "multi"}
  Credentials <- OneWorkspace
  Requests <- AllCmds
  MaxCommands = 6
  IntMax = 1
  Unparsable = 9
  ScanKeys = {1, 2, 3, 4, 5}
  Counts = {0, 1, 2}
  MaxChanges = 3
  Args <- ArgRange
  ZScores = {0, 1, 2}
  Members = {1, 2, 3}
  Texts <- SomeTexts
  MaxLen = 4
  MaxPieces = 4
  Namespaces = {"x"}
  VectorIds = {1, 2, 3}
  Entries <- SomeEntries
  Numbers <- NumberRange
  Maps <- TwoMaps
SYMMETRY ConnSymmetry
SPECIFICATION MCSpec
INVARIANTS ExecRunsWholeBlock ExecSeesEarlierChanges TxCountersExact ScanSteady ContainersRight GlobRight VectorRight DoorsAgree
PROPERTIES WritesAuthorised
