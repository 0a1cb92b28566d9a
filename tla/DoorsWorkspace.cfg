CONSTANTS
  IntMax = 3
  Unparsable = 9
  ScanKeys = {1, 2, 3, 4, 5}
  Counts = {0, 1, 2}
  MaxChanges = 3
  Args <- ArgRange
  ZScores = {0, 1, 2}
  Members = {1, 2, 3}
  Texts <- SomeTexts
  MaxLen = 1
  MaxPieces = 1
  Namespaces = {"x"}
  VectorIds = {1, 2, 3}
  Entries <- SomeEntries
  Numbers <- NumberRange
  Maps <- TwoMaps
SPECIFICATION InputSpec
INVARIANT WorkspacesKeptApart
