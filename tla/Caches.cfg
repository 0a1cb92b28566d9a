CONSTANTS
  c1 = c1  c2 = c2  hello = hello  hallo = hallo  blank = blank  gpt = gpt
  mail = mail  yes = yes
  NaN = NaN  None = None
  Clients = {c1, c2}
  MantissaBits = 3
  Similarity <- Close
  Entries <- AllEntries
  MaxTopEntries = 2
  HitCosts = {0, 1, 2, 3}
  MaxHits = 5
  ToolArgs = {8, 9}
  Templates = {mail}
  Partitions = {gpt}
  Prompts = {hello, hallo, blank}
  Responses = {yes}
  TTLs = {0, 1}
  Costs = {1, 2}
  Thresholds = {9, NaN}
  Commands = {"ToolSet", "ToolGet", "PromptSet", "PromptGet", "SemanticSet", "SemanticGet"}
  MaxOps = 4
  MaxTime = 1
SYMMETRY ClientSymmetry
SPECIFICATION MCSpec
INVARIANTS TopHoldsDearest
PROPERTIES NothingLiveLost SemanticBest
