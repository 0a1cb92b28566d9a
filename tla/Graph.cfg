CONSTANTS
  c1 = c1  c2 = c2  memo = memo  note = note  ea = ea  eb = eb  ed = ed
  NoId = NoId
  Clients = {c1, c2}
  Durations = {1, 2}
  Memories = {memo}
  MemoryNode <- NodeOf
  Ids = {note, ea, eb, ed}
  Labels = {"uses"}
  Answers <- AllAnswers
  MaxCalls = 3
SYMMETRY ClientSymmetry
SPECIFICATION Spec
INVARIANTS RelatedRight CountersExact SnapshotCovers
PROPERTIES ExtractTraceable
