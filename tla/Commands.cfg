\* Two calls of any method, one loss of the connection.
SPECIFICATION Spec
CONSTANTS
  c1 = c1
  c2 = c2
  x = x
  y = y
  v = v
  raw = raw
  field1 = field1
  member1 = member1
  Calls = {c1, c2}
  Ids = {x, y}
  EmptyId = EmptyId
  Values = {v}
  Unencodable = Unencodable
  Vanishing = Vanishing
  EmptyText = EmptyText
  Raws = {raw}
  Fields = {field1}
  Members = {member1}
  Given = {x}
  Writes <- MCWrites
  RawWrites <- MCRawWrites
  Steps = {2}
  Batches <- MCBatches
  InitialStores <- MCInitialStores
  Ttls <- MCTtls
  NotAnInteger = NotAnInteger
  MaxTtl = 1
  MaxDrops = 1
  Nil = Nil
  ErrorReply = ErrorReply
SYMMETRY Symmetry
INVARIANTS
  LocksHold
  WritesHold
  ReadsHold
\* Every call settles: a finished program stops.
CHECK_DEADLOCK FALSE
