\* A flush and a scan overlap while keys come and go.
SPECIFICATION FairSpec
CONSTANTS
  a = a
  b = b
  f = f
  s = s
  Keys = {a, b}
  Flushes = {f}
  Scans = {s}
  AllowFlush = FALSE
  Cluster = FALSE
  MaxReplies = 2
  ReadAhead = 1
  MaxResends = 1
INVARIANTS
  FlushLeavesOnlyNew
  FlushCounts
  ScanYieldsStable
PROPERTIES
  IterationEnds
\* Every call ends and the keys may be left alone.
CHECK_DEADLOCK FALSE
