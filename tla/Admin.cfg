\* A console pages through a scope and reveals a key, while clients write.
SPECIFICATION FairSpec
CONSTANTS
  k1 = k1
  k2 = k2
  k3 = k3
  k4 = k4
  open = open
  secret = secret
  r1 = r1
  Keys = {k1, k2, k3, k4}
  BucketOf <- MCBucketOf
  Buckets = 2
  Scopes = {open, secret}
  Unknown = Unknown
  InScope <- MCInScope
  Readable = {open}
  Reads = {r1}
  scanLimit = 1
  BatchLimits = {2, 6}
  revealLimit = 1
  MaxLength = 2
  MaxChanges = 2
  InitialStores <- MCInitialStores
  Written <- MCWritten
  Missing = Missing
INVARIANTS
  WalkListsSteady
  ShownIsTrue
PROPERTIES
  CallsEnd
\* The walk and the calls end: a finished program stops.
CHECK_DEADLOCK FALSE
