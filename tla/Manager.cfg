\* Two calls and two runs of the hook, for every choice of the options.
SPECIFICATION FairSpec
CONSTANTS
  eager = eager
  queueing = queueing
  lazy = lazy
  lazyQueueing = lazyQueueing
  u1 = u1
  u2 = u2
  h1 = h1
  h2 = h2
  Clients = {eager, queueing, lazy, lazyQueueing}
  Callers = {u1, u2}
  Hooks = {h1, h2}
  NoClient = NoClient
  Lazy = {lazy, lazyQueueing}
  Buffered = {queueing, lazyQueueing}
  RetryGivesUp = TRUE
INVARIANTS
  OneClient
  ClosedAfterHook
  SettledAfterHook
PROPERTIES
  RefusedAfterHook
  HooksReturn
\* Every call and hook run ends: a finished program stops.
CHECK_DEADLOCK FALSE
