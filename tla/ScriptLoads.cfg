\* Two scripts are loaded at bootstrap, at once, beside an eval and a load of
\* the first; either may fail while the other is in flight.
SPECIFICATION FairSpec
CONSTANTS
  n1 = n1
  n2 = n2
  e1 = e1
  e2 = e2
  c1 = c1
  c2 = c2
  l1 = l1
  b1 = b1
  b2 = b2
  bodyA = bodyA
  bodyB = bodyB
  Names = {n1, n2}
  Entries = {e1, e2}
  Bodies = {bodyA, bodyB}
  LuaOf <- MCLuaOf
  SeedOf <- MCSeedOf
  NoEntry = NoEntry
  NoSha = NoSha
  Evals = {c1}
  Loads = {l1}
  NameOf <- MCNameOf
  BootLoad <- MCBootLoad
  Keyless = {}
  Modes = {"standalone"}
  LazyConnect = FALSE
  OwnNoscript = {}
  MaxResends = 0
INVARIANT BootstrapLoads
PROPERTY EvalSettles
\* Every call ends: a finished program stops.
CHECK_DEADLOCK FALSE
