\* Two evals race with a register and flushes, in both modes.
SPECIFICATION Spec
CONSTANTS
  n1 = n1
  n2 = n2
  e1 = e1
  e2 = e2
  c1 = c1
  c2 = c2
  l1 = l1
  b1 = b1
  b2 = b2
  bodyA = bodyA
  bodyB = bodyB
  Names = {n1}
  Entries = {e1, e2}
  Bodies = {bodyA, bodyB}
  LuaOf <- MCLuaOf
  SeedOf <- MCSeedOf
  NoEntry = NoEntry
  NoSha = NoSha
  Evals = {c1, c2}
  Loads = {}
  NameOf <- MCNameOf
  BootLoad <- MCBootLoad
  Keyless = {c2}
  Modes = {"standalone", "cluster"}
  LazyConnect = TRUE
  OwnNoscript = {"cluster"}
  MaxResends = 1
INVARIANTS
  RunsItsScript
  RunsOnce
  SurvivesFlush
\* Every call ends: a finished program stops.
CHECK_DEADLOCK FALSE
