\* Each script from everything it may find.  Commands, requests and writes may
\* fail; mutate-const-tables may be interrupted, and a write of the strip cut.
SPECIFICATION FairSpec
CONSTANTS
  Files <- MCFiles
  Original <- MCOriginal
  Pinned <- MCPinned
  MaxSafe = 3
  Builds <- MCBuilds
  Web <- MCWeb
  Registry <- MCRegistry
  Current = "1.1.0"
  Published <- MCPublished
  Releases <- MCReleases
  Subpaths = {"server", "shared"}
  Formats = {"esm", "cjs"}
  Packages <- MCPackages
  Sources = {"cache", "pubsub"}
  LIMIT = 1
  MaxLines = 3
  NoBaseline = NoBaseline
INVARIANTS
  VerdictsHold
  TreeLeftAsPromised
PROPERTIES
  GateEnds
\* A script that has ended stops.
CHECK_DEADLOCK FALSE
