\* Two applications with namespaces that nearly coincide, and one with every
\* kind of connection.
SPECIFICATION Spec
CONSTANTS
  a1 = a1
  a2 = a2
  Apps = {a1, a2}
  Chars = {"a", "b", ":", "*", "?", " "}
  Deployments <- MCDeployments
  Texts <- MCTexts
  Globs <- MCGlobs
  MaxKeys = 2
  Production = FALSE
  Null = Null
  Nil = Nil
  EmptyUrl = EmptyUrl
  BadUrl = BadUrl
INVARIANTS
  KeysApart
  PatternsExact
  StartsAsPromised
PROPERTIES
  FlushExact
\* Applications may be left alone.
CHECK_DEADLOCK FALSE
