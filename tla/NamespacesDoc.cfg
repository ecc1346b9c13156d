\* Two namespaces and a separator that validation accepts.
SPECIFICATION Spec
CONSTANTS
  a1 = a1
  a2 = a2
  Apps = {a1, a2}
  Chars = {"a", "b", ":", "*", "?", " "}
  Deployments <- MCDocDeployments
  Texts <- MCTexts
  Globs <- MCGlobs
  MaxKeys = 2
  Production = FALSE
  Null = Null
  Nil = Nil
  EmptyUrl = EmptyUrl
  BadUrl = BadUrl
INVARIANT NamespacesApart
\* Applications may be left alone.
CHECK_DEADLOCK FALSE
