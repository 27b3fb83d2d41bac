SPECIFICATION Spec
CONSTANTS
  h1 = h1  h2 = h2  h3 = h3
  None = None
  Holders = {h1, h2}
  Stores = {"claude", "codex", "aws"}
  Life = 2
  Skew = 1
  MaxRefresh = 3
  MaxTime = 5
SYMMETRY Processes
INVARIANTS CredentialsWhole StoredUnlessLost CachedWithinCredentials
 
CHECK_DEADLOCK FALSE
