SPECIFICATION Spec
CONSTANTS
  MaxOps = 3
  MaxVersions = 3
INVARIANTS
  ResultMatchesSql
