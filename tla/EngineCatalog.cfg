SPECIFICATION Spec
CONSTANTS
  None = None
  Callers = {c1, c2}
  CATALOG_TTL = 2
  WARNED_CATALOG_TTL = 1
  STALE_REFRESH_COOLDOWN = 1
  MaxTime = 2
  MaxVersion = 2
  MaxGeneration = 2
INVARIANTS
  WorkIsShared
  RefreshIsFresh
PROPERTIES
  CacheNeverRegresses
  CallsSettle
