SPECIFICATION Spec
CONSTANTS
  Callers = {c1, c2}
  Invalidations = {i1}
  Disposals = {}
  MAX_STALE_RETRIES = 2
  MaxSlots = 4
  MaxDrops = 0
  Cancellable = FALSE
SYMMETRY Symmetric
INVARIANTS
  NeverClosedInUse
