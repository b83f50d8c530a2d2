SPECIFICATION Spec
CONSTANTS
  Callers = {c1, c2}
  Invalidations = {i1}
  Disposals = {d1}
  MAX_STALE_RETRIES = 2
  MaxSlots = 6
  MaxDrops = 1
  Cancellable = TRUE
SYMMETRY Symmetric
INVARIANTS
  InstalledIsOpen
  LeasedThenClosed
