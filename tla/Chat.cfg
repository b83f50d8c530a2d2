SPECIFICATION HostSpec
CONSTANTS
  MaxOps = 3
  MaxVersions = 1
  Conns = {f, m}
  Mongo = {m}
  Files = {f}
  Calls = {t1, t2}
  Resets = {r1, r2}
  MaxEvents = 2
  MaxBuilds = 2
  ATTEMPTS = 2
  MaxTurns = 2
  MaxQueue = 2
  MAX_RESULTS = 2
  MAX_RESULT_BYTES = 3
  Sizes = {1, 3}
  MAX_HISTORY = 1
INVARIANTS
  OneAtATime
  StopIsFinal
  NothingStale
  SecretStaysHome
  PanelSound
PROPERTIES
  CancelledIsFinal
SYMMETRY Symmetric
CHECK_DEADLOCK FALSE
