SPECIFICATION ConnectorsSpec
CONSTANTS
  Callers = {c1, c2}
  Conns = {k1, k2}
  NoConn = NoConn
  Max = 2
  Calls = {c1, c2}
  MaxLinks = 3
  Limit = 1
  MaxPools = 1
  Queries = {q1, q2, q3}
  DocCap = 2
  Uploads = {u1}
  MaxVersions = 2
  MaxConnects = 2
INVARIANTS
  IdleIsClean
  CancelHitsOwn
  IdleIsQuiet
  InterruptHitsOwn
  HandleAsGiven
PROPERTIES
  AbortedGetsNoRows
  StatementsEnd
CHECK_DEADLOCK FALSE
