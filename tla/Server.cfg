\* Two retries as in DEFAULT_MAX_RETRIES; a provider request may take up to
\* three ticks and a backoff none, one or two.
SPECIFICATION ServerSpec
CONSTANTS
  Ids = {op, a}
  Configured = {op}
  ANY_CONNECTION = any
  Generated <- GeneratedIds
  Requests = {r1, r2}
  MaxMade = 3
  Routes = {"list", "schema", "preflight", "chat", "execute", "create", "remove", "unknown"}
  MaxChunks = 2
  MaxBody = 1
  MaxPushed = 3
  MaxRetries = 2
  Timeout = 3
  Backoffs = {0, 1, 2}
  MaxBackoff = 2
INVARIANTS
  OneOwnerPerId
  StreamTellsAll
PROPERTIES
  RequestsEnd
  KeepsPromise
CHECK_DEADLOCK FALSE
