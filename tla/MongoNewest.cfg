SPECIFICATION MEngineSpec
CONSTANTS
  Words = {orders}
  Spelled = {lower, upper}
  Clients = {c1, c2}
  MONGO_MAX_REPAIRS = 1
  MaxReads = 3
  MaxInvalidations = 1
  MaxChanges = 1
PROPERTIES
  NewestReadCaches
CHECK_DEADLOCK FALSE
