SPECIFICATION RulesSpec
CONSTANTS
  MaxText = 4
  Engines = {"postgres", "mysql", "sqlite", "duckdb", "oracle"}
  Counts = {0, 1, 2, 3}
  MaxRows = 2
  PipelineCap = 2
  MaxNesting = 2
  Pipelines <- MCPipelines
  Keys = {"a", "b"}
  MaxCells = 3
  MaxKeys = 2
  Atoms = {"a", "b"}
  DataAtoms = {"@"}
  Documents <- MCDocuments
  MaxDocs = 2
  MaxPaths = 3
  MaxFields = 2
  Databases <- MCDatabases
  MaxProbes = 3
  PerTable = 2
  MaxSampled = 2
  MaxFailures = 1
  Schemas <- MCSchemas
  MaxTables = 3
  MaxTokens = 8
  LeastBudget = 3
  Reserve = 1
  LeastTable = 2
  MinColumns = 2
  ShrunkTables = 2
  ShrunkTokens = 3
  ConnectionIds = {"c", "d"}
  UserIds = {"u"}
  WordsOf <- MCWords
  Spellings = {"plain", "spaced"}
  Approvable = {"select", "unsafe"}
  HistoryCap = 2
  FewShotCap = 2
  MaxAdds = 3
INVARIANTS
  RowsCapped
  HintsTrue
  NamesAreFields
  IntrospectionSound
  PruneSound
  StoresSound
CHECK_DEADLOCK FALSE
