SPECIFICATION QuestionSpec
CONSTANTS
  MAX_REPAIRS = 1
  CODE_MAX_PROBES = 2
  MaxRetries = 1
  AllowDataInPrompt = FALSE
  FetchStyle = FALSE
  MaxRows = 2
  SqlReplies <- OneSpelling
  Limits <- LimitsAroundCap
  Totals <- TotalsAroundCap
  MaxRuns = 2
  Words = {orders}
  Spelled = {lower, upper}
  Clients = {c1, c2}
  MONGO_MAX_REPAIRS = 1
  MaxReads = 2
  MaxInvalidations = 1
  MaxChanges = 1
  Roots = {"_id", "a", "b"}
  ProjectForms = {"in", "out"}
  ReplyMarks = {"sentinel", "bolted", "degenerate", "refusal", "names", "write", "invented", "readOnly", "query", "safe", "known"}
  QuestionMarks = {"injection", "database", "change", "write", "statement"}
SYMMETRY Interchangeable
INVARIANTS
  NotesMatchAnswer
  RowDataNeedsOptIn
  RunToldTruly
  NoRequestAfterAbort
  NothingFromBefore
  PipelineSound
  AbsenceProven
  ProseIsHonest
CHECK_DEADLOCK FALSE
