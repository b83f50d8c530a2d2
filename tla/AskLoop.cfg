SPECIFICATION Spec
CONSTANTS
  MAX_REPAIRS = 2
  CODE_MAX_PROBES = 2
  MaxRetries = 1
  AllowDataInPrompt = TRUE
  FetchStyle = TRUE
  MaxRows = 1
  SqlReplies <- ManySpellings
  Limits <- OneLimit
  Totals <- OneTotal
  MaxRuns = 1
INVARIANTS
  ModelCallsBounded
  AnswerIsGrounded
PROPERTIES
  QuestionSettles
