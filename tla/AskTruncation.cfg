SPECIFICATION SafeSpec
CONSTANTS
  MAX_REPAIRS = 0
  CODE_MAX_PROBES = 0
  MaxRetries = 1
  AllowDataInPrompt = TRUE
  FetchStyle = FALSE
  MaxRows = 2
  SqlReplies <- Flawless
  Limits <- LimitsAroundCap
  Totals <- TotalsAroundCap
  MaxRuns = 2
INVARIANTS
  TruncationTold
