\* One call: a statement classified "other" in readonly mode.
SPECIFICATION Spec
CONSTANTS
  None = None
  ParseError = ParseError
  Texts <- MCTexts
  Parsed <- MCParsed
  Names <- MCNames
  Configs <- SnowflakeConfig
  Requests <- ChangeRequests
  Replies <- OneRow
  BackendErrors <- PlainError
  MaxCalls = 1
INVARIANT ReadonlyModeRunsOnlyReads
