\* One call: only the process itself is fair: a backend may stay silent.
SPECIFICATION ServerFairSpec
CONSTANTS
  None = None
  ParseError = ParseError
  Texts <- MCTexts
  Parsed <- MCParsed
  Names <- MCNames
  Configs <- SnowflakeConfig
  Requests <- SelectRequest
  Replies <- OneRow
  BackendErrors <- PlainError
  MaxCalls = 1
PROPERTY TimeoutEndsCall
