\* One call: an explain_query on Snowflake.
SPECIFICATION Spec
CONSTANTS
  None = None
  ParseError = ParseError
  Texts <- MCTexts
  Parsed <- MCParsed
  Names <- MCNames
  Configs <- SnowflakeConfig
  Requests <- ExplainRequest
  Replies <- OneRow
  BackendErrors <- PlainError
  MaxCalls = 1
INVARIANT PlansReachTheCaller
