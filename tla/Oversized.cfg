\* One call: three rows for a limit of two, on Databricks.
SPECIFICATION Spec
CONSTANTS
  None = None
  ParseError = ParseError
  Texts <- MCTexts
  Parsed <- MCParsed
  Names <- MCNames
  Configs <- DatabricksConfig
  Requests <- SelectRequest
  Replies <- ThreeRows
  BackendErrors <- PlainError
  MaxCalls = 1
INVARIANT OversizedResultsAreTruncated
