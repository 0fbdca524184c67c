\* One call: full mode by default, nothing asked for.
SPECIFICATION Spec
CONSTANTS
  None = None
  ParseError = ParseError
  Texts <- MCTexts
  Parsed <- MCParsed
  Names <- MCNames
  Configs <- FullDefaultConfig
  Requests <- InsertRequest
  Replies <- OneRow
  BackendErrors <- PlainError
  MaxCalls = 1
INVARIANT WritesNeedExplicitOptIn
