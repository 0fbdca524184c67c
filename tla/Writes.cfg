\* One call: INSERT in full mode on SQL Server, with or without OUTPUT.
SPECIFICATION Spec
CONSTANTS
  None = None
  ParseError = ParseError
  Texts <- MCTexts
  Parsed <- MCParsed
  Names <- MCNames
  Configs <- SqlServerConfig
  Requests <- FullInsertRequest
  Replies <- WriteReplies
  BackendErrors <- PlainError
  MaxCalls = 1
INVARIANT PermittedWritesTakeEffect
