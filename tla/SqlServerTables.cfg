\* One list_tables call to SQL Server; nothing fails.
SPECIFICATION Spec
CONSTANTS
  None = None
  ParseError = ParseError
  Texts <- NoTexts
  Parsed <- NoParsed
  Names <- MCNames
  Configs <- SqlServerConfigs
  Requests <- TableRequests
  RowCounts <- MCRows
  BackendErrors <- NoErrors
  MaxCalls = 1
INVARIANT TablesAreListed
