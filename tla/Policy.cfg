\* One call: every combination of configuration and request the policy tells
\* apart.
SPECIFICATION Spec
CONSTANTS
  None = None
  ParseError = ParseError
  Texts <- MCTexts
  Parsed <- MCParsed
  Names <- MCNames
  Configs <- PolicyConfigs
  Requests <- PolicyRequests
  Replies <- PolicyReplies
  BackendErrors <- PolicyErrors
  MaxCalls = 1
INVARIANTS
  TypeOK
  OnlyAdmissibleStatements
  AdapterGetsApprovedOptions
  RefusedCallsTouchNothing
  AdmissibleCallsAreTried
  RefusalCodesAreStable
