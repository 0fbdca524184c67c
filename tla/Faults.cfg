\* Two calls, each of which may fail, be refused, stay without a secret or be
\* killed at any point.
SPECIFICATION FairSpec
CONSTANTS
  None = None
  ParseError = ParseError
  Texts <- MCTexts
  Parsed <- MCParsed
  Names <- MCNames
  Configs <- FaultConfigs
  Requests <- FaultRequests
  Replies <- FaultReplies
  BackendErrors <- FaultErrors
  MaxCalls = 2
INVARIANTS
  HistoryInv
  AuditAgreesWithAnswer
  EveryExecutionAccountedFor
  AtMostOneExecution
  TruncationIsReported
PROPERTIES
  ClosedCallsStayClosed
  MeetsPhases
  MeetsContract
