\* One metadata call, each of whose statements may return nothing, return
\* something or fail; the process may be killed at any point.
SPECIFICATION FairSpec
CONSTANTS
  None = None
  ParseError = ParseError
  Texts <- NoTexts
  Parsed <- NoParsed
  Names <- MCNames
  Configs <- MCConfigs
  Requests <- MCRequests
  RowCounts <- MCRows
  BackendErrors <- MCErrors
  MaxCalls = 1
INVARIANTS
  MetadataInv
  FetchInv
  RefusedRequestsTouchNothing
  FailureCodesAreStable
  EventAgreesWithAnswer
  ListingsAreWhole
  SourcesAreExhausted
  TestsTellTheTruth
  ConnectionsComeBack
PROPERTY EveryCallEnds
