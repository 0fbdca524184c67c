\* Two calls in up to two processes; every way to build an adapter, and every
\* failure between its secrets and its last statement.
SPECIFICATION FairSpec
CONSTANTS
  None = None
  Names <- MCNames
  Connections <- MCConnections
  Files <- MCFiles
  Environments <- MCEnvironments
  Factories <- MCFactories
  BackendErrors <- MCErrors
  MaxCalls = 2
  MaxStarts = 2
INVARIANTS
  AdapterInv
  BuiltinAdaptersAreWhole
  FailuresAreNotMasked
  PlansAreNotExecuted
  ConnectionsComeBack
  OneCallPerAdapter
PROPERTIES
  PooledConnectionsAreNotReused
  EveryCallEnds
  MeetsPhases
