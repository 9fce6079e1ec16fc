SPECIFICATION Spec
CONSTANTS
  c = c
  Client <- MCClient
  Machine <- MCMachine
INVARIANTS TypeOK EntriesLive TableProtected OneScanIsSafe CleanMeansClean
PROPERTIES HookReported
CHECK_DEADLOCK FALSE
