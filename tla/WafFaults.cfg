SPECIFICATION Spec
CONSTANTS
  TerminatedFlag = TRUE
  Configs <- MCConfigs
  kMaxFilterData = 2
  MaxSaved = 1
  Faults = {"post", "abort", "alloc", "throw", "wevent", "senderr", "eager"}
INVARIANTS
  TypeOK
  PoolOutlivesTask
  RefcountExact
  HandlersRestored
  SavedOutputBounded
PROPERTIES
  ImplementsExchange
