SPECIFICATION Spec
CONSTANTS
  Old = {o1}
  New = {n1, n2}
  RefreshesPerMin = 3
  Limits = {1, 2}
  Word = 16
  StartTick = 2
  MaxTick = 3
  ReloadDuringStart = FALSE
INVARIANTS
  TokensBounded
  NoDoubleGrant
  LimiterReady
PROPERTIES
  RefreshForward
