SPECIFICATION Spec
CONSTANTS
  Old = {o1, o2, o3}
  New = {}
  RefreshesPerMin = 2
  Limits = {3}
  Word = 16
  StartTick = 1
  MaxTick = 3
  ReloadDuringStart = FALSE
SYMMETRY OldSymmetry
INVARIANTS
  RateBound
PROPERTIES
  RefreshAdds
