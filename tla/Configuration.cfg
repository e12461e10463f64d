\* Every family of directives.  Reading a configuration ends, so the last
\* state has no successor.
CONSTANTS
  MaxDirectives = 3
  Families <- AllFamilies
  UINT32_MAX = 400
  ULONG_MAX = 1000
SPECIFICATION Spec
INVARIANTS
  RatesDecided
  Inherited
  
CHECK_DEADLOCK FALSE
