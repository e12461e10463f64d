SPECIFICATION Spec
CONSTANTS
  Main = main
  Subs = {s1, s2}
  MainLocs <- TracedLocs
  SubLocs <- MixedLocs
  SubPhases = {"auth"}
  MaxMoves = 2
  Waf = TRUE
  Throws = "alone"
SYMMETRY SubSymmetry
INVARIANTS
  TypeOK
  
  HandlersServe
  
  ExaminedOnce
