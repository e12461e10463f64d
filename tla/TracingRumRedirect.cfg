SPECIFICATION Spec
CONSTANTS
  Main = main
  Subs = {s1}
  MainLocs <- RumLocs
  SubLocs <- RumLocs
  SubPhases = {"auth"}
  MaxMoves = 2
  Waf = FALSE
  Throws = "never"
INVARIANT NoUndefined
