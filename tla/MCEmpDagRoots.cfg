CONSTANTS
  MaxMps = 2
  MaxNashs = 1
  MaxVarcs = 1
  MaxInst = 1
  MaxArcs = 3
  MpTypes = {"opt", "undef"}
  Builds = {"release", "debug"}
SPECIFICATION RSpec
CONSTRAINT ArcBound
CHECK_DEADLOCK FALSE
INVARIANTS RTypeOK FinalizedExact RootsOfOneKindFound
