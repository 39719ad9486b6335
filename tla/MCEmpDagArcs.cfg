CONSTANTS
  MaxMps = 4
  MaxNashs = 1
  MaxVarcs = 2
  MaxInst = 1
  MaxArcs = 2
  MpTypes = {"opt", "ccflib", "undef"}
  Builds = {"release", "debug"}
SPECIFICATION Spec
CONSTRAINTS ArcBound OneUndefined
CHECK_DEADLOCK FALSE
INVARIANTS TypeOK RarcsHaveArcs ArcsHaveRarcs
PROPERTIES FailedAddChangesNoArc SubstitutionCompletes
