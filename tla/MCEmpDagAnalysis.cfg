CONSTANTS
  NumMps = 3
  MaxArcs = 3
  MaxForeign = 1
  JunkLevels = {0, 2}
  Builds = {"release", "debug"}
  Dags <- MCDags
SPECIFICATION Spec
INVARIANTS TypeOK TraversalSound TreesExact AdversariesInOrder LevelsAgree RolesExact
PROPERTY VerdictExact
