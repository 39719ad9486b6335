CONSTANTS
  Vals = {1, 2, 3, 4, 5}
  MaxLen = 4
SPECIFICATION ESpec
INVARIANTS ETypeOK RoomForTheRest
PROPERTY MergeExact
