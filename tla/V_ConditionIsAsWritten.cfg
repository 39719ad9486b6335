SPECIFICATION Spec
CONSTANTS
  Programs <- MCPrograms
  SetElts <- MCSetElts
  Slots = 8
INVARIANT ConditionIsAsWritten
