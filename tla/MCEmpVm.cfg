SPECIFICATION Spec
CONSTANTS
  Programs <- MCPrograms
  SetElts <- MCSetElts
  Slots = 8
INVARIANTS JumpsResolved MachineInOrder
PROPERTY MadeAsWritten
