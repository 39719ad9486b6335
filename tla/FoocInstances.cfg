CONSTANTS
  NumMps = 4
  MaxCcflib = 3
  MaxRepeat = 1
SPECIFICATION Spec
INVARIANTS ChildrenExact OneCcflibReplaced
PROPERTY InstantiatesOnce
