CONSTANTS
  Vals = {0, 1, 2, 5, 6, 9, 13}
  RmPresent = TRUE
SPECIFICATION SSpec
INVARIANT SortedAlways
 
