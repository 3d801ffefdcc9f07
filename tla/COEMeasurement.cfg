SPECIFICATION Spec
CONSTANTS
  Descriptions <- MCDescriptions
  Lines = 2
  Pseudonyms = {2}
  Heap = {0, 7}
INVARIANT COEIsMeasured
CHECK_DEADLOCK FALSE
