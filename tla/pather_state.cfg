SPECIFICATION Spec
CONSTANTS
  Cell <- MCCell
  Distance <- MCDistance
  INFINITY = 9
  MAX_VERSION = 3
INVARIANT VersionsPast
PROPERTY ClearForgets
