CONSTANTS
  Thread = {t1, t2}
  N = 4
  Id <- MCId
  Forest <- MCForest
SPECIFICATION Spec
INVARIANTS RootsStand FindsRoot CopyLeadsToRoots
PROPERTY CallsReturn
