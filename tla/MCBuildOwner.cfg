SPECIFICATION Spec
CONSTANTS
  r = r
  a = a
  b = b
  c = c
  d = d
  Elements = {r, a, b, c}
  Root = r
  None = None
  Keyed = {a}
  Trees <- MCTrees
  MaxMoves = 1
INVARIANTS ListIsSound LaidOutTreeIsBuilt
PROPERTIES ParentsFirst MarkedIsRebuilt
