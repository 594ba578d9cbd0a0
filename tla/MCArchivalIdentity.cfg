CONSTANTS
  Stores = {s1, s2}
  Keys = {k1, k2}
  Requests = {r1, r2}
  Ids = {a1, a2}
  NoId = NoId
  MaxPacks = 2
SPECIFICATION Spec
INVARIANTS OneIdentity
PROPERTIES NothingIsForgotten
SYMMETRY Symmetry
