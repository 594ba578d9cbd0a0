CONSTANTS
  home = home
  away = away
  r = r
  q = q
  p1 = p1
  p2 = p2
  c1 = c1
  c2 = c2
  r1 = r1
  r2 = r2
  r3 = r3
  l1 = l1
  l2 = l2
  l3 = l3
  x1 = x1
  e1 = e1
  e2 = e2
  e3 = e3
  k1 = k1
  k2 = k2
  m1 = m1
  m2 = m2
  m3 = m3
  t1 = t1
  t2 = t2
  n1 = n1
  f1 = f1
  f2 = f2
  o = o
  None = None
  Home = home
  Away = away
  Stores = {home, away}
  FileStores = {away}
  Relationship = r
  Other = q
  Offers <- MCOffers
  MaxImports = 2
SPECIFICATION Spec
INVARIANTS MattersAreKept NarrativeIsGrounded
PROPERTIES SettledStaysSettled
CHECK_DEADLOCK FALSE
