SPECIFICATION Spec
CONSTANTS
  g1 = g1
  g2 = g2
  g3 = g3
  k1 = k1
  None = None
  Get = {g1, g2, g3}
  Click = {k1}
  Catalogue <- MCCatalogue
  Versions = 2
  Rates = {1, 2}
CHECK_DEADLOCK FALSE
INVARIANTS
  TypeOK
  VisitIsItsOwn
  OnlyRacesMiscount
PROPERTY
  ShopSettles
