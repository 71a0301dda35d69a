SPECIFICATION Spec
CONSTANTS
  Client = {c1, c2}
  Request = {r1, r2}
  RegistrarId = {g1, g2, Blank}
  Blank = Blank
  MaxArrivals = 3
CONSTANT Body <- FewBodies
SYMMETRY Symmetry
INVARIANTS
  TypeOK
  OrderListsRows
  RowIdsUnique
  OnlyFaultsLoseAudits
PROPERTY SurvivorsStay
