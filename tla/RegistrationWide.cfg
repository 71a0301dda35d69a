SPECIFICATION Spec
CONSTANTS
  Client = {c1}
  Request = {r1, r2}
  RegistrarId = {}
  Blank = Blank
  MaxArrivals = 2
CONSTANT Body <- WideBodies
ACTION_CONSTRAINT FewFollow
SYMMETRY RequestSymmetry
INVARIANTS
  StoredIsValid
  StoredRoundTrips
  RowsProjectDocument
