SPECIFICATION Spec
CONSTANTS
  Client = {c1}
  Request = {r1}
  RegistrarId = {}
  Blank = Blank
  MaxArrivals = 1
CONSTANT Body <- WideBodies
INVARIANT AllClaimsExcludesClaims
