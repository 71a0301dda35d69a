SPECIFICATION Spec
CONSTANTS
  Request = {r1, r2}
  Prefix = {p1}
  MaxBase = 2
  SuffixSpan = 3
  MaxArrivals = 3
CONSTANTS
  Alphanumeric <- Small
  Lower <- ToLower
  Fallback <- Client
  Name <- Names
ACTION_CONSTRAINT FewFollow
SYMMETRY RequestSymmetry
INVARIANTS
  TypeOK
  OnlyFaultsOrphanClients
  OnlyFaultsLoseKeys
  ShownKeysWork
  SlugsAreHandles
