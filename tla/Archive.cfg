SPECIFICATION Spec
CONSTANTS
  Client = {c1, c2}
  NoClient = NoClient
  Content = {x1, x2}
  Purged = Purged
  Session = {s1}
  Id = {1, 2, 3}
  MaxWrites = 5
  MaxRequests = 2
  MaxTime = 1
SYMMETRY Symmetry
INVARIANTS
  TypeOK
  ContentIsDue
  ListsArePages
PROPERTY EvidenceStaysListed
CHECK_DEADLOCK FALSE
