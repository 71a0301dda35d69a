SPECIFICATION RetriedSpec
CONSTANTS
  NoClient = NoClient
  Client = {c1}
  Request = {r1, r2}
  Key = {k1}
  Evidence = {}
  UseId = {u1}
  TS5Verdicts = {TRUE}
CONSTANT Target <- AllTargets
INVARIANTS
  TypeOK
  CheckedIsStillTrue
  OffboardOkMeansPurged
  RetryNeverConflicts
PROPERTIES
  AuditIsAWalk
  ImplementsLifecycle
  OffboardingConverges
