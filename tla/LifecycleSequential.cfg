SPECIFICATION Spec
CONSTANTS
  NoClient = NoClient
  Client = {c1, c2}
  Request = {r1}
  Key = {k1}
  Evidence = {e1}
  UseId = {u1}
  TS5Verdicts = {TRUE, FALSE}
CONSTANT Target <- AllTargets
INVARIANTS
  AnsweredStateIsCurrent
PROPERTIES
  ImplementsGate
