SPECIFICATION Spec
CONSTANTS
  NoClient = NoClient
  Client = {c1}
  Request = {r1, r2}
  Key = {}
  Evidence = {}
  UseId = {u1}
  TS5Verdicts = {TRUE}
CONSTANT Target <- AllTargets
PROPERTY ActivationIsGated
