SPECIFICATION Spec
CONSTANTS
  Nil = Nil
  Code = {"", "registry:not_found", "audit:invalid"}
INVARIANTS
  SuccessIsVouched
  CodesSurface
  AnswersComeFromData
CHECK_DEADLOCK FALSE
