SPECIFICATION Spec
CONSTANTS
  Client = {c1}
  Request = {r1, r2}
  Absent = Absent
  Unreadable = Unreadable
  MaxArrivals = 3
CONSTANT Webhook <- Webhooks
CONSTANT Origins <- OriginLists
CONSTANT Identity <- Identities
CONSTANT OtherChoices <- Choices
INVARIANTS
  TypeOK
  TrailTellsSettings
  DecisionsAreRecorded
  OtherChoicesSurvive
  AnswersAreOnTrail
  StoredIsWellFormed
PROPERTY ImplementsAuditedSettings
