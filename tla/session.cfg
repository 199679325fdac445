SPECIFICATION Spec
CONSTANTS
  Calls = {"c1", "c2", "c3"}
  Kinds <- MCKinds
  Mishaps = 2
  MaxIssued = 4
  NULL = NULL
INVARIANTS
  TypeOK
  StorageIsOneSession
PROPERTIES
  LogoutIsFinal
  EndedForCause
