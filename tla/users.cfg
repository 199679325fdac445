SPECIFICATION Spec
CONSTANTS
  u1 = u1
  u2 = u2
  u3 = u3
  Users = {u1, u2, u3}
  Companies = {"c1", "c2"}
  Requests = {p1, p2, p3}
  Changes <- MCChanges
  Scopes = {"c1", NULL}
  InitRows <- MCInitRows
  DbOutcomes = {"ok", "error", "lost"}
  KEEP = KEEP
  NULL = NULL
SYMMETRY Symmetry
INVARIANTS
  TypeOK
  SomeActiveAdmin
  CompanyKeepsAdmin
  RowsAsAsked
  AnswersTrue
CHECK_DEADLOCK FALSE
