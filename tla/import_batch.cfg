SPECIFICATION Spec
CONSTANTS
  Workers = {w1, w2}
  ThreadsPerWorker = 1
  c1 = c1
  c2 = c2
  u1 = u1
  u2 = u2
  n1 = n1
  n2 = n2
  Companies = {c1, c2}
  Identities <- MCIdentities
  Uploads <- MCUploads
  MaxBatches = 2
  DbOutcomes = {"ok", "error", "lost"}
  MayCrash = TRUE
  NULL = NULL
SYMMETRY WorkerSymmetry
INVARIANTS
  TypeOK
  CountedExactly
  GroupsLandOrCollide
PROPERTIES
  CompletedIsFrozen
  RevivedOnlyAfterRecovery
CHECK_DEADLOCK FALSE
