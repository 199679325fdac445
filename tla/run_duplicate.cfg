SPECIFICATION Spec
CONSTANTS
  Workers = {w1, w2}
  ThreadsPerWorker = 1
  Keys = {k1}
  MaxRuns = 2
  DbOutcomes = {"ok"}
  MayCrash = FALSE
  NULL = NULL
INVARIANTS
  OneInFlightPerKey
CHECK_DEADLOCK FALSE
