SPECIFICATION FairSpec
CONSTANTS
  Workers = {w1, w2}
  ThreadsPerWorker = 1
  Keys = {k1}
  MaxRuns = 1
  DbOutcomes = {"ok"}
  MayCrash = TRUE
  NULL = NULL
PROPERTIES
  InterruptedSurfaced
CHECK_DEADLOCK FALSE
