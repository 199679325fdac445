SPECIFICATION FairSpec
CONSTANTS
  Workers = {w1, w2}
  ThreadsPerWorker = 1
  Keys = {k1}
  MaxRuns = 3
  DbOutcomes = {"ok", "error", "lost"}
  MayCrash = TRUE
  NULL = NULL
INVARIANTS
  TypeOK
  ResultsWithCompletion
  DuplicateOnlyAfterRecovery
  NotifiedStandsCompleted
PROPERTIES
  ContractSpec
  BootsSettleRuns
CHECK_DEADLOCK FALSE
