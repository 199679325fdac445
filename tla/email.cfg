SPECIFICATION FairSpec
CONSTANTS
  Rows <- MCRows
  Resends = {r1, r2}
  DbOutcomes = {"ok", "error", "lost"}
  SmtpOutcomes = {"accepted", "refused", "lost"}
  MayCrash = TRUE
  NULL = NULL
INVARIANTS
  TypeOK
  QuietLoopTellsAll
PROPERTIES
  ContractSpec
  LoopEnds
CHECK_DEADLOCK FALSE
