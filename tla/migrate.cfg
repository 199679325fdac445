SPECIFICATION Spec
CONSTANTS
  Runners = {r1, r2}
  Mishaps = 1
  MaxOps = 4
SYMMETRY Symmetry
INVARIANTS
  TypeOK
  TrackerSpeaksForSchema
  ReappliedForCause
CHECK_DEADLOCK FALSE
