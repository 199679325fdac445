SPECIFICATION Spec
CONSTANTS
  NULL = NULL
  u1 = u1
  u2 = u2
  bad = bad
  n1 = n1
  n2 = n2
  own = own
  other = other
  Malformed = bad
  Uuids <- MCUuids
  Numbers <- MCNumbers
  Spellings <- MCSpellings
  Tolerances <- MCTolerances
  Bodies <- MCBodies
  TaxBodies <- MCTaxBodies
  Datasets <- MCDatasets
  Sizes = {1, 2}
INVARIANTS
  MalformedNeverMatched
CHECK_DEADLOCK FALSE
