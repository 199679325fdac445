SPECIFICATION Spec
CONSTANTS
  Sheets <- MCSheets
  MaxRows = 3
  Databases <- MCDatabases
  ValidCurrencies = {"EGP", "USD", "greek"}
  SortKey <- MCSortKey
  Unstorable <- MCUnstorable
  MaxMoney = 3700
  MaxQuantity = 4000000
  BLANK = BLANK
  GARBAGE = GARBAGE
  NONE = NONE
INVARIANTS
  TypeOK
  RowsAnswered
  LinesAddUp
  RefusedForCause
CHECK_DEADLOCK FALSE
