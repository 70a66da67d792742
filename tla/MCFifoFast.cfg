SPECIFICATION Spec
CONSTANTS
  Cell = {c1, c2, c3, c4}
  NULL = NULL
  Value = {v1, v2}
  MaxSize = 3
  CashSize = 2
INVARIANTS
  EachCellInOnePlace
  CashExact
  TypeOK
  NothingLeaks
PROPERTY IsBoundedFifo
CHECK_DEADLOCK FALSE
