SPECIFICATION Spec
CONSTANTS
  Items = 5
  Heights = {0, 6, 9, 16}
  Widths = {10, 80}
  MaxRows = 4
  Rows <- MCRows
INVARIANT TypeOK
INVARIANT MarkIsSelection
PROPERTY MoveSkipsNothing
PROPERTY SelectionIsStable
CHECK_DEADLOCK FALSE
