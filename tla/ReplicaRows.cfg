SPECIFICATION Spec
CONSTANTS
  Clients = {c1}
  Contents = {x, y}
  Heights = {1, 2}
  OpeningHeight = 1
  Attributes = {a}
  MaxRetained = 2
  MaxPending = 1
  MaxGeneration = 2
  MaxChanges = 2
  MaxFlight = 1
INVARIANTS LogIsOrdered RowsAreCurrent
CHECK_DEADLOCK FALSE
