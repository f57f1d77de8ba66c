SPECIFICATION Spec
CONSTANTS
  Clients = {c1}
  Contents = {x, y}
  Heights = {1}
  OpeningHeight = 1
  Attributes = {a, b}
  MaxRetained = 2
  MaxPending = 2
  MaxGeneration = 1
  MaxChanges = 2
  MaxFlight = 1
INVARIANTS AttributesAreCurrent
CHECK_DEADLOCK FALSE
