SPECIFICATION Spec
CONSTANTS
  Clients = {c1}
  Contents = {x, y}
  Heights = {1, 2}
  OpeningHeight = 2
  Attributes = {a}
  MaxRetained = 2
  MaxPending = 1
  MaxGeneration = 1
  MaxChanges = 2
  MaxFlight = 1
PROPERTIES LaggardsAreAnswered
CHECK_DEADLOCK FALSE
