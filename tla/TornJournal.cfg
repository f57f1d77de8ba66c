SPECIFICATION Spec
CONSTANTS
  MaxVersion = 2
  MaxFaults = 1
INVARIANT AlwaysRecoverable
