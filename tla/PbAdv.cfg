SPECIFICATION Spec
CONSTANTS
  MaxLinks = 2
  Busy = 0
  Cap = 4
INVARIANTS GivenIsStored InStep
PROPERTY Completes
CHECK_DEADLOCK FALSE
