CONSTANTS
  Key <- Keys
  Upper <- UpperOf
  Sum <- SumOf
  Value = {v1, v2}
  NULL = NULL
  size = 3
  MaxCount = 4
SPECIFICATION Spec
INVARIANTS TypeOK CountsEntries
PROPERTIES ImplementsBindings
CHECK_DEADLOCK FALSE
