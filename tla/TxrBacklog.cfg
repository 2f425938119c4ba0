SPECIFICATION Spec
CONSTANTS
  QueueLen = 10
  MaxInputs = 3
INVARIANTS
  QueueSuffices
