CONSTANTS
  Cap = 2
  MaxSend = 6
SPECIFICATION Spec
INVARIANT ElementsArriveOrdered
