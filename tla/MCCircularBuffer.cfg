SPECIFICATION Spec
CONSTANTS
  Capacity = 3
  Datagram = {d1, d2, d3}
  Null = Null
INVARIANTS
  RingWhole
PROPERTIES
  ImplementsFifo
CHECK_DEADLOCK FALSE
