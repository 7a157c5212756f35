\* The class with its control operations: set_capacity, close and clear at any time.
CONSTANTS
  p1 = p1
  p2 = p2
  Producers <- MCProducers
  MaxCalls = 3
  Capacities <- MCCapacities
SPECIFICATION ControlSpec
INVARIANTS
  TypeOK
  NoLostWakeup
  InCallOrder
PROPERTIES
  ImplementsChannel
  QueueDrains
CHECK_DEADLOCK FALSE
