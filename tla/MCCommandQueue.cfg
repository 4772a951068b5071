SPECIFICATION QueueSpec
CONSTANTS
  Command = {c1, c2, c3}
  Device = {d1, d2}
INVARIANTS HandedOnce
PROPERTIES NeverHandedLate CompletedIsFinal ImplementsDelivery
