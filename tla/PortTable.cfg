SPECIFICATION Spec
CONSTANTS
  Ports = {p1, p2, p3, p4}
INVARIANTS
  NumberedOnce
PROPERTIES
  ImplementsRegistry
  OnlyAtGap
