SPECIFICATION Spec
CONSTANTS
  Messages = {"m1", "m2", "m3"}
  Settings <- MCSettings
  MaxStreams = 2
INVARIANTS
  FramingInv
PROPERTIES
  ImplementsChannel
