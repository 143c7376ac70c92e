SPECIFICATION Spec
CONSTANTS
  MaxFaults = 4
  MaxPorts = 3
  NoSocket = NoSocket
INVARIANTS
  LivesInv
  SocketsReceive
PROPERTIES
  ImplementsPortLife
  DownJustified
  ComesBack
