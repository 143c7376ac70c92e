SPECIFICATION Spec
CONSTANTS
  Clients = {c1}
  Streams = {s1}
  PeerOf <- MCPeerOf
  NoPeer = NoPeer
  None = None
  UseUdp = TRUE
  Pings = TRUE
  Faults = FALSE
INVARIANTS NoUnwrapPanic
