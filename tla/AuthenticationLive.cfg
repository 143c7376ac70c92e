SPECIFICATION FairSpec
CONSTANTS
  Clients = {c1, c2}
  Streams = {s1, s2}
  PeerOf <- MCPeerOf
  NoPeer = NoPeer
  None = None
  UseUdp = TRUE
  Pings = TRUE
  Faults = FALSE
INVARIANTS
  NoPanicWithoutPings
  UdpFlagSound
PROPERTIES
  ConnectedAuthenticates
