SPECIFICATION FairSpec
CONSTANTS
  PeerOf <- MCPeerOf
  NoPeer = NoPeer
  Foreign = {}
  Streams = {s1, s2}
  MaxConnections = 1
  MaxFailures = 3
INVARIANTS
  OneTask
  ListenerServed
  WasConnectedSound
PROPERTIES
  SessionsEnd
  PortRecovers
