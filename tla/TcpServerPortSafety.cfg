SPECIFICATION Spec
CONSTANTS
  PeerOf <- MCPeerOf
  NoPeer = NoPeer
  Foreign = {f1}
  Streams = {s1, s2, s3}
  MaxConnections = 2
  MaxFailures = 2
SYMMETRY Symmetry
INVARIANTS TypeOK PermitsOwned PeerIndexed
PROPERTIES OnlyBrokenOrAnonymousDropped DropClearsIndex
