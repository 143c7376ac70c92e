SPECIFICATION Spec
CONSTANTS
  Clients = {c1, c2}
  Streams = {s1, s2, s3}
  PeerOf <- MCPeerOf
  NoPeer = NoPeer
  None = None
  UseUdp = FALSE
  Pings = FALSE
  Faults = TRUE
SYMMETRY Symmetry
INVARIANTS AuthInv IdentityNotShared ServerKnowsClient
PROPERTIES ForgottenForGood
