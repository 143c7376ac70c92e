SPECIFICATION FairSpec
CONSTANTS
  c1 = c1
  c2 = c2
  auth = auth
  other = other
  plain = plain
  Settings <- MCSettings
  None = None
  LocalSession = LocalSession
INVARIANTS
  SessionsInv
  FlagsAgree
  TwoUndoEachOther
PROPERTIES
  EveryConnection
CHECK_DEADLOCK FALSE
